--------------------------- MODULE MCPositionExit ---------------------------
(* One credit spread: a short and the long that protects it. *)
EXTENDS PositionExit, TLC

CONSTANTS short, long

SpreadHedge == short :> long
CloserSymmetry == Permutations(Closer)
=============================================================================
