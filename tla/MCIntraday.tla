----------------------------- MODULE MCIntraday -----------------------------
(* Intraday with two candidates of one sector and one of none, room for two *)
(* positions and one per sector, one scan and one kill switch at a time.   *)
EXTENDS Intraday, TLC

CONSTANTS a, b, c

MCSectorOf == [s \in Symbol |-> IF s = c THEN None ELSE "IT"]
MCMove == {-1, 0, 1, 2}
Symmetry == Permutations({a, b})
=============================================================================
