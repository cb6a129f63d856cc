------------------------------ MODULE MCScalper ------------------------------
(* Two scans and two monitors over two symbols; a position wins or loses one. *)
EXTENDS Scalper
Symmetry == Permutations(Scanner) \cup Permutations(Monitor) \cup Permutations(Candle)
MCPnl == {-1, 1}
MCSymbol == {1, 2}
=============================================================================
