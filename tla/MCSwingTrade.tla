---------------------------- MODULE MCSwingTrade ----------------------------
(* SwingTrade with two candidates, one slot and two requests of each kind. *)
EXTENDS SwingTrade, TLC

Symmetry == Permutations(Symbol) \cup Permutations(Tick) \cup Permutations(Exit)
=============================================================================
