---------------------------- MODULE MCShadowExit ----------------------------
(* Two overlapping invocations, whose simulated exits may differ. *)
EXTENDS ShadowExit
=============================================================================
