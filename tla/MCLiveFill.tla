----------------------------- MODULE MCLiveFill -----------------------------
(* An iron condor, in the order ironCondor.ts builds it (each short before   *)
(* its wing), two units per leg so that an order can be filled in part.      *)
EXTENDS LiveFill

CondorSide   == <<"SELL", "BUY", "SELL", "BUY">>
CondorRight  == <<"PE", "PE", "CE", "CE">>
CondorStrike == <<2, 1, 3, 4>>
=============================================================================
