---------------------------- MODULE MCAutoEntry -----------------------------
(* Two mirrored spreads: what the one buys the other sells, so that what one *)
(* scan left at the broker can make up for what another position lost.  Two  *)
(* scans overlap at will; a last one comes after them and is followed up to  *)
(* its first order.                                                          *)
EXTENDS AutoEntry, TLC

CONSTANTS bull, bear, p90, p100, last

SpreadPlan ==
  (bull :> (p100 :> -1 @@ p90 :> 1)) @@ (bear :> (p100 :> 1 @@ p90 :> -1))
SpreadShape == (bull :> "bull put spread" @@ bear :> "bear put spread")
ScanSymmetry ==
  Permutations(Scan \ {last}) \cup {bull :> bear @@ bear :> bull @@ p90 :> p100 @@ p100 :> p90}

\* The last scan begins when the others have ended and nothing works at the
\* broker; its reads succeed; it is followed up to its first order.
InOrder ==
  /\ pc[last] = "idle" /\ pc'[last] # "idle" =>
       ~ Working /\ \A s \in Scan \ {last} : pc[s] \in Stopped
  /\ ~ lost'[last]
  /\ pc'[last] \notin {"done", "record", "crashed"}
  /\ order'[last] = order[last]

\* What a scan remembered is not told apart once it has ended.
Remembered(f, nothing) == [s \in Scan |-> IF pc[s] \in Stopped THEN nothing ELSE f[s]]
View ==
  <<[s \in Scan |-> IF pc[s] \in Stopped THEN "done" ELSE pc[s]], trade, records, order,
    Remembered(duplicate, FALSE), Remembered(seen, NothingSeen), Remembered(outcome, "none"),
    Remembered(ended, {}), Remembered(calm, FALSE), Remembered(lost, FALSE)>>
=============================================================================
