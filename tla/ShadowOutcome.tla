--------------------------- MODULE ShadowOutcome ----------------------------
(***************************************************************************)
(* What SHADOW_EXIT_RECOVERY.md promises of the exit of one SHADOW         *)
(* position: it has one outcome, the first one recorded, and the position  *)
(* is closed with exactly that outcome.  A failed ledger write or a manual *)
(* close disturbs the second half of the promise, never the first.         *)
(***************************************************************************)
CONSTANTS Pnl, None

VARIABLES outcome,   \* the recorded outcome, None before
          booked,    \* what the position was closed with, None while it is open
          disturbed

vars == <<outcome, booked, disturbed>>

Init == outcome = None /\ booked = None /\ disturbed = FALSE

Record ==
  /\ outcome = None /\ outcome' \in Pnl
  /\ UNCHANGED <<booked, disturbed>>

Book ==
  /\ booked = None /\ outcome # None
  /\ booked' = outcome
  /\ UNCHANGED <<outcome, disturbed>>

\* From the disturbance on only the outcome is final.
Disturb ==
  /\ disturbed' = TRUE
  /\ outcome' \in Pnl \cup {None} /\ (outcome # None => outcome' = outcome)
  /\ booked' \in Pnl \cup {None}

Next == Record \/ Book \/ Disturb

Spec == Init /\ [][Next]_vars
=============================================================================
