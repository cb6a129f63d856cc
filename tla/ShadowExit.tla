----------------------------- MODULE ShadowExit -----------------------------
(***************************************************************************)
(* The exit of one SHADOW position that has a forward-validation ledger    *)
(* row (src/api/options-autotrade.ts, forwardLedger.ts,                    *)
(* shadowConsistency.ts).  The monitor's SHADOW branch simulates an exit,  *)
(* records its outcome in the ledger, writes one batch of EXIT telemetry   *)
(* and closes the position: three rows, no transaction.  Monitors overlap, *)
(* every database call can fail, and an invocation can be killed between   *)
(* any two steps; the next one recovers from what it finds.                *)
(*                                                                         *)
(* A Run is a slot for one invocation at a time and is used again when it  *)
(* ends.  Prices are reduced to the P&L a simulated exit comes to.         *)
(***************************************************************************)
EXTENDS Naturals

CONSTANTS Run,   \* invocations running at one time
          Pnl,   \* what a simulated exit may come to
          None

ASSUME NoneAssumption == None \notin Pnl

VARIABLES
  status,      \* of the position row
  booked,      \* its realized_pnl
  valid,       \* its valid_for_forward_validation
  ledger,      \* the outcome in the ledger row, None until it is completed
  batches,     \* EXIT telemetry batches of the ledger row: 0, 1, or 2 for more
  pc,
  pnl,         \* what the invocation simulated, or read from the ledger
  evidence,    \* what it is to close with was stored, or found, so far
  retrying,    \* it has lost the race for the ledger
  ledgerError, \* history: recordOutcome reported an error
  manual       \* history: the position was closed by hand

vars == <<status, booked, valid, ledger, batches, pc, pnl, evidence, retrying, ledgerError, manual>>
position == <<status, booked, valid>>
memory == <<pnl, evidence, retrying>>
history == <<ledgerError, manual>>

Stage == {"idle", "ledger", "count", "finalize", "evaluate", "orphans", "record",
          "telemetry", "close", "by hand"}

TypeOK ==
  /\ status \in {"ACTIVE", "CLOSED"}
  /\ booked \in IF status = "CLOSED" THEN Pnl ELSE {None}
  /\ valid \in BOOLEAN
  /\ ledger \in Pnl \cup {None}
  /\ batches \in 0 .. 2
  /\ pc \in [Run -> Stage]
  /\ pnl \in [Run -> Pnl \cup {None}]
  /\ evidence \in [Run -> BOOLEAN]
  /\ retrying \in [Run -> BOOLEAN]
  /\ ledgerError \in BOOLEAN /\ manual \in BOOLEAN

Init ==
  /\ status = "ACTIVE" /\ booked = None
  /\ valid \in BOOLEAN
  /\ ledger = None /\ batches = 0
  /\ pc = [k \in Run |-> "idle"]
  /\ pnl = [k \in Run |-> None]
  /\ evidence = [k \in Run |-> FALSE]
  /\ retrying = [k \in Run |-> FALSE]
  /\ ledgerError = FALSE /\ manual = FALSE

Go(k, from, to) == pc[k] = from /\ pc' = [pc EXCEPT ![k] = to]

\* The invocation is done with the position, and its memory goes with it.
End(k) ==
  /\ pc' = [pc EXCEPT ![k] = "idle"]
  /\ pnl' = [pnl EXCEPT ![k] = None]
  /\ evidence' = [evidence EXCEPT ![k] = FALSE]
  /\ retrying' = [retrying EXCEPT ![k] = FALSE]

-----------------------------------------------------------------------------
(* Recovery: before any quote is looked at, and again after a lost race. *)

Start(k) ==
  /\ status = "ACTIVE" /\ Go(k, "idle", "ledger")
  /\ UNCHANGED <<position, ledger, batches, memory, history>>

\* Mutant: no recovery before the exit is evaluated.
ReadNoOutcome(k) == FALSE /\ UNCHANGED <<vars, k>>

\* getOutcome finds the ledger completed: RECOVERABLE_INCONSISTENCY.
ReadOutcome(k) ==
  /\ ledger # None /\ Go(k, "ledger", "count")
  /\ pnl' = [pnl EXCEPT ![k] = ledger]
  /\ UNCHANGED <<position, ledger, batches, evidence, retrying, history>>

\* Nothing was recovered.  The monitor goes on to its quotes, unless it came
\* here from a lost race.
NotRecovered(k) ==
  \/ retrying[k] /\ End(k)
  \/ /\ ~ retrying[k] /\ pc' = [pc EXCEPT ![k] = "evaluate"]
     /\ pnl' = [pnl EXCEPT ![k] = None]
     /\ evidence' = [evidence EXCEPT ![k] = FALSE]
     /\ UNCHANGED retrying

\* The ledger is open, or could not be read.
ReadOpen(k) ==
  /\ pc[k] = "ledger" /\ NotRecovered(k)
  /\ UNCHANGED <<position, ledger, batches, history>>

\* Mutant: exit telemetry is taken for granted.
CountExitsUnread(k) ==
  /\ Go(k, "count", "finalize")
  /\ evidence' = [evidence EXCEPT ![k] = TRUE]
  /\ UNCHANGED <<position, ledger, batches, pnl, retrying, history>>

\* A count that fails is taken for zero.
CountExits(k) ==
  /\ Go(k, "count", "finalize")
  /\ \E found \in BOOLEAN :
       (found => batches > 0) /\ evidence' = [evidence EXCEPT ![k] = found]
  /\ UNCHANGED <<position, ledger, batches, pnl, retrying, history>>

\* The update WHERE status = 'ACTIVE'.  `valid` was read with the row and has not
\* changed since if the row still matches.
CloseWith(k, eligible) ==
  /\ status = "ACTIVE"
  /\ status' = "CLOSED" /\ booked' = pnl[k]
  /\ valid' = (valid /\ evidence[k] /\ eligible)

\* buildShadowRecoveryFinalizationPlan, applied.
Finalize(k) ==
  /\ pc[k] = "finalize" /\ CloseWith(k, TRUE) /\ End(k)
  /\ UNCHANGED <<ledger, batches, history>>

\* No row came back: another invocation closed it, or the update, or only its
\* answer, failed.
FinalizeNoRow(k) ==
  /\ pc[k] = "finalize" /\ NotRecovered(k)
  /\ CloseWith(k, TRUE) \/ UNCHANGED position
  /\ UNCHANGED <<ledger, batches, history>>

-----------------------------------------------------------------------------
(* The exit *)

\* evaluateExit says CLOSE.
Evaluate(k) ==
  /\ Go(k, "evaluate", "orphans")
  /\ UNCHANGED <<position, ledger, batches, memory, history>>

\* It says HOLD, a quote is missing or the exit cannot be simulated.
Hold(k) ==
  /\ pc[k] \in {"evaluate", "orphans"} /\ End(k)
  /\ UNCHANGED <<position, ledger, batches, history>>

\* hasOrphanedExitTelemetry; again a count that fails is taken for zero.
FlagOrphans(k) ==
  /\ pc[k] = "orphans" /\ batches > 0 /\ End(k)
  /\ UNCHANGED <<position, ledger, batches, history>>

Simulate(k) ==
  /\ Go(k, "orphans", "record")
  /\ \E p \in Pnl : pnl' = [pnl EXCEPT ![k] = p]
  /\ UNCHANGED <<position, ledger, batches, evidence, retrying, history>>

\* Mutant: the update is not conditioned on completed = false.
RecordOutcomeAgain(k) ==
  /\ Go(k, "record", "telemetry")
  /\ ledger' = pnl[k]
  /\ evidence' = [evidence EXCEPT ![k] = TRUE]
  /\ UNCHANGED <<position, batches, pnl, retrying, history>>

\* recordOutcome: the update WHERE completed = false.
RecordOutcome(k) ==
  /\ ledger = None /\ Go(k, "record", "telemetry")
  /\ ledger' = pnl[k]
  /\ evidence' = [evidence EXCEPT ![k] = TRUE]
  /\ UNCHANGED <<position, batches, pnl, retrying, history>>

\* Mutant: the loser writes its telemetry all the same.
AlreadyCompletedGoesOn(k) ==
  /\ ledger # None /\ Go(k, "record", "telemetry")
  /\ UNCHANGED <<position, ledger, batches, memory, history>>

AlreadyCompleted(k) ==
  /\ ledger # None /\ Go(k, "record", "ledger")
  /\ retrying' = [retrying EXCEPT ![k] = TRUE]
  /\ UNCHANGED <<position, ledger, batches, pnl, evidence, history>>

\* An error, of the update or of its answer, is noted and the exit goes on.
RecordError(k) ==
  /\ Go(k, "record", "telemetry")
  /\ ledger' \in {ledger, IF ledger = None THEN pnl[k] ELSE ledger}
  /\ evidence' = [evidence EXCEPT ![k] = FALSE]
  /\ ledgerError' = TRUE
  /\ UNCHANGED <<position, batches, pnl, retrying, manual>>

InsertTelemetry(k) ==
  /\ Go(k, "telemetry", "close")
  /\ \E written, answered \in BOOLEAN :
       /\ batches' = IF written /\ batches < 2 THEN batches + 1 ELSE batches
       /\ evidence' = [evidence EXCEPT ![k] = @ /\ written /\ answered]
  /\ UNCHANGED <<position, ledger, pnl, retrying, history>>

\* The rest of the eligibility (quotes, protocol timing) may go either way.
Close(k) ==
  /\ pc[k] = "close" /\ End(k)
  /\ (\E eligible \in BOOLEAN : CloseWith(k, eligible)) \/ UNCHANGED position
  /\ UNCHANGED <<ledger, batches, history>>

-----------------------------------------------------------------------------

\* handleManualClose, and handleManualCloseLeg for the last leg: no condition on
\* the status it overwrites, no look at the ledger.
StartByHand(k) ==
  /\ status = "ACTIVE" /\ Go(k, "idle", "by hand")
  /\ UNCHANGED <<position, ledger, batches, memory, history>>

CloseByHand(k) ==
  /\ pc[k] = "by hand" /\ End(k)
  /\ \/ /\ status' = "CLOSED" /\ booked' \in Pnl
        /\ manual' = TRUE
        /\ UNCHANGED <<valid, ledgerError>>
     \/ UNCHANGED <<position, history>>
  /\ UNCHANGED <<ledger, batches>>

\* The platform kills the invocation.
Crash(k) ==
  /\ pc[k] # "idle" /\ End(k)
  /\ UNCHANGED <<position, ledger, batches, history>>

Step(k) ==
  \/ ReadOutcome(k) \/ ReadOpen(k) \/ CountExits(k) \/ Finalize(k) \/ FinalizeNoRow(k)
  \/ Evaluate(k) \/ Hold(k) \/ FlagOrphans(k) \/ Simulate(k)
  \/ RecordOutcome(k) \/ AlreadyCompleted(k) \/ RecordError(k)
  \/ InsertTelemetry(k) \/ Close(k) \/ CloseByHand(k)

Next == \E k \in Run : Start(k) \/ StartByHand(k) \/ Step(k) \/ Crash(k)

Spec == Init /\ [][Next]_vars

\* Cron starts a monitor every minute, every invocation moves or is killed, and
\* no call fails each time it is made, nor is every invocation killed.
Fairness ==
  \A k \in Run :
    /\ WF_vars(Step(k)) /\ SF_vars(Start(k))
    /\ SF_vars(ReadOutcome(k)) /\ SF_vars(CountExits(k)) /\ SF_vars(Finalize(k))

FairSpec == Spec /\ Fairness

-----------------------------------------------------------------------------
(* Properties *)

\* "The first completed ledger outcome is authoritative": it never changes, and
\* without a ledger error or a manual close the position is closed once, with
\* that outcome, whoever closes it.
Outcome == INSTANCE ShadowOutcome WITH
  outcome <- ledger, disturbed <- (ledgerError \/ manual)
OutcomeImplemented == Outcome!Spec

\* "Never writes a second batch of exit telemetry", as long as the ledger
\* answers; batches left by a killed invocation included.
OneExitBatch == ~ ledgerError => batches <= 1

\* A position closed by a monitor and counted as valid has its outcome in the
\* ledger, with the P&L it was closed with, and its exit telemetry: through
\* recovery, ledger errors and races.
ValidIsWitnessed ==
  status = "CLOSED" /\ valid /\ ~ manual => ledger = booked /\ batches > 0

\* A completed ledger with an ACTIVE position is recovered in the end, even if
\* evaluateExit says HOLD ever after.
CrashRecovered == ledger # None /\ status = "ACTIVE" ~> status = "CLOSED"
=============================================================================
