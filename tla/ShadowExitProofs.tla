-------------------------- MODULE ShadowExitProofs --------------------------
(***************************************************************************)
(* The safety of the SHADOW exit, for any number of overlapping            *)
(* invocations and any set of outcomes, and its refinement of              *)
(* ShadowOutcome.  The inductive invariant IInv says what an invocation at *)
(* each stage knows of the ledger and of the telemetry, although both can  *)
(* change under it: an outcome, once recorded, and a batch, once written,  *)
(* stay, so what it learnt stays true until it acts on it.                 *)
(***************************************************************************)
EXTENDS ShadowExit, TLAPS

Exiting(k) == pc[k] \in {"telemetry", "close"}

\* What an invocation carries from stage to stage.
CarriedInv ==
  \A k \in Run :
    /\ pc[k] \in {"count", "finalize"} => ledger # None /\ pnl[k] = ledger
    /\ pc[k] \in {"record", "telemetry", "close"} => pnl[k] \in Pnl
    /\ Exiting(k) /\ evidence[k] => ledger = pnl[k]
    /\ pc[k] \in {"close", "finalize"} /\ evidence[k] => batches > 0

\* As long as recordOutcome reports no error, only the invocation that completed
\* the ledger writes telemetry, once, and closes with its own P&L.
LedgerInv ==
  ~ ledgerError =>
    /\ batches <= 1
    /\ ledger = None => batches = 0
    /\ \A k \in Run : Exiting(k) => ledger # None /\ pnl[k] = ledger
    /\ \A k \in Run : pc[k] = "telemetry" =>
         batches = 0 /\ \A j \in Run : Exiting(j) => j = k
    /\ status = "CLOSED" /\ ~ manual => booked = ledger

IInv == TypeOK /\ CarriedInv /\ LedgerInv /\ ValidIsWitnessed

-----------------------------------------------------------------------------
(* Each step preserves the invariant *)

LEMMA InitIInv == Init => IInv
<1> SUFFICES ASSUME Init PROVE IInv OBVIOUS
<1>1. TypeOK
  <2>1. batches \in 0 .. 2 BY DEF Init
  <2>2. booked \in IF status = "CLOSED" THEN Pnl ELSE {None} BY DEF Init
  <2> QED BY <2>1, <2>2, Zenon DEF Init, TypeOK, Stage
<1>2. CarriedInv BY DEF Init, CarriedInv, Exiting
<1>3. LedgerInv BY DEF Init, LedgerInv, Exiting
<1>4. ValidIsWitnessed BY DEF Init, ValidIsWitnessed
<1> QED BY <1>1, <1>2, <1>3, <1>4 DEF IInv

\* An invocation moves between stages in which it has nothing at stake.
LEMMA QuietStep ==
  ASSUME IInv, NEW k \in Run, NEW stage \in {"idle", "ledger", "evaluate", "orphans", "by hand"},
         pc' = [pc EXCEPT ![k] = stage],
         pnl' \in [Run -> Pnl \cup {None}],
         evidence' \in [Run -> BOOLEAN], retrying' \in [Run -> BOOLEAN],
         \A j \in Run \ {k} : pnl'[j] = pnl[j] /\ evidence'[j] = evidence[j],
         UNCHANGED <<position, ledger, batches, history>>
  PROVE  IInv'
<1> USE DEF position, history
<1>1. \A j \in Run : j # k => pc'[j] = pc[j] BY DEF IInv, TypeOK
<1>2. pc'[k] = stage BY DEF IInv, TypeOK
<1>3. TypeOK' BY DEF IInv, TypeOK, Stage
<1>4. CarriedInv' BY <1>1, <1>2 DEF IInv, CarriedInv, Exiting
<1>5. LedgerInv' BY <1>1, <1>2 DEF IInv, LedgerInv, Exiting
<1>6. ValidIsWitnessed' BY DEF IInv, ValidIsWitnessed
<1> QED BY <1>3, <1>4, <1>5, <1>6 DEF IInv

\* The end of an invocation, whatever it did to the position before.
LEMMA EndStep ==
  ASSUME IInv, NEW k \in Run, End(k),
         status' \in {"ACTIVE", "CLOSED"},
         booked' \in IF status' = "CLOSED" THEN Pnl ELSE {None},
         valid' \in BOOLEAN, manual' \in BOOLEAN,
         UNCHANGED <<ledger, batches, ledgerError>>,
         ValidIsWitnessed',
         ~ ledgerError /\ status' = "CLOSED" /\ ~ manual' => booked' = ledger
  PROVE  IInv'
<1>1. \A j \in Run : j # k => /\ pc'[j] = pc[j] /\ pnl'[j] = pnl[j]
                              /\ evidence'[j] = evidence[j]
  BY DEF IInv, TypeOK, End
<1>2. pc'[k] = "idle" BY DEF IInv, TypeOK, End
<1>3. TypeOK' BY DEF IInv, TypeOK, Stage, End
<1>4. CarriedInv' BY <1>1, <1>2 DEF IInv, CarriedInv, Exiting
<1>5. LedgerInv' BY <1>1, <1>2 DEF IInv, LedgerInv, Exiting
<1> QED BY <1>3, <1>4, <1>5 DEF IInv

\* A monitor's close books what the ledger holds, and stays valid only on evidence.
LEMMA CloseWithStep ==
  ASSUME IInv, NEW k \in Run, pc[k] \in {"close", "finalize"}, NEW eligible \in BOOLEAN,
         CloseWith(k, eligible), UNCHANGED <<ledger, batches, history>>
  PROVE  /\ status' = "CLOSED" /\ booked' \in Pnl /\ valid' \in BOOLEAN
         /\ ValidIsWitnessed'
         /\ ~ ledgerError => booked' = ledger
<1>1. pnl[k] \in Pnl BY DEF IInv, TypeOK, CarriedInv
<1>2. evidence[k] => ledger = pnl[k] /\ batches > 0 BY DEF IInv, CarriedInv, Exiting
<1>3. ~ ledgerError => ledger = pnl[k] BY DEF IInv, CarriedInv, LedgerInv, Exiting
<1>4. valid' = (valid /\ evidence[k] /\ eligible) BY DEF CloseWith
<1>5. valid \in BOOLEAN /\ evidence[k] \in BOOLEAN BY DEF IInv, TypeOK
<1>6. valid' => evidence[k] BY <1>4, <1>5
<1>7. ValidIsWitnessed' BY <1>2, <1>6 DEF ValidIsWitnessed, CloseWith
<1>8. valid' \in BOOLEAN BY <1>4, <1>5
<1> QED BY <1>1, <1>3, <1>7, <1>8 DEF CloseWith

LEMMA NotRecoveredStep ==
  ASSUME IInv, NEW k \in Run, NotRecovered(k),
         status' \in {"ACTIVE", "CLOSED"},
         booked' \in IF status' = "CLOSED" THEN Pnl ELSE {None},
         valid' \in BOOLEAN,
         UNCHANGED <<ledger, batches, history>>,
         ValidIsWitnessed',
         ~ ledgerError /\ status' = "CLOSED" /\ ~ manual' => booked' = ledger
  PROVE  IInv'
<1>1. CASE End(k) BY <1>1, EndStep DEF IInv, TypeOK, history
<1>2. CASE /\ pc' = [pc EXCEPT ![k] = "evaluate"]
           /\ pnl' = [pnl EXCEPT ![k] = None]
           /\ evidence' = [evidence EXCEPT ![k] = FALSE]
           /\ UNCHANGED retrying
  <2>1. \A j \in Run : j # k => /\ pc'[j] = pc[j] /\ pnl'[j] = pnl[j]
                                /\ evidence'[j] = evidence[j]
    BY <1>2 DEF IInv, TypeOK
  <2>2. pc'[k] = "evaluate" BY <1>2 DEF IInv, TypeOK
  <2>3. TypeOK' BY <1>2 DEF IInv, TypeOK, Stage, history
  <2>4. CarriedInv' BY <2>1, <2>2 DEF IInv, CarriedInv, Exiting
  <2>5. LedgerInv' BY <2>1, <2>2 DEF IInv, LedgerInv, Exiting, history
  <2> QED BY <2>3, <2>4, <2>5 DEF IInv
<1> QED BY <1>1, <1>2 DEF NotRecovered

\* The position as it was, for the steps that may leave it.
LEMMA PositionKept ==
  ASSUME IInv, UNCHANGED <<position, ledger, batches, history>>
  PROVE  /\ status' \in {"ACTIVE", "CLOSED"}
         /\ booked' \in IF status' = "CLOSED" THEN Pnl ELSE {None}
         /\ valid' \in BOOLEAN /\ manual' \in BOOLEAN
         /\ ValidIsWitnessed'
         /\ ~ ledgerError /\ status' = "CLOSED" /\ ~ manual' => booked' = ledger
BY DEF IInv, TypeOK, ValidIsWitnessed, LedgerInv, position, history

\* The ledger is completed, or an error is reported, and the exit goes on.
LEMMA RecordStep ==
  ASSUME IInv, NEW k \in Run, RecordOutcome(k) \/ RecordError(k)
  PROVE  IInv'
<1> USE DEF position, history, Go
<1>1. pc[k] = "record" /\ pc' = [pc EXCEPT ![k] = "telemetry"] /\ pnl' = pnl
      /\ batches' = batches /\ UNCHANGED <<status, booked, valid, manual, retrying>>
  BY DEF RecordOutcome, RecordError
<1>2. pnl[k] \in Pnl BY <1>1 DEF IInv, CarriedInv
<1>3. evidence' \in [Run -> BOOLEAN] /\ \A j \in Run : j # k => evidence'[j] = evidence[j]
  BY DEF RecordOutcome, RecordError, IInv, TypeOK
<1>4. ledger # None => ledger' = ledger BY DEF RecordOutcome, RecordError
<1>5. ledger' \in {ledger, pnl[k]} BY DEF RecordOutcome, RecordError
<1>6. \A j \in Run : j # k => pc'[j] = pc[j] BY <1>1 DEF IInv, TypeOK
<1>7. pc'[k] = "telemetry" BY <1>1 DEF IInv, TypeOK
<1>8. evidence'[k] => ledger' = pnl[k]
  BY DEF RecordOutcome, RecordError, IInv, TypeOK
<1>9. TypeOK'
  <2>1. ledgerError' \in BOOLEAN BY DEF RecordOutcome, RecordError, IInv, TypeOK
  <2>2. pc' \in [Run -> Stage] BY <1>1 DEF IInv, TypeOK, Stage
  <2> QED BY <1>1, <1>2, <1>3, <1>5, <2>1, <2>2 DEF IInv, TypeOK
<1>10. CarriedInv'
  <2>1. ASSUME NEW j \in Run, j # k
        PROVE  /\ pc'[j] \in {"count", "finalize"} => ledger' # None /\ pnl'[j] = ledger'
               /\ pc'[j] \in {"record", "telemetry", "close"} => pnl'[j] \in Pnl
               /\ Exiting(j)' /\ evidence'[j] => ledger' = pnl'[j]
               /\ pc'[j] \in {"close", "finalize"} /\ evidence'[j] => batches' > 0
    BY <1>1, <1>3, <1>4, <1>6, <2>1, NoneAssumption DEF IInv, CarriedInv, Exiting
  <2> QED BY <1>1, <1>2, <1>7, <1>8, <2>1 DEF CarriedInv, Exiting
<1>11. LedgerInv'
  <2>1. CASE RecordError(k) BY <2>1 DEF RecordError, LedgerInv
  <2>2. CASE RecordOutcome(k)
    <3>1. ledger = None /\ ledger' = pnl[k] /\ UNCHANGED ledgerError BY <2>2 DEF RecordOutcome
    <3> SUFFICES ASSUME ~ ledgerError PROVE LedgerInv' BY <3>1 DEF LedgerInv
    <3>2. batches = 0 /\ \A j \in Run : ~ Exiting(j) BY <3>1 DEF IInv, LedgerInv
    <3>3. \A j \in Run : Exiting(j)' => j = k BY <1>6, <3>2 DEF Exiting
    <3>4. ~ (status = "CLOSED" /\ ~ manual)
      BY <3>1, NoneAssumption DEF IInv, TypeOK, LedgerInv
    <3>5. batches' = 0 BY <1>1, <3>2
    <3>6. ledger' = pnl'[k] /\ ledger' # None BY <1>1, <1>2, <3>1, NoneAssumption
    <3>7. \A j \in Run : pc'[j] = "telemetry" => Exiting(j)' BY DEF Exiting
    <3> QED BY <1>1, <3>3, <3>4, <3>5, <3>6, <3>7 DEF LedgerInv
  <2> QED BY <2>1, <2>2
<1>12. ValidIsWitnessed'
  BY <1>1, <1>4, NoneAssumption DEF IInv, TypeOK, ValidIsWitnessed
<1> QED BY <1>9, <1>10, <1>11, <1>12 DEF IInv

\* One more batch of telemetry, or none.
LEMMA TelemetryStep ==
  ASSUME IInv, NEW k \in Run, InsertTelemetry(k)
  PROVE  IInv'
<1> USE DEF position, history, Go
<1>1. pc[k] = "telemetry" /\ pc' = [pc EXCEPT ![k] = "close"]
      /\ UNCHANGED <<status, booked, valid, ledger, pnl, retrying, ledgerError, manual>>
  BY DEF InsertTelemetry
<1>2. PICK written \in BOOLEAN, answered \in BOOLEAN :
        /\ batches' = IF written /\ batches < 2 THEN batches + 1 ELSE batches
        /\ evidence' = [evidence EXCEPT ![k] = @ /\ written /\ answered]
  BY DEF InsertTelemetry
<1>3. batches \in 0 .. 2 BY DEF IInv, TypeOK
<1>4. batches' \in 0 .. 2 /\ batches' >= batches /\ batches' <= batches + 1 BY <1>2, <1>3
<1>5. written => batches' > 0 BY <1>2, <1>3
<1>6. \A j \in Run : j # k => evidence'[j] = evidence[j] /\ pc'[j] = pc[j]
  BY <1>1, <1>2 DEF IInv, TypeOK
<1>7. pc'[k] = "close" BY <1>1 DEF IInv, TypeOK
<1>8. evidence'[k] = (evidence[k] /\ written /\ answered) BY <1>2 DEF IInv, TypeOK
<1>9. evidence[k] \in BOOLEAN BY DEF IInv, TypeOK
<1>10. evidence'[k] => evidence[k] /\ written BY <1>8, <1>9
<1>11. TypeOK'
  <2>1. evidence' \in [Run -> BOOLEAN] BY <1>2 DEF IInv, TypeOK
  <2>2. pc' \in [Run -> Stage] BY <1>1 DEF IInv, TypeOK, Stage
  <2> QED BY <1>1, <1>4, <2>1, <2>2 DEF IInv, TypeOK
<1>12. CarriedInv'
  <2>1. ASSUME NEW j \in Run, j # k
        PROVE  /\ pc'[j] \in {"count", "finalize"} => ledger' # None /\ pnl'[j] = ledger'
               /\ pc'[j] \in {"record", "telemetry", "close"} => pnl'[j] \in Pnl
               /\ Exiting(j)' /\ evidence'[j] => ledger' = pnl'[j]
               /\ pc'[j] \in {"close", "finalize"} /\ evidence'[j] => batches' > 0
    BY <1>1, <1>3, <1>4, <1>6, <2>1 DEF IInv, CarriedInv, Exiting
  <2>2. pnl[k] \in Pnl /\ (evidence[k] => ledger = pnl[k])
    BY <1>1 DEF IInv, CarriedInv, Exiting
  <2> QED BY <1>1, <1>5, <1>7, <1>10, <2>1, <2>2 DEF CarriedInv, Exiting
<1>13. LedgerInv'
  <2> SUFFICES ASSUME ~ ledgerError PROVE LedgerInv' BY <1>1 DEF LedgerInv
  <2>1. batches = 0 /\ ledger # None /\ pnl[k] = ledger
        /\ \A j \in Run : Exiting(j) => j = k
    BY <1>1 DEF IInv, LedgerInv, Exiting
  <2>2. batches' <= 1 BY <1>4, <2>1
  <2>3. \A j \in Run : Exiting(j)' => j = k BY <1>6, <2>1 DEF Exiting
  <2>4. \A j \in Run : pc'[j] # "telemetry" BY <1>7, <2>3 DEF Exiting
  <2>5. status = "CLOSED" /\ ~ manual => booked = ledger BY DEF IInv, LedgerInv
  <2> QED BY <1>1, <2>1, <2>2, <2>3, <2>4, <2>5 DEF LedgerInv
<1>14. ValidIsWitnessed' BY <1>1, <1>3, <1>4 DEF IInv, ValidIsWitnessed
<1> QED BY <1>11, <1>12, <1>13, <1>14 DEF IInv

\* IInv holds of every behaviour of the specification.
THEOREM Inductive == Spec => []IInv
<1>1. ASSUME IInv, [Next]_vars PROVE IInv'
  <2> USE <1>1
  <2>1. ASSUME NEW k \in Run, Start(k) \/ StartByHand(k) PROVE IInv'
    BY <2>1, QuietStep DEF IInv, TypeOK, Start, StartByHand, Go, memory
  <2>2. ASSUME NEW k \in Run, ReadOutcome(k) PROVE IInv'
    <3> USE DEF ReadOutcome, Go, position, history
    <3>1. \A j \in Run : j # k => pc'[j] = pc[j] /\ pnl'[j] = pnl[j]
      BY <2>2 DEF IInv, TypeOK
    <3>2. pc'[k] = "count" /\ pnl'[k] = ledger BY <2>2 DEF IInv, TypeOK
    <3>3. TypeOK' BY <2>2 DEF IInv, TypeOK, Stage
    <3>4. CarriedInv' BY <2>2, <3>1, <3>2 DEF IInv, CarriedInv, Exiting
    <3>5. LedgerInv' BY <2>2, <3>1, <3>2 DEF IInv, LedgerInv, Exiting
    <3>6. ValidIsWitnessed' BY <2>2 DEF IInv, ValidIsWitnessed
    <3> QED BY <3>3, <3>4, <3>5, <3>6 DEF IInv
  <2>3. ASSUME NEW k \in Run, ReadOpen(k) PROVE IInv'
    BY <2>3, NotRecoveredStep, PositionKept DEF ReadOpen
  <2>4. ASSUME NEW k \in Run, CountExits(k) PROVE IInv'
    <3> USE DEF CountExits, Go, position, history
    <3>1. PICK found \in BOOLEAN :
            (found => batches > 0) /\ evidence' = [evidence EXCEPT ![k] = found] BY <2>4
    <3>2. \A j \in Run : j # k => pc'[j] = pc[j] /\ evidence'[j] = evidence[j]
      BY <2>4, <3>1 DEF IInv, TypeOK
    <3>3. pc'[k] = "finalize" BY <2>4 DEF IInv, TypeOK
    <3>4. evidence'[k] = found BY <3>1 DEF IInv, TypeOK
    <3>5. evidence'[k] => batches > 0 BY <3>1, <3>4
    <3>6. evidence' \in [Run -> BOOLEAN] BY <3>1 DEF IInv, TypeOK
    <3>7. pc' \in [Run -> Stage] BY <2>4 DEF IInv, TypeOK, Stage
    <3>8. TypeOK' BY <2>4, <3>6, <3>7 DEF IInv, TypeOK
    <3>9. CarriedInv' BY <2>4, <3>2, <3>3, <3>5 DEF IInv, CarriedInv, Exiting
    <3>10. LedgerInv' BY <2>4, <3>2, <3>3 DEF IInv, LedgerInv, Exiting
    <3>11. ValidIsWitnessed' BY <2>4 DEF IInv, ValidIsWitnessed
    <3> QED BY <3>8, <3>9, <3>10, <3>11 DEF IInv
  <2>5. ASSUME NEW k \in Run, Finalize(k) PROVE IInv'
    <3>1. CloseWith(k, TRUE) /\ End(k) /\ pc[k] = "finalize"
          /\ UNCHANGED <<ledger, batches, history>> BY <2>5 DEF Finalize
    <3>2. manual' = manual /\ ledgerError' = ledgerError BY <3>1 DEF history
    <3>3. manual \in BOOLEAN BY DEF IInv, TypeOK
    <3> QED BY <3>1, <3>2, <3>3, CloseWithStep, EndStep
  <2>6. ASSUME NEW k \in Run, FinalizeNoRow(k) PROVE IInv'
    <3>1. CASE CloseWith(k, TRUE)
      BY <2>6, <3>1, CloseWithStep, NotRecoveredStep DEF FinalizeNoRow
    <3>2. CASE UNCHANGED position
      BY <2>6, <3>2, PositionKept, NotRecoveredStep DEF FinalizeNoRow
    <3> QED BY <2>6, <3>1, <3>2 DEF FinalizeNoRow
  <2>7. ASSUME NEW k \in Run, Evaluate(k) PROVE IInv'
    BY <2>7, QuietStep DEF IInv, TypeOK, Evaluate, Go, memory
  <2>8. ASSUME NEW k \in Run, Hold(k) \/ FlagOrphans(k) \/ Crash(k) PROVE IInv'
    <3>1. End(k) /\ UNCHANGED <<position, ledger, batches, history>>
      BY <2>8 DEF Hold, FlagOrphans, Crash
    <3>2. ledgerError' = ledgerError BY <3>1 DEF history
    <3> QED BY <3>1, <3>2, EndStep, PositionKept
  <2>9. ASSUME NEW k \in Run, Simulate(k) PROVE IInv'
    <3> USE DEF Simulate, Go, position, history
    <3>1. PICK p \in Pnl : pnl' = [pnl EXCEPT ![k] = p] BY <2>9
    <3>2. \A j \in Run : j # k => pc'[j] = pc[j] /\ pnl'[j] = pnl[j]
      BY <2>9, <3>1 DEF IInv, TypeOK
    <3>3. pc'[k] = "record" /\ pnl'[k] \in Pnl BY <2>9, <3>1 DEF IInv, TypeOK
    <3>4. TypeOK' BY <2>9, <3>1 DEF IInv, TypeOK, Stage
    <3>5. CarriedInv' BY <2>9, <3>2, <3>3 DEF IInv, CarriedInv, Exiting
    <3>6. LedgerInv' BY <2>9, <3>2, <3>3 DEF IInv, LedgerInv, Exiting
    <3>7. ValidIsWitnessed' BY <2>9 DEF IInv, ValidIsWitnessed
    <3> QED BY <3>4, <3>5, <3>6, <3>7 DEF IInv
  <2>10. ASSUME NEW k \in Run, RecordOutcome(k) \/ RecordError(k) PROVE IInv'
    BY <2>10, RecordStep
  <2>11. ASSUME NEW k \in Run, AlreadyCompleted(k) PROVE IInv'
    <3>1. retrying' \in [Run -> BOOLEAN] BY <2>11 DEF AlreadyCompleted, IInv, TypeOK
    <3> QED BY <2>11, <3>1, QuietStep DEF IInv, TypeOK, AlreadyCompleted, Go
  <2>12. ASSUME NEW k \in Run, InsertTelemetry(k) PROVE IInv'
    BY <2>12, TelemetryStep
  <2>13. ASSUME NEW k \in Run, Close(k) PROVE IInv'
    <3>1. pc[k] = "close" /\ End(k) /\ UNCHANGED <<ledger, batches, history>>
      BY <2>13 DEF Close
    <3>2. manual' = manual /\ ledgerError' = ledgerError BY <3>1 DEF history
    <3>3. manual \in BOOLEAN BY DEF IInv, TypeOK
    <3>4. ASSUME NEW eligible \in BOOLEAN, CloseWith(k, eligible) PROVE IInv'
      BY <3>1, <3>2, <3>3, <3>4, CloseWithStep, EndStep
    <3>5. CASE UNCHANGED position BY <3>1, <3>2, <3>5, EndStep, PositionKept
    <3> QED BY <2>13, <3>4, <3>5 DEF Close
  <2>14. ASSUME NEW k \in Run, CloseByHand(k) PROVE IInv'
    <3>1. End(k) /\ UNCHANGED <<ledger, batches>> BY <2>14 DEF CloseByHand
    <3>2. CASE /\ status' = "CLOSED" /\ booked' \in Pnl /\ manual' = TRUE
               /\ UNCHANGED <<valid, ledgerError>>
      <4>1. valid' \in BOOLEAN BY <3>2 DEF IInv, TypeOK
      <4>2. ValidIsWitnessed' BY <3>2 DEF ValidIsWitnessed
      <4> QED BY <3>1, <3>2, <4>1, <4>2, EndStep
    <3>3. CASE UNCHANGED <<position, history>>
      BY <3>1, <3>3, EndStep, PositionKept DEF history
    <3> QED BY <2>14, <3>2, <3>3 DEF CloseByHand
  <2>15. CASE UNCHANGED vars
    BY <2>15 DEF vars, IInv, TypeOK, CarriedInv, LedgerInv, ValidIsWitnessed, Exiting
  <2> QED BY <2>1, <2>2, <2>3, <2>4, <2>5, <2>6, <2>7, <2>8, <2>9, <2>10, <2>11, <2>12,
             <2>13, <2>14, <2>15 DEF Next, Step
<1> QED BY <1>1, InitIInv, PTL DEF Spec

-----------------------------------------------------------------------------
(* What follows from it *)

\* Type correctness: the position, its ledger row and its telemetry, and what each
\* invocation holds in memory.
THEOREM TypeCorrect == Spec => []TypeOK
BY Inductive, PTL DEF IInv

\* The exit telemetry of a position is written at most once, as long as
\* recordOutcome reports no error.
THEOREM OneExitBatchHolds == Spec => []OneExitBatch
<1>1. IInv => OneExitBatch BY DEF IInv, LedgerInv, OneExitBatch
<1> QED BY <1>1, Inductive, PTL

\* A valid closed position has its outcome in the ledger and its telemetry, whoever
\* closed it, the monitor that exited it or one that recovered it.
THEOREM ValidIsWitnessedHolds == Spec => []ValidIsWitnessed
BY Inductive, PTL DEF IInv

-----------------------------------------------------------------------------
(* The exit implements ShadowOutcome *)

\* A close by a monitor books the recorded outcome of an open position, unless the
\* promise has been disturbed.
LEMMA CloseBooks ==
  ASSUME IInv, NEW k \in Run, pc[k] \in {"close", "finalize"}, NEW eligible \in BOOLEAN,
         CloseWith(k, eligible), UNCHANGED <<ledger, batches, history>>
  PROVE  Outcome!Next
<1>1. booked = None /\ booked' \in Pnl BY CloseWithStep DEF IInv, TypeOK, CloseWith
<1>2. UNCHANGED <<ledger, ledgerError, manual>> BY DEF history
<1>3. ledger \in Pnl \cup {None} BY DEF IInv, TypeOK
<1>4. CASE ledgerError \/ manual
  BY <1>1, <1>2, <1>3, <1>4 DEF Outcome!Next, Outcome!Disturb
<1>5. CASE ~ (ledgerError \/ manual)
  <2>1. booked' = ledger BY <1>5, CloseWithStep
  <2> QED BY <1>1, <1>2, <2>1, NoneAssumption DEF Outcome!Next, Outcome!Book
<1> QED BY <1>4, <1>5

\* The first completed outcome is final, and without ledger error or manual close
\* the position is closed with it, once: monitors and their recovery, overlapping
\* and killed at will, implement ShadowOutcome.
THEOREM OutcomeRefined == Spec => OutcomeImplemented
<1>1. Init => Outcome!Init BY DEF Init, Outcome!Init
<1>2. ASSUME IInv, IInv', [Next]_vars PROVE [Outcome!Next]_Outcome!vars
  <2> USE <1>2
  <2>1. ASSUME NEW k \in Run, RecordOutcome(k) PROVE Outcome!Next
    <3>1. pnl[k] \in Pnl BY <2>1 DEF RecordOutcome, Go, IInv, CarriedInv
    <3> QED BY <2>1, <3>1 DEF RecordOutcome, position, history, Outcome!Next, Outcome!Record
  <2>2. ASSUME NEW k \in Run, RecordError(k) PROVE Outcome!Next
    <3>1. ledger' \in Pnl \cup {None} /\ booked' \in Pnl \cup {None}
      BY DEF IInv, TypeOK
    <3>2. ledgerError' = TRUE /\ (ledger # None => ledger' = ledger)
      BY <2>2 DEF RecordError
    <3> QED BY <3>1, <3>2 DEF Outcome!Next, Outcome!Disturb
  <2>3. ASSUME NEW k \in Run, Finalize(k) PROVE Outcome!Next
    BY <2>3, CloseBooks DEF Finalize
  <2>4. ASSUME NEW k \in Run, FinalizeNoRow(k) PROVE [Outcome!Next]_Outcome!vars
    <3>1. CASE CloseWith(k, TRUE) BY <2>4, <3>1, CloseBooks DEF FinalizeNoRow
    <3>2. CASE UNCHANGED position
      BY <2>4, <3>2 DEF FinalizeNoRow, position, history, Outcome!vars
    <3> QED BY <2>4, <3>1, <3>2 DEF FinalizeNoRow
  <2>5. ASSUME NEW k \in Run, Close(k) PROVE [Outcome!Next]_Outcome!vars
    <3>1. ASSUME NEW eligible \in BOOLEAN, CloseWith(k, eligible) PROVE Outcome!Next
      BY <2>5, <3>1, CloseBooks DEF Close
    <3>2. CASE UNCHANGED position
      BY <2>5, <3>2 DEF Close, position, history, Outcome!vars
    <3> QED BY <2>5, <3>1, <3>2 DEF Close
  <2>6. ASSUME NEW k \in Run, CloseByHand(k) PROVE [Outcome!Next]_Outcome!vars
    <3>1. ledger' = ledger /\ ledger \in Pnl \cup {None} BY <2>6 DEF CloseByHand, IInv, TypeOK
    <3>2. CASE booked' \in Pnl /\ manual' = TRUE
      BY <3>1, <3>2 DEF Outcome!Next, Outcome!Disturb
    <3>3. CASE UNCHANGED <<position, history>>
      BY <3>1, <3>3 DEF position, history, Outcome!vars
    <3> QED BY <2>6, <3>2, <3>3 DEF CloseByHand
  <2>7. ASSUME NEW k \in Run,
               Start(k) \/ StartByHand(k) \/ ReadOutcome(k) \/ ReadOpen(k) \/ CountExits(k)
                 \/ Evaluate(k) \/ Hold(k) \/ FlagOrphans(k) \/ Simulate(k)
                 \/ AlreadyCompleted(k) \/ InsertTelemetry(k) \/ Crash(k)
        PROVE  UNCHANGED Outcome!vars
    <3>1. UNCHANGED <<position, ledger, history>>
      BY <2>7 DEF Start, StartByHand, ReadOutcome, ReadOpen, CountExits, Evaluate, Hold,
        FlagOrphans, Simulate, AlreadyCompleted, InsertTelemetry, Crash
    <3> QED BY <3>1 DEF position, history, Outcome!vars
  <2>8. CASE UNCHANGED vars BY <2>8 DEF vars, Outcome!vars
  <2> QED BY <2>1, <2>2, <2>3, <2>4, <2>5, <2>6, <2>7, <2>8 DEF Next, Step
<1> QED BY <1>1, <1>2, Inductive, PTL DEF Spec, OutcomeImplemented, Outcome!Spec
=============================================================================
