---------------------------- MODULE AlphaProofs ----------------------------
(***************************************************************************)
(* The proofs about the two Alpha engines: the positions of the Alpha Edge *)
(* (EdgePosition), the worker and the market data connection of the Alpha  *)
(* Ladder (LadderSession on DepthSource), the option ladder itself         *)
(* (LadderExecution) and the signal it follows (LadderSignal).  Each has   *)
(* its own inductive invariant; sums are reasoned about with FoldLemmas.   *)
(***************************************************************************)
EXTENDS EdgePosition, LadderSession, LadderExecution, LadderSignal, FoldLemmas, TLAPS

-----------------------------------------------------------------------------
(* The Alpha Edge, for any number of overlapping calls and any bounds.     *)
(*                                                                         *)
(* The inductive invariant IInv has one part on the row and the broker,    *)
(* and one on what each call holds at its stage: the claim on the week,    *)
(* the reason of the exit, the legs it takes for closed.  The last is the  *)
(* core: a call's copy of the legs may be behind the rows or ahead of      *)
(* them, but every leg in it has been closed at the broker, and a closed   *)
(* leg stays closed.                                                       *)

Holding == {"manage", "claim"} \cup Exiting    \* a call that has read an open position
Unopened == {"NONE", "ENTERING", "FAILED"}

AllClosed(those) == \A l \in those : closes[l] > 0

RowInv ==
  /\ status \in {"NONE", "ENTERING", "ACTIVE", "EXITING"} => attempts < MaxAttempts
  /\ status \in {"NONE", "ENTERING", "ACTIVE"} => reason = "none"
  /\ status = "NONE" => entered = 0
  /\ EnteredOnce
  /\ mode = "AUTO" /\ reason # "EXPIRED" => AllClosed(exited)
  /\ closes[Wing] > 0 \/ stray[Wing] > 0 => closes[Short] > 0
  /\ ClosedIsFlat

\* A call and the claim on the week.
EntryOf(k) ==
  /\ pc[k] \in Entering => status = "ENTERING"
  /\ pc[k] = "execute" => entered = 0
  /\ pc[k] \in EntryResult => entered = 1
  /\ pc[k] \in Holding => status \notin Unopened

OneEntry == \A j, k \in Invocation : pc[j] \in Entering /\ pc[k] \in Entering => j = k

\* A call and the exit.
ExitOf(k) ==
  /\ seen[k].attempts < MaxAttempts
  /\ pc[k] = "manage" /\ seen[k].status = "ACTIVE" => seen[k].reason = "none"
  /\ pc[k] \in {"manage"} \cup Exiting /\ seen[k].reason = "EXPIRED" => reason = "EXPIRED"
  /\ pc[k] \in {"close", "await", "bump", "unknown"} => seen[k].reason # "EXPIRED"
  /\ pc[k] \in {"settle", "finalize"} => reason = "EXPIRED"
  /\ mode = "AUTO" /\ seen[k].reason # "EXPIRED" => AllClosed(seen[k].exited)

\* Closing orders exist in AUTO only, and each is watched by the call that sent it.
OrderOf(k) ==
  /\ order[k] # "none" => mode = "AUTO" /\ pc[k] \in {"await", "unknown"}
  /\ order[k] = "filled" => AllClosed(NextLeg(k))

Local(k) == EntryOf(k) /\ ExitOf(k) /\ OrderOf(k)

IInv == TypeOK /\ RowInv /\ OneEntry /\ \A k \in Invocation : Local(k)

-----------------------------------------------------------------------------
(* What a step has to show *)

LEMMA InitIInv == Init => IInv
<1> SUFFICES ASSUME Init PROVE IInv OBVIOUS
<1>1. TypeOK
  <2>1. NoPosition \in Position BY DEF NoPosition, Position, Status, Reason
  <2>2. seen \in [Invocation -> Position] BY <2>1 DEF Init
  <2>3. pc \in [Invocation -> Stage] /\ order \in [Invocation -> Order] BY DEF Init, Stage, Order
  <2>4. attempts \in 0 .. MaxAttempts BY EdgeAssumption DEF Init
  <2> QED BY <2>2, <2>3, <2>4 DEF Init, TypeOK, Status, Reason
<1>2. RowInv
  <2>1. \A l \in Leg : ~ (closes[l] > 0) /\ ~ (stray[l] > 0) BY DEF Init
  <2>2. Wing \in Leg BY DEF Leg
  <2>3. EnteredOnce BY DEF Init, EnteredOnce
  <2>4. ClosedIsFlat BY DEF Init, ClosedIsFlat
  <2>5. attempts < MaxAttempts BY EdgeAssumption DEF Init
  <2> QED BY <2>1, <2>2, <2>3, <2>4, <2>5 DEF Init, RowInv, AllClosed
<1>3. OneEntry BY DEF Init, OneEntry, Entering, EntryResult
<1>4. ASSUME NEW k \in Invocation PROVE Local(k)
  <2>1. EntryOf(k) BY DEF Init, EntryOf, Entering, EntryResult, Holding, Exiting
  <2>2. ExitOf(k) BY EdgeAssumption DEF Init, ExitOf, Exiting, NoPosition, AllClosed
  <2>3. OrderOf(k) BY DEF Init, OrderOf
  <2> QED BY <2>1, <2>2, <2>3 DEF Local
<1> QED BY <1>1, <1>2, <1>3, <1>4 DEF IInv

\* The other calls keep what they hold, if what the step changes only grows: the row
\* never goes back to an unopened status, EXPIRED stays, closed legs stay closed.
LEMMA OthersKeep ==
  ASSUME IInv, NEW k \in Invocation,
         \A j \in Invocation \ {k} : pc'[j] = pc[j] /\ seen'[j] = seen[j] /\ order'[j] = order[j],
         mode' = mode,
         \A l \in Leg : closes[l] > 0 => closes'[l] > 0,
         reason = "EXPIRED" => reason' = "EXPIRED",
         status \notin Unopened => status' \notin Unopened,
         \/ pc[k] \in Entering
         \/ entered' = entered /\ (status = "ENTERING" => status' = "ENTERING"),
         NEW j \in Invocation \ {k}
  PROVE  Local(j)'
<1>1. Local(j) /\ seen[j] \in Position BY DEF IInv, TypeOK
<1>2. EntryOf(j)'
  <2>1. pc[k] \in Entering => pc[j] \notin Entering BY DEF IInv, OneEntry
  <2> QED BY <1>1, <2>1 DEF Local, EntryOf, Entering
<1>3. \A those \in SUBSET Leg : AllClosed(those) => AllClosed(those)' BY DEF AllClosed
<1>4. ExitOf(j)'
  <2>1. seen[j].exited \in SUBSET Leg BY <1>1 DEF Position
  <2> QED BY <1>1, <1>3, <2>1 DEF Local, ExitOf
<1>5. OrderOf(j)'
  <2>1. NextLeg(j)' = NextLeg(j) BY DEF NextLeg
  <2>2. NextLeg(j) \in SUBSET Leg BY DEF NextLeg, Leg
  <2>3. AllClosed(NextLeg(j)) => AllClosed(NextLeg(j))' BY <2>1, <2>2 DEF AllClosed
  <2> QED BY <1>1, <2>3 DEF Local, OrderOf
<1> QED BY <1>2, <1>4, <1>5 DEF Local

LEMMA Preserved ==
  ASSUME IInv, NEW k \in Invocation,
         \A j \in Invocation \ {k} : pc'[j] = pc[j] /\ seen'[j] = seen[j] /\ order'[j] = order[j],
         mode' = mode,
         \A l \in Leg : closes[l] > 0 => closes'[l] > 0,
         reason = "EXPIRED" => reason' = "EXPIRED",
         status \notin Unopened => status' \notin Unopened,
         \/ pc[k] \in Entering
         \/ entered' = entered /\ (status = "ENTERING" => status' = "ENTERING"),
         pc'[k] \in Entering => pc[k] \in Entering \/ status = "NONE",
         TypeOK', RowInv', Local(k)'
  PROVE  IInv'
<1>1. \A j \in Invocation : Local(j)' BY OthersKeep
<1>2. OneEntry'
  <2>1. status = "NONE" => \A j \in Invocation : pc[j] \notin Entering BY DEF IInv, Local, EntryOf
  <2> QED BY <2>1 DEF IInv, OneEntry
<1> QED BY <1>1, <1>2 DEF IInv

-----------------------------------------------------------------------------
(* Steps that leave the row and the broker alone *)

LEMMA QuietStep ==
  ASSUME IInv, NEW k \in Invocation, NEW to \in Stage, NEW p \in Position,
         pc' = [pc EXCEPT ![k] = to], seen' = [seen EXCEPT ![k] = p],
         UNCHANGED <<world, row, broker, order>>, mishap' \in BOOLEAN,
         to \in Entering => pc[k] \in Entering,
         EntryOf(k)', ExitOf(k)', order[k] = "none" \/ to \in {"await", "unknown"},
         order[k] = "filled" => p.exited = seen[k].exited
  PROVE  IInv'
<1> USE DEF world, row, broker
<1>1. pc'[k] = to /\ seen'[k] = p BY DEF IInv, TypeOK
<1>2. \A j \in Invocation \ {k} : pc'[j] = pc[j] /\ seen'[j] = seen[j] BY DEF IInv, TypeOK
<1>3. TypeOK' BY DEF IInv, TypeOK
<1>4. RowInv' BY DEF IInv, RowInv, EnteredOnce, ClosedIsFlat, AllClosed
<1>5. OrderOf(k)' BY <1>1 DEF IInv, Local, OrderOf, NextLeg, AllClosed
<1>6. Local(k)' BY <1>5 DEF Local
<1> QED BY <1>1, <1>2, <1>3, <1>4, <1>6, Preserved

LEMMA EndStep ==
  ASSUME IInv, NEW k \in Invocation, End(k), order[k] = "none",
         UNCHANGED <<world, row, broker, order>>, mishap' \in BOOLEAN
  PROVE  IInv'
<1>1. NoPosition \in Position BY DEF NoPosition, Position, Status, Reason
<1>2. pc'[k] = "idle" /\ seen'[k] = NoPosition BY DEF IInv, TypeOK, End, To
<1>3. EntryOf(k)' BY <1>2 DEF EntryOf, Entering, EntryResult, Holding, Exiting
<1>4. ExitOf(k)' BY <1>2, EdgeAssumption DEF ExitOf, NoPosition, Exiting, AllClosed
<1>5. "idle" \in Stage /\ "idle" \notin Entering BY DEF Stage, Entering, EntryResult
<1> QED BY <1>1, <1>3, <1>4, <1>5, QuietStep DEF End, To

\* The call moves on with what it knows.
LEMMA GoStep ==
  ASSUME IInv, NEW k \in Invocation, NEW to \in Stage,
         To(k, to), UNCHANGED <<seen, world, row, broker, order, mishap>>,
         to \in Entering => pc[k] \in Entering,
         EntryOf(k)', ExitOf(k)', order[k] = "none" \/ to \in {"await", "unknown"}
  PROVE  IInv'
<1>1. seen[k] \in Position /\ seen' = [seen EXCEPT ![k] = seen[k]] BY DEF IInv, TypeOK
<1>2. mishap' \in BOOLEAN BY DEF IInv, TypeOK
<1> QED BY <1>1, <1>2, QuietStep DEF To

LEMMA NoOrder ==
  ASSUME IInv, NEW k \in Invocation, pc[k] \notin {"await", "unknown"}
  PROVE  order[k] = "none"
BY DEF IInv, Local, OrderOf

LEMMA CallStep ==
  ASSUME IInv, NEW k \in Invocation,
         Tick(k) \/ CloseManually(k) \/ ListNone(k) \/ GetPositionForWeek(k)
  PROVE  IInv'
<1>1. PICK to \in {"positions", "by hand", "week", "enter"} : To(k, to)
  BY DEF Tick, CloseManually, ListNone, GetPositionForWeek, Go
<1>2. pc[k] \in {"idle", "positions", "week"}
        /\ UNCHANGED <<seen, world, row, broker, order, mishap>>
  BY DEF Tick, CloseManually, ListNone, GetPositionForWeek, Go
<1>3. pc'[k] = to BY <1>1 DEF IInv, TypeOK, To
<1>4. EntryOf(k)' BY <1>3 DEF EntryOf, Entering, EntryResult, Holding, Exiting
<1>5. ExitOf(k)' BY <1>2, <1>3 DEF IInv, Local, ExitOf, AllClosed, world, row, broker, Exiting
<1>6. to \in Stage /\ to \notin Entering BY DEF Stage, Entering, EntryResult
<1> QED BY <1>1, <1>2, <1>4, <1>5, <1>6, GoStep, NoOrder

LEMMA LeaveStep ==
  ASSUME IInv, NEW k \in Invocation, Leave(k)
  PROVE  IInv'
<1>1. mishap' \in BOOLEAN BY DEF Leave, IInv, TypeOK
<1> QED BY <1>1, EndStep, NoOrder DEF Leave

LEMMA ReadStep ==
  ASSUME IInv, NEW k \in Invocation, ListOpenPositions(k) \/ GetPosition(k)
  PROVE  IInv'
<1> DEFINE p == [status |-> status, reason |-> reason, attempts |-> attempts, exited |-> exited]
<1>1. PICK to \in {"manage", "claim", "exit"} : ReadPosition(k, to)
  BY DEF ListOpenPositions, GetPosition
<1>2. /\ pc[k] \in {"positions", "by hand"} /\ status \in {"ACTIVE", "EXITING"}
      /\ UNCHANGED <<world, row, broker, order>>
  BY DEF ListOpenPositions, GetPosition, OpenStatus
<1>3. p \in Position BY DEF IInv, TypeOK, Position
<1>4. pc'[k] = to /\ seen'[k] = p BY <1>1 DEF IInv, TypeOK, ReadPosition, To
<1>5. EntryOf(k)'
  BY <1>2, <1>4 DEF EntryOf, Entering, EntryResult, Holding, Exiting, Unopened, row
<1>6. /\ seen'[k].status = status /\ seen'[k].reason = reason
      /\ seen'[k].attempts = attempts /\ seen'[k].exited = exited
  BY <1>4
<1>7. ExitOf(k)'
  <2>1. attempts < MaxAttempts BY <1>2 DEF IInv, RowInv
  <2>2. status = "ACTIVE" => reason = "none" BY DEF IInv, RowInv
  <2>3. mode = "AUTO" /\ reason # "EXPIRED" => AllClosed(exited) BY DEF IInv, RowInv
  <2>4. /\ UNCHANGED <<mode, status, reason, closes>> /\ pc'[k] \in {"manage", "claim", "exit"}
    BY <1>2, <1>4 DEF world, row, broker
  <2>5. mode' = "AUTO" /\ seen'[k].reason # "EXPIRED" => AllClosed(seen[k].exited)'
    BY <1>6, <2>3, <2>4 DEF AllClosed
  <2> QED BY <1>6, <2>1, <2>2, <2>4, <2>5 DEF ExitOf
<1>8. mishap' \in BOOLEAN /\ seen' = [seen EXCEPT ![k] = p] /\ pc' = [pc EXCEPT ![k] = to]
  BY <1>1 DEF ReadPosition, To, IInv, TypeOK, Shared
<1>9. to \in Stage /\ to \notin Entering BY DEF Stage, Entering, EntryResult, Exiting
<1>10. order[k] = "none" BY <1>2, NoOrder
<1> HIDE DEF p
<1> QED BY <1>2, <1>3, <1>5, <1>7, <1>8, <1>9, <1>10, QuietStep

LEMMA ManageStep ==
  ASSUME IInv, NEW k \in Invocation, ManagePosition(k)
  PROVE  IInv'
<1>1. order[k] = "none" BY NoOrder DEF ManagePosition
<1>2. status \notin Unopened BY DEF IInv, Local, EntryOf, ManagePosition, Holding
<1>3. CASE seen[k].status = "EXITING" /\ To(k, "exit") /\ UNCHANGED seen
  <2>1. pc'[k] = "exit" BY <1>3 DEF IInv, TypeOK, To
  <2>2. EntryOf(k)'
    BY <1>2, <2>1 DEF EntryOf, Entering, EntryResult, Holding, Exiting, ManagePosition, row
  <2>3. ExitOf(k)'
    BY <1>3, <2>1
    DEF IInv, Local, ExitOf, ManagePosition, AllClosed, world, row, broker, Exiting
  <2>4. "exit" \in Stage /\ "exit" \notin Entering BY DEF Stage, Entering, EntryResult, Exiting
  <2> QED BY <1>1, <1>3, <2>2, <2>3, <2>4, GoStep DEF ManagePosition
<1>4. CASE \E due \in exitCheck : /\ seen[k].status = "ACTIVE" /\ To(k, "claim")
                                 /\ seen' = [seen EXCEPT ![k].reason = due]
  <2>1. PICK due \in Reason : /\ seen[k].status = "ACTIVE" /\ To(k, "claim")
                             /\ seen' = [seen EXCEPT ![k].reason = due]
    BY <1>4 DEF exitCheck, IInv, TypeOK, Reason
  <2> DEFINE p == [seen[k] EXCEPT !.reason = due]
  <2>2. p \in Position /\ seen' = [seen EXCEPT ![k] = p]
    BY <2>1 DEF IInv, TypeOK, Position
  <2>3. pc'[k] = "claim" /\ seen'[k] = p BY <2>1, <2>2 DEF IInv, TypeOK, To
  <2>4. /\ p.attempts = seen[k].attempts /\ p.exited = seen[k].exited
    BY DEF IInv, TypeOK, Position
  <2> HIDE DEF p
  <2>5. EntryOf(k)'
    BY <1>2, <2>3 DEF EntryOf, Entering, EntryResult, Holding, Exiting, ManagePosition, row
  <2>6. seen[k].reason = "none" BY <2>1 DEF IInv, Local, ExitOf, ManagePosition
  <2>7. ExitOf(k)'
    BY <2>3, <2>4, <2>6
    DEF IInv, Local, ExitOf, ManagePosition, AllClosed, world, row, broker, Exiting
  <2>8. "claim" \in Stage /\ "claim" \notin Entering BY DEF Stage, Entering, EntryResult
  <2>9. mishap' \in BOOLEAN BY DEF ManagePosition, IInv, TypeOK
  <2> QED BY <1>1, <2>1, <2>2, <2>5, <2>7, <2>8, <2>9, QuietStep DEF ManagePosition, To
<1> QED BY <1>3, <1>4 DEF ManagePosition

\* NotFilled drops an order, the rest of these steps have none to drop.
LEMMA AwaitStep ==
  ASSUME IInv, NEW k \in Invocation, TimedOut(k)
  PROVE  IInv'
<1>1. /\ pc[k] = "await" /\ To(k, "unknown")
      /\ UNCHANGED <<seen, world, row, broker, order, mishap>>
  BY DEF TimedOut, Go
<1>2. pc'[k] = "unknown" BY <1>1 DEF IInv, TypeOK, To
<1>3. EntryOf(k)'
  BY <1>1, <1>2 DEF IInv, Local, EntryOf, Entering, EntryResult, Holding, Exiting, row
<1>4. ExitOf(k)'
  BY <1>1, <1>2 DEF IInv, Local, ExitOf, AllClosed, world, row, broker, Exiting
<1>5. "unknown" \in Stage /\ "unknown" \notin Entering
  BY DEF Stage, Entering, EntryResult, Exiting
<1> QED BY <1>1, <1>3, <1>4, <1>5, GoStep

LEMMA ExecuteStep ==
  ASSUME IInv, NEW k \in Invocation, ExecuteExit(k)
  PROVE  IInv'
<1> DEFINE to == IF Due(k) = "EXPIRED" THEN "settle" ELSE "close"
<1>1. /\ pc[k] = "exit" /\ To(k, to)
      /\ UNCHANGED <<seen, world, row, broker, order, mishap>>
  BY DEF ExecuteExit, Go
<1>2. pc'[k] = to BY <1>1 DEF IInv, TypeOK, To
<1>3. to \in {"settle", "close"} /\ (to = "settle" <=> seen[k].reason = "EXPIRED")
  BY DEF Due
<1> HIDE DEF to
<1>4. EntryOf(k)'
  BY <1>1, <1>2, <1>3 DEF IInv, Local, EntryOf, Entering, EntryResult, Holding, Exiting, row
<1>5. ExitOf(k)'
  BY <1>1, <1>2, <1>3 DEF IInv, Local, ExitOf, AllClosed, world, row, broker, Exiting
<1>6. to \in Stage /\ to \notin Entering
  BY <1>3 DEF Stage, Entering, EntryResult, Exiting
<1>7. order[k] = "none" BY <1>1, NoOrder
<1> QED BY <1>1, <1>4, <1>5, <1>6, <1>7, GoStep

-----------------------------------------------------------------------------
(* Steps that write the row *)

LEMMA EndLocal ==
  ASSUME IInv, NEW k \in Invocation, End(k)
  PROVE  /\ pc' \in [Invocation -> Stage] /\ seen' \in [Invocation -> Position]
         /\ pc'[k] = "idle" /\ EntryOf(k)' /\ ExitOf(k)'
         /\ \A j \in Invocation \ {k} : pc'[j] = pc[j] /\ seen'[j] = seen[j]
<1>1. NoPosition \in Position BY DEF NoPosition, Position, Status, Reason
<1>2. pc'[k] = "idle" /\ seen'[k] = NoPosition BY DEF IInv, TypeOK, End, To
<1>3. EntryOf(k)' BY <1>2 DEF EntryOf, Entering, EntryResult, Holding, Exiting
<1>4. ExitOf(k)' BY <1>2, EdgeAssumption DEF ExitOf, NoPosition, Exiting, AllClosed
<1>5. \A j \in Invocation \ {k} : pc'[j] = pc[j] /\ seen'[j] = seen[j]
  BY DEF IInv, TypeOK, End, To
<1>6. pc' \in [Invocation -> Stage] /\ seen' \in [Invocation -> Position]
  BY <1>1 DEF IInv, TypeOK, End, To, Stage
<1> QED BY <1>2, <1>3, <1>4, <1>5, <1>6

\* A call that ends with a write of the row.
LEMMA EndWithRow ==
  ASSUME IInv, NEW k \in Invocation, End(k), order'[k] = "none",
         \A j \in Invocation \ {k} : order'[j] = order[j],
         UNCHANGED <<mode, phase, entered, closes, exited>>,
         status' \in Status, reason' = reason, attempts' \in 0 .. MaxAttempts,
         legRows' \in BOOLEAN, mishap' \in BOOLEAN,
         order' \in [Invocation -> Order], stray' \in [Leg -> Nat],
         status \notin Unopened => status' \notin Unopened,
         pc[k] \in Entering \/ (status = "ENTERING" => status' = "ENTERING"),
         RowInv'
  PROVE  IInv'
<1>1. /\ pc' \in [Invocation -> Stage] /\ seen' \in [Invocation -> Position]
      /\ pc'[k] = "idle" /\ EntryOf(k)' /\ ExitOf(k)'
      /\ \A j \in Invocation \ {k} : pc'[j] = pc[j] /\ seen'[j] = seen[j]
  BY EndLocal
<1>2. TypeOK' BY <1>1 DEF IInv, TypeOK
<1>3. OrderOf(k)' BY DEF OrderOf
<1>4. Local(k)' BY <1>1, <1>3 DEF Local
<1>5. pc'[k] \notin Entering BY <1>1 DEF Entering, EntryResult
<1> QED BY <1>1, <1>2, <1>4, <1>5, Preserved

LEMMA ClaimStep ==
  ASSUME IInv, NEW k \in Invocation, ClaimExit(k)
  PROVE  IInv'
<1>1. /\ pc[k] = "claim" /\ status = "ACTIVE" /\ status' = "EXITING" /\ reason' = Due(k)
      /\ UNCHANGED <<attempts, legRows, exited, mode, phase, entered, closes, stray, order, mishap>>
  BY DEF ClaimExit, world, broker
<1>2. reason = "none" /\ order[k] = "none" BY <1>1, NoOrder DEF IInv, RowInv
<1>3. Due(k) \in Reason BY DEF IInv, TypeOK, Position, Due, Reason
<1>4. /\ pc' \in [Invocation -> Stage] /\ seen' \in [Invocation -> Position]
      /\ \A j \in Invocation \ {k} : pc'[j] = pc[j] /\ seen'[j] = seen[j]
      /\ pc'[k] \in {"idle", "exit"} /\ EntryOf(k)' /\ ExitOf(k)'
  <2>1. CASE End(k) BY <2>1, EndLocal
  <2>2. CASE To(k, "exit") /\ UNCHANGED seen
    <3>1. pc'[k] = "exit" BY <2>2 DEF IInv, TypeOK, To
    <3>2. EntryOf(k)'
      BY <1>1, <3>1 DEF EntryOf, Entering, EntryResult, Holding, Exiting, Unopened
    <3>3. seen[k].reason = "EXPIRED" => reason' = "EXPIRED" BY <1>1 DEF Due
    <3>4. ExitOf(k)' BY <1>1, <2>2, <3>1, <3>3 DEF IInv, Local, ExitOf, AllClosed, Exiting
    <3> QED BY <2>2, <3>1, <3>2, <3>4 DEF IInv, TypeOK, To, Stage, Exiting
  <2> QED BY <2>1, <2>2 DEF ClaimExit, OnTo
<1>5. TypeOK' BY <1>1, <1>3, <1>4 DEF IInv, TypeOK, Status
<1>6. RowInv'
  BY <1>1, <1>2 DEF IInv, RowInv, EnteredOnce, ClosedIsFlat, AllClosed
<1>7. OrderOf(k)' BY <1>1, <1>2 DEF OrderOf
<1>8. Local(k)' BY <1>4, <1>7 DEF Local
<1>9. pc'[k] \notin Entering BY <1>4 DEF Entering, EntryResult
<1> QED BY <1>1, <1>2, <1>4, <1>5, <1>6, <1>8, <1>9, Preserved DEF Unopened

LEMMA BumpStep ==
  ASSUME IInv, NEW k \in Invocation, bumpExitAttempt(k)
  PROVE  IInv'
<1>1. /\ pc[k] = "bump" /\ End(k) /\ attempts' = seen[k].attempts + 1
      /\ status' = IF seen[k].attempts + 1 >= MaxAttempts THEN "CLOSE_FAILED" ELSE status
      /\ UNCHANGED <<reason, legRows, exited, mode, phase, entered, closes, stray, order, mishap>>
  BY DEF bumpExitAttempt, world, broker
<1>2. status \notin Unopened BY <1>1 DEF IInv, Local, EntryOf, Holding, Exiting
<1>3. seen[k].attempts \in Nat /\ seen[k].attempts < MaxAttempts
  BY DEF IInv, TypeOK, Position, Local, ExitOf
<1>4. attempts' \in 0 .. MaxAttempts BY <1>1, <1>3, EdgeAssumption
<1>5. status' \notin Unopened /\ status' \in Status
  BY <1>1, <1>2 DEF Unopened, Status, IInv, TypeOK
<1>6. RowInv'
  <2>1. status' # "CLOSE_FAILED" => attempts' < MaxAttempts BY <1>1, <1>3, EdgeAssumption
  <2>2. status' = status \/ status' = "CLOSE_FAILED" BY <1>1
  <2>3. EnteredOnce' BY <1>1, <1>2, <1>5, <2>2 DEF IInv, RowInv, EnteredOnce, Unopened
  <2> QED BY <1>1, <1>5, <2>1, <2>2, <2>3 DEF IInv, RowInv, ClosedIsFlat, AllClosed, Unopened
<1>7. order[k] = "none" BY <1>1, NoOrder
<1>8. /\ legRows' \in BOOLEAN /\ mishap' \in BOOLEAN
      /\ order' \in [Invocation -> Order] /\ stray' \in [Leg -> Nat]
  BY <1>1 DEF IInv, TypeOK
<1> QED BY <1>1, <1>2, <1>4, <1>5, <1>6, <1>7, <1>8, EndWithRow DEF Unopened

LEMMA FinalizeStep ==
  ASSUME IInv, NEW k \in Invocation, finalize(k)
  PROVE  IInv'
<1>1. /\ pc[k] \in {"close", "finalize"} /\ End(k) /\ status' = "CLOSED"
      /\ pc[k] = "close" => NextLeg(k) = {}
      /\ UNCHANGED <<reason, attempts, legRows, exited, mode, phase, entered, closes, stray,
                     order, mishap>>
  BY DEF finalize, SetStatus, world, broker
<1>2. status \notin Unopened BY <1>1 DEF IInv, Local, EntryOf, Holding, Exiting
<1>3. mode = "AUTO" /\ reason # "EXPIRED" => AllClosed(Leg)
  <2>1. CASE pc[k] = "finalize" BY <2>1 DEF IInv, Local, ExitOf
  <2>2. CASE pc[k] = "close"
    <3>1. Leg \subseteq seen[k].exited BY <1>1, <2>2 DEF NextLeg, Leg
    <3>2. seen[k].reason # "EXPIRED" BY <2>2 DEF IInv, Local, ExitOf
    <3> QED BY <3>1, <3>2 DEF IInv, Local, ExitOf, AllClosed
  <2> QED BY <1>1, <2>1, <2>2
<1>4. RowInv'
  <2>1. EnteredOnce' BY <1>1, <1>2 DEF IInv, RowInv, EnteredOnce, Unopened
  <2>2. ClosedIsFlat' BY <1>1, <1>3 DEF ClosedIsFlat, AllClosed
  <2> QED BY <1>1, <2>1, <2>2 DEF IInv, RowInv, AllClosed
<1>5. order[k] = "none" BY <1>1, NoOrder
<1>6. /\ legRows' \in BOOLEAN /\ mishap' \in BOOLEAN /\ attempts' \in 0 .. MaxAttempts
      /\ order' \in [Invocation -> Order] /\ stray' \in [Leg -> Nat]
  BY <1>1 DEF IInv, TypeOK
<1>7. status' \in Status /\ status' \notin Unopened BY <1>1 DEF Status, Unopened
<1> QED BY <1>1, <1>2, <1>4, <1>5, <1>6, <1>7, EndWithRow DEF Unopened

\* createPosition with nothing to do after it.
LEMMA CreateStep ==
  ASSUME IInv, NEW k \in Invocation, NEW s \in {"FAILED", "ACTIVE", "ENTERING"},
         NEW rows \in BOOLEAN,
         pc[k] = "enter", End(k), Create(s, rows), s = "ACTIVE" => mode = "SHADOW",
         UNCHANGED <<world, broker, order, mishap>>
  PROVE  IInv'
<1>1. /\ status = "NONE" /\ status' = s /\ legRows' = rows
      /\ UNCHANGED <<reason, attempts, exited, mode, phase, entered, closes, stray, order, mishap>>
  BY DEF Create, WeekFree, world, broker
<1>2. RowInv'
  <2>1. EnteredOnce' BY <1>1 DEF IInv, RowInv, EnteredOnce
  <2> QED BY <1>1, <2>1 DEF IInv, RowInv, ClosedIsFlat, AllClosed
<1>3. order[k] = "none" BY NoOrder
<1>4. /\ mishap' \in BOOLEAN /\ attempts' \in 0 .. MaxAttempts /\ status' \in Status
      /\ order' \in [Invocation -> Order] /\ stray' \in [Leg -> Nat]
  BY <1>1 DEF IInv, TypeOK, Status
<1> QED BY <1>1, <1>2, <1>3, <1>4, EndWithRow DEF Unopened

LEMMA EnterStep ==
  ASSUME IInv, NEW k \in Invocation, recordSkippedWeek(k) \/ EnterShadow(k) \/ ClaimWeek(k)
  PROVE  IInv'
<1>1. CASE recordSkippedWeek(k) BY <1>1, CreateStep DEF recordSkippedWeek
<1>2. CASE EnterShadow(k) BY <1>2, CreateStep DEF EnterShadow
<1>3. CASE \E rows \in BOOLEAN : ClaimWeek(k) /\ Create("ENTERING", rows) /\ End(k)
  BY <1>3, CreateStep DEF ClaimWeek
<1>4. CASE ClaimWeek(k) /\ Create("ENTERING", TRUE) /\ To(k, "execute") /\ UNCHANGED seen
  <2>1. /\ pc[k] = "enter" /\ status = "NONE" /\ status' = "ENTERING" /\ legRows' = TRUE
        /\ UNCHANGED <<reason, attempts, exited, mode, phase, entered, closes, stray, order,
                       seen, mishap>>
    BY <1>4 DEF ClaimWeek, Create, WeekFree, world, broker
  <2>2. /\ pc'[k] = "execute" /\ pc' \in [Invocation -> Stage]
        /\ \A j \in Invocation \ {k} : pc'[j] = pc[j]
    BY <1>4 DEF IInv, TypeOK, To, Stage, Entering
  <2>3. TypeOK' BY <2>1, <2>2 DEF IInv, TypeOK, Status
  <2>4. RowInv'
    <3>1. EnteredOnce' BY <2>1 DEF IInv, RowInv, EnteredOnce
    <3> QED BY <2>1, <3>1 DEF IInv, RowInv, ClosedIsFlat, AllClosed
  <2>5. EntryOf(k)'
    BY <2>1, <2>2 DEF IInv, RowInv, EntryOf, Entering, EntryResult, Holding, Exiting
  <2>6. ExitOf(k)' BY <2>1, <2>2 DEF IInv, Local, ExitOf, AllClosed, Exiting
  <2>7. order[k] = "none" BY <2>1, NoOrder
  <2>8. Local(k)' BY <2>1, <2>5, <2>6, <2>7 DEF Local, OrderOf
  <2> QED BY <2>1, <2>2, <2>3, <2>4, <2>8, Preserved DEF Unopened
<1> QED BY <1>1, <1>2, <1>3, <1>4 DEF ClaimWeek

LEMMA ExecutionStep ==
  ASSUME IInv, NEW k \in Invocation, RunLiveExecution(k)
  PROVE  IInv'
<1>1. PICK result \in EntryResult : Go(k, "execute", result) BY DEF RunLiveExecution
<1>2. /\ pc[k] = "execute" /\ entered' = entered + 1
      /\ UNCHANGED <<status, reason, attempts, legRows, exited, mode, phase, closes, stray,
                     order, seen, mishap>>
  BY <1>1 DEF RunLiveExecution, Go, world, row
<1>3. /\ pc'[k] = result /\ pc' \in [Invocation -> Stage]
      /\ \A j \in Invocation \ {k} : pc'[j] = pc[j]
  BY <1>1 DEF IInv, TypeOK, Go, To, Stage, Entering
<1>4. entered = 0 /\ status = "ENTERING" /\ pc[k] \in Entering
  BY <1>2 DEF IInv, Local, EntryOf, Entering
<1>5. TypeOK' BY <1>2, <1>3 DEF IInv, TypeOK
<1>6. RowInv'
  <2>1. EnteredOnce' BY <1>2, <1>4 DEF EnteredOnce
  <2> QED BY <1>2, <1>4, <2>1 DEF IInv, RowInv, ClosedIsFlat, AllClosed
<1>7. EntryOf(k)' BY <1>2, <1>3, <1>4 DEF EntryOf, EntryResult, Holding, Exiting
<1>8. ExitOf(k)' BY <1>2, <1>3 DEF IInv, Local, ExitOf, AllClosed, Exiting, EntryResult
<1>9. order[k] = "none" BY <1>2, NoOrder
<1>10. Local(k)' BY <1>2, <1>7, <1>8, <1>9 DEF Local, OrderOf
<1> QED BY <1>2, <1>3, <1>4, <1>5, <1>6, <1>10, Preserved

LEMMA RecordStep ==
  ASSUME IInv, NEW k \in Invocation, RecordEntry(k)
  PROVE  IInv'
<1>1. /\ pc[k] \in EntryResult /\ End(k)
      /\ status' \in {"ACTIVE", "FAILED", "RECONCILIATION_REQUIRED"}
      /\ UNCHANGED <<reason, attempts, legRows, exited, mode, phase, entered, closes, stray,
                     order, mishap>>
  BY DEF RecordEntry, SetStatus, EntryResult, world, broker
<1>2. status = "ENTERING" /\ entered = 1 /\ pc[k] \in Entering
  BY <1>1 DEF IInv, Local, EntryOf, Entering
<1>3. RowInv'
  <2>1. EnteredOnce' BY <1>1, <1>2 DEF EnteredOnce
  <2> QED BY <1>1, <1>2, <2>1 DEF IInv, RowInv, ClosedIsFlat, AllClosed
<1>4. order[k] = "none" BY <1>1, NoOrder DEF EntryResult
<1>5. /\ legRows' \in BOOLEAN /\ mishap' \in BOOLEAN /\ attempts' \in 0 .. MaxAttempts
      /\ order' \in [Invocation -> Order] /\ stray' \in [Leg -> Nat] /\ status' \in Status
  BY <1>1 DEF IInv, TypeOK, Status
<1> QED BY <1>1, <1>2, <1>3, <1>4, <1>5, EndWithRow DEF Unopened

-----------------------------------------------------------------------------
(* Closing orders *)

LEMMA NextLegFacts ==
  ASSUME NEW k \in Invocation
  PROVE  /\ NextLeg(k) \subseteq Leg
         /\ \A l \in NextLeg(k) : l = Short \/ (l = Wing /\ Short \in seen[k].exited)
BY DEF NextLeg, Leg

\* A call that may trade the wing has seen the short closed.
LEMMA ShortClosed ==
  ASSUME IInv, NEW k \in Invocation, mode = "AUTO",
         pc[k] \in {"close", "await", "unknown"}, Wing \in NextLeg(k)
  PROVE  closes[Short] > 0
<1>1. Short \in seen[k].exited BY NextLegFacts DEF Short, Wing
<1> QED BY <1>1 DEF IInv, Local, ExitOf, AllClosed

LEMMA UnwatchFacts ==
  ASSUME IInv, NEW k \in Invocation, Unwatch(k), pc[k] \in {"await", "unknown"}
  PROVE  /\ order'[k] = "none" /\ order' \in [Invocation -> Order]
         /\ \A j \in Invocation \ {k} : order'[j] = order[j]
         /\ stray' \in [Leg -> Nat]
         /\ stray'[Wing] > 0 => closes[Short] > 0
<1>1. /\ order'[k] = "none" /\ order' \in [Invocation -> Order]
      /\ \A j \in Invocation \ {k} : order'[j] = order[j]
  BY DEF IInv, TypeOK, Unwatch, Drop, Order
<1>2. stray' = [l \in Leg |-> IF order[k] = "open" /\ l \in NextLeg(k)
                              THEN stray[l] + 1 ELSE stray[l]]
  BY DEF Unwatch
<1>3. stray' \in [Leg -> Nat] BY <1>2 DEF IInv, TypeOK
<1>4. ASSUME stray'[Wing] > 0 PROVE closes[Short] > 0
  <2>1. CASE order[k] = "open" /\ Wing \in NextLeg(k)
    <3>1. mode = "AUTO" BY <2>1 DEF IInv, Local, OrderOf
    <3> QED BY <2>1, <3>1, ShortClosed
  <2>2. CASE ~ (order[k] = "open" /\ Wing \in NextLeg(k))
    <3>1. stray'[Wing] = stray[Wing] BY <1>2, <2>2 DEF Leg
    <3> QED BY <1>4, <3>1 DEF IInv, RowInv
  <2> QED BY <2>1, <2>2
<1> QED BY <1>1, <1>3, <1>4

LEMMA UnwatchStep ==
  ASSUME IInv, NEW k \in Invocation, CloseStateUnknown(k) \/ Forget(k)
  PROVE  IInv'
<1>1. /\ pc[k] \in {"await", "unknown"} /\ End(k) /\ Unwatch(k)
      /\ status' \in {status, "CLOSE_FAILED"} /\ mishap' \in BOOLEAN
      /\ UNCHANGED <<reason, attempts, legRows, exited, mode, phase, entered, closes>>
  BY DEF CloseStateUnknown, Forget, SetStatus, Unwatch, world, row, IInv, TypeOK
<1>2. status \notin Unopened BY <1>1 DEF IInv, Local, EntryOf, Holding, Exiting
<1>3. /\ order'[k] = "none" /\ order' \in [Invocation -> Order]
      /\ \A j \in Invocation \ {k} : order'[j] = order[j]
      /\ stray' \in [Leg -> Nat]
      /\ stray'[Wing] > 0 => closes[Short] > 0
  BY <1>1, UnwatchFacts
<1>4. RowInv'
  <2>1. EnteredOnce' BY <1>1, <1>2 DEF IInv, RowInv, EnteredOnce, Unopened
  <2> QED BY <1>1, <1>3, <2>1 DEF IInv, RowInv, ClosedIsFlat, AllClosed
<1>5. /\ legRows' \in BOOLEAN /\ attempts' \in 0 .. MaxAttempts
      /\ status' \in Status /\ status' \notin Unopened
  BY <1>1, <1>2 DEF IInv, TypeOK, Status, Unopened
<1> QED BY <1>1, <1>2, <1>3, <1>4, <1>5, EndWithRow DEF Unopened

LEMMA SettleStep ==
  ASSUME IInv, NEW k \in Invocation, Settle(k)
  PROVE  IInv'
<1>1. /\ pc[k] = "settle" /\ To(k, "finalize") /\ exited' \subseteq Leg
      /\ UNCHANGED <<status, reason, attempts, legRows, mode, phase, entered, closes, stray,
                     order, seen, mishap>>
  BY DEF Settle, Go, world, broker, IInv, TypeOK
<1>2. /\ pc'[k] = "finalize" /\ pc' \in [Invocation -> Stage]
      /\ \A j \in Invocation \ {k} : pc'[j] = pc[j]
  BY <1>1 DEF IInv, TypeOK, To, Stage, Exiting
<1>3. reason = "EXPIRED" /\ order[k] = "none" BY <1>1, NoOrder DEF IInv, Local, ExitOf
<1>4. TypeOK' BY <1>1, <1>2 DEF IInv, TypeOK
<1>5. RowInv' BY <1>1, <1>3 DEF IInv, RowInv, EnteredOnce, ClosedIsFlat, AllClosed
<1>6. EntryOf(k)'
  BY <1>1, <1>2 DEF IInv, Local, EntryOf, Entering, EntryResult, Holding, Exiting
<1>7. ExitOf(k)' BY <1>1, <1>2, <1>3 DEF IInv, Local, ExitOf, AllClosed
<1>8. Local(k)' BY <1>1, <1>3, <1>6, <1>7 DEF Local, OrderOf
<1>9. pc'[k] \notin Entering BY <1>2 DEF Entering, EntryResult
<1> QED BY <1>1, <1>2, <1>4, <1>5, <1>8, <1>9, Preserved

\* A leg is taken for closed only when the broker has closed it, or in SHADOW.
LEMMA LegClosedStep ==
  ASSUME IInv, NEW k \in Invocation, NEW l \in Leg,
         pc[k] \in {"close", "await"}, LegClosed(k, l), mode = "AUTO" => closes[l] > 0,
         UNCHANGED <<world, broker>>, order' \in [Invocation -> Order], order'[k] = "none",
         \A j \in Invocation \ {k} : order'[j] = order[j]
  PROVE  IInv'
<1> DEFINE p == [seen[k] EXCEPT !.exited = @ \cup {l}]
<1>1. /\ To(k, "close") /\ exited' \in {exited, exited \cup {l}} /\ mishap' \in BOOLEAN
      /\ UNCHANGED <<status, reason, attempts, legRows, mode, phase, entered, closes, stray>>
  BY DEF LegClosed, world, broker, IInv, TypeOK
<1>2. seen' = [seen EXCEPT ![k] = p] BY DEF LegClosed
<1>3. /\ p \in Position /\ p.exited = seen[k].exited \cup {l} /\ p.status = seen[k].status
      /\ p.reason = seen[k].reason /\ p.attempts = seen[k].attempts
  BY DEF IInv, TypeOK, Position
<1> HIDE DEF p
<1>4. /\ pc'[k] = "close" /\ seen'[k] = p
      /\ pc' \in [Invocation -> Stage] /\ seen' \in [Invocation -> Position]
      /\ \A j \in Invocation \ {k} : pc'[j] = pc[j] /\ seen'[j] = seen[j]
  BY <1>1, <1>2, <1>3 DEF IInv, TypeOK, To, Stage, Exiting
<1>5. TypeOK' BY <1>1, <1>4 DEF IInv, TypeOK
<1>6. RowInv' BY <1>1 DEF IInv, RowInv, EnteredOnce, ClosedIsFlat, AllClosed
<1>7. EntryOf(k)'
  BY <1>1, <1>4 DEF IInv, Local, EntryOf, Entering, EntryResult, Holding, Exiting
<1>8. ExitOf(k)'
  BY <1>1, <1>3, <1>4 DEF IInv, Local, ExitOf, AllClosed, Exiting
<1>9. Local(k)' BY <1>7, <1>8 DEF Local, OrderOf
<1>10. pc'[k] \notin Entering BY <1>4 DEF Entering, EntryResult
<1> QED BY <1>1, <1>4, <1>5, <1>6, <1>9, <1>10, Preserved

LEMMA CloseShadowStep ==
  ASSUME IInv, NEW k \in Invocation, CloseShadowLeg(k)
  PROVE  IInv'
<1>1. PICK l \in Leg : LegClosed(k, l) BY NextLegFacts DEF CloseShadowLeg
<1>2. order[k] = "none" BY NoOrder DEF CloseShadowLeg
<1>3. order' \in [Invocation -> Order] BY DEF CloseShadowLeg, IInv, TypeOK
<1> QED BY <1>1, <1>2, <1>3, LegClosedStep DEF CloseShadowLeg

LEMMA FilledStep ==
  ASSUME IInv, NEW k \in Invocation, Filled(k)
  PROVE  IInv'
<1>1. PICK l \in NextLeg(k) : LegClosed(k, l) BY DEF Filled
<1>2. l \in Leg /\ closes[l] > 0
  BY NextLegFacts DEF Filled, IInv, Local, OrderOf, AllClosed
<1>3. /\ order' \in [Invocation -> Order] /\ order'[k] = "none"
      /\ \A j \in Invocation \ {k} : order'[j] = order[j]
  BY DEF Filled, Drop, IInv, TypeOK, Order
<1> QED BY <1>1, <1>2, <1>3, LegClosedStep DEF Filled

\* A call goes on with a closing order sent or dropped.
LEMMA SendStep ==
  ASSUME IInv, NEW k \in Invocation, SendClose(k) \/ SendFails(k) \/ NotFilled(k)
  PROVE  IInv'
<1>1. PICK to \in {"await", "bump"} : To(k, to) BY DEF SendClose, SendFails, NotFilled, Go
<1>2. /\ pc[k] \in {"close", "await"} /\ mishap' \in BOOLEAN
      /\ UNCHANGED <<status, reason, attempts, legRows, exited, mode, phase, entered, closes, seen>>
  BY DEF SendClose, SendFails, NotFilled, Go, world, row, broker, IInv, TypeOK
<1>3. /\ pc'[k] = to /\ pc' \in [Invocation -> Stage]
      /\ \A j \in Invocation \ {k} : pc'[j] = pc[j]
  BY <1>1 DEF IInv, TypeOK, To, Stage, Exiting
<1>4. /\ order' \in [Invocation -> Order] /\ \A j \in Invocation \ {k} : order'[j] = order[j]
      /\ order'[k] = "none" \/ (order'[k] = "open" /\ to = "await" /\ mode = "AUTO")
  <2>1. CASE SendClose(k)
    <3>1. order' = [order EXCEPT ![k] = "open"] /\ mode = "AUTO" /\ To(k, "await")
      BY <2>1 DEF SendClose, Go
    <3> QED BY <1>3, <3>1 DEF IInv, TypeOK, Order, To
  <2>2. CASE SendFails(k)
    <3>1. order' = order /\ pc[k] = "close" BY <2>2 DEF SendFails, Go
    <3> QED BY <3>1, NoOrder DEF IInv, TypeOK
  <2>3. CASE NotFilled(k) BY <2>3 DEF NotFilled, Drop, IInv, TypeOK, Order
  <2> QED BY <2>1, <2>2, <2>3
<1>5. /\ stray' \in [Leg -> Nat]
      /\ stray'[Wing] > 0 => closes[Short] > 0
  <2>1. CASE UNCHANGED stray BY <2>1 DEF IInv, TypeOK, RowInv
  <2>2. CASE mode = "AUTO" /\ \E l \in NextLeg(k) : stray' = [stray EXCEPT ![l] = @ + 1]
    <3>1. PICK l \in NextLeg(k) : stray' = [stray EXCEPT ![l] = @ + 1] BY <2>2
    <3>2. l \in Leg BY NextLegFacts
    <3>3. stray' \in [Leg -> Nat] BY <3>1, <3>2 DEF IInv, TypeOK
    <3>4. CASE l = Wing BY <1>2, <2>2, <3>3, <3>4, ShortClosed
    <3>5. CASE l # Wing BY <3>1, <3>2, <3>3, <3>5 DEF IInv, TypeOK, RowInv, Leg
    <3> QED BY <3>3, <3>4, <3>5
  <2>3. CASE SendClose(k) \/ NotFilled(k) BY <2>1, <2>3 DEF SendClose, NotFilled, broker
  <2>4. CASE SendFails(k) BY <2>1, <2>2, <2>4 DEF SendFails
  <2> QED BY <2>3, <2>4
<1>6. TypeOK' BY <1>2, <1>3, <1>4, <1>5 DEF IInv, TypeOK
<1>7. RowInv' BY <1>2, <1>5 DEF IInv, RowInv, EnteredOnce, ClosedIsFlat, AllClosed
<1>8. EntryOf(k)'
  BY <1>2, <1>3 DEF IInv, Local, EntryOf, Entering, EntryResult, Holding, Exiting
<1>9. ExitOf(k)' BY <1>2, <1>3 DEF IInv, Local, ExitOf, AllClosed, Exiting
<1>10. OrderOf(k)' BY <1>2, <1>3, <1>4 DEF OrderOf
<1>11. Local(k)' BY <1>8, <1>9, <1>10 DEF Local
<1>12. pc'[k] \notin Entering BY <1>3 DEF Entering, EntryResult
<1> QED BY <1>2, <1>3, <1>4, <1>6, <1>7, <1>11, <1>12, Preserved

\* An order fills or dies.
LEMMA OrderStep ==
  ASSUME IInv, NEW k \in Invocation, FillOrder(k) \/ KillOrder(k)
  PROVE  IInv'
<1>1. /\ order[k] = "open" /\ order'[k] \in {"filled", "dead"}
      /\ order' \in [Invocation -> Order] /\ \A j \in Invocation \ {k} : order'[j] = order[j]
      /\ UNCHANGED <<status, reason, attempts, legRows, exited, mode, phase, entered, stray,
                     pc, seen, mishap>>
  BY DEF FillOrder, KillOrder, IInv, TypeOK, Order, world, row, broker
<1>2. mode = "AUTO" /\ pc[k] \in {"await", "unknown"} BY <1>1 DEF IInv, Local, OrderOf
<1>3. /\ closes' \in [Leg -> Nat] /\ \A l \in Leg : closes[l] > 0 => closes'[l] > 0
      /\ closes'[Wing] > 0 => closes[Wing] > 0 \/ closes[Short] > 0
      /\ order'[k] = "filled" => \A l \in NextLeg(k) : closes'[l] > 0
  <2>1. CASE KillOrder(k)
    <3>1. closes' = closes /\ order'[k] = "dead" BY <2>1 DEF KillOrder, broker, IInv, TypeOK
    <3> QED BY <3>1 DEF IInv, TypeOK
  <2>2. CASE FillOrder(k)
    <3>1. PICK l \in NextLeg(k) : closes' = [closes EXCEPT ![l] = @ + 1]
      BY <2>2 DEF FillOrder, Fill
    <3>2. l \in Leg /\ \A m \in NextLeg(k) : m = l BY DEF NextLeg, Leg
    <3>3. /\ closes' \in [Leg -> Nat] /\ closes'[l] > 0
          /\ \A m \in Leg \ {l} : closes'[m] = closes[m]
      BY <3>1, <3>2 DEF IInv, TypeOK
    <3>4. l = Wing => closes[Short] > 0 BY <1>2, ShortClosed
    <3> QED BY <3>2, <3>3, <3>4 DEF Leg
  <2> QED BY <2>1, <2>2
<1>4. TypeOK' BY <1>1, <1>3 DEF IInv, TypeOK
<1>5. RowInv'
  BY <1>1, <1>3 DEF IInv, TypeOK, RowInv, EnteredOnce, ClosedIsFlat, AllClosed, Leg
<1>6. EntryOf(k)' BY <1>1 DEF IInv, Local, EntryOf
<1>7. ExitOf(k)'
  <2>1. seen[k].exited \subseteq Leg BY DEF IInv, TypeOK, Position
  <2> QED BY <1>1, <1>3, <2>1 DEF IInv, Local, ExitOf, AllClosed
<1>8. OrderOf(k)' BY <1>1, <1>2, <1>3 DEF OrderOf, AllClosed, NextLeg
<1>9. Local(k)' BY <1>6, <1>7, <1>8 DEF Local
<1>10. pc'[k] \notin Entering BY <1>1, <1>2 DEF Entering, EntryResult
<1> QED BY <1>1, <1>3, <1>4, <1>5, <1>9, <1>10, Preserved

\* The broker's and the clock's steps, which no call takes.
LEMMA OutsideStep ==
  ASSUME IInv, (\E l \in Leg : StrayEnds(l)) \/ SafetyTime \/ Expire
  PROVE  IInv'
<1>1. UNCHANGED <<status, reason, attempts, legRows, exited, mode, entered, pc, seen, order, mishap>>
  BY DEF StrayEnds, SafetyTime, Expire, world, row, broker
<1>2. /\ closes' \in [Leg -> Nat] /\ stray' \in [Leg -> Nat] /\ phase' \in {"open", "safety", "expired"}
      /\ \A l \in Leg : closes[l] > 0 => closes'[l] > 0
      /\ closes'[Wing] > 0 \/ stray'[Wing] > 0 => closes[Wing] > 0 \/ stray[Wing] > 0
  <2>1. CASE SafetyTime BY <2>1 DEF SafetyTime, broker, IInv, TypeOK
  <2>2. CASE Expire
    <3>1. closes' = closes /\ stray' = [l \in Leg |-> 0] /\ phase' = "expired"
      BY <2>2 DEF Expire
    <3>2. \A l \in Leg : stray'[l] = 0 BY <3>1
    <3> QED BY <3>1, <3>2 DEF IInv, TypeOK, Leg
  <2>3. ASSUME NEW l \in Leg, StrayEnds(l) PROVE <1>2
    <3>1. /\ stray[l] > 0 /\ stray' = [stray EXCEPT ![l] = @ - 1] /\ phase' = phase
          /\ closes' = closes \/ closes' = [closes EXCEPT ![l] = @ + 1]
      BY <2>3 DEF StrayEnds, Fill, world
    <3>2. closes' \in [Leg -> Nat] /\ stray' \in [Leg -> Nat] BY <3>1 DEF IInv, TypeOK
    <3>3. \A m \in Leg : /\ closes[m] > 0 => closes'[m] > 0
                         /\ closes'[m] > 0 \/ stray'[m] > 0 => closes[m] > 0 \/ stray[m] > 0
      BY <3>1 DEF IInv, TypeOK
    <3> QED BY <3>1, <3>2, <3>3 DEF IInv, TypeOK, Leg
  <2> QED BY <2>1, <2>2, <2>3
<1>3. TypeOK' BY <1>1, <1>2 DEF IInv, TypeOK
<1>4. RowInv' BY <1>1, <1>2 DEF IInv, TypeOK, RowInv, EnteredOnce, ClosedIsFlat, AllClosed, Leg
<1>5. OneEntry' BY <1>1 DEF IInv, OneEntry
<1>6. ASSUME NEW k \in Invocation PROVE Local(k)'
  <2>1. \A those \in SUBSET Leg : AllClosed(those) => AllClosed(those)' BY <1>2 DEF AllClosed
  <2>2. EntryOf(k)' BY <1>1 DEF IInv, Local, EntryOf
  <2>3. seen[k].exited \in SUBSET Leg BY DEF IInv, TypeOK, Position
  <2>4. ExitOf(k)' BY <1>1, <2>1, <2>3 DEF IInv, Local, ExitOf
  <2>5. NextLeg(k) \in SUBSET Leg /\ NextLeg(k)' = NextLeg(k) BY <1>1 DEF NextLeg, Leg
  <2>6. AllClosed(NextLeg(k)) => AllClosed(NextLeg(k))' BY <1>2, <2>5 DEF AllClosed
  <2>7. OrderOf(k)' BY <1>1, <2>6 DEF IInv, Local, OrderOf
  <2> QED BY <2>2, <2>4, <2>7 DEF Local
<1> QED BY <1>3, <1>4, <1>5, <1>6 DEF IInv

-----------------------------------------------------------------------------
(* Every step *)

LEMMA StepIInv ==
  ASSUME IInv, NEW k \in Invocation, Step(k)
  PROVE  IInv'
<1>1. CASE ListOpenPositions(k) \/ GetPosition(k) BY <1>1, ReadStep
<1>2. CASE ListNone(k) \/ GetPositionForWeek(k) BY <1>2, CallStep
<1>3. CASE Leave(k) BY <1>3, LeaveStep
<1>4. CASE ManagePosition(k) BY <1>4, ManageStep
<1>5. CASE ClaimExit(k) BY <1>5, ClaimStep
<1>6. CASE ExecuteExit(k) BY <1>6, ExecuteStep
<1>7. CASE Settle(k) BY <1>7, SettleStep
<1>8. CASE CloseShadowLeg(k) BY <1>8, CloseShadowStep
<1>9. CASE SendClose(k) \/ SendFails(k) \/ NotFilled(k) BY <1>9, SendStep
<1>10. CASE Filled(k) BY <1>10, FilledStep
<1>11. CASE TimedOut(k) BY <1>11, AwaitStep
<1>12. CASE CloseStateUnknown(k) \/ Forget(k) BY <1>12, UnwatchStep
<1>13. CASE bumpExitAttempt(k) BY <1>13, BumpStep
<1>14. CASE finalize(k) BY <1>14, FinalizeStep
<1>15. CASE recordSkippedWeek(k) \/ EnterShadow(k) \/ ClaimWeek(k) BY <1>15, EnterStep
<1>16. CASE RunLiveExecution(k) BY <1>16, ExecutionStep
<1>17. CASE RecordEntry(k) BY <1>17, RecordStep
<1> QED
  BY <1>1, <1>2, <1>3, <1>4, <1>5, <1>6, <1>7, <1>8, <1>9, <1>10, <1>11, <1>12, <1>13, <1>14,
     <1>15, <1>16, <1>17 DEF Step

LEMMA NextIInv == IInv /\ [Next]_vars => IInv'
<1> SUFFICES ASSUME IInv, [Next]_vars PROVE IInv' OBVIOUS
<1>1. ASSUME NEW k \in Invocation, Tick(k) \/ CloseManually(k) PROVE IInv' BY <1>1, CallStep
<1>2. ASSUME NEW k \in Invocation, Step(k) PROVE IInv' BY <1>2, StepIInv
<1>3. ASSUME NEW k \in Invocation, FillOrder(k) \/ KillOrder(k) PROVE IInv' BY <1>3, OrderStep
<1>4. CASE (\E l \in Leg : StrayEnds(l)) \/ SafetyTime \/ Expire BY <1>4, OutsideStep
<1>5. CASE UNCHANGED vars
  <2> USE <1>5 DEF vars, world, row, broker
  <2>1. TypeOK' BY DEF IInv, TypeOK
  <2>2. RowInv' BY DEF IInv, RowInv, EnteredOnce, ClosedIsFlat, AllClosed
  <2>3. OneEntry' BY DEF IInv, OneEntry
  <2>4. ASSUME NEW k \in Invocation PROVE Local(k)'
    BY DEF IInv, Local, EntryOf, ExitOf, OrderOf, AllClosed, NextLeg
  <2> QED BY <2>1, <2>2, <2>3, <2>4 DEF IInv
<1> QED BY <1>1, <1>2, <1>3, <1>4, <1>5 DEF Next

-----------------------------------------------------------------------------
(* One executor, as long as nothing duplicates it *)

\* A call that executes the exit, or is about to because it read EXITING.
Doing(k) == pc[k] \in Exiting \/ (pc[k] = "manage" /\ seen[k].status = "EXITING")

\* It is alone, and until it is done nobody takes the position out of EXITING.
Sole == /\ \A k \in Invocation : Doing(k) => status = "EXITING"
        /\ \A j, k \in Invocation : Doing(j) /\ Doing(k) => j = k
SoleInv == mishap \/ Sole

LEMMA SoleKept ==
  ASSUME Sole, NEW k \in Invocation,
         \A j \in Invocation \ {k} : pc'[j] = pc[j] /\ seen'[j] = seen[j],
         Doing(k)' => Doing(k),
         status' = status \/ (Doing(k) /\ ~ Doing(k)') \/ status # "EXITING"
  PROVE  Sole'
<1>1. \A j \in Invocation : Doing(j)' => Doing(j) BY DEF Doing
<1>2. ASSUME NEW j \in Invocation, Doing(j)' PROVE status' = "EXITING"
  <2>1. Doing(j) /\ status = "EXITING" BY <1>1, <1>2 DEF Sole
  <2>2. Doing(k) /\ ~ Doing(k)' => j = k BY <2>1 DEF Sole
  <2> QED BY <1>2, <2>1, <2>2
<1> QED BY <1>1, <1>2 DEF Sole

\* A call reads the position: if it is EXITING nobody else executes its exit.
LEMMA SoleReadStep ==
  ASSUME IInv, Sole, ~ mishap', NEW k \in Invocation, ListOpenPositions(k) \/ GetPosition(k)
  PROVE  Sole'
<1>1. PICK to \in {"manage", "claim", "exit"} :
        /\ ReadPosition(k, to) /\ status \in {"ACTIVE", "EXITING"}
        /\ to = "exit" => status = "EXITING"
  BY DEF ListOpenPositions, GetPosition, OpenStatus
<1>2. status' = status /\ pc[k] \in {"positions", "by hand"}
  BY DEF ListOpenPositions, GetPosition, row
<1>3. /\ pc'[k] = to /\ seen'[k].status = status
      /\ \A j \in Invocation \ {k} : pc'[j] = pc[j] /\ seen'[j] = seen[j]
  BY <1>1 DEF ReadPosition, To, IInv, TypeOK
<1>4. CASE status = "ACTIVE"
  <2>1. ~ Doing(k)' BY <1>1, <1>3, <1>4 DEF Doing, Exiting
  <2> QED BY <1>2, <1>3, <2>1, SoleKept
<1>5. CASE status = "EXITING"
  <2>1. \A j \in Invocation \ {k} : ~ Doing(j)
    BY <1>1, <1>5 DEF ReadPosition, Shared, Doing
  <2>2. \A j \in Invocation \ {k} : ~ Doing(j)' BY <1>3, <2>1 DEF Doing
  <2> QED BY <1>2, <1>5, <2>2 DEF Sole
<1> QED BY <1>1, <1>4, <1>5

LEMMA SoleClaimStep ==
  ASSUME IInv, Sole, NEW k \in Invocation, ClaimExit(k) PROVE Sole'
<1>1. status = "ACTIVE" /\ status' = "EXITING" BY DEF ClaimExit
<1>2. \A j \in Invocation \ {k} : pc'[j] = pc[j] /\ seen'[j] = seen[j]
  BY DEF ClaimExit, OnTo, End, To, IInv, TypeOK
<1>3. \A j \in Invocation \ {k} : ~ Doing(j)' BY <1>1, <1>2 DEF Sole, Doing
<1> QED BY <1>1, <1>3 DEF Sole

\* Every other step of a call.
LEMMA SoleStep ==
  ASSUME IInv, Sole, ~ mishap', NEW k \in Invocation, Step(k) PROVE Sole'
<1>1. CASE ListOpenPositions(k) \/ GetPosition(k) BY <1>1, SoleReadStep
<1>2. CASE ClaimExit(k) BY <1>2, SoleClaimStep
<1>3. CASE ListNone(k) \/ GetPositionForWeek(k) \/ ClaimWeek(k) \/ RunLiveExecution(k)
  <2>1. /\ \A j \in Invocation \ {k} : pc'[j] = pc[j] /\ seen'[j] = seen[j]
        /\ pc'[k] \in {"idle", "week", "enter", "execute"} \cup EntryResult
    BY <1>3 DEF ListNone, GetPositionForWeek, ClaimWeek, RunLiveExecution, Go, To, End, IInv, TypeOK
  <2>2. status' = status \/ status # "EXITING"
    BY <1>3 DEF ListNone, GetPositionForWeek, ClaimWeek, RunLiveExecution, Create, WeekFree, row
  <2>3. ~ Doing(k)' BY <2>1 DEF Doing, Exiting, EntryResult
  <2> QED BY <2>1, <2>2, <2>3, SoleKept
<1>4. CASE Leave(k) \/ Forget(k) \/ CloseStateUnknown(k) \/ bumpExitAttempt(k) \/ finalize(k)
           \/ recordSkippedWeek(k) \/ EnterShadow(k) \/ RecordEntry(k)
  <2>1. End(k)
    BY <1>4 DEF Leave, Forget, CloseStateUnknown, bumpExitAttempt, finalize, recordSkippedWeek,
                EnterShadow, RecordEntry
  <2>2. /\ \A j \in Invocation \ {k} : pc'[j] = pc[j] /\ seen'[j] = seen[j]
        /\ pc'[k] = "idle"
    BY <2>1 DEF End, To, IInv, TypeOK
  <2>3. ~ Doing(k)' BY <2>2 DEF Doing, Exiting
  <2>4. CASE Leave(k) \/ Forget(k)
    <3>1. status' = status BY <2>4 DEF Leave, Forget, row
    <3> QED BY <2>2, <2>3, <3>1, SoleKept
  <2>5. CASE CloseStateUnknown(k) \/ bumpExitAttempt(k) \/ finalize(k)
    <3>1. Doing(k) BY <2>5 DEF CloseStateUnknown, bumpExitAttempt, finalize, Doing, Exiting
    <3> QED BY <2>2, <2>3, <3>1, SoleKept
  <2>6. CASE recordSkippedWeek(k) \/ EnterShadow(k)
    <3>1. status = "NONE" BY <2>6 DEF recordSkippedWeek, EnterShadow, Create, WeekFree
    <3> QED BY <2>2, <2>3, <3>1, SoleKept
  <2>7. CASE RecordEntry(k)
    <3>1. pc[k] \in Entering BY <2>7 DEF RecordEntry, Entering, EntryResult
    <3>2. status = "ENTERING" BY <3>1 DEF IInv, Local, EntryOf
    <3> QED BY <2>2, <2>3, <3>2, SoleKept
  <2> QED BY <1>4, <2>4, <2>5, <2>6, <2>7
<1>5. CASE ManagePosition(k)
  <2>1. status' = status BY <1>5 DEF ManagePosition, row
  <2>2. /\ pc[k] = "manage" /\ (pc'[k] = "claim" \/ seen[k].status = "EXITING")
        /\ \A j \in Invocation \ {k} : pc'[j] = pc[j] /\ seen'[j] = seen[j]
    BY <1>5 DEF ManagePosition, To, IInv, TypeOK
  <2>3. Doing(k)' => Doing(k) BY <2>2 DEF Doing, Exiting
  <2> QED BY <2>1, <2>2, <2>3, SoleKept
<1>6. CASE ExecuteExit(k) \/ Settle(k) \/ SendClose(k) \/ SendFails(k) \/ NotFilled(k) \/ TimedOut(k)
  <2>1. status' = status /\ pc[k] \in Exiting
    BY <1>6 DEF ExecuteExit, Settle, SendClose, SendFails, NotFilled, TimedOut, Go, row, Exiting
  <2>2. \A j \in Invocation \ {k} : pc'[j] = pc[j] /\ seen'[j] = seen[j]
    BY <1>6 DEF ExecuteExit, Settle, SendClose, SendFails, NotFilled, TimedOut, Go, To, IInv, TypeOK
  <2>3. Doing(k) BY <2>1 DEF Doing
  <2> QED BY <2>1, <2>2, <2>3, SoleKept
<1>7. CASE CloseShadowLeg(k) \/ Filled(k)
  <2>1. PICK l \in NextLeg(k) : LegClosed(k, l) BY <1>7 DEF CloseShadowLeg, Filled
  <2>2. status' = status /\ pc[k] \in Exiting
    BY <1>7, <2>1 DEF CloseShadowLeg, Filled, LegClosed, Exiting
  <2>3. \A j \in Invocation \ {k} : pc'[j] = pc[j] /\ seen'[j] = seen[j]
    BY <2>1 DEF LegClosed, To, IInv, TypeOK
  <2>4. Doing(k) BY <2>2 DEF Doing
  <2> QED BY <2>2, <2>3, <2>4, SoleKept
<1> QED BY <1>1, <1>2, <1>3, <1>4, <1>5, <1>6, <1>7 DEF Step

\* What has gone wrong is not forgotten.
LEMMA MishapStays == IInv /\ [Next]_vars /\ mishap => mishap'
<1> SUFFICES ASSUME [Next]_vars, mishap PROVE mishap' OBVIOUS
<1>1. ASSUME NEW k \in Invocation, Step(k) PROVE mishap'
  <2>1. CASE ListOpenPositions(k) \/ ListNone(k) \/ GetPosition(k) \/ Leave(k) \/ ManagePosition(k)
    BY <2>1 DEF ListOpenPositions, ListNone, GetPosition, Leave, ManagePosition, ReadPosition
  <2>2. CASE ClaimExit(k) \/ ExecuteExit(k) \/ Settle(k) \/ CloseShadowLeg(k) \/ SendClose(k)
    BY <2>2 DEF ClaimExit, ExecuteExit, Settle, CloseShadowLeg, LegClosed, SendClose
  <2>3. CASE SendFails(k) \/ Filled(k) \/ NotFilled(k) \/ TimedOut(k) \/ CloseStateUnknown(k)
    BY <2>3 DEF SendFails, Filled, LegClosed, NotFilled, TimedOut, CloseStateUnknown
  <2>4. CASE Forget(k) \/ bumpExitAttempt(k) \/ finalize(k) \/ GetPositionForWeek(k)
    BY <2>4 DEF Forget, bumpExitAttempt, finalize, GetPositionForWeek
  <2>5. CASE recordSkippedWeek(k) \/ EnterShadow(k) \/ ClaimWeek(k) \/ RunLiveExecution(k)
             \/ RecordEntry(k)
    BY <2>5 DEF recordSkippedWeek, EnterShadow, ClaimWeek, RunLiveExecution, RecordEntry
  <2> QED BY <1>1, <2>1, <2>2, <2>3, <2>4, <2>5 DEF Step
<1>2. ASSUME NEW k \in Invocation, Tick(k) \/ CloseManually(k) \/ FillOrder(k) \/ KillOrder(k)
      PROVE  mishap'
  BY <1>2 DEF Tick, CloseManually, FillOrder, KillOrder
<1>3. CASE (\E l \in Leg : StrayEnds(l)) \/ SafetyTime \/ Expire
  BY <1>3 DEF StrayEnds, SafetyTime, Expire
<1>4. CASE UNCHANGED vars BY <1>4 DEF vars
<1> QED BY <1>1, <1>2, <1>3, <1>4 DEF Next

LEMMA InitSole == Init => SoleInv
<1> SUFFICES ASSUME Init PROVE \A k \in Invocation : ~ Doing(k) BY DEF SoleInv, Sole
<1> QED BY DEF Init, Doing, Exiting

LEMMA NextSole == IInv /\ SoleInv /\ [Next]_vars => SoleInv'
<1> SUFFICES ASSUME IInv, SoleInv, [Next]_vars, ~ mishap' PROVE Sole' BY DEF SoleInv
<1>1. Sole BY MishapStays DEF SoleInv
<1>2. ASSUME NEW k \in Invocation, Step(k) PROVE Sole' BY <1>1, <1>2, SoleStep
<1>3. ASSUME NEW k \in Invocation, Tick(k) \/ CloseManually(k) PROVE Sole'
  <2>1. /\ status' = status
        /\ \A j \in Invocation \ {k} : pc'[j] = pc[j] /\ seen'[j] = seen[j]
        /\ pc'[k] \in {"positions", "by hand"}
    BY <1>3 DEF Tick, CloseManually, Go, To, row, IInv, TypeOK
  <2>2. ~ Doing(k)' BY <2>1 DEF Doing, Exiting
  <2> QED BY <1>1, <2>1, <2>2, SoleKept
<1>4. CASE \/ \E k \in Invocation : FillOrder(k) \/ KillOrder(k)
           \/ \E l \in Leg : StrayEnds(l)
           \/ SafetyTime \/ Expire \/ UNCHANGED vars
  <2>1. UNCHANGED <<status, pc, seen>>
    BY <1>4 DEF FillOrder, KillOrder, StrayEnds, SafetyTime, Expire, vars, row
  <2> QED BY <1>1, <2>1 DEF Sole, Doing
<1> QED BY <1>2, <1>3, <1>4 DEF Next

-----------------------------------------------------------------------------
(* Theorems *)

\* IInv is an inductive invariant of the engine.
THEOREM Inductive == Spec => []IInv
BY InitIInv, NextIInv, PTL DEF Spec

\* The state is always what the declarations say: in particular exit_attempts never
\* passes MAX_EXIT_ATTEMPTS (bumpExitAttempt, engine.ts:488-498).
THEOREM TypeCorrect == Spec => []TypeOK
<1>1. IInv => TypeOK BY DEF IInv
<1> QED BY <1>1, Inductive, PTL

\* However many calls overlap and whatever is lost, the wing is never sold while the
\* short may still be open (executeExit, engine.ts:430-438).
THEOREM NoNakedShortHolds == Spec => []NoNakedShort
<1>1. IInv => NoNakedShort
  <2> SUFFICES ASSUME IInv, SellingWing PROVE closes[Short] > 0 BY DEF NoNakedShort
  <2>1. CASE closes[Wing] > 0 \/ stray[Wing] > 0 BY <2>1 DEF IInv, RowInv
  <2>2. ASSUME NEW k \in Invocation, order[k] # "none", NextLeg(k) = {Wing}
        PROVE  closes[Short] > 0
    <3>1. mode = "AUTO" /\ pc[k] \in {"await", "unknown"} BY <2>2 DEF IInv, Local, OrderOf
    <3> QED BY <2>2, <3>1, ShortClosed
  <2> QED BY <2>1, <2>2 DEF SellingWing
<1> QED BY <1>1, Inductive, PTL

\* A CLOSED real position has no leg left open at the broker (finalize, engine.ts:500-505).
THEOREM ClosedIsFlatHolds == Spec => []ClosedIsFlat
<1>1. IInv => ClosedIsFlat BY DEF IInv, RowInv
<1> QED BY <1>1, Inductive, PTL

\* The week's entry is executed at most once (enter, engine.ts:310-322).
THEOREM EnteredOnceHolds == Spec => []EnteredOnce
<1>1. IInv => EnteredOnce BY DEF IInv, RowInv
<1> QED BY <1>1, Inductive, PTL

\* No later tick and no user takes a position out of CLOSE_FAILED, unless a mishap left a
\* second executor running: without one the executor is alone, and it is gone once it has
\* given up (bumpExitAttempt, engine.ts:488-498; listOpenPositions).
THEOREM GivenUpStaysHolds == Spec => GivenUpStays
<1>1. IInv /\ SoleInv /\ [Next]_vars =>
        [status = "CLOSE_FAILED" /\ ~ mishap => status' = "CLOSE_FAILED"]_vars
  <2> SUFFICES ASSUME IInv, SoleInv, Next, status = "CLOSE_FAILED", ~ mishap
               PROVE  status' = "CLOSE_FAILED"
    OBVIOUS
  <2>1. \A k \in Invocation : ~ Doing(k) BY DEF SoleInv, Sole
  <2>2. ASSUME NEW k \in Invocation, Step(k) PROVE status' = "CLOSE_FAILED"
    <3>1. pc[k] \notin Exiting /\ pc[k] \notin EntryResult
      BY <2>1 DEF Doing, IInv, Local, EntryOf, Entering
    <3>2. ~ finalize(k) /\ ~ RecordEntry(k)
      BY <3>1 DEF finalize, RecordEntry, Exiting, EntryResult
    <3>3. CASE ListOpenPositions(k) \/ ListNone(k) \/ GetPosition(k) \/ Leave(k) \/ ManagePosition(k)
      BY <3>3 DEF ListOpenPositions, ListNone, GetPosition, Leave, ManagePosition, row
    <3>4. CASE ClaimExit(k) \/ ExecuteExit(k) \/ Settle(k) \/ CloseShadowLeg(k) \/ SendClose(k)
      BY <3>4 DEF ClaimExit, ExecuteExit, Settle, CloseShadowLeg, LegClosed, SendClose, row
    <3>5. CASE SendFails(k) \/ Filled(k) \/ NotFilled(k) \/ TimedOut(k) \/ CloseStateUnknown(k)
      BY <3>5 DEF SendFails, Filled, LegClosed, NotFilled, TimedOut, CloseStateUnknown, SetStatus, row
    <3>6. CASE Forget(k) \/ bumpExitAttempt(k) \/ GetPositionForWeek(k)
      BY <3>6 DEF Forget, bumpExitAttempt, GetPositionForWeek, row
    <3>7. CASE recordSkippedWeek(k) \/ EnterShadow(k) \/ ClaimWeek(k) \/ RunLiveExecution(k)
      BY <3>7 DEF recordSkippedWeek, EnterShadow, ClaimWeek, Create, WeekFree, RunLiveExecution, row
    <3> QED BY <2>2, <3>2, <3>3, <3>4, <3>5, <3>6, <3>7 DEF Step
  <2>3. ASSUME NEW k \in Invocation, Tick(k) \/ CloseManually(k) \/ FillOrder(k) \/ KillOrder(k)
        PROVE  status' = "CLOSE_FAILED"
    BY <2>3 DEF Tick, CloseManually, FillOrder, KillOrder, row
  <2>4. CASE (\E l \in Leg : StrayEnds(l)) \/ SafetyTime \/ Expire
    BY <2>4 DEF StrayEnds, SafetyTime, Expire, row
  <2> QED BY <2>2, <2>3, <2>4 DEF Next
<1> QED BY <1>1, InitIInv, NextIInv, InitSole, NextSole, PTL DEF Spec, GivenUpStays

-----------------------------------------------------------------------------
(* The worker of the Alpha Ladder, for any number of socket slots, any     *)
(* limit of failures and any session: the source keeps one connection, a   *)
(* session that was judged broken stays so, and a signal is not fired on a *)
(* path with a hole that a restart could have seen.                        *)

Live == {s \in Socket : sock[s] # "none"}

\* A socket that lives is the current one, subscribed once if it is open and not yet if
\* it is not; a timer runs only when none lives, and neither before the process dials.
FeedInv ==
  /\ sock \in [Socket -> {"none", "dialing", "open"}] /\ sent \in [Socket -> Nat]
  /\ timers \in {0, 1} /\ (timers = 1 => Live = {})
  /\ \A s \in Live : s = current
  /\ \A s \in Socket : /\ sock[s] = "dialing" => sent[s] = 0
                       /\ sock[s] = "open" => sent[s] = 1
  /\ worker \in {"down", "loading"} => Live = {} /\ timers = 0
  /\ worker \notin {"down", "loading"} => subscribed

LEMMA FeedInitial == SessionInit => FeedInv
BY DEF SessionInit, FeedInit, FeedInv, Live

\* openSocket takes a free slot when nothing lives and no timer is left.
LEMMA Opened ==
  ASSUME FeedInv, Live = {}, openSocket, timers' = 0, subscribed', worker' \notin {"down", "loading"}
  PROVE  FeedInv'
<1> DEFINE slot == CHOOSE s \in {s \in Socket : sock[s] = "none"} : TRUE
<1>1. slot \in Socket
  BY DEF openSocket
<1>2. /\ sock' = [sock EXCEPT ![slot] = "dialing"] /\ sent' = [sent EXCEPT ![slot] = 0]
      /\ current' = slot
  BY DEF openSocket
<1>3. \A s \in Socket : sock[s] = "none"
  BY DEF Live
<1> HIDE DEF slot
<1>4. sock' \in [Socket -> {"none", "dialing", "open"}] /\ sent' \in [Socket -> Nat]
  BY <1>1, <1>2 DEF FeedInv
<1>5. \A s \in Socket : sock'[s] = IF s = slot THEN "dialing" ELSE "none"
  BY <1>1, <1>2, <1>3 DEF FeedInv
<1>6. sent'[slot] = 0
  BY <1>1, <1>2 DEF FeedInv
<1> QED
  BY <1>2, <1>4, <1>5, <1>6 DEF FeedInv, Live

LEMMA SocketStep ==
  ASSUME FeedInv, worker' = worker, NEW s \in Socket,
         SocketOpens(s) \/ ControlFrame(s) \/ SocketError(s) \/ SocketCloses(s) \/ DepthFrame(s)
  PROVE  FeedInv'
<1>1. CASE SocketOpens(s)
  <2>1. s = current /\ subscribed /\ sent[s] = 0 /\ Live = {s} /\ timers = 0
    BY <1>1 DEF FeedInv, Live, SocketOpens
  <2>2. sent' = [sent EXCEPT ![s] = 1] /\ sock' = [sock EXCEPT ![s] = "open"]
    BY <1>1, <2>1 DEF SocketOpens, sendSubscription, FeedInv
  <2>3. UNCHANGED <<current, timers, subscribed>>
    BY <1>1 DEF SocketOpens
  <2> QED
    BY <2>1, <2>2, <2>3 DEF FeedInv, Live
<1>2. CASE ControlFrame(s) \/ SocketError(s) \/ DepthFrame(s)
  BY <1>2 DEF ControlFrame, SocketError, DepthFrame, FeedInv, Live
<1>3. CASE SocketCloses(s)
  <2>1. s = current /\ Live = {s} /\ timers = 0
    BY <1>3 DEF FeedInv, Live, SocketCloses
  <2>2. sock' = [sock EXCEPT ![s] = "none"] /\ timers' \in {0, 1}
    BY <1>3, <2>1 DEF SocketCloses
  <2>3. Live' = {}
    BY <2>1, <2>2 DEF Live, FeedInv
  <2>4. worker \notin {"down", "loading"}
    BY <2>1 DEF FeedInv
  <2>5. UNCHANGED <<sent, current, subscribed>>
    BY <1>3 DEF SocketCloses
  <2> QED
    BY <2>2, <2>3, <2>4, <2>5 DEF FeedInv, Live
<1> QED
  BY <1>1, <1>2, <1>3

LEMMA FeedStep == FeedInv /\ [SessionNext]_sessionVars => FeedInv'
<1> SUFFICES ASSUME FeedInv, [SessionNext]_sessionVars PROVE FeedInv'
  OBVIOUS
<1>1. CASE LoadCheckpoint
  BY <1>1 DEF LoadCheckpoint, feed, FeedInv, Live
<1>2. CASE ConnectFeed
  <2>1. Live = {} /\ timers' = 0 /\ openSocket /\ subscribed' /\ worker' = "connected"
    BY <1>2 DEF ConnectFeed, Connect, FeedInv
  <2> QED
    BY <2>1, Opened
<1>3. CASE AssessIntegrity \/ SaveCheckpoint \/ FireSignal \/ NextSlot \/ UNCHANGED sessionVars
  BY <1>3 DEF AssessIntegrity, SaveCheckpoint, FireSignal, NextSlot, sessionVars, feed, FeedInv, Live
<1>4. ASSUME NEW s \in Socket, DepthTick(s) PROVE FeedInv'
  BY <1>4, SocketStep DEF DepthTick
<1>5. CASE FeedEvent
  <2>1. ASSUME NEW s \in Socket, SocketOpens(s) \/ ControlFrame(s) \/ SocketError(s) \/ SocketCloses(s)
        PROVE  FeedInv'
    BY <1>5, <2>1, SocketStep DEF FeedEvent
  <2>2. CASE Redial
    <3>1. Live = {} /\ timers' = 0 /\ openSocket /\ worker' = worker /\ worker \notin {"down", "loading"}
          /\ subscribed'
      BY <1>5, <2>2 DEF FeedEvent, Redial, FeedInv
    <3> QED
      BY <3>1, Opened
  <2> QED
    BY <1>5, <2>1, <2>2 DEF FeedEvent
<1>6. CASE Crash
  BY <1>6 DEF Crash, FeedReset, FeedInv, Live
<1> QED
  BY <1>1, <1>2, <1>3, <1>4, <1>5, <1>6 DEF SessionNext

\* One connection at a time, which has been subscribed once, whatever the order in which
\* sockets open, fail and close, timers fire and the process is restarted.
THEOREM OneSocketHolds == SessionSpec => []OneSocket
<1>1. FeedInv => OneSocket
  <2> SUFFICES ASSUME FeedInv PROVE OneSocket
    OBVIOUS
  <2>1. CASE Live = {}
    <3>1. Cardinality(Live) = 0
      BY <2>1, FS_EmptySet
    <3> QED
      BY <2>1, <3>1 DEF OneSocket, FeedInv, Live
  <2>2. ASSUME NEW s \in Live PROVE OneSocket
    <3>1. Live = {s} /\ timers = 0
      BY <2>2 DEF FeedInv
    <3>2. Cardinality({s}) = 1
      BY FS_Singleton
    <3> QED
      BY <3>1, <3>2 DEF OneSocket, FeedInv, Live
  <2> QED
    BY <2>1, <2>2
<1> QED
  BY FeedInitial, FeedStep, <1>1, PTL DEF SessionSpec

-----------------------------------------------------------------------------

\* A process that has judged the session knows of a gap row, unless a row was not read
\* or not written.
GapInv == gapRow /\ ~ lost /\ worker = "up" => invalid

LEMMA GapStep == GapInv /\ [SessionNext]_sessionVars => GapInv'
<1> SUFFICES ASSUME GapInv, [SessionNext]_sessionVars PROVE GapInv'
  OBVIOUS
<1>1. CASE LoadCheckpoint
  BY <1>1 DEF LoadCheckpoint, GapInv
<1>2. CASE ConnectFeed
  BY <1>2 DEF ConnectFeed, GapInv
<1>3. CASE AssessIntegrity
  <2>1. PICK prior \in {gapRow, FALSE}, written \in BOOLEAN :
          LET broken == prior \/ ~ SessionIntact
          IN  /\ invalid' = (invalid \/ broken)
              /\ gapRow' = (gapRow \/ (broken /\ ~ prior /\ written))
              /\ lost' = (lost \/ (gapRow /\ ~ prior) \/ (broken /\ ~ prior /\ ~ written))
    BY <1>3 DEF AssessIntegrity
  <2> QED
    BY <2>1, Zenon DEF GapInv
<1>4. CASE SaveCheckpoint \/ FireSignal \/ NextSlot \/ UNCHANGED sessionVars
  BY <1>4 DEF SaveCheckpoint, FireSignal, NextSlot, sessionVars, memory, stored, GapInv
<1>5. CASE FeedEvent \/ \E s \in Socket : DepthTick(s)
  BY <1>5 DEF FeedEvent, DepthTick, memory, stored, GapInv
<1>6. CASE Crash
  BY <1>6 DEF Crash, GapInv
<1> QED
  BY <1>1, <1>2, <1>3, <1>4, <1>5, <1>6 DEF SessionNext

\* Once a feed-gap row of the day is stored no process fires a signal any more, whatever
\* checkpoint it restarts from.
THEOREM InvalidStaysHolds == SessionSpec => InvalidStays
<1>1. SessionInit => GapInv
  BY DEF SessionInit, GapInv
<1>2. GapInv /\ [SessionNext]_sessionVars => [gapRow /\ ~ lost => signal' = signal]_sessionVars
  <2> SUFFICES ASSUME GapInv, SessionNext, gapRow, ~ lost PROVE signal' = signal
    OBVIOUS
  <2>1. ~ FireSignal
    BY DEF FireSignal, canFireNewSignal, GapInv
  <2>2. CASE FeedEvent \/ \E s \in Socket : DepthTick(s)
    BY <2>2 DEF FeedEvent, DepthTick, stored
  <2>3. CASE LoadCheckpoint \/ ConnectFeed \/ AssessIntegrity \/ SaveCheckpoint \/ Crash \/ NextSlot
    BY <2>3 DEF LoadCheckpoint, ConnectFeed, AssessIntegrity, SaveCheckpoint, Crash, NextSlot, stored
  <2> QED
    BY <2>1, <2>2, <2>3 DEF SessionNext
<1> QED
  BY <1>1, <1>2, GapStep, PTL DEF SessionSpec, InvalidStays

-----------------------------------------------------------------------------
(* Holes *)

\* What a checkpoint, or the accumulator, is made of.
IsAcc(a) ==
  a = [snaps |-> a.snaps, closed |-> a.closed, pending |-> a.pending, rawFrom |-> a.rawFrom]
IsCkpt(c) == c = [snaps |-> c.snaps, closed |-> c.closed, pending |-> c.pending]

Sound(a) ==
  /\ a.closed \in Nat /\ a.snaps \subseteq 1 .. a.closed /\ a.pending \subseteq 0 .. now
  /\ a.closed = 0 \/ a.closed < BucketOf(now)

\* Bucket b has data, or will have when it is closed, or a process was running in it.
Seen(a, b) ==
  \/ b \in watched \/ b \in a.snaps
  \/ b = a.closed + 1 /\ \E t \in a.pending : t < EndOf(b)

Cover(a) == \A b \in 1 .. BucketOf(now) : Seen(a, b)

\* A checkpoint may stop short of the open: no tick had come.
NoTick(c) == c.closed = 0 /\ c.pending = {}
CkptOk(c) == \A b \in 1 .. c.closed + 1 : Seen(c, b) \/ NoTick(c)

\* The process that restored such a checkpoint too late, whatever it has ingested since.
Uncovered ==
  /\ now >= EndOf(1) /\ 1 \notin acc.snaps
  /\ \A t \in acc.pending \cup proof.pending : t >= EndOf(1)

DataInv ==
  /\ now \in Nat /\ IsAcc(acc) /\ Sound(acc)
  /\ ckpt # None => IsCkpt(ckpt) /\ Sound(ckpt)
  /\ proof # None => IsCkpt(proof) /\ proof.snaps = acc.snaps /\ proof.pending \subseteq Nat

\* Unless the session was judged broken, what is in memory and in the checkpoint is seen.
JudgedInv ==
  /\ worker = "up" /\ ~ gapRow /\ ~ lost => Cover(acc)
  /\ ckpt # None /\ ~ gapRow /\ ~ lost => CkptOk(ckpt)
  /\ /\ worker \in {"loading", "connected"} /\ proof # None
     /\ ~ late /\ ~ gapRow /\ ~ lost
     => Cover(acc) \/ Uncovered

HoleInv == DataInv /\ JudgedInv /\ HolesWatched

-----------------------------------------------------------------------------
(* Slots and buckets *)

LEMMA DivFacts ==
  ASSUME NEW x \in Nat, NEW b \in Nat \ {0}
  PROVE  /\ x \div b \in Nat /\ b * (x \div b) <= x /\ x < b * (x \div b) + b
OBVIOUS

\* A slot lies in its bucket.
LEMMA BucketFacts ==
  ASSUME NEW t \in Nat
  PROVE  /\ BucketOf(t) \in Nat
         /\ t < Open => BucketOf(t) = 0
         /\ t >= Open => /\ BucketOf(t) >= 1
                         /\ Bucket * (BucketOf(t) - 1) <= t - Open
                         /\ t - Open < Bucket * (BucketOf(t) - 1) + Bucket
<1>1. CASE t < Open BY <1>1, SessionAssumption DEF BucketOf
<1>2. CASE t >= Open
  <2>1. t - Open \in Nat /\ Bucket \in Nat \ {0} BY <1>2, SessionAssumption
  <2> DEFINE q == (t - Open) \div Bucket
  <2>2. q \in Nat /\ Bucket * q <= t - Open /\ t - Open < Bucket * q + Bucket
    BY <2>1, DivFacts
  <2>3. BucketOf(t) = q + 1 BY <1>2, SessionAssumption DEF BucketOf
  <2>4. ~ (t < Open) BY <1>2, SessionAssumption
  <2> HIDE DEF q
  <2> QED BY <2>2, <2>3, <2>4
<1> QED BY <1>1, <1>2, SessionAssumption

LEMMA ProductOrder ==
  ASSUME NEW b \in Nat \ {0}, NEW m \in Int, NEW n \in Int, b * m < b * n
  PROVE  m < n
OBVIOUS

\* A slot before the end of bucket n is in it or before.
LEMMA BucketBefore ==
  ASSUME NEW t \in Nat, NEW n \in Nat, t < Open + n * Bucket
  PROVE  BucketOf(t) <= n
<1>1. CASE t < Open BY <1>1, BucketFacts
<1>2. CASE t >= Open
  <2>1. Bucket * (BucketOf(t) - 1) < Bucket * n
    <3>1. Bucket * (BucketOf(t) - 1) <= t - Open BY <1>2, BucketFacts
    <3>2. t - Open < Bucket * n BY SessionAssumption
    <3>3. Bucket * (BucketOf(t) - 1) \in Int /\ Bucket * n \in Int /\ t - Open \in Int
      BY BucketFacts, SessionAssumption
    <3> QED BY <3>1, <3>2, <3>3
  <2>2. BucketOf(t) - 1 < n BY <2>1, ProductOrder, BucketFacts, SessionAssumption
  <2> QED BY <2>2, BucketFacts
<1> QED BY <1>1, <1>2, SessionAssumption

LEMMA BucketNext ==
  ASSUME NEW t \in Nat
  PROVE  BucketOf(t) <= BucketOf(t + 1) /\ BucketOf(t + 1) <= BucketOf(t) + 1
<1>1. CASE t < Open
  <2>1. t + 1 < Open + 1 * Bucket BY <1>1, SessionAssumption
  <2>2. BucketOf(t + 1) <= 1 BY <2>1, BucketBefore
  <2> QED BY <1>1, <2>2, BucketFacts
<1>2. CASE t >= Open
  <2>1. BucketOf(t) \in Nat /\ BucketOf(t + 1) \in Nat BY BucketFacts
  <2>2. Bucket * (BucketOf(t) - 1) < Bucket * BucketOf(t + 1)
    <3>1. Bucket * (BucketOf(t) - 1) <= t - Open BY <1>2, BucketFacts
    <3>2. t + 1 >= Open /\ t + 1 \in Nat BY <1>2, SessionAssumption
    <3>3. (t + 1) - Open < Bucket * (BucketOf(t + 1) - 1) + Bucket BY <3>2, BucketFacts
    <3>4. Bucket * (BucketOf(t + 1) - 1) + Bucket = Bucket * BucketOf(t + 1)
      BY <2>1, SessionAssumption
    <3>5. Bucket * (BucketOf(t) - 1) \in Int /\ Bucket * BucketOf(t + 1) \in Int
      BY <2>1, SessionAssumption
    <3> QED BY <3>1, <3>3, <3>4, <3>5, SessionAssumption
  <2>3. BucketOf(t) - 1 < BucketOf(t + 1) BY <2>1, <2>2, ProductOrder, SessionAssumption
  <2>4. t - Open < Bucket * BucketOf(t) /\ t + 1 - Open <= Bucket * BucketOf(t)
    BY <1>2, <2>1, BucketFacts, SessionAssumption
  <2>5. t + 1 < Open + (BucketOf(t) + 1) * Bucket BY <2>1, <2>4, SessionAssumption
  <2>6. BucketOf(t + 1) <= BucketOf(t) + 1 BY <2>1, <2>5, BucketBefore
  <2> QED BY <2>1, <2>3, <2>6
<1> QED BY <1>1, <1>2, SessionAssumption

LEMMA MaxOfTwo ==
  ASSUME NEW m \in Int, NEW n \in Int
  PROVE  Max({m, n}) = IF m >= n THEN m ELSE n
BY DEF Max

-----------------------------------------------------------------------------
(* The accumulator *)

\* A tick keeps the accumulator sound and leaves no bucket unseen that was seen.
LEMMA IngestFacts ==
  ASSUME now \in Nat, IsAcc(acc), Sound(acc)
  PROVE  /\ IsAcc(ingest(acc)) /\ Sound(ingest(acc))
         /\ Cover(acc) => Cover(ingest(acc))
         /\ ingest(acc).pending \subseteq acc.pending \cup {now}
         /\ /\ 1 \notin acc.snaps /\ \A t \in acc.pending \cup {now} : t >= EndOf(1)
            => 1 \notin ingest(acc).snaps
<1> DEFINE pushed == [acc EXCEPT !.pending = @ \cup {now}]
           last == Max({acc.closed, BucketOf(now) - 1})
           done == (acc.closed + 1) .. last
           next == ingest(acc)
<1>1. /\ pushed.pending = acc.pending \cup {now} /\ pushed.closed = acc.closed
  BY DEF IsAcc
<1>2. BucketOf(now) \in Nat /\ acc.closed \in Nat BY BucketFacts DEF Sound
<1>3. /\ last \in Nat /\ last >= acc.closed /\ last >= BucketOf(now) - 1
      /\ last = acc.closed \/ last = BucketOf(now) - 1
  BY <1>2, MaxOfTwo
<1>4. /\ next.snaps = acc.snaps \cup {b \in done : InInterval(pushed, b) # {}}
      /\ next.closed = last
      /\ next.pending = {t \in pushed.pending : t >= EndOf(last) \/ last = acc.closed}
      /\ IsAcc(next)
  BY DEF ingest, IsAcc
<1> HIDE DEF pushed, last, next
<1>5. Sound(next)
  <2>1. done \subseteq 1 .. last BY <1>2, <1>3
  <2>2. next.snaps \subseteq 1 .. last BY <1>2, <1>3, <1>4, <2>1 DEF Sound
  <2>3. next.pending \subseteq 0 .. now BY <1>1, <1>4 DEF Sound
  <2>4. last = 0 \/ last < BucketOf(now) BY <1>2, <1>3 DEF Sound
  <2> QED BY <1>3, <1>4, <2>2, <2>3, <2>4 DEF Sound
<1>6. ASSUME Cover(acc), NEW b \in 1 .. BucketOf(now) PROVE Seen(next, b)
  <2>1. CASE b \in watched \/ b \in acc.snaps BY <1>4, <2>1 DEF Seen
  <2>2. ASSUME b = acc.closed + 1, NEW t \in acc.pending, t < EndOf(b) PROVE Seen(next, b)
    <3>1. CASE last = acc.closed
      BY <1>1, <1>4, <2>2, <3>1 DEF Seen
    <3>2. CASE last # acc.closed
      <4>1. b \in done BY <1>2, <1>3, <2>2, <3>2
      <4>2. t \in InInterval(pushed, b) BY <1>1, <2>2 DEF InInterval
      <4> QED BY <1>4, <4>1, <4>2 DEF Seen
    <3> QED BY <3>1, <3>2
  <2> QED BY <1>6, <2>1, <2>2 DEF Cover, Seen
<1>7. ASSUME 1 \notin acc.snaps, \A t \in acc.pending \cup {now} : t >= EndOf(1)
      PROVE  1 \notin next.snaps
  <2>1. InInterval(pushed, 1) = {}
    <3>1. \A t \in pushed.pending : t \in Nat /\ t >= EndOf(1) BY <1>1, <1>7 DEF Sound
    <3>2. EndOf(1) \in Nat BY SessionAssumption DEF EndOf
    <3> QED BY <3>1, <3>2 DEF InInterval
  <2> QED BY <1>4, <1>7, <2>1
<1> QED BY <1>1, <1>4, <1>5, <1>6, <1>7 DEF Cover, next

\* A session without the first bucket does not pass the coverage check.
LEMMA UncoveredFound ==
  ASSUME DataInv, proof # None, Uncovered
  PROVE  ~ hasContinuousCoverageFromOpen(proof)
<1>1. acc.closed \in Nat /\ acc.snaps \subseteq 1 .. acc.closed /\ proof.snaps = acc.snaps
  BY DEF DataInv, Sound
<1>2. CASE acc.snaps = {}
  <2>1. EndOf(1) \in Nat BY SessionAssumption DEF EndOf
  <2>2. \A t \in proof.pending : ~ (t < EndOf(1))
    BY <2>1 DEF Uncovered, DataInv
  <2> QED BY <1>1, <1>2, <2>2 DEF hasContinuousCoverageFromOpen
<1>3. CASE acc.snaps # {}
  <2>1. IsFiniteSet(acc.snaps)
    <3>1. 1 \in Int /\ acc.closed \in Int BY <1>1
    <3>2. IsFiniteSet(1 .. acc.closed) BY <3>1, FS_Interval
    <3> QED BY <1>1, <3>2, FS_Subset
  <2>2. Cardinality(acc.snaps) \in Nat \ {0} BY <1>3, <2>1, FS_CardinalityType, FS_EmptySet
  <2>3. 1 \in 1 .. Cardinality(acc.snaps) BY <2>2
  <2> QED BY <1>1, <1>3, <2>3 DEF hasContinuousCoverageFromOpen, Uncovered
<1> QED BY <1>2, <1>3

-----------------------------------------------------------------------------
(* The steps *)

\* A step that changes neither the data nor what is known of it.
LEMMA SameData ==
  ASSUME HoleInv, UNCHANGED <<now, acc, proof, late, invalid, ckpt, gapRow, signal, watched, lost>>,
         worker' = worker \/ (worker = "loading" /\ worker' = "connected")
  PROVE  HoleInv'
BY DEF HoleInv, DataInv, JudgedInv, IsAcc, IsCkpt, Sound, Cover, CkptOk, Seen, NoTick, Uncovered,
       HolesWatched, Holes, BucketOf

LEMMA LoadStep == HoleInv /\ LoadCheckpoint => HoleInv'
<1> SUFFICES ASSUME HoleInv, LoadCheckpoint PROVE HoleInv' OBVIOUS
<1>1. PICK c \in {ckpt, None} :
        /\ proof' = c /\ late' = gapDetected(c) /\ invalid' = gapDetected(c)
        /\ acc' = IF c = None THEN Fresh ELSE restoreFromCheckpoint(c)
  BY DEF LoadCheckpoint
<1>2. /\ worker' = "loading" /\ watched' = watched \cup {BucketOf(now)}
      /\ UNCHANGED <<now, ckpt, gapRow, signal, lost>> /\ now \in Nat
  BY DEF LoadCheckpoint, stored, HoleInv, DataInv
<1>3. BucketOf(now) \in Nat BY <1>2, BucketFacts
<1>4. ckpt # None => IsCkpt(ckpt)' /\ Sound(ckpt)' /\ (~ gapRow /\ ~ lost => CkptOk(ckpt)')
  BY <1>2 DEF HoleInv, DataInv, JudgedInv, IsCkpt, Sound, CkptOk, Seen, NoTick, BucketOf
<1>5. HolesWatched' BY <1>2 DEF HoleInv, HolesWatched, Holes
<1>6. CASE c = None
  <2>1. acc' = Fresh /\ proof' = None BY <1>1, <1>6
  <2>2. IsAcc(acc)' /\ Sound(acc)' BY <2>1 DEF IsAcc, Sound, Fresh
  <2>3. DataInv' BY <1>2, <1>4, <2>1, <2>2 DEF DataInv
  <2>4. JudgedInv' BY <1>2, <1>4, <2>1 DEF JudgedInv
  <2> QED BY <1>5, <2>3, <2>4 DEF HoleInv
<1>7. CASE c # None
  <2>1. c = ckpt /\ acc' = restoreFromCheckpoint(ckpt) /\ proof' = ckpt BY <1>1, <1>7
  <2>2. /\ acc'.snaps = ckpt.snaps /\ acc'.closed = ckpt.closed /\ acc'.pending = ckpt.pending
        /\ IsAcc(acc)'
    BY <2>1 DEF restoreFromCheckpoint, IsAcc
  <2>3. IsCkpt(ckpt) /\ Sound(ckpt) BY <1>7, <2>1 DEF HoleInv, DataInv
  <2>4. Sound(acc)' BY <1>2, <2>2, <2>3 DEF Sound, BucketOf
  <2>5. proof'.pending \subseteq Nat BY <2>1, <2>3 DEF Sound
  <2>6. DataInv' BY <1>2, <1>4, <2>1, <2>2, <2>4, <2>5 DEF DataInv
  <2>7. ASSUME ~ late', ~ gapRow, ~ lost PROVE Cover(acc)' \/ Uncovered'
    <3>1. ckpt.closed \in Nat BY <2>3 DEF Sound
    <3>2. BucketOf(now) <= ckpt.closed + 2
      <4>1. now - EndOf(ckpt.closed) <= MaxGap \/ now <= EndOf(ckpt.closed)
        <5>1. ~ gapDetected(ckpt) BY <1>1, <2>1, <2>7
        <5>2. EndOf(ckpt.closed) \in Nat BY <3>1, SessionAssumption DEF EndOf
        <5> QED BY <1>2, <1>7, <2>1, <5>1, <5>2, SessionAssumption DEF gapDetected
      <4>2. EndOf(ckpt.closed) + 2 * Bucket = Open + (ckpt.closed + 2) * Bucket
        BY <3>1, SessionAssumption DEF EndOf
      <4>3. EndOf(ckpt.closed) \in Nat BY <3>1, SessionAssumption DEF EndOf
      <4>4. now < EndOf(ckpt.closed) + 2 * Bucket
        BY <1>2, <4>1, <4>3, SessionAssumption
      <4>5. now < Open + (ckpt.closed + 2) * Bucket BY <4>2, <4>4
      <4> QED BY <1>2, <3>1, <4>5, BucketBefore
    <3>3. CkptOk(ckpt) BY <1>7, <2>1, <2>7 DEF HoleInv, JudgedInv
    <3>4. BucketOf(now)' = BucketOf(now) BY <1>2 DEF BucketOf
    <3>5. CASE NoTick(ckpt) /\ BucketOf(now) >= 2
      <4>1. now >= EndOf(1)
        <5>1. ~ (now < Open + 1 * Bucket) BY <1>2, <1>3, <3>5, BucketBefore
        <5> QED BY <1>2, <5>1, SessionAssumption DEF EndOf
      <4>2. ckpt.pending = {} /\ 1 \notin ckpt.snaps BY <2>3, <3>5 DEF NoTick, Sound
      <4> QED BY <1>2, <2>1, <2>2, <4>1, <4>2 DEF Uncovered, EndOf
    <3>6. CASE ~ (NoTick(ckpt) /\ BucketOf(now) >= 2)
      <4>1. ASSUME NEW b \in 1 .. BucketOf(now) PROVE Seen(acc, b)'
        <5>1. CASE b = BucketOf(now) BY <1>2, <5>1 DEF Seen
        <5>2. CASE b # BucketOf(now)
          <6>1. b \in 1 .. ckpt.closed + 1 /\ BucketOf(now) >= 2 BY <1>3, <3>1, <3>2, <5>2
          <6>2. Seen(ckpt, b) BY <3>3, <3>6, <6>1 DEF CkptOk
          <6> QED BY <1>2, <2>2, <6>2 DEF Seen, EndOf
        <5> QED BY <5>1, <5>2
      <4> QED BY <3>4, <4>1 DEF Cover
    <3> QED BY <3>5, <3>6
  <2>8. JudgedInv' BY <1>2, <1>4, <2>7 DEF JudgedInv
  <2> QED BY <1>5, <2>6, <2>8 DEF HoleInv
<1> QED BY <1>6, <1>7

LEMMA TickStep == ASSUME HoleInv, NEW s \in Socket, DepthTick(s) PROVE HoleInv'
<1>1. /\ acc' = ingest(acc) /\ proof' = Aliased /\ Collecting
      /\ UNCHANGED <<now, worker, late, invalid, ckpt, gapRow, signal, watched, lost>>
  BY DEF DepthTick, stored
<1>2. now \in Nat /\ IsAcc(acc) /\ Sound(acc) BY DEF HoleInv, DataInv
<1>3. /\ IsAcc(acc)' /\ Sound(acc)' /\ (Cover(acc) => Cover(acc)')
      /\ acc'.pending \subseteq acc.pending \cup {now}
  BY <1>1, <1>2, IngestFacts DEF IsAcc, Sound, Cover, Seen, BucketOf, EndOf
<1>4. proof' # None =>
        /\ proof # None /\ IsCkpt(proof)' /\ proof'.snaps = acc'.snaps
        /\ proof'.pending \subseteq proof.pending \cup {now}
  <2> SUFFICES ASSUME proof # None
               PROVE  /\ IsCkpt(Aliased) /\ Aliased.snaps = ingest(acc).snaps
                      /\ Aliased.pending \subseteq proof.pending \cup {now}
    BY <1>1 DEF Aliased, IsCkpt
  <2>1. proof = [snaps |-> proof.snaps, closed |-> proof.closed, pending |-> proof.pending]
    BY DEF HoleInv, DataInv, IsCkpt
  <2> QED BY <2>1 DEF Aliased, IsCkpt
<1>5. DataInv' BY <1>1, <1>2, <1>3, <1>4 DEF HoleInv, DataInv, IsCkpt, Sound, BucketOf
<1>6. proof' # None /\ Uncovered => Uncovered'
  <2> SUFFICES ASSUME proof' # None, Uncovered PROVE Uncovered' OBVIOUS
  <2>1. 1 \notin acc.snaps /\ \A t \in acc.pending \cup {now} : t >= EndOf(1) BY DEF Uncovered
  <2>2. 1 \notin acc'.snaps BY <1>1, <1>2, <2>1, IngestFacts
  <2> QED BY <1>1, <1>3, <1>4, <2>2 DEF Uncovered, EndOf
<1>7. JudgedInv'
  BY <1>1, <1>3, <1>4, <1>6 DEF HoleInv, JudgedInv, CkptOk, Seen, NoTick, EndOf
<1>8. HolesWatched' BY <1>1 DEF HoleInv, HolesWatched, Holes
<1> QED BY <1>5, <1>7, <1>8 DEF HoleInv

LEMMA AssessStep == HoleInv /\ AssessIntegrity => HoleInv'
<1> SUFFICES ASSUME HoleInv, AssessIntegrity PROVE HoleInv' OBVIOUS
<1>1. PICK prior \in {gapRow, FALSE}, written \in BOOLEAN :
        LET broken == prior \/ ~ SessionIntact
        IN  /\ invalid' = (invalid \/ broken)
            /\ gapRow' = (gapRow \/ (broken /\ ~ prior /\ written))
            /\ lost' = (lost \/ (gapRow /\ ~ prior) \/ (broken /\ ~ prior /\ ~ written))
  BY DEF AssessIntegrity
<1>2. /\ worker = "connected" /\ worker' = "up" /\ proof' = None
      /\ UNCHANGED <<now, acc, ckpt, signal, watched>>
  BY DEF AssessIntegrity
<1>3. (lost => lost') /\ (gapRow => gapRow')
  BY <1>1, Zenon
<1>4. DataInv' BY <1>2 DEF HoleInv, DataInv, IsAcc, IsCkpt, Sound, BucketOf
<1>5. HolesWatched' BY <1>2, <1>3 DEF HoleInv, HolesWatched, Holes
<1>6. ckpt' # None /\ ~ gapRow' /\ ~ lost' => CkptOk(ckpt)'
  BY <1>2, <1>3 DEF HoleInv, JudgedInv, CkptOk, Seen, NoTick, EndOf
<1>7. ASSUME ~ gapRow', ~ lost' PROVE Cover(acc)'
  <2>1. SessionIntact /\ ~ gapRow /\ ~ lost BY <1>1, <1>7, Zenon
  <2>2. CASE proof # None
    <3>1. ~ late /\ hasContinuousCoverageFromOpen(proof) BY <2>1, <2>2 DEF SessionIntact
    <3>2. Cover(acc) \/ Uncovered BY <1>2, <2>1, <2>2, <3>1 DEF HoleInv, JudgedInv
    <3>3. Cover(acc) BY <2>2, <3>1, <3>2, UncoveredFound DEF HoleInv
    <3> QED BY <1>2, <3>3 DEF Cover, Seen, BucketOf, EndOf
  <2>3. CASE proof = None
    <3>1. now < Open BY <2>1, <2>3 DEF SessionIntact
    <3>2. BucketOf(now) = 0 BY <3>1, BucketFacts DEF HoleInv, DataInv
    <3>3. BucketOf(now)' = 0 BY <1>2, <3>2 DEF BucketOf
    <3> QED BY <3>3 DEF Cover
  <2> QED BY <2>2, <2>3
<1>8. JudgedInv' BY <1>2, <1>6, <1>7 DEF JudgedInv
<1> QED BY <1>4, <1>5, <1>8 DEF HoleInv

LEMMA SaveStep == HoleInv /\ SaveCheckpoint => HoleInv'
<1> SUFFICES ASSUME HoleInv, SaveCheckpoint PROVE HoleInv' OBVIOUS
<1>1. /\ worker = "up" /\ ckpt' = serializeCheckpoint
      /\ UNCHANGED <<now, worker, acc, proof, late, invalid, gapRow, signal, watched, lost>>
  BY DEF SaveCheckpoint, memory
<1>2. /\ ckpt'.snaps = acc.snaps /\ ckpt'.closed = acc.closed /\ ckpt'.pending = acc.pending
      /\ IsCkpt(ckpt)'
  BY <1>1 DEF serializeCheckpoint, IsCkpt
<1>3. now \in Nat /\ Sound(acc) /\ acc.closed \in Nat /\ BucketOf(now) \in Nat
  BY BucketFacts DEF HoleInv, DataInv, Sound
<1>4. DataInv'
  BY <1>1, <1>2 DEF HoleInv, DataInv, IsAcc, IsCkpt, Sound, BucketOf
<1>5. ASSUME ~ gapRow, ~ lost PROVE CkptOk(ckpt)'
  <2>1. Cover(acc) BY <1>1, <1>5 DEF HoleInv, JudgedInv
  <2>2. ASSUME NEW b \in 1 .. acc.closed + 1, ~ NoTick(acc) PROVE Seen(acc, b)
    <3>1. CASE b <= BucketOf(now) BY <1>3, <2>1, <2>2, <3>1 DEF Cover
    <3>2. CASE ~ (b <= BucketOf(now))
      <4>1. b = 1 /\ acc.closed = 0 /\ BucketOf(now) = 0 BY <1>3, <2>2, <3>2 DEF Sound
      <4>2. now < Open BY <1>3, <4>1, BucketFacts, SessionAssumption
      <4>3. EndOf(1) = Open + Bucket BY SessionAssumption DEF EndOf
      <4>4. PICK t \in acc.pending : TRUE BY <2>2, <4>1 DEF NoTick
      <4>5. t < EndOf(1) BY <1>3, <4>2, <4>3, <4>4, SessionAssumption DEF Sound
      <4> QED BY <4>1, <4>4, <4>5 DEF Seen
    <3> QED BY <3>1, <3>2
  <2> QED BY <1>1, <1>2, <2>2 DEF CkptOk, Seen, NoTick, EndOf
<1>6. JudgedInv'
  BY <1>1, <1>5 DEF HoleInv, JudgedInv, Cover, Seen, Uncovered, EndOf, BucketOf
<1>7. HolesWatched' BY <1>1 DEF HoleInv, HolesWatched, Holes
<1> QED BY <1>4, <1>6, <1>7 DEF HoleInv

\* The buckets of the path have all been closed, and seen.
LEMMA FireStep == HoleInv /\ GapInv /\ FireSignal => HoleInv'
<1> SUFFICES ASSUME HoleInv, GapInv, FireSignal PROVE HoleInv' OBVIOUS
<1>1. /\ worker = "up" /\ ~ invalid
      /\ signal' = [snaps |-> acc.snaps, closed |-> acc.closed, rawFrom |-> acc.rawFrom]
      /\ UNCHANGED <<now, worker, acc, proof, late, invalid, ckpt, gapRow, watched, lost>>
  BY DEF FireSignal, canFireNewSignal, memory
<1>2. DataInv' /\ JudgedInv'
  BY <1>1 DEF HoleInv, DataInv, JudgedInv, IsAcc, IsCkpt, Sound, Cover, CkptOk, Seen, NoTick,
              Uncovered, BucketOf
<1>3. ASSUME ~ lost, NEW b \in 1 .. acc.closed \ acc.snaps PROVE b \in watched
  <2>1. Cover(acc) BY <1>1, <1>3 DEF GapInv, HoleInv, JudgedInv
  <2>2. acc.closed \in Nat /\ BucketOf(now) \in Nat /\ acc.closed < BucketOf(now)
    BY <1>3, BucketFacts DEF HoleInv, DataInv, Sound
  <2>3. b \in 1 .. BucketOf(now) /\ b # acc.closed + 1 BY <1>3, <2>2
  <2> QED BY <1>3, <2>1, <2>3 DEF Cover, Seen
<1>4. HolesWatched' BY <1>1, <1>3 DEF HolesWatched, Holes
<1> QED BY <1>2, <1>4 DEF HoleInv

LEMMA CrashStep == HoleInv /\ Crash => HoleInv'
<1> SUFFICES ASSUME HoleInv, Crash PROVE HoleInv' OBVIOUS
<1>1. /\ worker' = "down" /\ acc' = Fresh /\ proof' = None
      /\ UNCHANGED <<now, ckpt, gapRow, signal, watched, lost>>
  BY DEF Crash, stored
<1>2. IsAcc(acc)' /\ Sound(acc)' BY <1>1 DEF IsAcc, Sound, Fresh
<1>3. DataInv' BY <1>1, <1>2 DEF HoleInv, DataInv, IsCkpt, Sound, BucketOf
<1>4. JudgedInv' BY <1>1 DEF HoleInv, JudgedInv, CkptOk, Seen, NoTick, EndOf
<1>5. HolesWatched' BY <1>1 DEF HoleInv, HolesWatched, Holes
<1> QED BY <1>3, <1>4, <1>5 DEF HoleInv

\* A process that runs into the next bucket has been running in it.
LEMMA SlotStep == HoleInv /\ NextSlot => HoleInv'
<1> SUFFICES ASSUME HoleInv, NextSlot PROVE HoleInv' OBVIOUS
<1>1. /\ now' = now + 1 /\ watched' = Watch(now + 1) /\ now \in Nat
      /\ UNCHANGED <<worker, acc, proof, late, invalid, ckpt, gapRow, signal, lost>>
  BY DEF NextSlot, memory, stored, HoleInv, DataInv
<1>2. /\ watched \subseteq watched'
      /\ worker # "down" => BucketOf(now + 1) \in watched'
  BY <1>1 DEF Watch
<1>3. /\ BucketOf(now) \in Nat /\ BucketOf(now + 1) \in Nat
      /\ BucketOf(now) <= BucketOf(now + 1) /\ BucketOf(now + 1) <= BucketOf(now) + 1
      /\ BucketOf(now)' = BucketOf(now + 1)
  BY <1>1, BucketFacts, BucketNext DEF BucketOf
<1>4. Sound(acc)' BY <1>1, <1>3 DEF HoleInv, DataInv, Sound
<1>5. ckpt # None => Sound(ckpt)' BY <1>1, <1>3 DEF HoleInv, DataInv, Sound
<1>6. DataInv' BY <1>1, <1>4, <1>5 DEF HoleInv, DataInv, IsAcc, IsCkpt
<1>7. worker # "down" /\ Cover(acc) => Cover(acc)'
  <2> SUFFICES ASSUME worker # "down", Cover(acc), NEW b \in 1 .. BucketOf(now + 1)
               PROVE  Seen(acc, b)'
    BY <1>3 DEF Cover
  <2>1. b \in 1 .. BucketOf(now) \/ b = BucketOf(now + 1) BY <1>3
  <2> QED BY <1>1, <1>2, <2>1 DEF Cover, Seen, EndOf
<1>8. Uncovered => Uncovered'
  BY <1>1, SessionAssumption DEF Uncovered, EndOf
<1>9. JudgedInv'
  BY <1>1, <1>2, <1>7, <1>8 DEF HoleInv, JudgedInv, CkptOk, Seen, NoTick, EndOf
<1>10. HolesWatched' BY <1>1, <1>2 DEF HoleInv, HolesWatched, Holes
<1> QED BY <1>6, <1>9, <1>10 DEF HoleInv

LEMMA HoleStep == HoleInv /\ GapInv /\ [SessionNext]_sessionVars => HoleInv'
<1> SUFFICES ASSUME HoleInv, GapInv, [SessionNext]_sessionVars PROVE HoleInv' OBVIOUS
<1>1. CASE ConnectFeed
  BY <1>1, SameData DEF ConnectFeed, memory, stored
<1>2. CASE FeedEvent
  BY <1>2, SameData DEF FeedEvent, memory, stored
<1>3. CASE UNCHANGED sessionVars
  BY <1>3, SameData DEF sessionVars, memory, stored
<1> QED
  BY <1>1, <1>2, <1>3, LoadStep, TickStep, AssessStep, SaveStep, FireStep, CrashStep, SlotStep
  DEF SessionNext

LEMMA HoleInitial == SessionInit => HoleInv
<1> SUFFICES ASSUME SessionInit PROVE HoleInv OBVIOUS
<1>1. DataInv BY DEF SessionInit, DataInv, IsAcc, Sound, Fresh
<1> QED BY <1>1 DEF SessionInit, HoleInv, JudgedInv, HolesWatched, Holes

\* Downtime leaves no hole unseen: every bucket that a fired path lacks is one during which
\* some process was running, whatever the lengths of the interval, the gap and the session,
\* and however often the process restarts, unless a feed-gap row was lost.  A feed that is
\* silent under a running process leaves holes, and is outside the statement: see
\* FiredOnWholePath (restoreOrStartFresh, assessSessionIntegrity).
THEOREM HolesWatchedHolds == SessionSpec => []HolesWatched
<1>1. SessionInit => GapInv BY DEF SessionInit, GapInv
<1>2. HoleInv => HolesWatched BY DEF HoleInv
<1> QED BY <1>1, <1>2, HoleInitial, HoleStep, GapStep, PTL DEF SessionSpec

-----------------------------------------------------------------------------
(* The option ladder, for any listed strikes, index levels, allocations,   *)
(* books and prices: the shorts are never without their longs, and the     *)
(* legs are worth what the declared payoff says.                           *)

\* A ladder of direction dir at strike k with wings of four steps.
IsLadder(ls, dir, k, step) ==
  /\ dir \in Direction /\ k \in Nat /\ step \in Nat
  /\ ls = resolveLadder(dir, k, step)

LEMMA LadderIs ==
  ASSUME NEW ls, NEW dir, NEW k, NEW step, IsLadder(ls, dir, k, step)
  PROVE  /\ DOMAIN ls = 1 .. 3 /\ Len(ls) = 3
         /\ ls[1].strike = k /\ ls[2].strike = k + 8 * dir * step /\ ls[3].strike = k + 4 * dir * step
         /\ ls[1].ratio = 4 /\ ls[2].ratio = 1 /\ ls[3].ratio = 5
         /\ ls[1].side = "BUY" /\ ls[2].side = "BUY" /\ ls[3].side = "SELL"
         /\ \A i \in 1 .. 3 : ls[i].right = IF dir = -1 THEN "PE" ELSE "CE"
<1>1. ls = [i \in 1 .. 3 |-> [strike |-> k - dir * BearishTemplate[i].offset * step,
                              ratio |-> BearishTemplate[i].ratio,
                              right |-> IF dir = -1 THEN "PE" ELSE "CE", side |-> BearishTemplate[i].side]]
  BY DEF IsLadder, resolveLadder, LadderLeg
<1>2. BearishTemplate[1] = [offset |-> 0, ratio |-> 4, side |-> "BUY"] BY DEF BearishTemplate
<1>3. BearishTemplate[2] = [offset |-> -8, ratio |-> 1, side |-> "BUY"] BY DEF BearishTemplate
<1>4. BearishTemplate[3] = [offset |-> -4, ratio |-> 5, side |-> "SELL"] BY DEF BearishTemplate
<1>5. dir \in Direction /\ k \in Nat /\ step \in Nat BY DEF IsLadder
<1>6. ls[1].strike = k /\ ls[1].ratio = 4 /\ ls[1].side = "BUY" BY <1>1, <1>2, <1>5 DEF Direction
<1>7. ls[2].strike = k + 8 * dir * step /\ ls[2].ratio = 1 /\ ls[2].side = "BUY" BY <1>1, <1>3, <1>5 DEF Direction
<1>8. ls[3].strike = k + 4 * dir * step /\ ls[3].ratio = 5 /\ ls[3].side = "SELL" BY <1>1, <1>4, <1>5 DEF Direction
<1>9. \A i \in 1 .. 3 : ls[i].right = IF dir = -1 THEN "PE" ELSE "CE" BY <1>1
<1>10. DOMAIN ls = 1 .. 3 BY <1>1
<1>11. Len(ls) = 3
  <2>1. \A i \in 1 .. 3 : ls[i] = ls[i] /\ DOMAIN ls = 1 .. 3 BY <1>10
  <2>2. ls = [i \in 1 .. 3 |-> ls[i]] BY <1>1
  <2>3. ls \in Seq({ls[1], ls[2], ls[3]}) BY <2>2
  <2> QED BY <1>10, <2>3
<1> QED BY <1>6, <1>7, <1>8, <1>9, <1>10, <1>11

LEMMA Two ==
  ASSUME NEW S, S \subseteq Nat, Cardinality(S) > 1
  PROVE  \E a, b \in S : a < b
<1>1. S # {} BY FS_EmptySet
<1>2. PICK a \in S : TRUE BY <1>1
<1>3. S # {a} BY FS_Singleton
<1>4. PICK b \in S : b # a BY <1>2, <1>3
<1> QED BY <1>2, <1>4

LEMMA StepIsNumber ==
  ASSUME NEW listed \in Listed
  PROVE  deriveStrikeStep(listed) \in Nat
<1> DEFINE pairs == {q \in listed \X listed : q[1] < q[2]}
           S == {p[2] - p[1] : p \in pairs}
<1>1. listed \subseteq Nat /\ Cardinality(listed) > 1 BY LadderAssumption
<1>2. PICK a, b \in listed : a < b BY <1>1, Two
<1>3. <<a, b>> \in pairs BY <1>2
<1>4. ASSUME NEW p \in pairs PROVE p[2] - p[1] \in Nat
  <2>1. p[1] \in Nat /\ p[2] \in Nat /\ p[1] < p[2] BY <1>1
  <2> QED BY <2>1
<1>5. S \subseteq Nat /\ S # {} BY <1>3, <1>4
<1> HIDE DEF S
<1>6. Min(S) \in Nat BY <1>5, SmallestOf
<1> QED BY <1>6 DEF deriveStrikeStep, S

LEMMA AtmIsListed ==
  ASSUME NEW listed \in Listed, NEW spot \in Spot
  PROVE  selectATM(spot, listed) \in listed /\ selectATM(spot, listed) \in Nat
<1> DEFINE far == {Dist(k, spot) : k \in listed}
           near == {k \in listed : \A o \in listed : Dist(k, spot) <= Dist(o, spot)}
<1>1. listed \subseteq Nat /\ Cardinality(listed) > 1 /\ spot \in Nat BY LadderAssumption
<1>2. listed # {} BY <1>1, Two
<1>3. far \subseteq Nat /\ far # {}
  <2>1. ASSUME NEW a \in Nat PROVE Dist(a, spot) \in Nat BY <1>1, <2>1 DEF Dist
  <2> QED BY <1>1, <1>2, <2>1
<1>4. Min(far) \in far /\ \A n \in far : Min(far) <= n BY <1>3, SmallestOf
<1>5. PICK k \in listed : Min(far) = Dist(k, spot) BY <1>4
<1>6. k \in near BY <1>4, <1>5
<1>7. near \subseteq Nat /\ near # {} BY <1>1, <1>6
<1> HIDE DEF near
<1>8. Min(near) \in near BY <1>7, SmallestOf
<1> QED BY <1>1, <1>8 DEF selectATM, near

-----------------------------------------------------------------------------
(* The inductive invariant *)

WentIn(i) == entry[i] # Nothing
Gone(i) == exit[i] # Nothing

\* The legs are a ladder from the moment there are any; they fill in their order; nothing
\* is closed that was not filled; and a long is released only with the short gone.
LadderInv ==
  /\ stage \in {"idle", "signalled", "placing", "rollback", "live", "shorts", "longs", "over"}
  /\ units \in Nat
  /\ entry = [i \in 1 .. 3 |-> entry[i]] /\ exit = [i \in 1 .. 3 |-> exit[i]]
  /\ stage \in {"signalled"} => d \in Direction
  /\ legs = <<>> \/ \E step \in Nat : IsLadder(legs, d, atm, step)
  /\ legs = <<>> => stage \in {"idle", "signalled", "over"} /\ \A i \in 1 .. 3 : ~ WentIn(i)
  /\ \A i \in 1 .. 3 : Gone(i) => WentIn(i)
  /\ WentIn(3) => WentIn(2)
  /\ WentIn(2) => WentIn(1)
  /\ WentIn(3) /\ (Gone(1) \/ Gone(2)) => Gone(3)
  /\ stage \in {"idle", "signalled", "placing", "live"} => \A i \in 1 .. 3 : ~ Gone(i)
  /\ stage \in {"idle", "signalled"} => ~ WentIn(1) /\ legs = <<>>
  /\ stage = "placing" => ~ WentIn(3)
  /\ stage = "rollback" => WentIn(1) /\ ~ Gone(1) /\ ~ WentIn(3)
  /\ stage \in {"live", "shorts", "longs"} => WentIn(3)
  /\ stage = "shorts" => ~ Gone(3)
  /\ stage = "longs" => Gone(3) /\ ~ (Gone(1) /\ Gone(2))

LEMMA LadderInitInv == LadderInit => LadderInv
BY DEF LadderInit, LadderInv, LadderLeg, WentIn, Gone

LEMMA LegsOf ==
  ASSUME LadderInv, legs # <<>>
  PROVE  /\ DOMAIN legs = 1 .. 3 /\ Len(legs) = 3
         /\ Entered("BUY") = {1, 2} /\ Entered("SELL") = {3}
BY LadderIs DEF LadderInv, Entered

LEMMA UnitsType == ASSUME NEW c \in Capital PROVE computeUnitModeUnits(c) \in Nat
BY LadderAssumption DEF computeUnitModeUnits

LEMMA HeldIs ==
  ASSUME LadderInv
  PROVE  Held = {i \in 1 .. 3 : WentIn(i) /\ ~ Gone(i)}
BY DEF Held, LadderLeg, WentIn, Gone

\* What a rollback takes next: the last leg that is held.
LEMMA LastHeld ==
  ASSUME LadderInv, stage = "rollback"
  PROVE  Held = IF WentIn(2) /\ ~ Gone(2) THEN {1, 2} ELSE {1}
BY HeldIs DEF LadderInv

LEMMA MaxHeld ==
  ASSUME LadderInv, stage = "rollback"
  PROVE  Max(Held) \in Held /\ (Held = {1, 2} => Max(Held) = 2) /\ (Held = {1} => Max(Held) = 1)
BY LastHeld DEF Max

LEMMA LadderStep == LadderInv /\ [LadderNext]_ladderVars => LadderInv'
<1> SUFFICES ASSUME LadderInv, [LadderNext]_ladderVars PROVE LadderInv'
  OBVIOUS
<1> USE DEF WentIn, Gone
<1>1. CASE RecordSignal
  BY <1>1, UnitsType DEF LadderInv, RecordSignal
<1>2. CASE ResolveStructure
  <2>1. PICK listed \in Listed, spot \in Spot :
          /\ atm' = selectATM(spot, listed)
          /\ legs' = resolveLadder(d, atm', deriveStrikeStep(listed))
    BY <1>2 DEF ResolveStructure
  <2>2. atm' \in Nat /\ deriveStrikeStep(listed) \in Nat BY <2>1, AtmIsListed, StepIsNumber
  <2>3. IsLadder(legs', d', atm', deriveStrikeStep(listed)) BY <1>2, <2>1, <2>2 DEF IsLadder, LadderInv, ResolveStructure
  <2>4. legs' # <<>> BY <2>3, LadderIs
  <2> QED BY <1>2, <2>2, <2>3, <2>4 DEF LadderInv, ResolveStructure
<1>3. CASE GiveUp
  BY <1>3 DEF LadderInv, GiveUp
<1>4. CASE PlaceLeg
  <2>12. PICK i \in Next1 : \E price :
           /\ entry' = [entry EXCEPT ![i] = price]
           /\ stage' = CASE price = Nothing /\ i = 1 -> "over"
                         [] price = Nothing /\ i > 1 -> "rollback"
                         [] price # Nothing -> IF i = Len(legs) THEN "live" ELSE "placing"
    BY <1>4 DEF PlaceLeg
  <2>1. PICK price :
          /\ entry' = [entry EXCEPT ![i] = price]
          /\ stage' = CASE price = Nothing /\ i = 1 -> "over"
                        [] price = Nothing /\ i > 1 -> "rollback"
                        [] price # Nothing -> IF i = Len(legs) THEN "live" ELSE "placing"
    BY <2>12
  <2>2. stage = "placing" /\ UNCHANGED <<d, units, atm, legs, exit>> BY <1>4 DEF PlaceLeg
  <2>0. legs # <<>> /\ \A j \in 1 .. 3 : ~ Gone(j) BY <2>2 DEF LadderInv
  <2>9. Len(legs) = 3 BY <2>0, LegsOf
  <2>10. i \in 1 .. 3 /\ ~ WentIn(i) /\ \A j \in 1 .. (i - 1) : WentIn(j) BY DEF Next1, LadderLeg
  <2>11. \A j \in 1 .. 3 : j < i => WentIn(j) BY <2>10
  <2>3. /\ i \in 1 .. 3 /\ ~ WentIn(i) /\ \A j \in 1 .. 3 : j < i => WentIn(j)
        /\ \A j \in 1 .. 3 : ~ Gone(j)
        /\ Len(legs) = 3 /\ legs # <<>>
    BY <2>0, <2>9, <2>10, <2>11
  <2>4. \A j \in 1 .. 3 : j # i => entry'[j] = entry[j]
    BY <2>1 DEF LadderInv
  <2>5. entry'[i] = price /\ entry' = [j \in 1 .. 3 |-> entry'[j]]
    BY <2>1, <2>3 DEF LadderInv
  <2>6. CASE price = Nothing /\ i = 1
    <3>1. stage' = "over" BY <2>1, <2>6
    <3> QED BY <2>2, <2>3, <2>4, <2>5, <2>6, <3>1 DEF LadderInv
  <2>7. CASE price = Nothing /\ i > 1
    <3>1. stage' = "rollback" BY <2>1, <2>7
    <3> QED BY <2>2, <2>3, <2>4, <2>5, <2>7, <3>1 DEF LadderInv
  <2>8. CASE price # Nothing
    <3>1. stage' = IF i = 3 THEN "live" ELSE "placing" BY <2>1, <2>3, <2>8
    <3> QED BY <2>2, <2>3, <2>4, <2>5, <2>8, <3>1 DEF LadderInv
  <2> QED BY <2>3, <2>6, <2>7, <2>8
<1>5. CASE RollbackLeg
  <2> DEFINE i == Max(Held)
  <2>1. PICK price :
          /\ exit' = [exit EXCEPT ![i] = price]
          /\ stage' = IF price = Nothing \/ Held = {i} THEN "over" ELSE "rollback"
    BY <1>5 DEF RollbackLeg
  <2>2. stage = "rollback" /\ UNCHANGED <<d, units, atm, legs, entry>> BY <1>5 DEF RollbackLeg
  <2>3. /\ i \in 1 .. 2 /\ WentIn(i) /\ ~ Gone(i) /\ (i = 1 => Held = {1}) /\ (i = 2 => Held = {1, 2})
    BY <2>2, LastHeld, MaxHeld, HeldIs
  <2> HIDE DEF i
  <2>4. /\ exit' = [j \in 1 .. 3 |-> exit'[j]] /\ exit'[i] = price
        /\ \A j \in 1 .. 3 : j # i => exit'[j] = exit[j]
    <3>1. exit = [j \in 1 .. 3 |-> exit[j]] BY DEF LadderInv
    <3>2. i \in 1 .. 3 BY <2>3
    <3>3. DOMAIN exit = 1 .. 3 BY <3>1
    <3> QED BY <2>1, <3>1, <3>2, <3>3
  <2> QED BY <2>1, <2>2, <2>3, <2>4 DEF LadderInv
<1>6. CASE MonitorTick
  BY <1>6 DEF LadderInv, MonitorTick
<1>7. CASE ExitShorts
  <2>1. stage = "shorts" /\ UNCHANGED <<d, units, atm, legs, entry>> BY <1>7 DEF ExitShorts
  <2>2. legs # <<>> /\ Entered("SELL") = {3} /\ Held \cap {3} = {3}
    BY <2>1, LegsOf, HeldIs DEF LadderInv
  <2>3. PICK market \in Markets :
          exit' = [i \in 1 .. 3 |-> IF i = 3 THEN Close(i, market, Gate) ELSE exit[i]]
    BY <1>7, <2>2 DEF ExitShorts, LadderLeg
  <2>4. stage' = IF exit'[3] # Nothing THEN "longs" ELSE "shorts" BY <1>7, <2>2 DEF ExitShorts
  <2>5. exit' = [i \in 1 .. 3 |-> exit'[i]] /\ exit'[1] = exit[1] /\ exit'[2] = exit[2]
    BY <2>3
  <2> QED BY <2>1, <2>2, <2>4, <2>5 DEF LadderInv
<1>8. CASE ExitLongs
  <2>1. stage = "longs" /\ UNCHANGED <<d, units, atm, legs, entry>> BY <1>8 DEF ExitLongs
  <2>9. PICK i \in Held : \E price : exit' = [exit EXCEPT ![i] = price] BY <1>8 DEF ExitLongs
  <2>2. PICK price : exit' = [exit EXCEPT ![i] = price] BY <2>9
  <2>3. i \in 1 .. 2 /\ WentIn(i)
    <3>1. i \in 1 .. 3 /\ WentIn(i) /\ ~ Gone(i) BY HeldIs
    <3>2. Gone(3) BY <2>1 DEF LadderInv
    <3> QED BY <3>1, <3>2
  <2>4. /\ exit' = [j \in 1 .. 3 |-> exit'[j]]
        /\ \A j \in 1 .. 3 : j # i => exit'[j] = exit[j]
    BY <2>2, <2>3 DEF LadderInv
  <2>5. stage' = IF \A j \in 1 .. 3 : exit'[j] # Nothing THEN "over" ELSE "longs"
    BY <1>8 DEF ExitLongs, LadderLeg
  <2> QED BY <2>1, <2>3, <2>4, <2>5 DEF LadderInv
<1>9. CASE UNCHANGED ladderVars
  BY <1>9 DEF LadderInv, ladderVars
<1> QED BY <1>1, <1>2, <1>3, <1>4, <1>5, <1>6, <1>7, <1>8, <1>9 DEF LadderNext

-----------------------------------------------------------------------------
(* What is held *)

QuantityOf(I) == MapThenSumSet(Quantity, I)

LEMMA QuantityIsSum ==
  ASSUME NEW I, IsFiniteSet(I)
  PROVE  QuantityOf(I) = SumOf([i \in I |-> Quantity(i)], I)
<1> DEFINE f == [i \in I |-> Quantity(i)]
           Fold(sum) == sum = [s \in SUBSET I |->
                                 IF s = {} THEN 0
                                 ELSE LET x == CHOOSE y \in s : TRUE IN Quantity(x) + sum[s \ {x}]]
           it == CHOOSE sum : Fold(sum)
<1>1. ASSUME NEW sum PROVE Fold(sum) <=> Adds(f, I, sum)
  <2>1. ASSUME NEW s \in SUBSET I
        PROVE  (IF s = {} THEN 0 ELSE LET x == CHOOSE y \in s : TRUE IN Quantity(x) + sum[s \ {x}]) = AddsLast(f, sum, s)
    <3>1. CASE s = {} BY <3>1 DEF AddsLast
    <3>2. CASE s # {}
      <4>1. Pick(s) \in I BY <3>2, PickIn
      <4>2. f[Pick(s)] = Quantity(Pick(s)) BY <4>1
      <4> HIDE DEF f
      <4> QED BY <3>2, <4>2 DEF AddsLast, Pick
    <3> QED BY <3>1, <3>2
  <2> HIDE DEF f
  <2> QED BY <2>1 DEF Adds
<1> HIDE DEF f
<1>2. \E sum : Fold(sum)
  <2> HIDE DEF Fold
  <2> QED BY <1>1, SumExists
<1>3. Fold(it)
  <2> HIDE DEF Fold
  <2> QED BY <1>2
<1>4. QuantityOf(I) = it[I]
  BY DEF QuantityOf, MapThenSumSet, MapThenFoldSet
<1> HIDE DEF it, Fold
<1> QED BY <1>1, <1>3, <1>4, SumIs DEF f

LEMMA QuantityOfFew ==
  ASSUME \A i \in 1 .. 3 : Quantity(i) \in Nat
  PROVE  /\ QuantityOf({}) = 0
         /\ \A i \in 1 .. 3 : QuantityOf({i}) = Quantity(i)
         /\ \A i, j \in 1 .. 3 : i # j => QuantityOf({i, j}) = Quantity(i) + Quantity(j)
<1>1. QuantityOf({}) = 0 BY FS_EmptySet, QuantityIsSum, SumOfNone
<1>2. ASSUME NEW i \in 1 .. 3 PROVE QuantityOf({i}) = Quantity(i)
  <2> DEFINE f == [k \in {i} |-> Quantity(k)]
  <2>1. QuantityOf({i}) = SumOf(f, {i}) BY FS_Singleton, QuantityIsSum
  <2>2. f[i] = Quantity(i) OBVIOUS
  <2> HIDE DEF f
  <2> QED BY <2>1, <2>2, SumOfOne
<1>3. ASSUME NEW i \in 1 .. 3, NEW j \in 1 .. 3, i # j PROVE QuantityOf({i, j}) = Quantity(i) + Quantity(j)
  <2> DEFINE f == [k \in {i, j} |-> Quantity(k)]
  <2>2. IsFiniteSet({i, j}) BY PairFinite
  <2>3. QuantityOf({i, j}) = SumOf(f, {i, j}) BY <2>2, QuantityIsSum
  <2>4. f[i] = Quantity(i) /\ f[j] = Quantity(j) OBVIOUS
  <2>5. f[i] \in Int /\ f[j] \in Int BY <2>4
  <2> HIDE DEF f
  <2>6. SumOf(f, {i, j}) = f[i] + f[j] BY <1>3, <2>5, SumOfTwo
  <2> QED BY <2>3, <2>4, <2>6
<1> QED BY <1>1, <1>2, <1>3

\* The short, five times the ratio of a unit, is held only beside both longs.
LEMMA Covered == ASSUME LadderInv PROVE ShortsCovered
<1>0. \A side : HeldQuantity(side) = QuantityOf(Held \cap Entered(side)) BY DEF HeldQuantity, QuantityOf
<1>1. CASE legs = <<>>
  <2>1. Held \cap Entered("SELL") = {} /\ Held \cap Entered("BUY") = {} BY <1>1, HeldIs DEF LadderInv
  <2>2. QuantityOf({}) = 0 BY FS_EmptySet, QuantityIsSum, SumOfNone
  <2>3. HeldQuantity("SELL") = 0 /\ HeldQuantity("BUY") = 0 BY <1>0, <2>1, <2>2
  <2> QED BY <2>3 DEF ShortsCovered
<1>2. CASE legs # <<>>
  <2>1. Entered("BUY") = {1, 2} /\ Entered("SELL") = {3} BY <1>2, LegsOf
  <2>2. legs[1].ratio = 4 /\ legs[2].ratio = 1 /\ legs[3].ratio = 5 /\ units \in Nat
    BY <1>2, LadderIs DEF LadderInv
  <2>3. Quantity(1) = 4 * units /\ Quantity(2) = units /\ Quantity(3) = 5 * units
    BY <2>2 DEF Quantity
  <2>4. \A i \in 1 .. 3 : Quantity(i) \in Nat BY <2>2, <2>3
  <2>5. /\ QuantityOf({}) = 0 /\ QuantityOf({1}) = 4 * units /\ QuantityOf({2}) = units
        /\ QuantityOf({3}) = 5 * units /\ QuantityOf({1, 2}) = 4 * units + units
    BY <2>3, <2>4, QuantityOfFew
  <2>6. CASE 3 \in Held
    <3>1. Held = {1, 2, 3} BY <2>6, HeldIs DEF LadderInv
    <3>2. Held \cap {3} = {3} /\ Held \cap {1, 2} = {1, 2} BY <3>1
    <3>3. HeldQuantity("SELL") = 5 * units /\ HeldQuantity("BUY") = 4 * units + units BY <1>0, <2>1, <2>5, <3>2
    <3> QED BY <2>2, <3>3 DEF ShortsCovered
  <2>7. CASE 3 \notin Held
    <3>1. Held \cap {3} = {} BY <2>7
    <3>2. Held \cap {1, 2} \in {{}, {1}, {2}, {1, 2}} BY HeldIs
    <3>3. QuantityOf({}) >= 0 /\ QuantityOf({1}) >= 0 /\ QuantityOf({2}) >= 0 /\ QuantityOf({1, 2}) >= 0
      BY <2>2, <2>5
    <3>4. HeldQuantity("SELL") = 0 /\ HeldQuantity("BUY") >= 0 BY <1>0, <2>1, <2>5, <3>1, <3>2, <3>3
    <3> QED BY <3>4 DEF ShortsCovered
  <2> QED BY <2>6, <2>7
<1> QED BY <1>1, <1>2

-----------------------------------------------------------------------------
(* The payoff *)

Pos(x) == IF x >= 0 THEN x ELSE 0

LEMMA PositivePart == ASSUME NEW x \in Int PROVE Max({x, 0}) = Pos(x)
BY DEF Max, Pos

ValueOf(s, I) == MapThenSumSet(LAMBDA i : Intrinsic(legs[i], s), I)

LEMMA ValueIsSum ==
  ASSUME NEW s, NEW I, IsFiniteSet(I)
  PROVE  ValueOf(s, I) = SumOf([i \in I |-> Intrinsic(legs[i], s)], I)
<1> DEFINE f == [i \in I |-> Intrinsic(legs[i], s)]
           Fold(sum) == sum = [t \in SUBSET I |->
                                 IF t = {} THEN 0
                                 ELSE LET x == CHOOSE y \in t : TRUE IN Intrinsic(legs[x], s) + sum[t \ {x}]]
           it == CHOOSE sum : Fold(sum)
<1>1. ASSUME NEW sum PROVE Fold(sum) <=> Adds(f, I, sum)
  <2>1. ASSUME NEW t \in SUBSET I
        PROVE  (IF t = {} THEN 0 ELSE LET x == CHOOSE y \in t : TRUE IN Intrinsic(legs[x], s) + sum[t \ {x}]) = AddsLast(f, sum, t)
    <3>1. CASE t = {} BY <3>1 DEF AddsLast
    <3>2. CASE t # {}
      <4>1. Pick(t) \in I BY <3>2, PickIn
      <4>2. f[Pick(t)] = Intrinsic(legs[Pick(t)], s) BY <4>1
      <4> HIDE DEF f
      <4> QED BY <3>2, <4>2 DEF AddsLast, Pick
    <3> QED BY <3>1, <3>2
  <2> HIDE DEF f
  <2> QED BY <2>1 DEF Adds
<1> HIDE DEF f
<1>2. \E sum : Fold(sum)
  <2> HIDE DEF Fold
  <2> QED BY <1>1, SumExists
<1>3. Fold(it)
  <2> HIDE DEF Fold
  <2> QED BY <1>2
<1>4. ValueOf(s, I) = it[I]
  BY DEF ValueOf, MapThenSumSet, MapThenFoldSet
<1> HIDE DEF it, Fold
<1> QED BY <1>1, <1>3, <1>4, SumIs DEF f

LEMMA ValueOfLegs ==
  ASSUME NEW s, \A i \in 1 .. 3 : Intrinsic(legs[i], s) \in Int
  PROVE  LegsValue(s) = Intrinsic(legs[1], s) + Intrinsic(legs[2], s) + Intrinsic(legs[3], s)
<1> DEFINE f == [i \in 1 .. 3 |-> Intrinsic(legs[i], s)]
<1>1. IsFiniteSet(1 .. 3)
  <2>1. 1 \in Int /\ 3 \in Int OBVIOUS
  <2> QED BY <2>1, FS_Interval
<1>2. LegsValue(s) = SumOf(f, 1 .. 3) BY <1>1, ValueIsSum DEF LegsValue, ValueOf, LadderLeg
<1>3. \A i \in 1 .. 3 : f[i] = Intrinsic(legs[i], s) /\ f[i] \in Int OBVIOUS
<1> HIDE DEF f
<1>4. SumOf(f, 1 .. 3) = f[3] + SumOf(f, (1 .. 3) \ {3}) BY <1>1, <1>3, SumOfSplit
<1>5. (1 .. 3) \ {3} = {1, 2} OBVIOUS
<1>7. f[1] \in Int /\ f[2] \in Int /\ f[3] \in Int BY <1>3
<1>6. SumOf(f, {1, 2}) = f[1] + f[2]
  <2>1. 1 # 2 OBVIOUS
  <2> QED BY <1>7, <2>1, SumOfTwo
<1>8. SumOf(f, 1 .. 3) = f[3] + (f[1] + f[2]) BY <1>4, <1>5, <1>6
<1>9. f[3] + (f[1] + f[2]) = f[1] + f[2] + f[3] BY <1>7
<1> QED BY <1>2, <1>3, <1>8, <1>9

\* x is how far the index is beyond the strike at the money, w the wing.
LEMMA PayoffBounds ==
  ASSUME NEW x \in Int, NEW w \in Nat
  PROVE  4 * Pos(x) - 5 * Pos(x - w) + Pos(x - 2 * w) \in 0 .. 4 * w
BY DEF Pos

LEMMA Pays == ASSUME LadderInv PROVE PayoffAsDeclared
<1> SUFFICES ASSUME stage = "live", NEW s \in Spot
             PROVE  /\ LegsValue(s) = bearishUnitPayoff(IF d = -1 THEN s ELSE 2 * atm - s, atm, WingWidth)
                    /\ LegsValue(s) \in 0 .. 4 * WingWidth
  BY DEF PayoffAsDeclared
<1>1. legs # <<>> BY DEF LadderInv
<1>2. PICK step \in Nat : IsLadder(legs, d, atm, step) BY <1>1 DEF LadderInv
<1>3. s \in Nat /\ atm \in Nat /\ d \in {-1, 1} BY <1>2, LadderAssumption DEF IsLadder, Direction
<1> DEFINE w == 4 * step
           x == IF d = -1 THEN atm - s ELSE s - atm
<1>4. w \in Nat /\ x \in Int BY <1>3
<1>5. legs[1].strike = atm /\ legs[2].strike = atm + 2 * d * w /\ legs[3].strike = atm + d * w
  BY <1>2, <1>3, LadderIs
<1>6. WingWidth = w BY <1>3, <1>4, <1>5 DEF WingWidth, Dist
<1>7. /\ legs[1].ratio = 4 /\ legs[2].ratio = 1 /\ legs[3].ratio = 5
      /\ legs[1].side = "BUY" /\ legs[2].side = "BUY" /\ legs[3].side = "SELL"
      /\ \A i \in 1 .. 3 : legs[i].right = IF d = -1 THEN "PE" ELSE "CE"
  BY <1>2, LadderIs
<1> HIDE DEF w
<1>14. ASSUME NEW i \in 1 .. 3
       PROVE  Intrinsic(legs[i], s) =
                (IF legs[i].side = "BUY" THEN legs[i].ratio ELSE - legs[i].ratio)
                  * Max({IF d = -1 THEN legs[i].strike - s ELSE s - legs[i].strike, 0})
  <2>1. legs[i].right = IF d = -1 THEN "PE" ELSE "CE" BY <1>7
  <2> QED BY <2>1 DEF Intrinsic
<1>15. /\ (IF d = -1 THEN legs[1].strike - s ELSE s - legs[1].strike) = x
       /\ (IF d = -1 THEN legs[2].strike - s ELSE s - legs[2].strike) = x - 2 * w
       /\ (IF d = -1 THEN legs[3].strike - s ELSE s - legs[3].strike) = x - w
  BY <1>3, <1>4, <1>5
<1>11. Pos(x) \in Int /\ Pos(x - w) \in Int /\ Pos(x - 2 * w) \in Int BY <1>4 DEF Pos
<1>16. /\ Max({x, 0}) = Pos(x) /\ Max({x - w, 0}) = Pos(x - w) /\ Max({x - 2 * w, 0}) = Pos(x - 2 * w)
  BY <1>4, PositivePart
<1>8. Intrinsic(legs[1], s) = 4 * Pos(x) BY <1>7, <1>14, <1>15, <1>16
<1>9. Intrinsic(legs[2], s) = Pos(x - 2 * w)
  <2>1. Intrinsic(legs[2], s) = 1 * Max({x - 2 * w, 0})
    <3>1. 2 \in 1 .. 3 OBVIOUS
    <3>2. Intrinsic(legs[2], s) = (IF legs[2].side = "BUY" THEN legs[2].ratio ELSE - legs[2].ratio)
            * Max({IF d = -1 THEN legs[2].strike - s ELSE s - legs[2].strike, 0})
      BY <3>1, <1>14
    <3> QED BY <3>2, <1>7, <1>15
  <2> QED BY <2>1, <1>11, <1>16
<1>10. Intrinsic(legs[3], s) = - (5 * Pos(x - w))
  <2>1. Intrinsic(legs[3], s) = (-5) * Max({x - w, 0})
    <3>1. 3 \in 1 .. 3 OBVIOUS
    <3>2. Intrinsic(legs[3], s) = (IF legs[3].side = "BUY" THEN legs[3].ratio ELSE - legs[3].ratio)
            * Max({IF d = -1 THEN legs[3].strike - s ELSE s - legs[3].strike, 0})
      BY <3>1, <1>14
    <3> QED BY <3>2, <1>7, <1>15
  <2>2. \A p \in Int : (-5) * p = - (5 * p) OBVIOUS
  <2> QED BY <2>1, <2>2, <1>11, <1>16
<1>12. LegsValue(s) = 4 * Pos(x) - 5 * Pos(x - w) + Pos(x - 2 * w)
  <2>1. \A i \in 1 .. 3 : Intrinsic(legs[i], s) \in Int
    <3>1. ASSUME NEW i \in 1 .. 3 PROVE Intrinsic(legs[i], s) \in Int
      <4>1. i = 1 \/ i = 2 \/ i = 3 OBVIOUS
      <4> QED BY <1>8, <1>9, <1>10, <1>11, <4>1
    <3> QED BY <3>1
  <2>2. LegsValue(s) = Intrinsic(legs[1], s) + Intrinsic(legs[2], s) + Intrinsic(legs[3], s)
    BY <2>1, ValueOfLegs
  <2> QED BY <1>8, <1>9, <1>10, <1>11, <2>2
<1>13. bearishUnitPayoff(IF d = -1 THEN s ELSE 2 * atm - s, atm, w) = 4 * Pos(x) - 5 * Pos(x - w) + Pos(x - 2 * w)
  <2> DEFINE spot == IF d = -1 THEN s ELSE 2 * atm - s
  <2>1. spot \in Int /\ atm - spot = x /\ atm - w - spot = x - w /\ atm - 2 * w - spot = x - 2 * w
    BY <1>3, <1>4
  <2>2. /\ Max({atm - spot, 0}) = Pos(x) /\ Max({atm - w - spot, 0}) = Pos(x - w)
        /\ Max({atm - 2 * w - spot, 0}) = Pos(x - 2 * w)
    BY <1>16, <2>1
  <2> HIDE DEF spot, x
  <2>3. bearishUnitPayoff(spot, atm, w) = 4 * Pos(x) - 5 * Pos(x - w) + Pos(x - 2 * w)
    BY <2>2 DEF bearishUnitPayoff
  <2> QED BY <2>3 DEF spot
<1> QED BY <1>4, <1>6, <1>12, <1>13, PayoffBounds

-----------------------------------------------------------------------------
(* Theorems *)

LEMMA LadderInductive == LadderSpec => []LadderInv
<1> QED BY LadderInitInv, LadderStep, PTL DEF LadderSpec

\* A ladder is never short more than it is long: not while its legs go in, not in a
\* rollback that stops, not in an exit that stops half way (entrySequencer.ts:76-85,
\* rollback.ts:45-60, shortFirstExit.ts:38-60).
THEOREM ShortsCoveredHolds == LadderSpec => []ShortsCovered
<1>1. LadderInv => ShortsCovered BY Covered
<1> QED BY <1>1, LadderInductive, PTL

\* Whatever strikes are listed and wherever the index ends, the legs are worth what the
\* declared payoff says, between nothing and four wings (payoff.ts:24-50).
THEOREM PayoffAsDeclaredHolds == LadderSpec => []PayoffAsDeclared
<1>1. LadderInv => PayoffAsDeclared BY Pays
<1> QED BY <1>1, LadderInductive, PTL

-----------------------------------------------------------------------------
(* The signal of the Alpha Ladder, for any quantities, windows and bounds. *)
(*                                                                         *)
(* The inductive invariant SignalInv says that the snapshots are in the    *)
(* order of time and none is ahead of the last closed interval, and that   *)
(* those of the checkpoint are the first ones, up to the interval it had   *)
(* closed.  The first crossing then stays because what joins comes at the  *)
(* end, and what a restart drops does too; and the day with its sides      *)
(* exchanged is followed through every operator: the paths, their areas    *)
(* and crossings, the decision.                                            *)

LEMMA SumIsSumOf == ASSUME NEW f, NEW I PROVE Sum(f, I) = SumOf(f, I)
BY DEF Sum, SumOf

LEMMA NegatedTotal ==
  ASSUME NEW f, NEW g, NEW I, IsFiniteSet(I), \A i \in I : f[i] \in Int /\ g[i] = - f[i]
  PROVE  Sum(g, I) = - Sum(f, I) /\ Sum(f, I) \in Int
BY NegatedSum, SumIsSumOf

\* A finite set of numbers has an order.
Ordered(f, S) == /\ f \in [1 .. Cardinality(S) -> S]
                 /\ \A i, j \in DOMAIN f : i < j => f[i] < f[j]

LEMMA OrderExists ==
  ASSUME NEW S, IsFiniteSet(S), Numbers(S)
  PROVE  \E f : Ordered(f, S)
<1> DEFINE B == {s \in SUBSET S : ~ \E f : Ordered(f, s)}
<1>1. SUFFICES ASSUME B # {} PROVE FALSE
  OBVIOUS
<1>2. PICK s \in B : IsFiniteSet(s) /\ \A t \in B : t \subseteq s => t = s
  <2>1. B \in SUBSET (SUBSET S) OBVIOUS
  <2> HIDE DEF B
  <2> QED BY <1>1, <2>1, SmallestSet
<1>3. CASE s = {}
  <2>1. Cardinality(s) = 0 BY <1>3, FS_EmptySet
  <2>2. Ordered([i \in 1 .. 0 |-> 0], s) BY <2>1 DEF Ordered
  <2> QED BY <2>2
<1>4. CASE s # {}
  <2>0. s \subseteq Nat BY DEF Numbers
  <2>1. IsFiniteSet(s) /\ Numbers(s) BY <1>2, <2>0 DEF Numbers
  <2>2. PICK m \in s : \A k \in s : k <= m
    <3> HIDE DEF B
    <3> QED BY <1>4, <2>1, LargestExists
  <2> DEFINE r == s \ {m}
             n == Cardinality(r)
  <2>3. r \notin B BY <1>2
  <2>4. PICK f : Ordered(f, r) BY <2>3
  <2>5. n \in Nat /\ Cardinality(s) = n + 1
    <3> HIDE DEF B
    <3>1. IsFiniteSet(r) /\ Cardinality(r) = Cardinality(s) - 1 BY <2>1, FS_RemoveElement
    <3>2. Cardinality(r) \in Nat /\ Cardinality(s) \in Nat BY <2>1, <3>1, FS_CardinalityType
    <3> QED BY <3>1, <3>2
  <2> DEFINE g == [i \in 1 .. (n + 1) |-> IF i = n + 1 THEN m ELSE f[i]]
  <2>6. f \in [1 .. n -> r] /\ \A i, j \in 1 .. n : i < j => f[i] < f[j]
    BY <2>4 DEF Ordered
  <2> HIDE DEF B, n
  <2>7. ASSUME NEW i \in 1 .. n PROVE f[i] \in s /\ f[i] < m
    <3>1. f[i] \in s /\ f[i] # m BY <2>6
    <3>2. f[i] <= m /\ f[i] \in Nat /\ m \in Nat BY <2>0, <2>2, <3>1
    <3> QED BY <3>1, <3>2
  <2>8. \A i \in 1 .. (n + 1) : i # n + 1 => i \in 1 .. n
    BY <2>5
  <2>9. g \in [1 .. (n + 1) -> s]
    BY <2>7, <2>8
  <2>10. \A i, j \in 1 .. (n + 1) : i < j => g[i] < g[j]
    BY <2>5, <2>6, <2>7, <2>8
  <2>11. Ordered(g, s)
    <3> HIDE DEF g
    <3> QED BY <2>5, <2>9, <2>10 DEF Ordered
  <2> QED BY <2>11 DEF B
<1> QED BY <1>3, <1>4

LEMMA InOrderIs ==
  ASSUME NEW S, IsFiniteSet(S), Numbers(S)
  PROVE  Ordered(InOrder(S), S)
<1>1. \E f \in [1 .. Cardinality(S) -> S] : \A i, j \in DOMAIN f : i < j => f[i] < f[j]
  BY OrderExists DEF Ordered
<1> QED BY <1>1 DEF InOrder, Ordered

\* Picking observations picks some of them.
LEMMA AtTyped ==
  ASSUME NEW T, NEW obs \in Seq(T), NEW I, I \subseteq DOMAIN obs
  PROVE  At(obs, I) \in Seq(T)
<1> DEFINE f == InOrder(I)
<1>1. Len(obs) \in Nat /\ DOMAIN obs = 1 .. Len(obs) OBVIOUS
<1>2. IsFiniteSet(I) /\ Numbers(I) /\ Cardinality(I) \in Nat BY <1>1, PlacesFinite
<1>3. f \in [1 .. Cardinality(I) -> I] BY <1>2, InOrderIs DEF Ordered
<1>4. At(obs, I) = [i \in DOMAIN f |-> obs[f[i]]] BY DEF At
<1> HIDE DEF f
<1>5. \A i \in 1 .. Cardinality(I) : obs[f[i]] \in T BY <1>3
<1>6. At(obs, I) \in [1 .. Cardinality(I) -> T] BY <1>3, <1>4, <1>5
<1> QED BY <1>2, <1>6

-----------------------------------------------------------------------------
(* Ingesting: the snapshots grow at the end, and none is ahead of the clock *)

Observation == [t : Nat, side : Side, qty : Qty]
Snapshot == [t : Nat, b : Int, a : Int]

SignalTypes ==
  /\ minute \in Nat /\ ended \in Nat /\ ended <= minute
  /\ raw \in Seq(Observation) /\ pending \in Seq(Observation) /\ snaps \in Seq(Snapshot)

Rising(s) == \A i, j \in DOMAIN s : i < j => s[i].t < s[j].t
Until(s, u) == \A i \in DOMAIN s : s[i].t <= u

\* What was snapped since the checkpoint comes after what it holds, and is later.
SavedInv ==
  /\ saved.ended \in Nat /\ saved.ended <= ended
  /\ saved.pending \in Seq(Observation) /\ saved.snaps \in Seq(Snapshot)
  /\ Rising(saved.snaps) /\ Until(saved.snaps, saved.ended)
  /\ \E since \in Seq(Snapshot) :
       snaps = saved.snaps \o since /\ \A i \in DOMAIN since : saved.ended < since[i].t

SignalInv == SignalTypes /\ Rising(snaps) /\ Until(snaps, ended) /\ SavedInv

LEMMA EndsAre ==
  ASSUME SignalTypes
  PROVE  /\ Ends \subseteq (ended + 1) .. minute /\ IsFiniteSet(Ends)
         /\ Max(Ends \cup {ended}) \in ended .. minute
         /\ \A e \in Ends : e <= Max(Ends \cup {ended})
<1>1. Ends \subseteq (ended + 1) .. minute BY DEF Ends
<1>2. IsFiniteSet((ended + 1) .. minute)
  <2>1. ended + 1 \in Int /\ minute \in Int BY DEF SignalTypes
  <2> QED BY <2>1, FS_Interval
<1>3. IsFiniteSet(Ends) BY <1>1, <1>2, FS_Subset
<1>4. IsFiniteSet(Ends \cup {ended}) BY <1>3, FS_AddElement
<1>5. Ends \cup {ended} \subseteq ended .. minute BY <1>1 DEF SignalTypes
<1>6. Numbers(Ends \cup {ended}) BY <1>5 DEF Numbers, SignalTypes
<1>7. Ends \cup {ended} # {} OBVIOUS
<1> HIDE DEF Ends
<1> DEFINE S == Ends \cup {ended}
<1>8. Max(S) \in S /\ \A k \in S : k <= Max(S)
  <2> HIDE DEF S
  <2> QED BY <1>4, <1>6, <1>7, LargestOfFinite DEF S
<1> QED BY <1>1, <1>3, <1>5, <1>8

LEMMA AdmittedIsInt ==
  ASSUME NEW obs \in Seq(Observation), NEW s
  PROVE  Admitted(Quantities(obs, s)) \in Int
<1> DEFINE I == {i \in DOMAIN obs : obs[i].side = s}
           own == At(obs, I)
           q == Quantities(obs, s)
           J == {i \in DOMAIN q : i = 1 \/ q[i] # q[i - 1]}
<1>1. own \in Seq(Observation)
  <2>1. I \subseteq DOMAIN obs OBVIOUS
  <2> HIDE DEF I
  <2> QED BY <2>1, AtTyped
<1>2. q = [i \in DOMAIN own |-> own[i].qty] BY DEF Quantities
<1> HIDE DEF own
<1>3. Len(own) \in Nat /\ DOMAIN own = 1 .. Len(own) BY <1>1
<1>4. ASSUME NEW i \in DOMAIN own PROVE own[i].qty \in Int
  <2>1. own[i] \in Observation BY <1>1
  <2>2. own[i].qty \in Qty BY <2>1 DEF Observation
  <2>3. \A x \in Qty : x \in Int BY SignalAssumption
  <2> QED BY <2>2, <2>3, Zenon
<1>5. \A i \in DOMAIN q : q[i] \in Int BY <1>2, <1>4
<1>6. DOMAIN q = 1 .. Len(own) BY <1>2, <1>3
<1>7. Admitted(q) = Sum(q, J) BY DEF Admitted
<1>8. J \subseteq 1 .. Len(own) BY <1>6
<1> HIDE DEF q
<1>9. \A i \in J : q[i] \in Int BY <1>5
<1> HIDE DEF J
<1>10. IsFiniteSet(J) BY <1>3, <1>8, PlacesFinite
<1>11. SumOf(q, J) \in Int BY <1>9, <1>10, SumOfInt
<1> QED BY <1>7, <1>11, SumIsSumOf DEF q

LEMMA NewSnapsAre ==
  ASSUME SignalTypes, NEW obs \in Seq(Observation)
  PROVE  /\ NewSnaps(obs) \in Seq(Snapshot) /\ Rising(NewSnaps(obs))
         /\ \A i \in DOMAIN NewSnaps(obs) : NewSnaps(obs)[i].t \in Ends
<1> DEFINE full == {e \in Ends : Within(obs, e) # <<>>}
           ends == InOrder(full)
           n == Cardinality(full)
           new == [i \in DOMAIN ends |->
                     [t |-> ends[i], b |-> Admitted(Quantities(Within(obs, ends[i]), "b")),
                      a |-> Admitted(Quantities(Within(obs, ends[i]), "a"))]]
<1>1. full \subseteq Ends OBVIOUS
<1> HIDE DEF full
<1>2. IsFiniteSet(full) BY <1>1, EndsAre, FS_Subset
<1>3. Ends \subseteq Nat BY EndsAre DEF SignalTypes
<1>4. Numbers(full) BY <1>1, <1>3 DEF Numbers
<1>5. Ordered(ends, full) BY <1>2, <1>4, InOrderIs
<1>6. n \in Nat BY <1>2, FS_CardinalityType
<1>7. ends \in [1 .. n -> full] /\ \A i, j \in 1 .. n : i < j => ends[i] < ends[j]
  BY <1>5 DEF Ordered
<1>8. NewSnaps(obs) = new BY DEF NewSnaps, full
<1>9. ASSUME NEW e PROVE Within(obs, e) \in Seq(Observation)
  <2> DEFINE I == {i \in DOMAIN obs : obs[i].t <= e /\ (e = ended + Interval \/ obs[i].t > e - Interval)}
  <2>1. I \subseteq DOMAIN obs OBVIOUS
  <2>2. Within(obs, e) = At(obs, I) BY DEF Within
  <2> HIDE DEF I
  <2> QED BY <2>1, <2>2, AtTyped
<1>10. \A e, s : Admitted(Quantities(Within(obs, e), s)) \in Int
  BY <1>9, AdmittedIsInt
<1> HIDE DEF ends, n
<1>11. \A i \in 1 .. n : new[i] \in Snapshot /\ new[i].t = ends[i]
  BY <1>1, <1>3, <1>7, <1>10 DEF Snapshot
<1>12. DOMAIN new = 1 .. n BY <1>7
<1>13. new \in [1 .. n -> Snapshot] BY <1>7, <1>11
<1> HIDE DEF new
<1>14. Rising(new) BY <1>7, <1>11, <1>12 DEF Rising
<1>15. \A i \in DOMAIN new : new[i].t \in Ends BY <1>1, <1>7, <1>11, <1>12
<1>16. new \in Seq(Snapshot) BY <1>6, <1>13
<1> QED BY <1>8, <1>14, <1>15, <1>16

LEMMA SignalInitially == SignalInit => SignalInv
<1> SUFFICES ASSUME SignalInit PROVE SignalInv
  OBVIOUS
<1> USE DEF SignalInit
<1>1. SignalTypes BY DEF SignalTypes
<1>2. Rising(snaps) /\ Until(snaps, ended) BY DEF Rising, Until
<1>3. saved.ended = 0 /\ saved.pending = <<>> /\ saved.snaps = <<>> BY DEF createSessionAccumulator
<1>4. SavedInv
  <2>1. snaps = saved.snaps \o <<>> /\ <<>> \in Seq(Snapshot) /\ saved.snaps \in Seq(Snapshot)
    BY <1>3
  <2>2. \A i \in DOMAIN <<>> : saved.ended < <<>>[i].t OBVIOUS
  <2>3. \E since \in Seq(Snapshot) :
          snaps = saved.snaps \o since /\ \A i \in DOMAIN since : saved.ended < since[i].t
    BY <2>1, <2>2
  <2> QED BY <1>1, <1>2, <1>3, <2>3 DEF SavedInv, Rising, Until, SignalTypes
<1> QED BY <1>1, <1>2, <1>4 DEF SignalInv

LEMMA StampsAre == ASSUME SignalTypes PROVE Stamps \subseteq Nat
<1>1. minute \in Int /\ Behind \in Int BY SignalAssumption DEF SignalTypes
<1> DEFINE x == minute - Behind
<1>2. x \in Int BY <1>1
<1> HIDE DEF x
<1>3. Max({0, x}) \in Nat
  <2>1. Max({x, 0}) = Pos(x) BY <1>2, PositivePart
  <2>2. {0, x} = {x, 0} OBVIOUS
  <2> QED BY <1>2, <2>1, <2>2 DEF Pos
<1> QED BY <1>3 DEF Stamps, x

\* What is appended to the snapshots comes later than what was there.
LEMMA RisingGrows ==
  ASSUME NEW s \in Seq(Snapshot), NEW r \in Seq(Snapshot), NEW u \in Int, NEW v \in Int, u <= v,
         Rising(s), Until(s, u), Rising(r), \A i \in DOMAIN r : u < r[i].t /\ r[i].t <= v
  PROVE  Rising(s \o r) /\ Until(s \o r, v)
<1> DEFINE m == Len(s)
           w == s \o r
<1>1. m \in Nat /\ Len(r) \in Nat /\ w \in Seq(Snapshot)
  OBVIOUS
<1>2. DOMAIN s = 1 .. m /\ DOMAIN r = 1 .. Len(r) /\ DOMAIN w = 1 .. (m + Len(r))
  OBVIOUS
<1>3. \A i \in 1 .. m : w[i] = s[i]
  OBVIOUS
<1>4. ASSUME NEW i \in 1 .. (m + Len(r)), i > m PROVE i - m \in 1 .. Len(r) /\ w[i] = r[i - m]
  <2>1. i - m \in 1 .. Len(r) BY <1>1, <1>4
  <2>2. w[i] = r[i - Len(s)] BY <1>4
  <2> QED BY <2>1, <2>2
<1>5. \A i \in DOMAIN w : w[i].t \in Int
  <2>1. \A i \in DOMAIN w : w[i] \in Snapshot BY <1>1
  <2> QED BY <2>1 DEF Snapshot
<1> HIDE DEF m, w
<1>6. \A i \in 1 .. m : w[i].t <= u
  BY <1>2, <1>3 DEF Until
<1>7. \A i \in 1 .. (m + Len(r)) : i > m => u < w[i].t /\ w[i].t <= v
  BY <1>2, <1>4
<1>8. Until(w, v)
  BY <1>1, <1>2, <1>5, <1>6, <1>7 DEF Until
<1>9. ASSUME NEW i \in DOMAIN w, NEW j \in DOMAIN w, i < j PROVE w[i].t < w[j].t
  <2>1. CASE j <= m
    <3>1. i \in 1 .. m /\ j \in 1 .. m BY <1>1, <1>2, <1>9, <2>1
    <3> QED BY <1>2, <1>3, <1>9, <3>1 DEF Rising
  <2>2. CASE i <= m /\ m < j
    BY <1>1, <1>2, <1>5, <1>6, <1>7, <1>9, <2>2
  <2>3. CASE m < i
    <3>1. i - m \in 1 .. Len(r) /\ w[i] = r[i - m] BY <1>2, <1>4, <2>3
    <3>2. j - m \in 1 .. Len(r) /\ w[j] = r[j - m] BY <1>1, <1>2, <1>4, <1>9, <2>3
    <3>3. i - m < j - m BY <1>1, <1>2, <1>9
    <3>4. r[i - m].t < r[j - m].t BY <1>2, <3>1, <3>2, <3>3 DEF Rising
    <3> QED BY <3>1, <3>2, <3>4
  <2> QED BY <1>1, <1>2, <2>1, <2>2, <2>3
<1>10. Rising(w) BY <1>9 DEF Rising
<1> QED BY <1>8, <1>10 DEF w

LEMMA ConcatTwice ==
  ASSUME NEW T, NEW a \in Seq(T), NEW b \in Seq(T), NEW c \in Seq(T)
  PROVE  b \o c \in Seq(T) /\ (a \o b) \o c = a \o (b \o c)
OBVIOUS

LEMMA ObserveStep ==
  ASSUME SignalInv, NEW s \in Side, NEW q \in Qty, NEW t \in Stamps, Observe(s, q, t)
  PROVE  /\ SignalInv'
         /\ \E new \in Seq(Snapshot) : snaps' = snaps \o new
<1> DEFINE obs == [t |-> t, side |-> s, qty |-> q]
           open == Append(pending, obs)
           last == Max(Ends \cup {ended})
           I == {i \in DOMAIN open : last = ended \/ open[i].t > last}
           new == NewSnaps(open)
<1>1. SignalTypes /\ Rising(snaps) /\ Until(snaps, ended) /\ SavedInv BY DEF SignalInv
<1>2. /\ raw' = Append(raw, obs) /\ snaps' = snaps \o new /\ pending' = At(open, I)
      /\ ended' = last /\ minute' = minute /\ saved' = saved
  BY DEF Observe
<1>3. obs \in Observation BY <1>1, StampsAre DEF Observation
<1> HIDE DEF obs
<1>4. open \in Seq(Observation) /\ raw' \in Seq(Observation)
  BY <1>1, <1>2, <1>3 DEF SignalTypes
<1> HIDE DEF open
<1>5. pending' \in Seq(Observation)
  <2>1. I \subseteq DOMAIN open OBVIOUS
  <2> HIDE DEF I
  <2> QED BY <1>2, <1>4, <2>1, AtTyped
<1>6. new \in Seq(Snapshot) /\ Rising(new) /\ \A i \in DOMAIN new : new[i].t \in Ends
  BY <1>1, <1>4, NewSnapsAre
<1>7. /\ last \in ended .. minute
      /\ \A e \in Ends : e <= last /\ e \in (ended + 1) .. minute
  BY <1>1, EndsAre
<1> HIDE DEF new, last, I
<1>8. minute \in Nat /\ ended \in Nat /\ snaps \in Seq(Snapshot) BY <1>1 DEF SignalTypes
<1>9. \A i \in DOMAIN new : ended < new[i].t /\ new[i].t <= last /\ new[i].t <= minute
  BY <1>6, <1>7, <1>8
<1>10. Rising(snaps \o new) /\ Until(snaps \o new, last)
  <2>1. ended \in Int /\ last \in Int /\ ended <= last BY <1>7, <1>8
  <2> QED BY <1>1, <1>6, <1>8, <1>9, <2>1, RisingGrows
<1>11. SignalTypes'
  BY <1>2, <1>4, <1>5, <1>6, <1>7, <1>8 DEF SignalTypes
<1>12. Rising(snaps)' /\ Until(snaps, ended)'
  BY <1>2, <1>10 DEF Rising, Until
<1>13. SavedInv'
  <2>1. PICK since \in Seq(Snapshot) :
          snaps = saved.snaps \o since /\ \A i \in DOMAIN since : saved.ended < since[i].t
    BY <1>1 DEF SavedInv
  <2> DEFINE both == since \o new
  <2>2. saved.ended \in Nat /\ saved.ended <= ended /\ saved.snaps \in Seq(Snapshot) BY <1>1 DEF SavedInv
  <2>3. both \in Seq(Snapshot) /\ snaps \o new = saved.snaps \o both
    <3> DEFINE o == saved.snaps
    <3>1. o \in Seq(Snapshot) /\ new \in Seq(Snapshot) /\ snaps = o \o since BY <1>6, <2>1, <2>2
    <3> HIDE DEF o
    <3>2. since \o new \in Seq(Snapshot) /\ (o \o since) \o new = o \o (since \o new)
      BY <3>1, ConcatTwice
    <3> QED BY <3>1, <3>2 DEF o
  <2>4. ASSUME NEW i \in DOMAIN both PROVE saved.ended < both[i].t
    <3>1. Len(since) \in Nat /\ Len(new) \in Nat /\ i \in 1 .. (Len(since) + Len(new)) BY <1>6
    <3>2. CASE i <= Len(since)
      <4>1. i \in DOMAIN since /\ both[i] = since[i] BY <1>6, <3>1, <3>2
      <4> QED BY <2>1, <4>1
    <3>3. CASE i > Len(since)
      <4>1. i - Len(since) \in DOMAIN new /\ both[i] = new[i - Len(since)] BY <1>6, <3>1, <3>3
      <4>2. new[i - Len(since)] \in Snapshot BY <1>6, <4>1
      <4>3. new[i - Len(since)].t \in Nat BY <4>2 DEF Snapshot
      <4>4. ended < new[i - Len(since)].t BY <1>9, <4>1
      <4> QED BY <1>8, <2>2, <4>1, <4>3, <4>4
    <3> QED BY <3>1, <3>2, <3>3
  <2>5. saved'.ended <= ended' BY <1>2, <1>7, <1>8, <2>2
  <2> HIDE DEF both
  <2>6. \E x \in Seq(Snapshot) :
          snaps' = saved'.snaps \o x /\ \A i \in DOMAIN x : saved'.ended < x[i].t
    BY <1>2, <2>3, <2>4
  <2> QED BY <1>1, <1>2, <2>5, <2>6 DEF SavedInv, Rising, Until
<1> QED BY <1>2, <1>6, <1>11, <1>12, <1>13 DEF SignalInv

\* A checkpoint that has just been stored or read back lacks nothing.
LEMMA LacksNothing ==
  ASSUME NEW s \in Seq(Snapshot), NEW u
  PROVE  \E since \in Seq(Snapshot) : s = s \o since /\ \A i \in DOMAIN since : u < since[i].t
<1>1. <<>> \in Seq(Snapshot) /\ s = s \o <<>> OBVIOUS
<1>2. \A i \in DOMAIN <<>> : u < <<>>[i].t OBVIOUS
<1> QED BY <1>1, <1>2

LEMMA SaveAccumulatorStep ==
  ASSUME SignalInv, SaveAccumulator
  PROVE  SignalInv'
<1>1. SignalTypes /\ Rising(snaps) /\ Until(snaps, ended) BY DEF SignalInv
<1>2. /\ UNCHANGED <<minute, raw, pending, ended, snaps>>
      /\ saved'.ended = ended /\ saved'.pending = pending /\ saved'.snaps = snaps
  BY DEF SaveAccumulator, serializeAccumulator, accumulator
<1>3. SignalTypes' /\ Rising(snaps)' /\ Until(snaps, ended)'
  BY <1>1, <1>2 DEF SignalTypes, Rising, Until
<1>4. saved'.snaps = snaps' /\ saved'.ended = ended' /\ saved'.pending = pending' BY <1>2
<1>5. /\ snaps' \in Seq(Snapshot) /\ ended' \in Nat /\ pending' \in Seq(Observation)
      /\ Rising(snaps') /\ Until(snaps', ended')
  BY <1>3 DEF SignalTypes, Rising, Until
<1>6. \E since \in Seq(Snapshot) :
        snaps' = saved'.snaps \o since /\ \A i \in DOMAIN since : saved'.ended < since[i].t
  BY <1>4, <1>5, LacksNothing
<1>7. SavedInv' BY <1>4, <1>5, <1>6 DEF SavedInv, Rising, Until
<1> QED BY <1>3, <1>7 DEF SignalInv

LEMMA RestartStep ==
  ASSUME SignalInv, Restart
  PROVE  SignalInv' /\ snaps' = saved.snaps /\ ended' = saved.ended /\ minute' = minute
<1>1. SignalTypes /\ SavedInv BY DEF SignalInv
<1>2. /\ UNCHANGED <<minute, saved>> /\ ended' = saved.ended /\ snaps' = saved.snaps
      /\ pending' = saved.pending /\ raw' = saved.pending
  BY DEF Restart, restoreAccumulator
<1>3. SignalTypes' /\ Rising(snaps)' /\ Until(snaps, ended)'
  BY <1>1, <1>2 DEF SignalTypes, SavedInv, Rising, Until
<1>4. saved'.snaps = snaps' /\ saved'.ended = ended' /\ saved'.pending = pending' BY <1>2
<1>5. /\ snaps' \in Seq(Snapshot) /\ ended' \in Nat /\ pending' \in Seq(Observation)
      /\ Rising(snaps') /\ Until(snaps', ended')
  BY <1>3 DEF SignalTypes, Rising, Until
<1>6. \E since \in Seq(Snapshot) :
        snaps' = saved'.snaps \o since /\ \A i \in DOMAIN since : saved'.ended < since[i].t
  BY <1>4, <1>5, LacksNothing
<1>7. SavedInv' BY <1>4, <1>5, <1>6 DEF SavedInv, Rising, Until
<1> QED BY <1>2, <1>3, <1>7 DEF SignalInv

LEMMA SignalStep ==
  ASSUME SignalInv, [SignalNext]_flow
  PROVE  SignalInv'
<1>1. CASE UNCHANGED flow
  BY <1>1 DEF SignalInv, SignalTypes, SavedInv, Rising, Until, flow, accumulator
<1>2. CASE Minute
  <2>1. UNCHANGED <<accumulator, saved>> /\ minute' = minute + 1 BY <1>2 DEF Minute
  <2>2. SavedInv' BY <2>1 DEF SignalInv, SavedInv, Rising, Until, accumulator
  <2> QED BY <2>1, <2>2 DEF SignalInv, SignalTypes, Rising, Until, accumulator
<1>3. ASSUME NEW s \in Side, NEW q \in Qty, NEW t \in Stamps, Observe(s, q, t) PROVE SignalInv'
  BY <1>3, ObserveStep
<1> QED BY <1>1, <1>2, <1>3, SaveAccumulatorStep, RestartStep DEF SignalNext

\* The snapshots are in the order of time, none ahead of the last closed interval.
THEOREM SignalInvariant == SignalSpec => []SignalInv
BY SignalInitially, SignalStep, PTL DEF SignalSpec

-----------------------------------------------------------------------------
(* The first crossing stays                                                 *)

Beyond(knots, u) == {j \in DOMAIN knots : knots[j].t <= u /\ Abs(knots[j].v) >= Scale * CrossingLevel}

LEMMA CrossingIs ==
  ASSUME NEW knots, NEW u
  PROVE  findFirstCrossing(knots, u) = IF Beyond(knots, u) = {} THEN NoSignal ELSE knots[Min(Beyond(knots, u))]
BY DEF findFirstCrossing, Beyond

LEMMA G2Is ==
  ASSUME NEW ss, NEW k \in DOMAIN ss
  PROVE  /\ DOMAIN G2Knots(ss) = DOMAIN ss
         /\ G2Knots(ss)[k] = [t |-> ss[k].t, v |-> Sum([i \in DOMAIN ss |-> Rho(ss[i])], 1 .. k)]
BY DEF G2Knots

\* A smallest index stays the smallest when larger ones join.
LEMMA FirstStays ==
  ASSUME NEW A, NEW B, A \subseteq B, B \subseteq Nat, A # {},
         \A i \in A : \A j \in B \ A : i < j
  PROVE  Min(B) = Min(A)
<1>1. Min(A) \in A /\ \A i \in A : Min(A) <= i
  <2>1. A \in SUBSET Nat OBVIOUS
  <2> QED BY <2>1, SmallestOf
<1>2. Min(B) \in B /\ \A i \in B : Min(B) <= i
  <2>1. B \in SUBSET Nat /\ B # {} OBVIOUS
  <2> QED BY <2>1, SmallestOf
<1> DEFINE a == Min(A)
           b == Min(B)
<1>3. a \in A /\ b \in B /\ a \in Nat /\ b \in Nat /\ a \in B BY <1>1, <1>2
<1>4. b <= a /\ (b \in A => a <= b) BY <1>1, <1>2, <1>3
<1>5. b \notin A => a < b BY <1>3
<1> HIDE DEF a, b
<1>6. a = b BY <1>3, <1>4, <1>5
<1> QED BY <1>6 DEF a, b

\* Snapshots that join at the end leave the knots before them as they were.
LEMMA G2Grows ==
  ASSUME NEW s \in Seq(Snapshot), NEW r \in Seq(Snapshot), NEW k \in DOMAIN s
  PROVE  k \in DOMAIN (s \o r) /\ G2Knots(s \o r)[k] = G2Knots(s)[k]
<1> DEFINE w == s \o r
           f == [i \in DOMAIN s |-> Rho(s[i])]
           g == [i \in DOMAIN w |-> Rho(w[i])]
<1>1. Len(s) \in Nat /\ DOMAIN s = 1 .. Len(s) /\ k \in Nat OBVIOUS
<1>2. k \in DOMAIN w /\ \A i \in DOMAIN s : i \in DOMAIN w /\ w[i] = s[i] OBVIOUS
<1> HIDE DEF w
<1>3. \A i \in 1 .. k : i \in DOMAIN s BY <1>1
<1>4. \A i \in 1 .. k : g[i] = f[i] BY <1>2, <1>3
<1>5. IsFiniteSet(1 .. k) BY <1>1, IntervalFinite
<1>6. G2Knots(w)[k] = [t |-> w[k].t, v |-> Sum(g, 1 .. k)] BY <1>2, G2Is
<1>7. G2Knots(s)[k] = [t |-> s[k].t, v |-> Sum(f, 1 .. k)] BY G2Is
<1> HIDE DEF f, g
<1>8. Sum(g, 1 .. k) = Sum(f, 1 .. k)
  <2>1. SumOf(g, 1 .. k) = SumOf(f, 1 .. k) BY <1>4, <1>5, SumOfSame
  <2> QED BY <2>1, SumIsSumOf
<1>9. w[k].t = s[k].t BY <1>2
<1> QED BY <1>2, <1>6, <1>7, <1>8, <1>9 DEF w

LEMMA CrossingKept ==
  ASSUME NEW s \in Seq(Snapshot), NEW r \in Seq(Snapshot), NEW u \in Int, NEW v \in Int, u <= v,
         \A i \in DOMAIN s : s[i].t <= v => s[i].t <= u,
         findFirstCrossing(G2Knots(s), u) # NoSignal
  PROVE  findFirstCrossing(G2Knots(s \o r), v) = findFirstCrossing(G2Knots(s), u)
<1> DEFINE w == s \o r
           p == G2Knots(s)
           q == G2Knots(w)
           A == Beyond(p, u)
           B == Beyond(q, v)
<1>1. Len(s) \in Nat /\ DOMAIN s = 1 .. Len(s) /\ DOMAIN w \subseteq Nat \ {0} OBVIOUS
<1>2. DOMAIN p = DOMAIN s /\ DOMAIN q = DOMAIN w BY DEF G2Knots
<1>3. \A k \in DOMAIN s : k \in DOMAIN w /\ q[k] = p[k] BY G2Grows
<1>4. ASSUME NEW k \in DOMAIN s PROVE p[k].t = s[k].t
  <2>1. p[k] = [t |-> s[k].t, v |-> Sum([i \in DOMAIN s |-> Rho(s[i])], 1 .. k)] BY G2Is
  <2> HIDE DEF p
  <2> QED BY <2>1
<1>5. \A k \in DOMAIN s : s[k].t \in Int
  <2>1. \A k \in DOMAIN s : s[k] \in Snapshot OBVIOUS
  <2> QED BY <2>1 DEF Snapshot
<1> HIDE DEF p, q, w
<1>6. \A k \in DOMAIN s : k \in A <=> k \in B
  <2>1. \A k \in DOMAIN s : k \in A <=> p[k].t <= u /\ Abs(p[k].v) >= Scale * CrossingLevel
    BY <1>2 DEF Beyond
  <2>2. \A k \in DOMAIN s : k \in B <=> q[k].t <= v /\ Abs(q[k].v) >= Scale * CrossingLevel
    BY <1>2, <1>3 DEF Beyond
  <2>3. \A k \in DOMAIN s : p[k].t <= u <=> p[k].t <= v
    BY <1>4, <1>5
  <2> QED BY <1>3, <2>1, <2>2, <2>3
<1>7. A \subseteq DOMAIN s /\ B \subseteq Nat \ {0} /\ B \subseteq Nat
  BY <1>1, <1>2 DEF Beyond
<1>8. A # {} /\ findFirstCrossing(p, u) = p[Min(A)]
  <2>1. findFirstCrossing(p, u) = IF A = {} THEN NoSignal ELSE p[Min(A)] BY CrossingIs
  <2>2. findFirstCrossing(p, u) # NoSignal BY DEF p
  <2> QED BY <2>1, <2>2
<1> HIDE DEF A, B
<1>9. ASSUME NEW i \in A, NEW j \in B \ A PROVE i < j
  <2>1. i \in 1 .. Len(s) /\ j \in Nat \ {0} /\ j \notin 1 .. Len(s) BY <1>1, <1>6, <1>7
  <2>2. j > Len(s) BY <1>1, <2>1
  <2> QED BY <1>1, <2>1, <2>2
<1>10. Min(B) = Min(A) BY <1>6, <1>7, <1>8, <1>9, FirstStays
<1>11. Min(A) \in A
  <2>1. A \in SUBSET Nat BY <1>1, <1>7
  <2> QED BY <1>8, <2>1, SmallestOf
<1>12. B # {} BY <1>6, <1>7, <1>11
<1>13. findFirstCrossing(q, v) = q[Min(B)] BY <1>12, CrossingIs DEF B
<1>14. q[Min(B)] = p[Min(A)] BY <1>3, <1>7, <1>10, <1>11
<1>15. findFirstCrossing(q, v) = findFirstCrossing(p, u) BY <1>8, <1>13, <1>14
<1> QED BY <1>15 DEF p, q, w

\* A crossing that is earlier than what joined is found without it.
LEMMA CrossingRemembered ==
  ASSUME NEW s \in Seq(Snapshot), NEW r \in Seq(Snapshot), NEW u \in Int,
         findFirstCrossing(G2Knots(s \o r), u) # NoSignal,
         \A i \in DOMAIN r : findFirstCrossing(G2Knots(s \o r), u).t < r[i].t
  PROVE  findFirstCrossing(G2Knots(s), u) = findFirstCrossing(G2Knots(s \o r), u)
<1> DEFINE w == s \o r
           p == G2Knots(s)
           q == G2Knots(w)
           A == Beyond(p, u)
           B == Beyond(q, u)
           c == findFirstCrossing(q, u)
           m == Min(B)
<1>1. Len(s) \in Nat /\ DOMAIN s = 1 .. Len(s) /\ DOMAIN w = 1 .. (Len(s) + Len(r)) /\ Len(r) \in Nat
  OBVIOUS
<1>2. DOMAIN p = DOMAIN s /\ DOMAIN q = DOMAIN w BY DEF G2Knots
<1>3. \A k \in DOMAIN s : k \in DOMAIN w /\ q[k] = p[k] BY G2Grows
<1>4. ASSUME NEW k \in DOMAIN w PROVE q[k].t = w[k].t
  <2> DEFINE v == Sum([i \in DOMAIN w |-> Rho(w[i])], 1 .. k)
  <2>1. q[k] = [t |-> w[k].t, v |-> v] BY G2Is
  <2> HIDE DEF q, w, v
  <2> QED BY <2>1
<1>5. \A k \in DOMAIN w : k > Len(s) => k - Len(s) \in DOMAIN r /\ w[k] = r[k - Len(s)]
  BY <1>1
<1>6. \A i \in DOMAIN r : c.t < r[i].t OBVIOUS
<1>7. B # {} /\ c = q[m]
  <2>1. c = IF B = {} THEN NoSignal ELSE q[m] BY CrossingIs
  <2> QED BY <2>1
<1>8. \A i \in DOMAIN r : r[i].t \in Nat
  <2>1. \A i \in DOMAIN r : r[i] \in Snapshot OBVIOUS
  <2> QED BY <2>1 DEF Snapshot
<1> HIDE DEF p, q, w, c
<1>9. m \in B /\ \A i \in B : m <= i
  <2>1. B \in SUBSET Nat BY <1>1, <1>2 DEF Beyond
  <2> HIDE DEF B
  <2> QED BY <1>7, <2>1, SmallestOf
<1>10. m \in DOMAIN w /\ B \subseteq DOMAIN w BY <1>2, <1>9 DEF Beyond
<1> HIDE DEF m
<1>11. m \in DOMAIN s
  <2> SUFFICES ASSUME m > Len(s) PROVE FALSE BY <1>1, <1>10
  <2>1. m - Len(s) \in DOMAIN r /\ w[m] = r[m - Len(s)] BY <1>5, <1>10
  <2>2. c.t = r[m - Len(s)].t BY <1>4, <1>7, <1>10, <2>1
  <2> QED BY <1>6, <1>8, <2>1, <2>2
<1>12. \A k \in DOMAIN s : k \in A <=> k \in B BY <1>2, <1>3 DEF Beyond
<1>13. A \subseteq DOMAIN s BY <1>2 DEF Beyond
<1> HIDE DEF A, B
<1>14. m \in A /\ \A i \in A : m <= i BY <1>9, <1>11, <1>12, <1>13
<1>15. Min(A) = m
  <2>1. A \in SUBSET Nat BY <1>1, <1>13
  <2>2. Min(A) \in A /\ \A i \in A : Min(A) <= i BY <1>14, <2>1, SmallestOf
  <2> DEFINE a == Min(A)
  <2>3. a \in Nat /\ m \in Nat /\ a <= m /\ m <= a BY <1>14, <2>1, <2>2
  <2> HIDE DEF a
  <2>4. a = m BY <2>3
  <2> QED BY <2>4 DEF a
<1>16. findFirstCrossing(p, u) = p[m] BY <1>14, <1>15, CrossingIs DEF A
<1>17. findFirstCrossing(p, u) = c BY <1>3, <1>7, <1>11, <1>16
<1> QED BY <1>17 DEF c, p, q, w

\* The crossing that one evaluation finds is found by every later one, however late or
\* early the exchange has stamped what comes in, unless a restart goes back to before the
\* end of its interval.
THEOREM CrossingStaysHolds == SignalSpec => CrossingStays
<1> DEFINE Till(m) == Min({m, Cutoff - 1})
<1>0. ASSUME NEW m \in Nat
      PROVE  Till(m) \in Int /\ Till(m) = IF m <= Cutoff - 1 THEN m ELSE Cutoff - 1
  <2>1. Cutoff \in Int BY SignalAssumption
  <2>2. Till(m) \in {m, Cutoff - 1} /\ \A x \in {m, Cutoff - 1} : Till(m) <= x
    <3>1. \E x \in {m, Cutoff - 1} : \A y \in {m, Cutoff - 1} : x <= y BY <2>1
    <3> QED BY <3>1 DEF Min
  <2> QED BY <2>1, <2>2
<1>1. ASSUME SignalInv, SignalNext, Crossed # NoSignal, ended' >= Crossed.t PROVE Crossed' = Crossed
  <2>1. /\ minute \in Nat /\ ended \in Nat /\ ended <= minute /\ snaps \in Seq(Snapshot)
        /\ \A i \in DOMAIN snaps : snaps[i].t <= ended
    BY <1>1 DEF SignalInv, SignalTypes, Until
  <2>2. \A i \in DOMAIN snaps : snaps[i].t \in Nat /\ snaps[i].t <= minute
    <3>1. \A i \in DOMAIN snaps : snaps[i] \in Snapshot BY <2>1
    <3>2. \A i \in DOMAIN snaps : snaps[i].t \in Nat BY <3>1 DEF Snapshot
    <3> QED BY <2>1, <3>2
  <2>3. Crossed = findFirstCrossing(G2Knots(snaps), Till(minute)) BY DEF Crossed
  <2>4. Crossed' = findFirstCrossing(G2Knots(snaps'), Till(minute'))
    BY DEF Crossed, findFirstCrossing, G2Knots
  <2>5. CASE Restart
    <3>1. snaps' = saved.snaps /\ ended' = saved.ended /\ minute' = minute BY <1>1, <2>5, RestartStep
    <3>2. saved.snaps \in Seq(Snapshot) /\ saved.ended \in Nat BY <1>1 DEF SignalInv, SavedInv
    <3>3. PICK since \in Seq(Snapshot) :
            snaps = saved.snaps \o since /\ \A i \in DOMAIN since : saved.ended < since[i].t
      BY <1>1 DEF SignalInv, SavedInv
    <3> DEFINE u == Till(minute)
    <3>4. u \in Int BY <1>0, <2>1
    <3>5. Crossed.t \in Int
      <4> DEFINE p == G2Knots(snaps)
                 B == Beyond(p, u)
      <4>1. Crossed = IF B = {} THEN NoSignal ELSE p[Min(B)] BY <2>3, CrossingIs
      <4>2. B \subseteq DOMAIN snaps BY DEF Beyond, G2Knots
      <4>3. DOMAIN snaps \subseteq Nat BY <2>1
      <4>4. B \in SUBSET Nat /\ B # {} BY <1>1, <4>1, <4>2, <4>3
      <4>5. Min(B) \in DOMAIN snaps
        <5>1. Min(B) \in B
          <6> HIDE DEF B
          <6> QED BY <4>4, SmallestOf
        <5> QED BY <4>2, <5>1
      <4> HIDE DEF B
      <4> DEFINE k == Min(B)
      <4>6. p[k] = [t |-> snaps[k].t, v |-> Sum([i \in DOMAIN snaps |-> Rho(snaps[i])], 1 .. k)]
        BY <4>5, G2Is
      <4> HIDE DEF p, k
      <4>7. Crossed.t = snaps[k].t BY <4>1, <4>4, <4>6 DEF k
      <4> QED BY <2>2, <4>5, <4>7 DEF k
    <3>6. \A i \in DOMAIN since : since[i].t \in Nat
      <4>1. \A i \in DOMAIN since : since[i] \in Snapshot OBVIOUS
      <4> QED BY <4>1 DEF Snapshot
    <3>7. \A i \in DOMAIN since : Crossed.t < since[i].t BY <1>1, <3>1, <3>2, <3>3, <3>5, <3>6
    <3> HIDE DEF u, Till
    <3>8. Crossed = findFirstCrossing(G2Knots(saved.snaps \o since), u) BY <2>3, <3>3 DEF u
    <3>9. findFirstCrossing(G2Knots(saved.snaps), u) = findFirstCrossing(G2Knots(saved.snaps \o since), u)
      BY <1>1, <3>2, <3>4, <3>7, <3>8, CrossingRemembered
    <3> QED BY <2>4, <3>1, <3>8, <3>9 DEF u
  <2>6. CASE minute' \in Nat /\ minute <= minute' /\ \E new \in Seq(Snapshot) : snaps' = snaps \o new
    <3>1. PICK new \in Seq(Snapshot) : snaps' = snaps \o new BY <2>6
    <3> DEFINE u == Till(minute)
               v == Till(minute')
    <3>2. u = (IF minute <= Cutoff - 1 THEN minute ELSE Cutoff - 1) /\ u \in Int BY <1>0, <2>1
    <3>3. v = (IF minute' <= Cutoff - 1 THEN minute' ELSE Cutoff - 1) /\ v \in Int BY <1>0, <2>6
    <3> HIDE DEF u, v, Till
    <3>4. u <= v /\ \A i \in DOMAIN snaps : snaps[i].t <= v => snaps[i].t <= u
      <4>1. Cutoff \in Int BY SignalAssumption
      <4> QED BY <2>1, <2>2, <2>6, <3>2, <3>3, <4>1
    <3>5. findFirstCrossing(G2Knots(snaps), u) # NoSignal BY <1>1, <2>3 DEF u
    <3>6. findFirstCrossing(G2Knots(snaps \o new), v) = findFirstCrossing(G2Knots(snaps), u)
      BY <2>1, <3>2, <3>3, <3>4, <3>5, CrossingKept
    <3> QED BY <2>3, <2>4, <3>1, <3>6 DEF u, v
  <2>7. snaps = snaps \o <<>> /\ <<>> \in Seq(Snapshot) BY <2>1
  <2>8. CASE Minute
    <3>1. snaps' = snaps \o <<>> BY <2>7, <2>8 DEF Minute, accumulator
    <3>2. minute' \in Nat /\ minute <= minute' BY <2>1, <2>8 DEF Minute
    <3> QED BY <2>6, <2>7, <3>1, <3>2
  <2>9. CASE SaveAccumulator
    <3>1. snaps' = snaps \o <<>> /\ minute' = minute BY <2>7, <2>9 DEF SaveAccumulator, accumulator
    <3>2. \E new \in Seq(Snapshot) : snaps' = snaps \o new BY <2>7, <3>1
    <3> QED BY <2>1, <2>6, <3>1, <3>2
  <2>10. ASSUME NEW s \in Side, NEW q \in Qty, NEW t \in Stamps, Observe(s, q, t)
         PROVE  Crossed' = Crossed
    <3>1. minute' = minute BY <2>10 DEF Observe
    <3>2. \E new \in Seq(Snapshot) : snaps' = snaps \o new BY <1>1, <2>10, ObserveStep
    <3> QED BY <2>1, <2>6, <3>1, <3>2
  <2> QED BY <1>1, <2>5, <2>8, <2>9, <2>10 DEF SignalNext
<1>2. ASSUME UNCHANGED flow PROVE Crossed' = Crossed
  BY <1>2 DEF flow, accumulator, Crossed, findFirstCrossing, G2Knots
<1>3. SignalInv /\ [SignalNext]_flow
        => [Crossed # NoSignal /\ ended' >= Crossed.t => Crossed' = Crossed]_flow
  BY <1>1, <1>2
<1> QED BY <1>3, SignalInvariant, PTL DEF SignalSpec, CrossingStays

-----------------------------------------------------------------------------
(* The mirrored day                                                         *)

Knot == [t : Nat, v : Int]
Path(p) == p \in Seq(Knot) /\ Rising(p)
Mirror(p) == [k \in DOMAIN p |-> [t |-> p[k].t, v |-> - p[k].v]]

LEMMA QuotientOdd ==
  ASSUME NEW x \in Int, NEW y \in Int, y > 0
  PROVE  Quotient(- x, y) = - Quotient(x, y) /\ Quotient(x, y) \in Int
<1>1. x \div y \in Int /\ (- x) \div y \in Int OBVIOUS
<1>2. CASE x < 0
  <2>1. ~ (- x < 0) /\ - (- x) = x BY <1>2
  <2>2. Quotient(x, y) = - ((- x) \div y) BY <1>2 DEF Quotient
  <2>3. Quotient(- x, y) = (- x) \div y BY <2>1 DEF Quotient
  <2> QED BY <1>1, <2>2, <2>3
<1>3. CASE x = 0
  <2>1. Quotient(x, y) = 0 \div y BY <1>3 DEF Quotient
  <2>2. Quotient(- x, y) = 0 \div y BY <1>3 DEF Quotient
  <2>3. 0 \div y = 0 OBVIOUS
  <2> QED BY <2>1, <2>2, <2>3
<1>4. CASE x > 0
  <2>1. - x < 0 /\ - (- x) = x /\ ~ (x < 0) BY <1>4
  <2>2. Quotient(x, y) = x \div y BY <2>1 DEF Quotient
  <2>3. Quotient(- x, y) = - (x \div y) BY <2>1 DEF Quotient
  <2> QED BY <1>1, <2>2, <2>3
<1> QED BY <1>2, <1>3, <1>4

LEMMA PathIs ==
  ASSUME NEW p, Path(p)
  PROVE  /\ Len(p) \in Nat /\ DOMAIN p = 1 .. Len(p)
         /\ \A k \in DOMAIN p : p[k].t \in Nat /\ p[k].v \in Int
         /\ Path(Mirror(p)) /\ DOMAIN Mirror(p) = DOMAIN p /\ Len(Mirror(p)) = Len(p)
         /\ \A k \in DOMAIN p : Mirror(p)[k].t = p[k].t /\ Mirror(p)[k].v = - p[k].v
<1> DEFINE q == Mirror(p)
<1>1. p \in Seq(Knot) /\ Rising(p) BY DEF Path
<1>2. Len(p) \in Nat /\ DOMAIN p = 1 .. Len(p) BY <1>1
<1>3. ASSUME NEW k \in DOMAIN p PROVE p[k].t \in Nat /\ p[k].v \in Int
  <2>1. p[k] \in Knot BY <1>1
  <2> QED BY <2>1 DEF Knot
<1>4. DOMAIN q = DOMAIN p /\ \A k \in DOMAIN p : q[k] = [t |-> p[k].t, v |-> - p[k].v]
  BY DEF Mirror
<1>5. q = [k \in DOMAIN p |-> [t |-> p[k].t, v |-> - p[k].v]] BY DEF Mirror
<1> HIDE DEF q
<1>6. \A k \in DOMAIN p : q[k].t = p[k].t /\ q[k].v = - p[k].v /\ q[k] \in Knot
  BY <1>3, <1>4 DEF Knot
<1>7. q \in [1 .. Len(p) -> Knot] BY <1>2, <1>5, <1>6
<1>8. q \in Seq(Knot) /\ Len(q) = Len(p) BY <1>2, <1>7
<1>9. Rising(q) BY <1>1, <1>4, <1>6 DEF Rising
<1> QED BY <1>2, <1>3, <1>4, <1>6, <1>8, <1>9 DEF Path, q

LEMMA LesserOf ==
  ASSUME NEW x \in Int, NEW y \in Int
  PROVE  Min({x, y}) = IF x <= y THEN x ELSE y
<1>1. \E m \in {x, y} : \A k \in {x, y} : m <= k OBVIOUS
<1>2. Min({x, y}) \in {x, y} /\ \A k \in {x, y} : Min({x, y}) <= k BY <1>1 DEF Min
<1> QED BY <1>2

LEMMA SegmentMirrored ==
  ASSUME NEW p, Path(p), NEW j \in DOMAIN p, NEW u \in Int
  PROVE  Segment(Mirror(p), j, u) = - Segment(p, j, u) /\ Segment(p, j, u) \in Int
<1> DEFINE q == Mirror(p)
           n == Len(p)
           s == p[j].t
           x == p[j].v
<1>1. /\ n \in Nat /\ DOMAIN p = 1 .. n /\ Len(q) = n
      /\ q[j].t = s /\ q[j].v = - x /\ s \in Int /\ x \in Int
  BY PathIs
<1>2. CASE j = n
  <2>1. Segment(p, j, u) = (840 * x + 840 * x) * (u - s)
    BY <1>2 DEF Segment, AreaScale
  <2>2. Segment(q, j, u) = (840 * (- x) + 840 * (- x)) * (u - s)
    <3> HIDE DEF q, n, s, x
    <3> QED BY <1>1, <1>2 DEF Segment, AreaScale
  <2> HIDE DEF q, n, s, x
  <2>3. (840 * (- x) + 840 * (- x)) * (u - s) = - ((840 * x + 840 * x) * (u - s))
    BY <1>1
  <2>4. (840 * x + 840 * x) * (u - s) \in Int BY <1>1
  <2> QED BY <2>1, <2>2, <2>3, <2>4 DEF q
<1>3. CASE j # n
  <2> DEFINE t == p[j + 1].t
             y == p[j + 1].v
             e == Min({t, u})
             gap == 840 * (y - x) * (e - s)
             z == Quotient(gap, t - s)
  <2>1. j + 1 \in DOMAIN p BY <1>1, <1>3
  <2>2. q[j + 1].t = t /\ q[j + 1].v = - y /\ t \in Int /\ y \in Int
    BY <2>1, PathIs
  <2>3. s < t BY <1>1, <2>1 DEF Path, Rising
  <2>4. e \in Int BY <2>2, LesserOf
  <2>5. Segment(p, j, u) = (840 * x + (840 * x + z)) * (e - s)
    BY <1>3 DEF Segment, AreaScale, Interpolate
  <2>6. Segment(q, j, u) = (840 * (- x) + (840 * (- x) + Quotient(840 * ((- y) - (- x)) * (e - s), t - s))) * (e - s)
    <3>1. Segment(q, j, u) =
            (840 * q[j].v + (840 * q[j].v +
               Quotient(840 * (q[j + 1].v - q[j].v) * (Min({q[j + 1].t, u}) - q[j].t), q[j + 1].t - q[j].t)))
            * (Min({q[j + 1].t, u}) - q[j].t)
      <4> HIDE DEF q, n
      <4> QED BY <1>1, <1>3 DEF Segment, AreaScale, Interpolate
    <3> HIDE DEF q, n, s, x, t, y
    <3> QED BY <1>1, <2>2, <3>1
  <2> HIDE DEF q, n, s, x, t, y, e
  <2>7. 840 * ((- y) - (- x)) * (e - s) = - gap /\ gap \in Int
    BY <1>1, <2>2, <2>4
  <2> HIDE DEF gap
  <2>8. Quotient(- gap, t - s) = - z /\ z \in Int
    <3> DEFINE w == t - s
    <3>1. w \in Int /\ w > 0 BY <1>1, <2>2, <2>3
    <3>2. gap \in Int BY <2>7
    <3> HIDE DEF w
    <3>3. Quotient(- gap, w) = - Quotient(gap, w) /\ Quotient(gap, w) \in Int BY <3>1, <3>2, QuotientOdd
    <3> QED BY <3>3 DEF w
  <2> HIDE DEF z
  <2>9. Segment(q, j, u) = (840 * (- x) + (840 * (- x) + (- z))) * (e - s)
    BY <2>6, <2>7, <2>8
  <2>10. (840 * (- x) + (840 * (- x) + (- z))) * (e - s) = - ((840 * x + (840 * x + z)) * (e - s))
    BY <1>1, <2>4, <2>8
  <2>11. (840 * x + (840 * x + z)) * (e - s) \in Int BY <1>1, <2>4, <2>8
  <2> QED BY <2>5, <2>9, <2>10, <2>11 DEF q
<1> QED BY <1>2, <1>3

Before(p, u) == {j \in DOMAIN p : p[j].t <= u}

LEMMA BeforeMirrored ==
  ASSUME NEW p, Path(p), NEW u
  PROVE  Before(Mirror(p), u) = Before(p, u) /\ IsFiniteSet(Before(p, u)) /\ Before(p, u) \in SUBSET DOMAIN p
<1>1. Before(p, u) \subseteq 1 .. Len(p) /\ Len(p) \in Nat BY PathIs DEF Before
<1>2. IsFiniteSet(Before(p, u)) BY <1>1, PlacesFinite
<1>3. Before(Mirror(p), u) = Before(p, u) BY PathIs DEF Before
<1> QED BY <1>2, <1>3 DEF Before

LEMMA AreaMirrored ==
  ASSUME NEW p, Path(p), NEW u \in Int
  PROVE  signedArea(Mirror(p), u) = - signedArea(p, u) /\ signedArea(p, u) \in Int
<1> DEFINE q == Mirror(p)
           B == Before(p, u)
           f == [j \in DOMAIN p |-> p[j].v]
           g == [j \in DOMAIN q |-> q[j].v]
           ff == [j \in DOMAIN p |-> Segment(p, j, u)]
           gg == [j \in DOMAIN q |-> Segment(q, j, u)]
           C == {j \in B : p[j].t < u}
<1>1. Before(q, u) = B /\ IsFiniteSet(B) /\ B \in SUBSET DOMAIN p BY BeforeMirrored
<1>2. DOMAIN q = DOMAIN p /\ \A j \in DOMAIN p : f[j] \in Int /\ g[j] = - f[j] BY PathIs
<1>3. \A j \in DOMAIN p : ff[j] \in Int /\ gg[j] = - ff[j] BY <1>2, SegmentMirrored
<1>4. C \subseteq B /\ {j \in B : q[j].t < u} = C BY <1>1, PathIs
<1>5. IsFiniteSet(C) BY <1>1, <1>4, FS_Subset
<1>6. signedArea(p, u) = IF Cardinality(B) <= 1 THEN 2 * AreaScale * Sum(f, B) ELSE Sum(ff, C)
  BY DEF signedArea, Before
<1>7. signedArea(q, u) = IF Cardinality(B) <= 1 THEN 2 * AreaScale * Sum(g, B) ELSE Sum(gg, C)
  <2>1. signedArea(q, u) = IF Cardinality(Before(q, u)) <= 1 THEN 2 * AreaScale * Sum(g, Before(q, u))
                           ELSE Sum(gg, {j \in Before(q, u) : q[j].t < u})
    <3> HIDE DEF q
    <3> QED BY DEF signedArea, Before
  <2> HIDE DEF q, g, gg, B
  <2> QED BY <1>1, <1>4, <2>1
<1> HIDE DEF q, B, C, f, g, ff, gg
<1>8. Sum(g, B) = - Sum(f, B) /\ Sum(f, B) \in Int
  <2>1. \A j \in B : f[j] \in Int /\ g[j] = - f[j] BY <1>1, <1>2
  <2> QED BY <1>1, <2>1, NegatedTotal
<1>9. Sum(gg, C) = - Sum(ff, C) /\ Sum(ff, C) \in Int
  <2>1. \A j \in C : ff[j] \in Int /\ gg[j] = - ff[j] BY <1>1, <1>3, <1>4
  <2> QED BY <1>5, <2>1, NegatedTotal
<1> DEFINE a == signedArea(p, u)
           b == signedArea(q, u)
<1>10. b = - a /\ a \in Int
  <2> HIDE DEF a, b
  <2>1. a = IF Cardinality(B) <= 1 THEN 1680 * Sum(f, B) ELSE Sum(ff, C) BY <1>6 DEF a, AreaScale
  <2>2. b = IF Cardinality(B) <= 1 THEN 1680 * Sum(g, B) ELSE Sum(gg, C) BY <1>7 DEF b, AreaScale
  <2> QED BY <1>8, <1>9, <2>1, <2>2
<1> QED BY <1>10 DEF q

LEMMA ValueMirrored ==
  ASSUME NEW p, Path(p), NEW u
  PROVE  valueAtOrBefore(Mirror(p), u) = - valueAtOrBefore(p, u) /\ valueAtOrBefore(p, u) \in Int
<1> DEFINE q == Mirror(p)
           B == Before(p, u)
<1>1. Before(q, u) = B /\ B \in SUBSET DOMAIN p BY BeforeMirrored
<1>2. valueAtOrBefore(p, u) = IF B = {} THEN 0 ELSE p[Max(B)].v
  BY DEF valueAtOrBefore, Before
<1>3. valueAtOrBefore(q, u) = IF B = {} THEN 0 ELSE q[Max(B)].v
  <2>1. valueAtOrBefore(q, u) = IF Before(q, u) = {} THEN 0 ELSE q[Max(Before(q, u))].v
    <3> HIDE DEF q
    <3> QED BY DEF valueAtOrBefore, Before
  <2> HIDE DEF q, B
  <2> QED BY <1>1, <2>1
<1>4. B # {} => Max(B) \in DOMAIN p
  <2>1. B \in SUBSET (1 .. Len(p)) /\ Len(p) \in Nat BY <1>1, PathIs
  <2> HIDE DEF B
  <2> QED BY <1>1, <2>1, LargestIn
<1> HIDE DEF B
<1>5. CASE B = {}
  <2>1. valueAtOrBefore(p, u) = 0 /\ valueAtOrBefore(q, u) = 0 BY <1>2, <1>3, <1>5
  <2> DEFINE x == valueAtOrBefore(p, u)
             y == valueAtOrBefore(q, u)
  <2> HIDE DEF x, y
  <2>2. x = 0 /\ y = 0 BY <2>1 DEF x, y
  <2>3. x \in Int /\ y \in Int /\ -1 < x /\ x < 1 /\ -1 < y /\ y < 1 BY <2>2
  <2>4. y = - x BY <2>3
  <2> QED BY <2>3, <2>4 DEF x, y
<1>6. CASE B # {}
  <2> DEFINE j == Max(B)
  <2>1. q[j].v = - p[j].v /\ p[j].v \in Int BY <1>4, <1>6, PathIs
  <2> QED BY <1>2, <1>3, <1>6, <2>1
<1> QED BY <1>5, <1>6

LEMMA AbsEven == ASSUME NEW x \in Int PROVE Abs(- x) = Abs(x)
BY DEF Abs

LEMMA SignOdd ==
  ASSUME NEW x \in Int
  PROVE  Sign(- x) = - Sign(x) /\ Sign(x) \in {-1, 0, 1}
BY DEF Sign

LEMMA BeyondMirrored ==
  ASSUME NEW p, Path(p), NEW u
  PROVE  Beyond(Mirror(p), u) = Beyond(p, u)
<1> DEFINE q == Mirror(p)
<1>1. /\ DOMAIN q = DOMAIN p
      /\ \A k \in DOMAIN p : q[k].t = p[k].t /\ q[k].v = - p[k].v /\ p[k].v \in Int
  BY PathIs
<1>2. \A k \in DOMAIN p : Abs(q[k].v) = Abs(p[k].v) BY <1>1, AbsEven
<1>3. Beyond(q, u) = {j \in DOMAIN q : q[j].t <= u /\ Abs(q[j].v) >= Scale * CrossingLevel}
  BY DEF Beyond
<1> HIDE DEF q
<1>4. Beyond(q, u) = {j \in DOMAIN p : p[j].t <= u /\ Abs(p[j].v) >= Scale * CrossingLevel}
  BY <1>1, <1>2, <1>3
<1> QED BY <1>4 DEF Beyond, q

\* The crossing of the mirrored path is at the same instant, on the other side.
LEMMA CrossingMirrored ==
  ASSUME NEW p, Path(p), NEW u
  PROVE  \/ findFirstCrossing(p, u) = NoSignal /\ findFirstCrossing(Mirror(p), u) = NoSignal
         \/ \E t \in Nat, v \in Int :
              /\ findFirstCrossing(p, u) = [t |-> t, v |-> v]
              /\ findFirstCrossing(Mirror(p), u) = [t |-> t, v |-> - v]
<1> DEFINE q == Mirror(p)
           B == Beyond(p, u)
<1>1. Beyond(q, u) = B BY BeyondMirrored
<1>2. findFirstCrossing(p, u) = IF B = {} THEN NoSignal ELSE p[Min(B)] BY CrossingIs
<1>3. findFirstCrossing(q, u) = IF B = {} THEN NoSignal ELSE q[Min(B)]
  <2>1. findFirstCrossing(q, u) = IF Beyond(q, u) = {} THEN NoSignal ELSE q[Min(Beyond(q, u))]
    <3> HIDE DEF q
    <3> QED BY CrossingIs
  <2> HIDE DEF q, B
  <2> QED BY <1>1, <2>1
<1>4. CASE B = {} BY <1>2, <1>3, <1>4
<1>5. CASE B # {}
  <2> DEFINE j == Min(B)
  <2>1. B \in SUBSET DOMAIN p /\ DOMAIN p \subseteq Nat BY PathIs DEF Beyond
  <2>2. j \in DOMAIN p
    <3>1. B \in SUBSET Nat BY <2>1
    <3> HIDE DEF B
    <3>2. Min(B) \in B BY <1>5, <3>1, SmallestOf
    <3> QED BY <2>1, <3>2
  <2> HIDE DEF j, B
  <2>3. p[j] \in Knot
    <3>1. p \in Seq(Knot) BY DEF Path
    <3> QED BY <2>2, <3>1
  <2>4. p[j].t \in Nat /\ p[j].v \in Int /\ p[j] = [t |-> p[j].t, v |-> p[j].v]
    BY <2>3 DEF Knot
  <2>5. q[j] = [t |-> p[j].t, v |-> - p[j].v] BY <2>2 DEF Mirror
  <2> HIDE DEF q
  <2>6. findFirstCrossing(p, u) = p[j] /\ findFirstCrossing(q, u) = q[j]
    BY <1>2, <1>3, <1>5 DEF j
  <2>7. \E t \in Nat, v \in Int : /\ findFirstCrossing(p, u) = [t |-> t, v |-> v]
                                  /\ findFirstCrossing(q, u) = [t |-> t, v |-> - v]
    BY <2>4, <2>5, <2>6
  <2> QED BY <2>7 DEF q
<1> QED BY <1>4, <1>5

\* The two paths of the mirrored day.
LEMMA G2Mirrored ==
  ASSUME NEW ss \in Seq(Snapshot), Rising(ss)
  PROVE  Path(G2Knots(ss)) /\ G2Knots(MirrorSnaps(ss)) = Mirror(G2Knots(ss))
<1> DEFINE n == Len(ss)
           rr == MirrorSnaps(ss)
           f == [i \in DOMAIN ss |-> Rho(ss[i])]
           g == [i \in DOMAIN rr |-> Rho(rr[i])]
           p == G2Knots(ss)
           q == G2Knots(rr)
<1>1. n \in Nat /\ DOMAIN ss = 1 .. n OBVIOUS
<1>2. DOMAIN rr = 1 .. n /\ \A i \in 1 .. n : rr[i] = [t |-> ss[i].t, b |-> ss[i].a, a |-> ss[i].b]
  BY <1>1 DEF MirrorSnaps
<1>3. ASSUME NEW i \in 1 .. n PROVE ss[i].t \in Nat /\ ss[i].b \in Int /\ ss[i].a \in Int
  <2>1. ss[i] \in Snapshot BY <1>1
  <2> QED BY <2>1 DEF Snapshot
<1> HIDE DEF n, rr
<1>4. ASSUME NEW i \in 1 .. n PROVE Rho(rr[i]) = - Rho(ss[i]) /\ Rho(ss[i]) \in Int
  <2> DEFINE b == ss[i].b
             a == ss[i].a
             total == b + a
             x == 840 * (b - a)
  <2>1. Rho(ss[i]) = IF total > 0 THEN Quotient(x, total) ELSE 0 BY DEF Rho, Scale
  <2>2. Rho(rr[i]) = IF a + b > 0 THEN Quotient(840 * (a - b), a + b) ELSE 0
    BY <1>2 DEF Rho, Scale
  <2>0. a \in Int /\ b \in Int BY <1>3
  <2> HIDE DEF a, b
  <2>3. a + b = total /\ 840 * (a - b) = - x /\ total \in Int /\ x \in Int BY <2>0
  <2> HIDE DEF total, x
  <2>4. total > 0 => Quotient(- x, total) = - Quotient(x, total) /\ Quotient(x, total) \in Int
    BY <2>3, QuotientOdd
  <2> QED BY <2>1, <2>2, <2>3, <2>4
<1>5. \A i \in 1 .. n : f[i] \in Int /\ g[i] = - f[i]
  BY <1>1, <1>2, <1>4
<1>6. DOMAIN p = 1 .. n /\ DOMAIN q = 1 .. n BY <1>1, <1>2 DEF G2Knots
<1>7. \A k \in 1 .. n : p[k] = [t |-> ss[k].t, v |-> Sum(f, 1 .. k)]
  BY <1>1, G2Is
<1>8. \A k \in 1 .. n : q[k] = [t |-> ss[k].t, v |-> Sum(g, 1 .. k)]
  <2>1. \A k \in 1 .. n : q[k] = [t |-> rr[k].t, v |-> Sum(g, 1 .. k)]
    BY <1>2, G2Is
  <2> HIDE DEF q, g, f, p
  <2>2. \A k \in 1 .. n : rr[k].t = ss[k].t BY <1>2
  <2> QED BY <2>1, <2>2
<1>11. p = [k \in 1 .. n |-> p[k]] /\ q = [k \in 1 .. n |-> q[k]]
  BY <1>1, <1>2 DEF G2Knots
<1> HIDE DEF f, g, p, q
<1>9. ASSUME NEW k \in 1 .. n PROVE Sum(g, 1 .. k) = - Sum(f, 1 .. k) /\ Sum(f, 1 .. k) \in Int
  <2>1. k \in Nat /\ 1 .. k \subseteq 1 .. n BY <1>1
  <2>2. IsFiniteSet(1 .. k) BY <2>1, IntervalFinite
  <2>3. \A i \in 1 .. k : f[i] \in Int /\ g[i] = - f[i] BY <1>5, <2>1
  <2> QED BY <2>2, <2>3, NegatedTotal
<1>10. ASSUME NEW k \in 1 .. n
       PROVE  p[k] \in Knot /\ p[k].t = ss[k].t /\ q[k] = [t |-> p[k].t, v |-> - p[k].v]
  <2>1. p[k] = [t |-> ss[k].t, v |-> Sum(f, 1 .. k)] BY <1>7
  <2>2. q[k] = [t |-> ss[k].t, v |-> - Sum(f, 1 .. k)] BY <1>8, <1>9
  <2>3. ss[k].t \in Nat /\ Sum(f, 1 .. k) \in Int BY <1>3, <1>9
  <2> QED BY <2>1, <2>2, <2>3 DEF Knot
<1>12. p \in [1 .. n -> Knot] BY <1>10, <1>11
<1>13. p \in Seq(Knot) BY <1>1, <1>12
<1>14. Rising(p) BY <1>1, <1>6, <1>10 DEF Rising
<1>15. q = Mirror(p) BY <1>6, <1>10, <1>11 DEF Mirror
<1> QED BY <1>13, <1>14, <1>15 DEF Path, p, q, rr

LEMMA MirrorSides ==
  ASSUME NEW obs \in Seq(Observation)
  PROVE  /\ DOMAIN MirrorObs(obs) = DOMAIN obs
         /\ \A i \in DOMAIN obs : /\ obs[i].t \in Nat /\ obs[i].side \in Side /\ obs[i].qty \in Int
                                  /\ MirrorObs(obs)[i] = [t |-> obs[i].t, side |-> Other(obs[i].side),
                                                          qty |-> obs[i].qty]
<1>1. ASSUME NEW i \in DOMAIN obs
      PROVE  /\ obs[i].t \in Nat /\ obs[i].side \in Side /\ obs[i].qty \in Int
             /\ MirrorObs(obs)[i] = [t |-> obs[i].t, side |-> Other(obs[i].side), qty |-> obs[i].qty]
  <2>1. obs[i] \in Observation OBVIOUS
  <2>2. obs[i] = [t |-> obs[i].t, side |-> obs[i].side, qty |-> obs[i].qty]
    BY <2>1 DEF Observation
  <2>3. MirrorObs(obs)[i] = [obs[i] EXCEPT !.side = Other(@)] BY DEF MirrorObs
  <2>4. MirrorObs(obs)[i] = [t |-> obs[i].t, side |-> Other(obs[i].side), qty |-> obs[i].qty]
    BY <2>1, <2>3 DEF Observation
  <2>5. obs[i].t \in Nat /\ obs[i].side \in Side /\ obs[i].qty \in Qty BY <2>1 DEF Observation
  <2>6. \A x \in Qty : x \in Int BY SignalAssumption
  <2>7. obs[i].qty \in Int BY <2>5, <2>6, Zenon
  <2> QED BY <2>4, <2>5, <2>7
<1> QED BY <1>1 DEF MirrorObs

LEMMA SidesExchanged ==
  ASSUME NEW s \in Side, NEW x \in Side, NEW r
  PROVE  /\ Other(s) = Other(x) <=> s = x
         /\ Other(s) \in Side /\ MirrorRef(r)[Other(s)] = r[s]
BY DEF Side, Other, MirrorRef

\* The same observations are events.
LEMMA EventsMirrored ==
  ASSUME NEW obs \in Seq(Observation), NEW r
  PROVE  Events(MirrorObs(obs), MirrorRef(r)) = Events(obs, r)
<1> DEFINE mir == MirrorObs(obs)
           n == Len(obs)
<1>1. n \in Nat /\ DOMAIN obs = 1 .. n OBVIOUS
<1>2. /\ DOMAIN mir = 1 .. n
      /\ \A i \in 1 .. n : obs[i].side \in Side /\ mir[i].qty = obs[i].qty /\ mir[i].side = Other(obs[i].side)
  <2>1. ASSUME NEW i \in 1 .. n
        PROVE  obs[i].side \in Side /\ mir[i].qty = obs[i].qty /\ mir[i].side = Other(obs[i].side)
    <3>1. /\ obs[i].side \in Side
          /\ mir[i] = [t |-> obs[i].t, side |-> Other(obs[i].side), qty |-> obs[i].qty]
      BY <1>1, MirrorSides
    <3> HIDE DEF mir
    <3> QED BY <3>1
  <2> QED BY <1>1, <2>1, MirrorSides
<1> HIDE DEF mir
<1>3. \A i, j \in 1 .. n : mir[i].side = mir[j].side <=> obs[i].side = obs[j].side
  BY <1>2, SidesExchanged
<1>4. \A i \in 1 .. n : MirrorRef(r)[mir[i].side] = r[obs[i].side]
  BY <1>2, SidesExchanged
<1>5. ASSUME NEW i \in 1 .. n, NEW state PROVE IsEvent(mir, i, state) <=> IsEvent(obs, i, state)
  <2>1. 1 .. (i - 1) \subseteq 1 .. n /\ \A j \in 1 .. (i - 1) : (j + 1) .. (i - 1) \subseteq 1 .. n
    BY <1>1
  <2>2. isLargeOrderLevel(mir[i].qty, state) <=> isLargeOrderLevel(obs[i].qty, state)
    BY <1>2
  <2>3. \A j \in 1 .. (i - 1) :
          /\ mir[j].side = mir[i].side <=> obs[j].side = obs[i].side
          /\ mir[j].qty # mir[i].qty <=> obs[j].qty # obs[i].qty
          /\ (\A k \in (j + 1) .. (i - 1) : mir[k].side # mir[i].side)
               <=> (\A k \in (j + 1) .. (i - 1) : obs[k].side # obs[i].side)
    BY <1>2, <1>3, <2>1
  <2> QED BY <2>2, <2>3 DEF IsEvent
<1>6. \A i \in 1 .. n : IsEvent(mir, i, MirrorRef(r)[mir[i].side]) <=> IsEvent(obs, i, r[obs[i].side])
  BY <1>4, <1>5
<1>7. Events(mir, MirrorRef(r)) = {i \in 1 .. n : IsEvent(mir, i, MirrorRef(r)[mir[i].side])}
  BY <1>2 DEF Events
<1>8. Events(obs, r) = {i \in 1 .. n : IsEvent(obs, i, r[obs[i].side])}
  BY <1>1 DEF Events
<1> QED BY <1>6, <1>7, <1>8 DEF mir

LEMMA G1Mirrored ==
  ASSUME NEW obs \in Seq(Observation), NEW r
  PROVE  Path(G1Knots(obs, r)) /\ G1Knots(MirrorObs(obs), MirrorRef(r)) = Mirror(G1Knots(obs, r))
<1> DEFINE n == Len(obs)
           mir == MirrorObs(obs)
           E == Events(obs, r)
           T == {obs[i].t : i \in E}
           at == InOrder(T)
           f == [i \in DOMAIN obs |-> Signed(obs[i])]
           g == [i \in DOMAIN mir |-> Signed(mir[i])]
           UpTo(t) == {i \in E : obs[i].t <= t}
           p == G1Knots(obs, r)
           q == G1Knots(mir, MirrorRef(r))
           m == Cardinality(T)
<1>1. n \in Nat /\ DOMAIN obs = 1 .. n OBVIOUS
<1>2. DOMAIN mir = 1 .. n
  BY <1>1, MirrorSides
<1>3. ASSUME NEW i \in 1 .. n
      PROVE  /\ obs[i].t \in Nat /\ mir[i].t = obs[i].t
             /\ Signed(obs[i]) \in Int /\ Signed(mir[i]) = - Signed(obs[i])
  <2>1. /\ obs[i].t \in Nat /\ obs[i].side \in Side /\ obs[i].qty \in Int
        /\ mir[i] = [t |-> obs[i].t, side |-> Other(obs[i].side), qty |-> obs[i].qty]
    BY <1>1, MirrorSides
  <2> DEFINE s == obs[i].side
             x == obs[i].qty
  <2>2. mir[i].t = obs[i].t /\ mir[i].side = Other(s) /\ mir[i].qty = x BY <2>1
  <2>3. Signed(obs[i]) = IF s = "b" THEN x ELSE - x BY DEF Signed
  <2>4. Signed(mir[i]) = IF Other(s) = "b" THEN x ELSE - x BY <2>2 DEF Signed
  <2> HIDE DEF mir, s, x
  <2>5. s \in Side /\ x \in Int BY <2>1 DEF s, x
  <2>6. s = "b" \/ (s = "a" /\ s # "b") BY <2>5 DEF Side
  <2> QED BY <2>1, <2>2, <2>3, <2>4, <2>5, <2>6 DEF Other
<1>4. Events(mir, MirrorRef(r)) = E BY EventsMirrored
<1>5. E \subseteq 1 .. n BY <1>1 DEF Events
<1>6. \A i \in 1 .. n : f[i] \in Int /\ g[i] = - f[i] BY <1>1, <1>2, <1>3
<1>7. p = [k \in DOMAIN at |-> [t |-> at[k], v |-> Sum(f, UpTo(at[k]))]]
  BY DEF G1Knots
<1>8. q = [k \in DOMAIN at |-> [t |-> at[k], v |-> Sum(g, UpTo(at[k]))]]
  <2>1. {mir[i].t : i \in E} = T BY <1>3, <1>5
  <2>2. \A t : {i \in E : mir[i].t <= t} = UpTo(t) BY <1>3, <1>5
  <2>3. q = [k \in DOMAIN InOrder({mir[i].t : i \in E}) |->
              [t |-> InOrder({mir[i].t : i \in E})[k],
               v |-> Sum(g, {j \in E : mir[j].t <= InOrder({mir[i].t : i \in E})[k]})]]
    <3> HIDE DEF mir, E
    <3> QED BY <1>4 DEF G1Knots
  <2> HIDE DEF q, g, mir, E, T, UpTo
  <2> QED BY <2>1, <2>2, <2>3
<1>9. IsFiniteSet(T) /\ Numbers(T)
  <2>1. IsFiniteSet(E) BY <1>1, <1>5, PlacesFinite
  <2>2. \A t \in T : t \in Nat BY <1>3, <1>5
  <2> HIDE DEF E, f, g, p, q, at, mir
  <2> DEFINE h == [i \in E |-> obs[i].t]
  <2>4. h \in Surjection(E, T) BY DEF Surjection
  <2> HIDE DEF h, T
  <2>3. IsFiniteSet(T) BY <2>1, <2>4, FS_Surjection
  <2> QED BY <2>2, <2>3 DEF Numbers
<1> HIDE DEF T
<1>10. m \in Nat /\ Ordered(at, T) BY <1>9, FS_CardinalityType, InOrderIs
<1>11. at \in [1 .. m -> T] /\ \A i, j \in 1 .. m : i < j => at[i] < at[j]
  BY <1>10 DEF Ordered
<1>12. \A k \in 1 .. m : at[k] \in Nat BY <1>9, <1>11 DEF Numbers
<1> HIDE DEF f, g, E, p, q, at, m
<1>13. ASSUME NEW t PROVE Sum(g, UpTo(t)) = - Sum(f, UpTo(t)) /\ Sum(f, UpTo(t)) \in Int
  <2>1. UpTo(t) \subseteq 1 .. n BY <1>5
  <2> HIDE DEF UpTo
  <2>2. IsFiniteSet(UpTo(t)) BY <1>1, <2>1, PlacesFinite
  <2>3. \A i \in UpTo(t) : f[i] \in Int /\ g[i] = - f[i] BY <1>6, <2>1
  <2> QED BY <2>2, <2>3, NegatedTotal
<1> HIDE DEF UpTo
<1>14. DOMAIN p = 1 .. m /\ p = [k \in 1 .. m |-> p[k]] BY <1>7, <1>11
<1>15. DOMAIN q = 1 .. m /\ q = [k \in 1 .. m |-> q[k]] BY <1>8, <1>11
<1>16. ASSUME NEW k \in 1 .. m
       PROVE  p[k] \in Knot /\ p[k].t = at[k] /\ q[k] = [t |-> p[k].t, v |-> - p[k].v]
  <2>1. p[k] = [t |-> at[k], v |-> Sum(f, UpTo(at[k]))] BY <1>7, <1>11
  <2>2. q[k] = [t |-> at[k], v |-> - Sum(f, UpTo(at[k]))] BY <1>8, <1>11, <1>13
  <2>3. at[k] \in Nat /\ Sum(f, UpTo(at[k])) \in Int BY <1>12, <1>13
  <2> QED BY <2>1, <2>2, <2>3 DEF Knot
<1>17. p \in [1 .. m -> Knot] BY <1>14, <1>16
<1>18. p \in Seq(Knot) BY <1>10, <1>17
<1>19. Rising(p) BY <1>11, <1>14, <1>16 DEF Rising
<1>20. q = Mirror(p) BY <1>14, <1>15, <1>16 DEF Mirror
<1> QED BY <1>18, <1>19, <1>20 DEF Path, p, q, mir

LEMMA AlignmentOdd ==
  ASSUME NEW d1 \in Int, NEW e \in Int
  PROVE  resolveAlignment(- d1, - e) = - resolveAlignment(d1, e) /\ resolveAlignment(d1, e) \in Int
BY DEF resolveAlignment

LEMMA DecisionMirrored ==
  ASSUME NEW path \in {"crossing", "cutoff"}, NEW instant \in Nat, NEW g1, Path(g1),
         NEW d2 \in Int, NEW x, NEW y
  PROVE  Decision(path, instant, Mirror(g1), - d2, x, FALSE) = Negated(Decision(path, instant, g1, d2, y, FALSE))
<1> DEFINE h1 == Mirror(g1)
           d1 == Sign(signedArea(g1, instant))
           e == Sign(signedArea(h1, instant))
           base == resolveAlignment(d1, d2)
           opp == resolveAlignment(e, - d2)
           one == Decision(path, instant, g1, d2, y, FALSE)
           two == Decision(path, instant, h1, - d2, x, FALSE)
<1>1. signedArea(h1, instant) = - signedArea(g1, instant) /\ signedArea(g1, instant) \in Int
  BY AreaMirrored
<1>2. e = - d1 /\ d1 \in Int
  BY <1>1, SignOdd
<1>3. one = IF d1 = 0 THEN NoSignal ELSE [path |-> path, instant |-> instant, base |-> base, final |-> base]
  BY DEF Decision, applyVariationC
<1>4. two = IF e = 0 THEN NoSignal ELSE [path |-> path, instant |-> instant, base |-> opp, final |-> opp]
  <2> HIDE DEF h1
  <2> QED BY DEF Decision, applyVariationC
<1> HIDE DEF one, two
<1>5. opp = - base /\ base \in Int
  <2> HIDE DEF d1, e
  <2> QED BY <1>2, AlignmentOdd
<1> HIDE DEF d1, e, base, opp
<1>6. e = 0 <=> d1 = 0 BY <1>2
<1>7. CASE d1 = 0
  BY <1>3, <1>4, <1>6, <1>7 DEF Negated, one, two
<1>8. CASE d1 # 0
  <2> DEFINE rec == [path |-> path, instant |-> instant, base |-> base, final |-> base]
  <2>1. one = rec /\ two = [path |-> path, instant |-> instant, base |-> - base, final |-> - base]
    BY <1>3, <1>4, <1>5, <1>6, <1>8
  <2>2. rec \in [path : {"crossing", "cutoff"}, instant : Nat, base : Int, final : Int]
    BY <1>5
  <2>3. rec # NoSignal
    <3> HIDE DEF rec
    <3> QED BY <2>2, SignalAssumption
  <2>4. rec.path = path /\ rec.instant = instant /\ rec.base = base /\ rec.final = base
    OBVIOUS
  <2> HIDE DEF rec
  <2>5. Negated(one) = [path |-> rec.path, instant |-> rec.instant, base |-> - rec.base, final |-> - rec.final]
    BY <2>1, <2>3 DEF Negated
  <2>6. two = Negated(one) BY <2>1, <2>4, <2>5
  <2> QED BY <2>6 DEF one, two, h1
<1> QED BY <1>7, <1>8

LEMMA SignalMirrored ==
  ASSUME NEW g1, Path(g1), NEW g2, Path(g2), NEW clock \in Nat
  PROVE  evaluateSignal(Mirror(g1), Mirror(g2), clock, FALSE) = Negated(evaluateSignal(g1, g2, clock, FALSE))
<1> DEFINE h1 == Mirror(g1)
           h2 == Mirror(g2)
           u == Min({clock, Cutoff - 1})
           a == findFirstCrossing(g2, u)
           b == findFirstCrossing(h2, u)
           one == evaluateSignal(g1, g2, clock, FALSE)
           two == evaluateSignal(h1, h2, clock, FALSE)
<1>1. Cutoff \in Nat /\ NoSignal \notin [t : Nat, v : Int] BY SignalAssumption
<1>2. Path(h1) /\ Path(h2) BY PathIs
<1>3. \/ a = NoSignal /\ b = NoSignal
      \/ \E t \in Nat, v \in Int : a = [t |-> t, v |-> v] /\ b = [t |-> t, v |-> - v]
  <2> HIDE DEF u
  <2> QED BY CrossingMirrored
<1>4. CASE clock >= Cutoff
  <2> DEFINE d2 == Sign(signedArea(g2, Cutoff))
             e2 == Sign(signedArea(h2, Cutoff))
             x == valueAtOrBefore(h2, Cutoff)
             y == valueAtOrBefore(g2, Cutoff)
  <2>1. e2 = - d2 /\ d2 \in Int
    <3>1. signedArea(h2, Cutoff) = - signedArea(g2, Cutoff) /\ signedArea(g2, Cutoff) \in Int
      BY <1>1, AreaMirrored
    <3> QED BY <3>1, SignOdd
  <2>2. ~ (clock < Cutoff) BY <1>1, <1>4
  <2>3. one = Decision("cutoff", Cutoff, g1, d2, y, FALSE)
    BY <1>4, <2>2 DEF evaluateSignal
  <2>4. two = Decision("cutoff", Cutoff, h1, e2, x, FALSE)
    <3> HIDE DEF h1, h2
    <3> QED BY <1>4, <2>2 DEF evaluateSignal
  <2> HIDE DEF x, y, d2, e2, one, two
  <2>5. Decision("cutoff", Cutoff, Mirror(g1), - d2, x, FALSE)
          = Negated(Decision("cutoff", Cutoff, g1, d2, y, FALSE))
    BY <1>1, <2>1, DecisionMirrored
  <2>6. two = Negated(one) BY <2>1, <2>3, <2>4, <2>5
  <2> QED BY <2>6 DEF one, two, h1, h2
<1>5. CASE clock < Cutoff /\ a = NoSignal /\ b = NoSignal
  <2>1. ~ (clock >= Cutoff) BY <1>1, <1>5
  <2>2. one = NoSignal BY <1>5, <2>1 DEF evaluateSignal
  <2>3. two = NoSignal
    <3> HIDE DEF h1, h2
    <3> QED BY <1>5, <2>1 DEF evaluateSignal
  <2> HIDE DEF one, two
  <2>4. two = Negated(one) BY <2>2, <2>3 DEF Negated
  <2> QED BY <2>4 DEF one, two, h1, h2
<1>6. ASSUME clock < Cutoff, NEW t \in Nat, NEW v \in Int, a = [t |-> t, v |-> v], b = [t |-> t, v |-> - v]
      PROVE  two = Negated(one)
  <2>0. ~ (clock >= Cutoff) BY <1>1, <1>6
  <2>1. a \in [t : Nat, v : Int] /\ b \in [t : Nat, v : Int]
    <3> HIDE DEF a, b
    <3> QED BY <1>6
  <2>2. a # NoSignal /\ b # NoSignal
    <3> HIDE DEF a, b
    <3> QED BY <1>1, <2>1
  <2>3. a.t = t /\ a.v = v /\ b.t = t /\ b.v = - v
    <3> HIDE DEF a, b
    <3> QED BY <1>6
  <2>4. one = Decision("crossing", a.t, g1, Sign(a.v), a.v, FALSE)
    BY <1>6, <2>0, <2>2 DEF evaluateSignal
  <2>5. two = Decision("crossing", b.t, h1, Sign(b.v), b.v, FALSE)
    <3> HIDE DEF h1, h2
    <3> QED BY <1>6, <2>0, <2>2 DEF evaluateSignal
  <2> HIDE DEF one, two, a, b
  <2>6. Sign(- v) = - Sign(v) /\ Sign(v) \in Int BY SignOdd
  <2> DEFINE s == Sign(v)
  <2>7. one = Decision("crossing", t, g1, s, v, FALSE) BY <2>3, <2>4
  <2>8. two = Decision("crossing", t, h1, - s, - v, FALSE) BY <2>3, <2>5, <2>6
  <2> HIDE DEF s
  <2>9. Decision("crossing", t, Mirror(g1), - s, - v, FALSE)
          = Negated(Decision("crossing", t, g1, s, v, FALSE))
    BY <2>6, DecisionMirrored DEF s
  <2> QED BY <2>7, <2>8, <2>9
<1>7. clock < Cutoff \/ clock >= Cutoff BY <1>1
<1> HIDE DEF a, b, one, two
<1>8. two = Negated(one) \/ clock >= Cutoff BY <1>3, <1>5, <1>6, <1>7 DEF one, two
<1> QED BY <1>4, <1>8 DEF one, two, h1, h2

\* Bids and asks exchanged give the opposite decision at the same instant.
THEOREM MirrorImageHolds == SignalSpec => []MirrorImage
<1>1. SignalInv => MirrorImage
  <2> SUFFICES ASSUME SignalInv PROVE MirrorImage
    OBVIOUS
  <2>1. minute \in Nat /\ raw \in Seq(Observation) /\ snaps \in Seq(Snapshot) /\ Rising(snaps)
    BY DEF SignalInv, SignalTypes
  <2> DEFINE g1 == G1Knots(raw, ref)
             g2 == G2Knots(snaps)
  <2>2. Path(g1) /\ G1Knots(MirrorObs(raw), MirrorRef(ref)) = Mirror(g1) BY <2>1, G1Mirrored
  <2>3. Path(g2) /\ G2Knots(MirrorSnaps(snaps)) = Mirror(g2) BY <2>1, G2Mirrored
  <2> HIDE DEF g1, g2
  <2>4. evaluateSignal(Mirror(g1), Mirror(g2), minute, FALSE) = Negated(evaluateSignal(g1, g2, minute, FALSE))
    BY <2>1, <2>2, <2>3, SignalMirrored
  <2> QED BY <2>2, <2>3, <2>4 DEF MirrorImage, g1, g2
<1> QED BY <1>1, SignalInvariant, PTL
=============================================================================
