---------------------------- MODULE EdgePosition ----------------------------
(***************************************************************************)
(* One week of the Nifty Alpha Edge engine in one mode                     *)
(* (src/src/nifty-alpha-edge/engine.ts): the row that claims the week, the *)
(* credit spread entered under it, and its exit.  Cron calls runEdgeTick   *)
(* every minute and a user may call closePositionManually; a slow call     *)
(* overlaps the next, and a call may be killed between any two steps.  The *)
(* store throws when it cannot write a position, with or without having    *)
(* written it, but loses the update of a leg in silence.                   *)
(*                                                                         *)
(* An Invocation is a slot for one call at a time and is used again when   *)
(* the call ends.  Prices are left out: whether a leg can be closed is a   *)
(* choice.  What runLiveExecution does is LiveFill.tla; here it is a count *)
(* of its runs and a choice of result.                                     *)
(***************************************************************************)
EXTENDS Naturals, FiniteSets

CONSTANTS Invocation,  \* calls running at one time
          MaxAttempts, \* MAX_EXIT_ATTEMPTS, 5 in the code
          MaxOrders    \* bound: closing orders per leg that fill or may still fill

ASSUME EdgeAssumption == MaxAttempts \in Nat \ {0} /\ MaxOrders \in Nat

Short == "short"
Wing == "wing"
Leg == {Short, Wing}

VARIABLES
  mode,     \* "SHADOW" | "AUTO"
  phase,    \* "open" | "safety" (from 15:20 of the expiry day) | "expired"
  status,   \* of the position row ("NONE": not inserted)
  reason,   \* its exit_reason ("OTHER": target, scheduled or manual)
  attempts, \* its exit_attempts
  legRows,  \* its leg rows were inserted
  exited,   \* the legs whose exit_fill is set
  entered,  \* runs of runLiveExecution for the week
  closes,   \* [Leg -> Nat]: closing orders the broker has filled
  stray,    \* [Leg -> Nat]: closing orders working at the broker, watched by nobody
  pc,
  seen,     \* the position as a call read it, with the call's own changes
  order,    \* its closing order: "none" | "open" | "filled" | "dead"
  mishap    \* history: something that may duplicate a closing order has happened

row == <<status, reason, attempts, legRows, exited>>
broker == <<entered, closes, stray>>
world == <<mode, phase>>
vars == <<world, row, broker, pc, seen, order, mishap>>

Status == {"NONE", "ENTERING", "ACTIVE", "EXITING", "CLOSED", "FAILED", "CLOSE_FAILED",
           "RECONCILIATION_REQUIRED"}
Reason == {"none", "OTHER", "SAFETY_EXIT", "EXPIRED"}
Order == {"none", "open", "filled", "dead"}
EntryResult == {"opened", "failed", "ambiguous"}
Entering == {"execute"} \cup EntryResult   \* the week is claimed
Exiting == {"exit", "close", "await", "bump", "unknown", "settle", "finalize"}
Stage == {"idle", "positions", "by hand", "manage", "claim", "week", "enter"}
           \cup Entering \cup Exiting
Position == [status : Status, reason : Reason, attempts : Nat, exited : SUBSET Leg]
NoPosition == [status |-> "NONE", reason |-> "none", attempts |-> 0, exited |-> {}]

Init ==
  /\ mode \in {"SHADOW", "AUTO"} /\ phase = "open"
  /\ status = "NONE" /\ reason = "none" /\ attempts = 0
  /\ legRows = FALSE /\ exited = {}
  /\ entered = 0 /\ closes = [l \in Leg |-> 0] /\ stray = [l \in Leg |-> 0]
  /\ pc = [k \in Invocation |-> "idle"]
  /\ seen = [k \in Invocation |-> NoPosition]
  /\ order = [k \in Invocation |-> "none"]
  /\ mishap = FALSE

To(k, stage) == pc' = [pc EXCEPT ![k] = stage]
Go(k, from, to) == pc[k] = from /\ To(k, to) /\ UNCHANGED seen

\* The call returns, throws or is killed.  After the position it manages a tick has
\* nothing left to do: the week is taken.
End(k) == To(k, "idle") /\ seen' = [seen EXCEPT ![k] = NoPosition]

\* A write is followed by its next stage, or by the end: an error after the write.
OnTo(k, stage) == (To(k, stage) /\ UNCHANGED seen) \/ End(k)

SetStatus(s) == status' = s /\ UNCHANGED <<reason, attempts, legRows, exited>>

-----------------------------------------------------------------------------
(* Reading the position *)

Tick(k) ==
  /\ Go(k, "idle", "positions")
  /\ UNCHANGED <<world, row, broker, order, mishap>>

CloseManually(k) ==
  /\ Go(k, "idle", "by hand")
  /\ UNCHANGED <<world, row, broker, order, mishap>>

\* Somebody else holds the position while it is EXITING: both will execute the exit.
Shared(k) == status = "EXITING" /\ \E j \in Invocation \ {k} :
                                     pc[j] \in {"manage", "claim"} \cup Exiting

ReadPosition(k, to) ==
  /\ To(k, to) /\ mishap' = (mishap \/ Shared(k))
  /\ seen' = [seen EXCEPT ![k] = [status |-> status, reason |-> reason,
                                  attempts |-> attempts, exited |-> exited]]

\* The statuses listOpenPositions asks for.
OpenStatus == {"ACTIVE", "EXITING"}

ListOpenPositions(k) ==
  /\ pc[k] = "positions" /\ status \in OpenStatus /\ ReadPosition(k, "manage")
  /\ UNCHANGED <<world, row, broker, order>>

\* There is none, or the query failed, which reads the same.
ListNone(k) ==
  /\ Go(k, "positions", "week")
  /\ UNCHANGED <<world, row, broker, order, mishap>>

GetPosition(k) ==
  /\ pc[k] = "by hand" /\ status \in {"ACTIVE", "EXITING"}
  /\ ReadPosition(k, IF status = "ACTIVE" THEN "claim" ELSE "exit")
  /\ UNCHANGED <<world, row, broker, order>>

\* The call ends here: nothing is due, a gate or a wait holds it back, a leg is not
\* marketable or there is no broker session, a query or a write throws (a position
\* without leg rows makes the exit throw), or the platform kills it.
Leave(k) ==
  /\ pc[k] \notin {"idle", "await", "unknown"} /\ End(k)
  /\ UNCHANGED <<world, row, broker, order, mishap>>

-----------------------------------------------------------------------------
(* Managing it *)

\* What exitCheck may find due: the target at any time of a session, the rest by the
\* clock.  Past the expiry date there is no choice.
exitCheck ==
  CASE phase = "open" -> {"OTHER"}
    [] phase = "safety" -> {"OTHER", "SAFETY_EXIT"}
    [] phase = "expired" -> {"EXPIRED"}

ManagePosition(k) ==
  /\ pc[k] = "manage"
  /\ \/ /\ seen[k].status = "ACTIVE" /\ To(k, "claim")
        /\ \E due \in exitCheck : seen' = [seen EXCEPT ![k].reason = due]
     \/ /\ seen[k].status = "EXITING" /\ To(k, "exit") /\ UNCHANGED seen
  /\ UNCHANGED <<world, row, broker, order, mishap>>

\* The reason to exit; a user needs none.
Due(k) == IF seen[k].reason = "none" THEN "OTHER" ELSE seen[k].reason

\* Mutant: the update is not conditional on ACTIVE.
ClaimAnyway(k) ==
  /\ pc[k] = "claim" /\ OnTo(k, "exit")
  /\ status' = "EXITING" /\ reason' = Due(k)
  /\ UNCHANGED <<attempts, legRows, exited, world, broker, order, mishap>>

\* Mutant: the reason is kept in memory only.
ClaimUnexplained(k) ==
  /\ pc[k] = "claim" /\ OnTo(k, "exit")
  /\ status = "ACTIVE"
  /\ SetStatus("EXITING")
  /\ UNCHANGED <<world, broker, order, mishap>>

\* The update WHERE status = 'ACTIVE'.
ClaimExit(k) ==
  /\ pc[k] = "claim" /\ OnTo(k, "exit")
  /\ status = "ACTIVE"
  /\ status' = "EXITING" /\ reason' = Due(k)
  /\ UNCHANGED <<attempts, legRows, exited, world, broker, order, mishap>>

-----------------------------------------------------------------------------
(* executeExit *)

ExecuteExit(k) ==
  /\ legRows /\ Go(k, "exit", IF Due(k) = "EXPIRED" THEN "settle" ELSE "close")
  /\ UNCHANGED <<world, row, broker, order, mishap>>

\* The exchange has settled both legs; the update of a leg may be lost.
Settle(k) ==
  /\ Go(k, "settle", "finalize")
  /\ \E written \in SUBSET Leg : exited' = exited \cup written
  /\ UNCHANGED <<world, status, reason, attempts, legRows, broker, order, mishap>>

\* Mutant: either open leg may be closed next.
EitherLeg(k) == Leg \ seen[k].exited

\* The leg to close next, if one is left: the short, and the wing only without it.
NextLeg(k) == IF Short \in seen[k].exited THEN {Wing} \ seen[k].exited ELSE {Short}

\* The leg has its exit_fill, in memory and, unless the update is lost, in its row.
LegClosed(k, l) ==
  /\ To(k, "close") /\ seen' = [seen EXCEPT ![k].exited = @ \cup {l}]
  /\ \/ exited' = exited \cup {l} /\ UNCHANGED mishap
     \/ UNCHANGED exited /\ mishap' = TRUE
  /\ UNCHANGED <<status, reason, attempts, legRows>>

\* SHADOW: the touch is marketable, or nobody bids for the wing on the safety exit.
\* An expired contract has no quote.
CloseShadowLeg(k) ==
  /\ mode = "SHADOW" /\ pc[k] = "close"
  /\ \E l \in NextLeg(k) :
       /\ phase # "expired" \/ (l = Wing /\ Due(k) = "SAFETY_EXIT")
       /\ LegClosed(k, l)
  /\ UNCHANGED <<world, broker, order>>

Watched(l) == {j \in Invocation : order[j] = "open" /\ l \in NextLeg(j)}
Room(l) == closes[l] + stray[l] + Cardinality(Watched(l)) < MaxOrders

\* AUTO: the close order is sent.
SendClose(k) ==
  /\ mode = "AUTO" /\ phase # "expired"
  /\ \E l \in NextLeg(k) : Room(l)
  /\ Go(k, "close", "await") /\ order' = [order EXCEPT ![k] = "open"]
  /\ UNCHANGED <<world, row, broker, mishap>>

\* The request fails: nothing was sent, or only the answer is lost.
SendFails(k) ==
  /\ mode = "AUTO" /\ Go(k, "close", "bump")
  /\ \E l \in NextLeg(k) :
       \/ UNCHANGED <<stray, mishap>>
       \/ /\ phase # "expired" /\ Room(l)
          /\ stray' = [stray EXCEPT ![l] = @ + 1] /\ mishap' = TRUE
  /\ UNCHANGED <<world, row, entered, closes, order>>

Drop(k) == order' = [order EXCEPT ![k] = "none"]

\* COMPLETE with an average price, at once or after the time-out.
Filled(k) ==
  /\ pc[k] = "await" /\ order[k] = "filled" /\ Drop(k)
  /\ \E l \in NextLeg(k) : LegClosed(k, l)
  /\ UNCHANGED <<world, broker>>

\* REJECTED or CANCELLED, or COMPLETE without an average price.
NotFilled(k) ==
  /\ order[k] \in {"dead", "filled"} /\ Go(k, "await", "bump") /\ Drop(k)
  /\ mishap' = (mishap \/ order[k] = "filled")
  /\ UNCHANGED <<world, row, broker>>

\* Nobody watches the order any more.
Unwatch(k) ==
  /\ Drop(k)
  /\ stray' = [l \in Leg |-> IF order[k] = "open" /\ l \in NextLeg(k)
                             THEN stray[l] + 1 ELSE stray[l]]
  /\ UNCHANGED <<entered, closes>>

\* Timed out, and neither COMPLETE nor dead when asked once more.
TimedOut(k) ==
  /\ Go(k, "await", "unknown")
  /\ UNCHANGED <<world, row, broker, order, mishap>>

CloseStateUnknown(k) ==
  /\ pc[k] = "unknown" /\ End(k)
  /\ SetStatus("CLOSE_FAILED") /\ Unwatch(k)
  /\ UNCHANGED <<world, mishap>>

\* The call is killed with its order under way, or CLOSE_FAILED cannot be written.
Forget(k) ==
  /\ pc[k] \in {"await", "unknown"} /\ End(k) /\ Unwatch(k) /\ mishap' = TRUE
  /\ UNCHANGED <<world, row>>

bumpExitAttempt(k) ==
  /\ pc[k] = "bump" /\ End(k)
  /\ attempts' = seen[k].attempts + 1
  /\ status' = IF seen[k].attempts + 1 >= MaxAttempts THEN "CLOSE_FAILED" ELSE status
  /\ UNCHANGED <<world, reason, legRows, exited, broker, order, mishap>>

\* Mutant: CLOSED without a look at the legs.
FinalizeShort(k) ==
  /\ pc[k] = "finalize" \/ (pc[k] = "close" /\ Short \in seen[k].exited)
  /\ End(k) /\ SetStatus("CLOSED")
  /\ UNCHANGED <<world, broker, order, mishap>>

\* The update is not conditional.
finalize(k) ==
  /\ pc[k] = "finalize" \/ (pc[k] = "close" /\ NextLeg(k) = {})
  /\ End(k) /\ SetStatus("CLOSED")
  /\ UNCHANGED <<world, broker, order, mishap>>

-----------------------------------------------------------------------------
(* The entry *)

GetPositionForWeek(k) ==
  /\ status = "NONE" /\ phase = "open" /\ Go(k, "week", "enter")
  /\ UNCHANGED <<world, row, broker, order, mishap>>

\* Mutant: no unique key on week and mode.
AnyWeek == TRUE

\* The unique key lets one row in.
WeekFree == status = "NONE"

\* createPosition: the row, then its legs, whose insert may fail.
Create(s, rows) ==
  /\ WeekFree /\ status' = s /\ legRows' = rows
  /\ UNCHANGED <<reason, attempts, exited>>

recordSkippedWeek(k) ==
  /\ pc[k] = "enter" /\ End(k) /\ Create("FAILED", FALSE)
  /\ UNCHANGED <<world, broker, order, mishap>>

EnterShadow(k) ==
  /\ mode = "SHADOW" /\ pc[k] = "enter" /\ End(k)
  /\ \E rows \in BOOLEAN : Create("ACTIVE", rows)
  /\ UNCHANGED <<world, broker, order, mishap>>

ClaimWeek(k) ==
  /\ mode = "AUTO" /\ pc[k] = "enter"
  /\ \/ Create("ENTERING", TRUE) /\ To(k, "execute") /\ UNCHANGED seen
     \/ \E rows \in BOOLEAN : Create("ENTERING", rows) /\ End(k)
  /\ UNCHANGED <<world, broker, order, mishap>>

RunLiveExecution(k) ==
  /\ \E result \in EntryResult : Go(k, "execute", result)
  /\ entered' = entered + 1
  /\ UNCHANGED <<world, row, closes, stray, order, mishap>>

RecordEntry(k) ==
  /\ End(k)
  /\ \/ pc[k] = "opened" /\ SetStatus("ACTIVE")
     \/ pc[k] = "failed" /\ SetStatus("FAILED")
     \/ pc[k] = "ambiguous" /\ SetStatus("RECONCILIATION_REQUIRED")
  /\ UNCHANGED <<world, broker, order, mishap>>

-----------------------------------------------------------------------------
(* The broker and the clock *)

Fill(l) == closes' = [closes EXCEPT ![l] = @ + 1]

FillOrder(k) ==
  /\ order[k] = "open" /\ order' = [order EXCEPT ![k] = "filled"]
  /\ \E l \in NextLeg(k) : Fill(l)
  /\ UNCHANGED <<world, row, entered, stray, pc, seen, mishap>>

KillOrder(k) ==
  /\ order[k] = "open" /\ order' = [order EXCEPT ![k] = "dead"]
  /\ UNCHANGED <<world, row, broker, pc, seen, mishap>>

StrayEnds(l) ==
  /\ stray[l] > 0 /\ stray' = [stray EXCEPT ![l] = @ - 1]
  /\ Fill(l) \/ UNCHANGED closes
  /\ UNCHANGED <<world, row, entered, pc, seen, order, mishap>>

\* The expiry is at least two days after the entry.
SafetyTime ==
  /\ phase = "open" /\ phase' = "safety"
  /\ \A k \in Invocation : pc[k] \notin {"enter"} \cup Entering
  /\ UNCHANGED <<mode, row, broker, pc, seen, order, mishap>>

\* The night after the expiry day: no call is left running, and a DAY order is dead.
Expire ==
  /\ phase = "safety" /\ phase' = "expired"
  /\ \A k \in Invocation : pc[k] = "idle"
  /\ stray' = [l \in Leg |-> 0]
  /\ UNCHANGED <<mode, row, entered, closes, pc, seen, order, mishap>>

-----------------------------------------------------------------------------
\* The steps of a call that has begun.
Step(k) ==
  \/ ListOpenPositions(k) \/ ListNone(k) \/ GetPosition(k) \/ Leave(k)
  \/ ManagePosition(k) \/ ClaimExit(k) \/ ExecuteExit(k) \/ Settle(k)
  \/ CloseShadowLeg(k) \/ SendClose(k) \/ SendFails(k) \/ Filled(k) \/ NotFilled(k)
  \/ TimedOut(k) \/ CloseStateUnknown(k) \/ Forget(k) \/ bumpExitAttempt(k) \/ finalize(k)
  \/ GetPositionForWeek(k) \/ recordSkippedWeek(k) \/ EnterShadow(k) \/ ClaimWeek(k)
  \/ RunLiveExecution(k) \/ RecordEntry(k)

Next ==
  \/ \E k \in Invocation :
       Tick(k) \/ CloseManually(k) \/ Step(k) \/ FillOrder(k) \/ KillOrder(k)
  \/ \E l \in Leg : StrayEnds(l)
  \/ SafetyTime \/ Expire

Spec == Init /\ [][Next]_vars

\* After the expiry a call that has begun goes on or ends, users do not keep cron's ticks out
\* for ever, and what each tick tries does not fail, throw or get killed every time.
Fairness ==
  /\ \A k \in Invocation : WF_vars(phase = "expired" /\ Step(k))
  /\ SF_vars(phase = "expired" /\ \E k \in Invocation : Tick(k))
  /\ SF_vars(phase = "expired" /\ \E k \in Invocation : ListOpenPositions(k))
  /\ SF_vars(phase = "expired" /\ \E k \in Invocation : ManagePosition(k))
  /\ SF_vars(phase = "expired" /\ \E k \in Invocation : ClaimExit(k))
  /\ SF_vars(phase = "expired" /\ \E k \in Invocation : ExecuteExit(k))
  /\ SF_vars(phase = "expired" /\ \E k \in Invocation : Settle(k))
  /\ SF_vars(phase = "expired" /\ \E k \in Invocation : finalize(k))

FairSpec == Spec /\ Fairness

-----------------------------------------------------------------------------
(* Properties *)

TypeOK ==
  /\ mode \in {"SHADOW", "AUTO"} /\ phase \in {"open", "safety", "expired"}
  /\ status \in Status /\ reason \in Reason /\ attempts \in 0 .. MaxAttempts
  /\ legRows \in BOOLEAN /\ exited \subseteq Leg
  /\ entered \in Nat /\ closes \in [Leg -> Nat] /\ stray \in [Leg -> Nat]
  /\ pc \in [Invocation -> Stage] /\ seen \in [Invocation -> Position]
  /\ order \in [Invocation -> Order] /\ mishap \in BOOLEAN

\* "The short is closed before the wing is sold": no order to sell the wing exists, or
\* has been filled, before the broker has bought the short back, whatever overlaps,
\* fails or is lost on the way (executeExit, engine.ts:430-438).
SellingWing ==
  \/ closes[Wing] > 0 \/ stray[Wing] > 0
  \/ \E k \in Invocation : order[k] # "none" /\ NextLeg(k) = {Wing}

NoNakedShort == SellingWing => closes[Short] > 0

\* A real position is CLOSED only when the broker has closed both of its legs or the
\* exchange has settled them (executeExit and finalize, engine.ts:415-440, 500-505).
ClosedIsFlat ==
  status = "CLOSED" /\ mode = "AUTO" /\ reason # "EXPIRED" => \A l \in Leg : closes[l] > 0

\* Overlapping ticks send the orders of a week's entry once, and only a position whose
\* orders were sent is ever open: the unique key is claimed first (engine.ts:310-315).
EnteredOnce ==
  /\ entered <= 1
  /\ mode = "AUTO" /\ status \notin {"NONE", "ENTERING", "FAILED"} => entered = 1

\* The engine leaves alone a position it has given up on: no later tick and no user
\* reopens or closes it, unless such a mishap left a second call running
\* (bumpExitAttempt, engine.ts:488-498; listOpenPositions).
GivenUpStays == [][status = "CLOSE_FAILED" /\ ~ mishap => status' = "CLOSE_FAILED"]_vars

\* A position that is ACTIVE when its contracts have expired is settled at last, even
\* if a call is killed between the claim and CLOSED: the reason EXPIRED is in the row and
\* the next tick goes on with it (exitCheck, lifecycle.ts:80; executeExit,
\* engine.ts:420-427).  Not so if a user claims it first: with the reason MANUAL it waits
\* for a quote that no longer comes; nor without leg rows, when each exit throws.
ExpiredSettled ==
  phase = "expired" /\ status = "ACTIVE" /\ legRows ~>
    status = "CLOSED" \/ (status = "EXITING" /\ reason = "OTHER")

\* Violated by the code.  A position that was EXITING when its contracts expired is not
\* settled, although "the exchange settled both legs" (engine.ts:419).
ExitingSettled == phase = "expired" /\ status = "EXITING" /\ legRows ~> status = "CLOSED"

\* Violated by the code.  The engine's header says: "one exit executor per position
\* (conditional ACTIVE->EXITING update)" (engine.ts:17).
OneExecutor ==
  \A j, k \in Invocation : pc[j] \in Exiting \ {"exit"} /\ pc[k] \in Exiting \ {"exit"} => j = k
=============================================================================
