------------------------------ MODULE LiveFill ------------------------------
(***************************************************************************)
(* One run of runLiveExecution (src/src/quant/execution/liveFill.ts): the  *)
(* real-money entry of a multi-leg option structure, against a broker that *)
(* fills, rejects or cancels orders at its own pace and whose answers can  *)
(* be lost.  The process is sequential, the broker is the environment: the *)
(* two interleave, so an order can fill while nobody is looking at it.     *)
(*                                                                         *)
(* Prices, order ids and log lines are left out.  An order is named by its *)
(* leg and the pass (attempt) that sent it; what the process was told of   *)
(* the order is kept apart (heard) from what it is at the broker (status,  *)
(* filled).                                                                *)
(***************************************************************************)
EXTENDS Integers, FiniteSets

CONSTANTS N,           \* number of planned legs; leg i is legs[i - 1] of the plan
          Side,        \* [1..N -> {"BUY", "SELL"}]
          Right,       \* [1..N -> {"CE", "PE"}]
          Strike,      \* [1..N -> Nat]
          Qty,         \* units ordered per leg
          MaxRetries   \* opts.maxRetries, 2 by default

Leg  == 1..N
Buy  == {l \in Leg : Side[l] = "BUY"}
Sell == {l \in Leg : Side[l] = "SELL"}
Pass == 1..(MaxRetries + 1)

\* The long that protects a short: same right, on the far side of it.
Protects(long, short) ==
  /\ long \in Buy /\ short \in Sell
  /\ Right[long] = Right[short]
  /\ IF Right[short] = "CE" THEN Strike[long] > Strike[short]
                            ELSE Strike[long] < Strike[short]

ASSUME PlanAssumption ==
  /\ N \in Nat \ {0}
  /\ Side \in [Leg -> {"BUY", "SELL"}]
  /\ Right \in [Leg -> {"CE", "PE"}]
  /\ Strike \in [Leg -> Nat]
  /\ Qty \in Nat \ {0}
  /\ MaxRetries \in Nat

\* Every structure the strategies build (credit spreads, iron condors) plans
\* a protecting long for each short.
ASSUME DefinedRisk == \A s \in Sell : \E b \in Buy : Protects(b, s)

VARIABLES
  pc,         \* "validate" | "leg" | "await" | "query" | "decide" | "unwind" | "done"
  pass,       \* attempts + 1: the number of the pass that is running
  todo,       \* legs of this pass not attempted yet
  cur,        \* the leg whose order is awaited or queried (0: none)
  legState,   \* legStates: what the process concluded about each leg
  fills,      \* fills: the pass whose order filled the leg (0: none)
  unwind,     \* legs still to be closed by CLOSE_FILLED_LEGS
  result,     \* "none" until runLiveExecution returns, then its state
  protection, \* the protection it returns
  entry,      \* entry orders: [Leg -> [Pass -> Order]]
  close       \* closing orders of the unwind: [Leg -> Order]

vars == <<pc, pass, todo, cur, legState, fills, unwind, result, protection, entry, close>>
process == <<pc, pass, todo, cur, legState, fills, unwind, result, protection>>

OrderStatus == {"NONE", "OPEN", "COMPLETE", "REJECTED", "CANCELLED"}
Heard == {"nothing", "accepted", "request error", "filled", "no price",
          "rejected", "cancelled", "unresolved"}
Order == [status : OrderStatus, filled : 0..Qty, heard : Heard]
NoOrder == [status |-> "NONE", filled |-> 0, heard |-> "nothing"]
LegStatus == {"PENDING", "FILLED", "REJECTED", "CANCELLED", "AMBIGUOUS"}
Outcome == {"ACTIVE", "FAILED", "RECONCILIATION_REQUIRED"}

TypeOK ==
  /\ pc \in {"validate", "leg", "await", "query", "decide", "unwind", "done"}
  /\ pass \in Pass
  /\ todo \subseteq Leg
  /\ cur \in Leg \cup {0}
  /\ pc \in {"await", "query"} => cur \in Leg
  /\ legState \in [Leg -> LegStatus]
  /\ fills \in [Leg -> Pass \cup {0}]
  /\ unwind \subseteq Leg
  /\ result \in Outcome \cup {"none"}
  /\ protection \in {"NONE", "INCOMPLETE", "NAKED", "FULL"}
  /\ entry \in [Leg -> [Pass -> Order]]
  /\ close \in [Leg -> Order]

Init ==
  /\ pc = "validate"
  /\ pass = 1
  /\ todo = {}
  /\ cur = 0
  /\ legState = [l \in Leg |-> "PENDING"]
  /\ fills = [l \in Leg |-> 0]
  /\ unwind = {}
  /\ result = "none"
  /\ protection = "NONE"
  /\ entry = [l \in Leg |-> [k \in Pass |-> NoOrder]]
  /\ close = [l \in Leg |-> NoOrder]

-----------------------------------------------------------------------------
(* legFailureHandler.ts *)

Filled == {l \in Leg : legState[l] = "FILLED"}

findNakedShorts(S) ==
  {s \in S \cap Sell : \A b \in S : ~ Protects(b, s)}

deriveProtectionState(S) ==
  IF S = {} THEN "NONE"
  ELSE IF S = Leg THEN "FULL"
  ELSE IF findNakedShorts(S) # {} THEN "NAKED" ELSE "INCOMPLETE"

\* pass - 1 is the attemptsSoFar that runLiveExecution passes in.
decideLegFailureAction ==
  IF Filled \in {{}, Leg} THEN "NONE_NEEDED"
  ELSE IF pass - 1 < MaxRetries THEN "RETRY_REMAINING" ELSE "CLOSE_FILLED_LEGS"

-----------------------------------------------------------------------------
(* The broker.  Only a working order changes, and a dead one never does.    *)

Working(o) == o.status = "OPEN"

\* The end a working order can come to: filled whole, rejected unfilled, or
\* cancelled after any part of it traded.
At(o, status, filled) == [status |-> status, filled |-> filled, heard |-> o.heard]
Ends(o) ==
  {At(o, "COMPLETE", Qty), At(o, "REJECTED", 0)}
    \cup {At(o, "CANCELLED", q) : q \in 0..(Qty - 1)}

BrokerEndsEntry(l, k) ==
  /\ Working(entry[l][k])
  /\ \E o \in Ends(entry[l][k]) : entry' = [entry EXCEPT ![l][k] = o]
  /\ UNCHANGED <<process, close>>

BrokerEndsClose(l) ==
  /\ Working(close[l])
  /\ \E o \in Ends(close[l]) : close' = [close EXCEPT ![l] = o]
  /\ UNCHANGED <<process, entry>>

\* What can become of a request for an order: it is taken and acknowledged,
\* it never reaches the broker, or it is taken and the answer is lost.
Requested ==
  {[status |-> "OPEN", filled |-> 0, heard |-> "accepted"],
   [status |-> "NONE", filled |-> 0, heard |-> "request error"],
   [status |-> "OPEN", filled |-> 0, heard |-> "request error"]}

-----------------------------------------------------------------------------
(* attemptPass *)

\* Mutant: the legs are sent in the order of the plan.
PlanOrder(l, m) == l < m

\* BUY legs first, then SELL legs, each group in the order of the plan.
Before(l, m) == \/ l \in Buy /\ m \in Sell
                \/ Side[l] = Side[m] /\ l < m
IsNext(l) == l \in todo /\ \A m \in todo \ {l} : Before(l, m)

\* The leg is done with for this pass: FILLED lets the pass go on, anything
\* else blocks the legs behind it, which stay PENDING.
Conclude(l, status) ==
  /\ legState' = [legState EXCEPT ![l] = status]
  /\ cur' = 0
  /\ IF status = "FILLED" /\ todo # {} THEN pc' = "leg" ELSE pc' = "decide"

Hear(l, what) == entry' = [entry EXCEPT ![l][pass].heard = what]

\* No quote, or one too far from the modelled price: nothing is sent.
SkipLeg(l) ==
  /\ pc = "leg" /\ IsNext(l)
  /\ todo' = todo \ {l}
  /\ legState' = [legState EXCEPT ![l] = "REJECTED"]
  /\ pc' = "decide"
  /\ UNCHANGED <<pass, cur, fills, unwind, result, protection, entry, close>>

\* placeOrder; when it throws, the leg is REJECTED whatever the broker did.
PlaceOrder(l) ==
  /\ pc = "leg" /\ IsNext(l)
  /\ todo' = todo \ {l}
  /\ \E o \in Requested :
       /\ entry' = [entry EXCEPT ![l][pass] = o]
       /\ IF o.heard = "accepted"
            THEN pc' = "await" /\ cur' = l /\ UNCHANGED legState
            ELSE pc' = "decide" /\ legState' = [legState EXCEPT ![l] = "REJECTED"]
                                /\ UNCHANGED cur
  /\ UNCHANGED <<pass, fills, unwind, result, protection, close>>

\* awaitFill, or the status query after its timeout, reports COMPLETE with an
\* average price.
ConfirmFill ==
  /\ pc \in {"await", "query"}
  /\ entry[cur][pass].status = "COMPLETE"
  /\ Hear(cur, "filled")
  /\ fills' = [fills EXCEPT ![cur] = pass]
  /\ Conclude(cur, "FILLED")
  /\ UNCHANGED <<pass, todo, unwind, result, protection, close>>

\* awaitFill reports COMPLETE without an average price: the last branch of
\* attemptPass takes it for a rejection.
CompleteWithoutPrice ==
  /\ pc = "await"
  /\ entry[cur][pass].status = "COMPLETE"
  /\ Hear(cur, "no price")
  /\ Conclude(cur, "REJECTED")
  /\ UNCHANGED <<pass, todo, fills, unwind, result, protection, close>>

\* awaitFill or the status query reports REJECTED or CANCELLED; the filled
\* part of a cancelled order is not read.
ConfirmDead ==
  /\ pc \in {"await", "query"}
  /\ \/ /\ entry[cur][pass].status = "REJECTED"
        /\ Hear(cur, "rejected") /\ Conclude(cur, "REJECTED")
     \/ /\ entry[cur][pass].status = "CANCELLED"
        /\ Hear(cur, "cancelled") /\ Conclude(cur, "CANCELLED")
  /\ UNCHANGED <<pass, todo, fills, unwind, result, protection, close>>

\* The wait budget ran out, whatever the order's status is (every poll of it
\* may have failed).
Timeout ==
  /\ pc = "await"
  /\ pc' = "query"
  /\ UNCHANGED <<pass, todo, cur, legState, fills, unwind, result, protection, entry, close>>

\* Mutants: an order that cannot be resolved is taken for rejected, or filled.
UnresolvedIsRejected ==
  /\ pc = "query"
  /\ Hear(cur, "unresolved")
  /\ Conclude(cur, "REJECTED")
  /\ UNCHANGED <<pass, todo, fills, unwind, result, protection, close>>
UnresolvedIsFilled ==
  /\ pc = "query"
  /\ Hear(cur, "unresolved")
  /\ fills' = [fills EXCEPT ![cur] = pass]
  /\ Conclude(cur, "FILLED")
  /\ UNCHANGED <<pass, todo, unwind, result, protection, close>>

\* The one status query fails, or answers OPEN, TRIGGER PENDING, UNKNOWN or
\* COMPLETE without a price.
StatusUnresolved ==
  /\ pc = "query"
  /\ Hear(cur, "unresolved")
  /\ Conclude(cur, "AMBIGUOUS")
  /\ UNCHANGED <<pass, todo, fills, unwind, result, protection, close>>

-----------------------------------------------------------------------------
(* runLiveExecution *)

\* Pre-trade validation fails: the run ends without an order.
FailValidation ==
  /\ pc = "validate"
  /\ pc' = "done" /\ result' = "FAILED"
  /\ legState' = [l \in Leg |-> "REJECTED"]
  /\ UNCHANGED <<pass, todo, cur, fills, unwind, protection, entry, close>>

PassValidation ==
  /\ pc = "validate"
  /\ pc' = "leg" /\ todo' = Leg
  /\ UNCHANGED <<pass, cur, legState, fills, unwind, result, protection, entry, close>>

Ambiguous == \E l \in Leg : legState[l] = "AMBIGUOUS"

Return(state, protect) ==
  /\ pc' = "done" /\ result' = state /\ protection' = protect
  /\ todo' = {}

Escalate ==
  /\ pc = "decide" /\ Ambiguous
  /\ Return("RECONCILIATION_REQUIRED", deriveProtectionState(Filled))
  /\ UNCHANGED <<pass, cur, legState, fills, unwind, entry, close>>

Finish ==
  /\ pc = "decide" /\ ~ Ambiguous
  /\ decideLegFailureAction = "NONE_NEEDED"
  /\ IF deriveProtectionState(Filled) = "FULL"
       THEN Return("ACTIVE", "FULL") /\ UNCHANGED legState
       ELSE Return("FAILED", "NONE") /\ legState' = [l \in Leg |-> "REJECTED"]
  /\ UNCHANGED <<pass, cur, fills, unwind, entry, close>>

\* Mutants: an AMBIGUOUS leg is retried, and an attempt that is not counted.
RetryAmbiguous ==
  /\ pc = "decide"
  /\ decideLegFailureAction = "RETRY_REMAINING"
  /\ pc' = "leg"
  /\ pass' = pass + 1
  /\ todo' = Leg \ Filled
  /\ legState' = [l \in Leg |-> IF l \in Filled THEN "FILLED" ELSE "PENDING"]
  /\ UNCHANGED <<cur, fills, unwind, result, protection, entry, close>>
RetryUncounted ==
  /\ pc = "decide" /\ ~ Ambiguous
  /\ decideLegFailureAction = "RETRY_REMAINING"
  /\ pc' = "leg"
  /\ todo' = Leg \ Filled
  /\ legState' = [l \in Leg |-> IF l \in Filled THEN "FILLED" ELSE "PENDING"]
  /\ UNCHANGED <<pass, cur, fills, unwind, result, protection, entry, close>>

Retry ==
  /\ pc = "decide" /\ ~ Ambiguous
  /\ decideLegFailureAction = "RETRY_REMAINING"
  /\ pc' = "leg"
  /\ pass' = pass + 1
  /\ todo' = Leg \ Filled
  /\ legState' = [l \in Leg |-> IF l \in Filled THEN "FILLED" ELSE "PENDING"]
  /\ UNCHANGED <<cur, fills, unwind, result, protection, entry, close>>

StartUnwind ==
  /\ pc = "decide" /\ ~ Ambiguous
  /\ decideLegFailureAction = "CLOSE_FILLED_LEGS"
  /\ pc' = "unwind"
  /\ unwind' = Filled
  /\ UNCHANGED <<pass, todo, cur, legState, fills, result, protection, entry, close>>

\* One closing order, in the order of the plan.  Its fill is not awaited, and a
\* failed request does not stop the loop.
CloseLeg(l) ==
  /\ pc = "unwind"
  /\ l \in unwind /\ \A m \in unwind : l <= m
  /\ unwind' = unwind \ {l}
  /\ \E o \in Requested : close' = [close EXCEPT ![l] = o]
  /\ UNCHANGED <<pc, pass, todo, cur, legState, fills, result, protection, entry>>

EndUnwind ==
  /\ pc = "unwind" /\ unwind = {}
  /\ Return("FAILED", "NONE")
  /\ legState' = [l \in Leg |-> IF fills[l] # 0 THEN "CANCELLED" ELSE "REJECTED"]
  /\ UNCHANGED <<pass, cur, fills, unwind, entry, close>>

-----------------------------------------------------------------------------

Step ==
  \/ FailValidation \/ PassValidation
  \/ \E l \in Leg : SkipLeg(l) \/ PlaceOrder(l) \/ CloseLeg(l)
  \/ ConfirmFill \/ CompleteWithoutPrice \/ ConfirmDead
  \/ Timeout \/ StatusUnresolved
  \/ Escalate \/ Finish \/ Retry \/ StartUnwind \/ EndUnwind

Broker ==
  \E l \in Leg : BrokerEndsClose(l) \/ \E k \in Pass : BrokerEndsEntry(l, k)

Next == Step \/ Broker

\* The process is one async function: every await in it settles (awaitFill by
\* its deadline), so it always takes its next step.  The broker owes nothing.
Spec == Init /\ [][Next]_vars /\ WF_vars(Step)

-----------------------------------------------------------------------------
(* Properties *)

Sent(o) == o.heard # "nothing"

\* liveFill.ts promises that every hedge is confirmed filled before any short
\* is attempted: once an order for a SELL leg was sent, every BUY leg has an
\* order that is complete at the broker, on the first pass and on retries.
HedgedBeforeShort ==
  (\E s \in Sell, k \in Pass : Sent(entry[s][k])) =>
    \A b \in Buy : fills[b] # 0 /\ entry[b][fills[b]].status = "COMPLETE"

\* The legs believed filled never include an unprotected short, so the "short
\* leg is temporarily naked" branches of legFailureHandler.ts are not taken.
NoNakedShort == findNakedShorts(Filled) = {}

\* "This system must not guess, retry, or unwind": once the fate of an order
\* could not be established, the process sends nothing more, to enter or close.
Unresolved == \E l \in Leg, k \in Pass : entry[l][k].heard = "unresolved"
QuietAfterAmbiguity ==
  [][Unresolved => /\ \A l \in Leg, k \in Pass : Sent(entry[l][k]') => Sent(entry[l][k])
                   /\ close' = close]_vars

\* ACTIVE is returned only for a structure the broker holds whole, leg by leg,
\* and from then on nothing was asked to be closed.
ActiveIsHeld ==
  result = "ACTIVE" =>
    \A l \in Leg : /\ fills[l] # 0
                   /\ entry[l][fills[l]].filled = Qty
                   /\ ~ Sent(close[l])

\* A fill the returned FAILED does not know of has one of three causes: the
\* answer to the order request was lost, the completed order was reported
\* without a price, or it was cancelled after a partial fill.  A fill it does
\* know of was asked to be closed.
Overlooked(o) ==
  \/ o.heard \in {"request error", "no price"}
  \/ o.heard = "cancelled" /\ o.filled < Qty
FailureExplained ==
  result = "FAILED" =>
    \A l \in Leg, k \in Pass : entry[l][k].filled > 0 =>
      IF k = fills[l] THEN Sent(close[l]) ELSE Overlooked(entry[l][k])

\* Every run returns, however the broker behaves.
Terminates == <>(pc = "done")

\* Migration 008 on the intent status written for this result: "FAILED:
\* execution failed cleanly, nothing left open at the broker".  Judged once no
\* order is working, leg by leg, the leg's orders netted.
Quiet == \A l \in Leg : ~ Working(close[l]) /\ \A k \in Pass : ~ Working(entry[l][k])
FailedIsClean ==
  result = "FAILED" /\ Quiet =>
    \A l \in Leg : \/ \A k \in Pass : entry[l][k].filled = 0
                   \/ /\ fills[l] # 0 /\ close[l].filled = Qty
                      /\ \A k \in Pass : entry[l][k].filled > 0 => k = fills[l]
=============================================================================
