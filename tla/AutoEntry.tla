----------------------------- MODULE AutoEntry ------------------------------
(***************************************************************************)
(* The AUTO entry path of handlePaperScan (src/api/options-autotrade.ts):  *)
(* several scan invocations, started by cron and overlapping at will,      *)
(* share one broker account and one database.  Each reads the open         *)
(* positions, reconciles the database with the broker, claims an order     *)
(* intent, executes and records the outcome.  The positions, the broker's  *)
(* positions, its orders and the reconciliation inputs are read at four    *)
(* different times; any database call can fail, and an invocation can be   *)
(* killed between any two steps (maxDuration is 60 s).                     *)
(*                                                                         *)
(* What runLiveExecution does to the broker is kept to what its caller can *)
(* rely on: orders come and go, and ACTIVE means every leg filled          *)
(* (LiveFill!ActiveIsHeld).  A scan's order for a contract is "none" until *)
(* it is sent and again once it is dead or its fill was closed, and        *)
(* "oversold" when the exit path closed a leg the broker no longer held.   *)
(***************************************************************************)
EXTENDS Integers, FiniteSets, FiniteSetsExt

CONSTANTS Scan,      \* scan invocations
          Trade,     \* candidates: what intent_key tells apart (exact legs)
          Contract,  \* tradingsymbols
          Plan,      \* [Trade -> [Contract -> Int]]: signed quantity of each leg
          Shape,     \* [Trade -> symbol, expiry and strategy of the candidate]
          MaxRunning \* bound: invocations running at one time

ASSUME PlanIsSigned == Plan \in [Trade -> [Contract -> Int]]
ASSUME ScansAreFinite == IsFiniteSet(Scan)

Legs(t) == {c \in Contract : Plan[t][c] # 0}

VARIABLES
  pc,        \* where each scan stands
  trade,     \* the candidate it selected
  duplicate, \* duplicateExists
  seen,      \* the broker's books as it read them
  intent,    \* status of its order intent row ("NONE": not inserted)
  outcome,   \* execResult.state
  row,       \* status of its position row ("NONE": not inserted)
  legRows,   \* the contracts for which it has an open leg row
  order,     \* [Scan -> [Contract -> "none" | "open" | "filled" | "oversold"]],
             \* at the broker
  ended,     \* history: the scans that had ended when it started, without
             \* those whose position failed to close since
  calm,      \* history: no order was working at the broker when it started, and
             \* no leg was closed since whose books did not agree
  lost       \* history: a database read of it failed and was taken for empty

vars == <<pc, trade, duplicate, seen, intent, outcome, row, legRows, order, ended, calm, lost>>
records == <<intent, row, legRows>>
history == <<trade, ended, calm>>

Intent == {"NONE", "CLAIMED", "COMPLETED", "FAILED", "ABANDONED"}
Row == {"NONE", "ACTIVE", "RECONCILIATION_REQUIRED", "CLOSE_FAILED", "CLOSED"}
Running == {"positions", "broker", "broker positions", "broker orders", "database",
            "claim", "execute", "record", "legs", "intent", "abandon"}
Stopped == {"done", "crashed"}
Books == [held : [Contract -> Int], working : BOOLEAN]
NothingSeen == [held |-> [c \in Contract |-> 0], working |-> FALSE]

TypeOK ==
  /\ pc \in [Scan -> {"idle"} \cup Running \cup Stopped]
  /\ trade \in [Scan -> Trade]
  /\ duplicate \in [Scan -> BOOLEAN]
  /\ seen \in [Scan -> Books]
  /\ intent \in [Scan -> Intent]
  /\ outcome \in [Scan -> {"none", "ACTIVE", "FAILED", "RECONCILIATION_REQUIRED"}]
  /\ row \in [Scan -> Row]
  /\ legRows \in [Scan -> SUBSET Contract]
  /\ order \in [Scan -> [Contract -> {"none", "open", "filled", "oversold"}]]
  /\ ended \in [Scan -> SUBSET Scan]
  /\ calm \in [Scan -> BOOLEAN]
  /\ lost \in [Scan -> BOOLEAN]

Init ==
  /\ pc = [s \in Scan |-> "idle"]
  /\ trade \in [Scan -> Trade]
  /\ duplicate = [s \in Scan |-> FALSE]
  /\ seen = [s \in Scan |-> NothingSeen]
  /\ intent = [s \in Scan |-> "NONE"]
  /\ outcome = [s \in Scan |-> "none"]
  /\ row = [s \in Scan |-> "NONE"]
  /\ legRows = [s \in Scan |-> {}]
  /\ order = [s \in Scan |-> [c \in Contract |-> "none"]]
  /\ ended = [s \in Scan |-> {}]
  /\ calm = [s \in Scan |-> FALSE]
  /\ lost = [s \in Scan |-> FALSE]

Go(s, from, to) == pc[s] = from /\ pc' = [pc EXCEPT ![s] = to]

\* A database read that fails is not noticed: its rows are taken for none.
Loses(s, failed) == lost' = [lost EXCEPT ![s] = @ \/ failed]

-----------------------------------------------------------------------------
(* The broker's account: what all fills add up to, and what still works. *)

Filled(s, c) == order[s][c] = "filled"
Net(s, c) == CASE Filled(s, c) -> Plan[trade[s]][c]
               [] order[s][c] = "oversold" -> - Plan[trade[s]][c]
               [] OTHER -> 0
Held(c) == MapThenSumSet(LAMBDA s : Net(s, c), Scan)
Working == \E s \in Scan, c \in Contract : order[s][c] = "open"

-----------------------------------------------------------------------------
(* Gates before the claim *)

Start(s) ==
  /\ Cardinality({r \in Scan : pc[r] \in Running}) < MaxRunning
  /\ Go(s, "idle", "positions")
  /\ ended' = [ended EXCEPT ![s] = {r \in Scan : pc[r] \in Stopped}]
  /\ calm' = [calm EXCEPT ![s] = ~ Working]
  /\ UNCHANGED <<trade, duplicate, seen, outcome, records, order, lost>>

\* openRows and duplicateExists: an ACTIVE position of the same symbol, expiry
\* and strategy.  The answer is used only after the claim.
ReadPositions(s) ==
  /\ Go(s, "positions", "broker")
  /\ \E failed \in BOOLEAN :
       /\ Loses(s, failed)
       /\ duplicate' = [duplicate EXCEPT ![s] = ~ failed /\
            \E r \in Scan : row[r] = "ACTIVE" /\ Shape[trade[r]] = Shape[trade[s]]]
  /\ UNCHANGED <<history, seen, outcome, records, order>>

\* fetchBrokerPositions and fetchBrokerOrdersToday run side by side: either may
\* be answered first, and the account may move in between.
ReadBrokerPositions(s) ==
  /\ Go(s, "broker", "broker orders") \/ Go(s, "broker positions", "database")
  /\ seen' = [seen EXCEPT ![s].held = [c \in Contract |-> Held(c)]]
  /\ UNCHANGED <<history, duplicate, outcome, records, order, lost>>

ReadBrokerOrders(s) ==
  /\ Go(s, "broker", "broker positions") \/ Go(s, "broker orders", "database")
  /\ seen' = [seen EXCEPT ![s].working = Working]
  /\ UNCHANGED <<history, duplicate, outcome, records, order, lost>>

\* Any gate between the reads and the claim that skips this cycle: the broker
\* cannot be read, no funds, poor liquidity, no profit left.
Skip(s) ==
  /\ pc[s] \in {"positions", "broker", "broker positions", "broker orders",
                "database"}
  /\ pc' = [pc EXCEPT ![s] = "done"]
  /\ UNCHANGED <<history, duplicate, seen, outcome, records, order, lost>>

\* fetchDbReconciliationInputs: the ACTIVE rows with an open leg in a contract.
Claimants(c) == {r \in Scan : row[r] = "ACTIVE" /\ c \in legRows[r]}
Flagged == {r \in Scan : row[r] \in {"RECONCILIATION_REQUIRED", "CLOSE_FAILED"}}
Abandoned == {r \in Scan : intent[r] = "ABANDONED"}

\* Mutants: holdings without a database leg are ignored, and so are the
\* positions flagged for a human.
MatchesDbOnly(held, claimants) ==
  \A c \in Contract :
    claimants[c] # {} => \E r \in claimants[c] : held[c] = Plan[trade[r]][c]

\* The joins of reconcile.  dbLegsBySymbol keeps one claimant per contract,
\* whichever the rows returned last.
Matches(held, claimants) ==
  \A c \in Contract :
    IF claimants[c] = {} THEN held[c] = 0
    ELSE \E r \in claimants[c] : held[c] = Plan[trade[r]][c]

ReconciledDespiteFlags(held, working, claimants, flagged, abandoned) ==
  /\ abandoned = {}
  /\ Matches(held, claimants)
  /\ ~ working

\* reconcile has no blocking finding.
Reconciled(held, working, claimants, flagged, abandoned) ==
  /\ flagged = {} /\ abandoned = {}
  /\ Matches(held, claimants)
  /\ ~ working

Reconcile(s) ==
  \E active, pending, intents \in BOOLEAN :    \* which of the reads succeed
    LET claimants == [c \in Contract |-> IF active THEN Claimants(c) ELSE {}]
        ok == Reconciled(seen[s].held, seen[s].working, claimants,
                         IF pending THEN Flagged ELSE {},
                         IF intents THEN Abandoned ELSE {})
    IN /\ Go(s, "database", IF ok THEN "claim" ELSE "done")
       /\ Loses(s, ~ (active /\ pending /\ intents))
       /\ seen' = [seen EXCEPT ![s] = NothingSeen]    \* not used again
       /\ UNCHANGED <<history, duplicate, outcome, records, order>>

\* Mutant: the index covers abandoned intents only.
LockedByAbandoned(t) ==
  \E r \in Scan : trade[r] = t /\ intent[r] = "ABANDONED"

\* claimOrderIntent.  The partial unique index refuses a second intent of the
\* same key that is not terminal.
Locked(t) ==
  \E r \in Scan : trade[r] = t /\ intent[r] \in {"CLAIMED", "ABANDONED"}

\* Mutant: the validation before the first order does not look for a duplicate.
ClaimUnvalidated(s) ==
  /\ ~ Locked(trade[s])
  /\ intent' = [intent EXCEPT ![s] = "CLAIMED"]
  /\ Go(s, "claim", "execute")
  /\ UNCHANGED <<history, duplicate, seen, outcome, row, legRows, order, lost>>

Claim(s) ==
  /\ ~ Locked(trade[s])
  /\ intent' = [intent EXCEPT ![s] = "CLAIMED"]
  /\ IF duplicate[s]    \* pre-trade validation fails: runLiveExecution sends nothing
       THEN Go(s, "claim", "record") /\ outcome' = [outcome EXCEPT ![s] = "FAILED"]
       ELSE Go(s, "claim", "execute") /\ UNCHANGED outcome
  /\ UNCHANGED <<history, duplicate, seen, row, legRows, order, lost>>

\* CONFLICT, or STORE_ERROR: the insert failed, or its answer did.
ClaimRefused(s) ==
  /\ Go(s, "claim", "done")
  /\ \/ UNCHANGED intent
     \/ ~ Locked(trade[s]) /\ intent' = [intent EXCEPT ![s] = "CLAIMED"]
  /\ UNCHANGED <<history, duplicate, seen, outcome, row, legRows, order, lost>>

-----------------------------------------------------------------------------
(* Execution, as LiveFill leaves it to be seen from outside *)

Send(s, c) ==
  /\ pc[s] = "execute" /\ c \in Legs(trade[s])
  /\ order[s][c] = "none"
  /\ order' = [order EXCEPT ![s][c] = "open"]
  /\ UNCHANGED <<pc, history, duplicate, seen, outcome, records, lost>>

\* The unwind closes a filled leg.
Unwind(s, c) ==
  /\ pc[s] = "execute" /\ order[s][c] = "filled"
  /\ order' = [order EXCEPT ![s][c] = "none"]
  /\ UNCHANGED <<pc, history, duplicate, seen, outcome, records, lost>>

BrokerEnds(s, c) ==
  /\ order[s][c] = "open"
  /\ \E o \in {"none", "filled"} : order' = [order EXCEPT ![s][c] = o]
  /\ UNCHANGED <<pc, history, duplicate, seen, outcome, records, lost>>

\* ACTIVE has every leg filled, RECONCILIATION_REQUIRED an order whose fate is
\* unknown; FAILED says nothing of the account.
Executed(s) ==
  /\ Go(s, "execute", "record")
  /\ \/ /\ \A c \in Legs(trade[s]) : Filled(s, c)
        /\ outcome' = [outcome EXCEPT ![s] = "ACTIVE"]
     \/ outcome' = [outcome EXCEPT ![s] = "RECONCILIATION_REQUIRED"]
     \/ outcome' = [outcome EXCEPT ![s] = "FAILED"]
  /\ UNCHANGED <<history, duplicate, seen, records, order, lost>>

-----------------------------------------------------------------------------
(* Recording.  An insert that reports an error may have been written.  The  *)
(* error is looked at only for the position row of an ACTIVE structure.      *)

RecordPosition(s) ==
  LET write == row' = [row EXCEPT ![s] = outcome[s]]
      active == outcome[s] = "ACTIVE"
  IN /\ \/ outcome[s] = "FAILED" /\ Go(s, "record", "intent") /\ UNCHANGED row
        \/ active /\ Go(s, "record", "legs") /\ write
        \/ active /\ Go(s, "record", "abandon") /\ (write \/ UNCHANGED row)
        \/ /\ outcome[s] = "RECONCILIATION_REQUIRED" /\ Go(s, "record", "intent")
           /\ (write \/ UNCHANGED row)
     /\ UNCHANGED <<history, duplicate, seen, intent, outcome, legRows, order, lost>>

RecordLegs(s) ==
  /\ Go(s, "legs", "intent")
  /\ \E inserted \in {Legs(trade[s]), {}} : legRows' = [legRows EXCEPT ![s] = inserted]
  /\ UNCHANGED <<history, duplicate, seen, intent, outcome, row, order, lost>>

FinalIntent(s) ==
  IF pc[s] = "abandon" THEN "ABANDONED"
  ELSE IF outcome[s] = "ACTIVE" THEN "COMPLETED" ELSE "FAILED"

\* updateStatus: its error is not looked at, and leaves the intent CLAIMED.
UpdateIntent(s) ==
  /\ Go(s, "intent", "done") \/ Go(s, "abandon", "done")
  /\ \E new \in {FinalIntent(s), intent[s]} : intent' = [intent EXCEPT ![s] = new]
  /\ UNCHANGED <<history, duplicate, seen, outcome, row, legRows, order, lost>>

\* The platform kills the invocation.
Crash(s) ==
  /\ pc[s] \in Running
  /\ pc' = [pc EXCEPT ![s] = "crashed"]
  /\ UNCHANGED <<history, duplicate, seen, outcome, records, order, lost>>

\* The exit path (PositionExit) closes a position, whole or leg by leg, as far as
\* it has open leg rows, and never asks the broker what it still holds: a leg that
\* was closed there without a note is closed again.  What it closed is taken at
\* once.  Bound: at most once too often.
Closable(s) == {c \in legRows[s] : order[s][c] # "oversold"}

AfterClose(s, closed) ==
  order' = [order EXCEPT ![s] = [c \in Contract |->
              IF c \notin closed THEN @[c] ELSE IF Filled(s, c) THEN "none" ELSE "oversold"]]

\* It is the only position in the contract and the broker holds what it says.
Agreed(s, c) == Claimants(c) = {s} /\ Held(c) = Plan[trade[s]][c]

ClosePosition(s) ==
  /\ row[s] = "ACTIVE"
  /\ \E closed \in SUBSET Closable(s) :
       /\ AfterClose(s, closed)
       /\ legRows' = [legRows EXCEPT ![s] = @ \ closed]
       /\ row' = [row EXCEPT ![s] = IF closed = legRows[s] THEN "CLOSED" ELSE @]
       /\ calm' = [r \in Scan |-> calm[r] /\ \A c \in closed : Agreed(s, c)]
  /\ UNCHANGED <<pc, trade, ended, duplicate, seen, intent, outcome, lost>>

\* A closing order of it is not confirmed: some legs are closed at the broker, of
\* some of these the leg row says so.
CloseFails(s) ==
  /\ row[s] = "ACTIVE" /\ legRows[s] # {}
  /\ \E closed \in SUBSET Closable(s) : \E noted \in SUBSET closed :
       /\ AfterClose(s, closed)
       /\ legRows' = [legRows EXCEPT ![s] = @ \ noted]
  /\ \E new \in {"ACTIVE", "CLOSE_FAILED"} : row' = [row EXCEPT ![s] = new]
  /\ ended' = [r \in Scan |-> ended[r] \ {s}]
  /\ UNCHANGED <<pc, trade, calm, duplicate, seen, intent, outcome, lost>>

-----------------------------------------------------------------------------

Next ==
  \E s \in Scan :
    \/ Start(s) \/ ReadPositions(s)
    \/ ReadBrokerPositions(s) \/ ReadBrokerOrders(s) \/ Reconcile(s) \/ Skip(s)
    \/ Claim(s) \/ ClaimRefused(s) \/ Executed(s)
    \/ \E c \in Contract : Send(s, c) \/ Unwind(s, c) \/ BrokerEnds(s, c)
    \/ RecordPosition(s) \/ RecordLegs(s) \/ UpdateIntent(s)
    \/ Crash(s) \/ ClosePosition(s) \/ CloseFails(s)

Spec == Init /\ [][Next]_vars

-----------------------------------------------------------------------------
(* Properties *)

\* Two invocations never place orders for the same candidate at one time: the
\* intent stays non-terminal for as long as its owner executes.
OneExecutionPerTrade ==
  \A r, s \in Scan : pc[r] = "execute" /\ pc[s] = "execute" /\ trade[r] = trade[s] => r = s

\* s had the account to itself so far: every other scan ended before it began,
\* or has not begun.
Alone(s) == \A r \in Scan \ {s} : r \in ended[s] \/ pc[r] = "idle"

\* A scan that had the account to itself, found no order working there and whose
\* reads succeeded enters only on agreeing books: of each contract that at most
\* one position claims, the broker holds just what the position says.  What
\* crashed scans, failed unwinds, unrecorded fills and closes of closed legs left
\* behind blocks it.  The exception (calm): while it ran, a leg was closed whose
\* books disagreed already, so that what two errors hid from it came apart.
EntersOnAgreeingBooks ==
  \A s \in Scan :
    pc[s] = "execute" /\ (\A c \in Contract : order[s][c] = "none")
      /\ Alone(s) /\ calm[s] /\ ~ lost[s] =>
        \A c \in Contract :
          /\ Claimants(c) = {} => Held(c) = 0
          /\ \A r \in Claimants(c) : Claimants(c) = {r} => Held(c) = Plan[trade[r]][c]

\* A position already flagged for a human, and an abandoned intent, is "an
\* immediate, unconditional block": no scan that starts after it executes,
\* however many others run beside it, as long as its reads succeed.
FlagSeen(s) ==
  \E r \in ended[s] :
    row[r] \in {"RECONCILIATION_REQUIRED", "CLOSE_FAILED"} \/ intent[r] = "ABANDONED"
FlagsBlock ==
  \A s \in Scan : pc[s] = "execute" /\ ~ lost[s] => ~ FlagSeen(s)

\* The same without the excuse of a failed read.
FlagsBlockUnconditionally ==
  \A s \in Scan : pc[s] = "execute" => ~ FlagSeen(s)

\* A scan does not enter beside an equivalent position that a scan before it
\* opened and that is still ACTIVE.
NoLaterDuplicate ==
  \A s \in Scan :
    pc[s] = "execute" /\ ~ lost[s] =>
      \A r \in ended[s] : row[r] = "ACTIVE" => Shape[trade[r]] # Shape[trade[s]]

\* Migration 008: "concurrent duplicate SUBMISSION is blocked": two scans whose
\* reads all succeeded are never both holding the same candidate.
DuplicateBlocked ==
  \A r, s \in Scan :
    /\ row[r] = "ACTIVE" /\ row[s] = "ACTIVE" /\ trade[r] = trade[s]
    /\ ~ lost[r] /\ ~ lost[s]
    => r = s

\* brokerReconciliation.ts: an invocation that "claimed an entry and never
\* reached a terminal state (crash, timeout, cold-start kill)" is "exactly the
\* ambiguity the task requires blocking on".
CrashedClaimBlocks ==
  \A s \in Scan :
    pc[s] = "execute" /\ ~ lost[s] =>
      \A r \in ended[s] : ~ (pc[r] = "crashed" /\ intent[r] = "CLAIMED")
=============================================================================
