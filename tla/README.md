# Verification of thetalab's trading engines

TLA+ models of the code in this repository that places and closes positions, the
TLC runs that check them on small instances, and TLAPS proofs of what matters most
for every instance. Paths below are relative to the repository; `A` stands for
`api/options-autotrade.ts`, `X/` for `src/quant/execution/`, `AE/` for
`src/nifty-alpha-edge/`, `AL/` for `src/nifty-alpha-ladder/`.

## 1. The system

Everything runs in serverless functions that an external cron calls (every minute,
`maxDuration` 60 s in `vercel.json`), except the Alpha Ladder worker, which is one
long-lived process. The functions share a Postgres database (Supabase) and a broker
account (Zerodha Kite; Groww as a second one). There is no transaction over more
than one row, no lock but unique indexes and conditional updates, and nothing stops
two invocations from overlapping. A platform kill can end an invocation between any
two awaits.

| Component | State | Operations | Hard behaviour | What makes it correct |
|---|---|---|---|---|
| AUTO order execution (`X/liveFill.ts`, `X/legFailureHandler.ts`) | leg states and fills of one run; orders at the broker | `runLiveExecution`: passes over the legs, hedges first; await, query once more, retry, unwind | lost answers, late fills, partial fills, retries | no short without its hedge; no order after an ambiguous one; the returned state says what the broker holds |
| AUTO entry (`A` `handlePaperScan`, `X/brokerReconciliation.ts`, `X/orderIntent.ts`, migration 008) | positions, legs, order intents; broker books | read positions, read broker, reconcile, claim, execute, record | overlapping scans with stale reads, failing reads and writes, kills | a candidate is executed by one scan at a time; entries only on agreeing books; flagged positions block |
| Position monitor and manual closes (`A` `handlePositionMonitor`, `handleManualClose`, `handleManualCloseLeg`) | status, exit fills (the lock), `daily_stats` | close the legs, shorts first; CLOSED or CLOSE_FAILED; book the P&L | overlapping handlers working from rows read earlier; unconfirmed closes | CLOSED means closed; a closed leg is not closed again; shorts first |
| SHADOW exit (`A` SHADOW branch, `X/forwardLedger.ts`, `X/shadowConsistency.ts`) | position, ledger row, telemetry rows | simulate, complete the ledger, write telemetry, close; recovery | three rows without a transaction, kills, two monitors with different outcomes | the first outcome is final; one telemetry batch; a position counted as valid has its evidence; a crash is recovered |
| Alpha Edge (`AE/engine.ts`, `AE/lifecycle.ts`, handlers `A` 4895-5244) | one position row per week and mode, its two legs | `runEdgeTick` (manage, enter), `closePositionManually`, kill switch | overlapping ticks and users, time-outs, lost leg updates, expiry | one entry per week; short closed before the wing; CLOSED means flat; a position given up on stays so |
| Exit rules (`X/exitEngine.ts`) | none | `evaluateExit` | boundaries of thresholds and times | the rules' precedence |
| Daily risk lock (`X/dailyRiskLock.ts`, `A` 1234, 2755, 3954, 4170) | `daily_stats` of a day and mode | read, add, write; the lock | read-modify-write by overlapping monitors; the lock is only looked at by scans | the row is the sum of the day's closes |
| PAPER and SHADOW fills (`X/paperFill.ts`, `X/fillSimulator.ts`, ...) | none | price arithmetic | | |
| SHADOW telemetry (`X/shadowScan.ts`, `X/readiness.ts`, ...) | append-only rows | best-effort writes and reports | | |
| Alpha Ladder market data (`AL/live/kiteDepthSource.ts`) | sockets, subscription, status, circuit breaker, reconnect timer | connect, subscribe; open, message, error, close; the timer dials again | timers and socket events in any order | one socket; the feed comes back or says it has failed |
| Alpha Ladder worker and session (`AL/worker/`, `AL/live/`, `AL/persistence/`) | session accumulator, checkpoint, feed gaps, the week's signal | start, resume, checkpoint (30 s), assess, evaluate (60 s), fire | restarts anywhere, gaps, a silent feed | a signal is fired once and never over a hole the process could have known |
| Alpha Ladder signal (`AL/signal/`) | none | thresholds, the two paths, crossing, alignment, variation C | observations that come late, restarts from a checkpoint, ties | the decision is symmetric; what was decided on stays |
| Alpha Ladder execution (`AL/execution/`, `AL/exit/`, `AL/persistence/crashRecovery.ts`, ...) | leg rows | resolve, enter leg by leg, roll back, monitor, exit shorts first, resume action | legs that do not fill; the resume code has no caller | never more short than long; the legs are worth the declared payoff |
| Alpha Ladder calendar, quantity sizing | none | rules on dates, a division | | |
| VWAP scalper (`A` 3755-4180, `src/vwap-scalper/`) | positions, entry intents, daily statistics | scan with claim, monitor, settings, kill switch, cleared lock | scans and monitors overlap and write one row of the day | slots; the row of the day is the sum of the closes |
| Intraday (`api/intraday.js`) | paper positions, daily statistics | scan (manage, then enter), kill switch, settings | one scan carries positions and statistics in memory over many writes | statistics match, caps and limits hold within a scan |
| Swing auto-trader (`api/swing-autotrade-tick.js`, `api/swing-autotrade.js`) | position rows; GTTs, stop orders and holdings at the broker | tick (reconcile, buy, protect, record), exit from the UI, panic halt, settings | guards fire at any time at the broker; requests overlap, are killed, lose answers and writes; failed reads pass for empty ones | slots; no second lot of a stock; no lot sold twice |
| Quant library, market-data and auth APIs, user interface | none or third-party | | | |

The parts interact as follows. `handlePaperScan` calls `runLiveExecution` and writes
the positions that `handlePositionMonitor` and the manual handlers close; the
reconciliation gate reads what all of them left behind. A SHADOW position is opened by
the same scan together with its ledger row. Alpha Edge takes the week's signal from
the Ladder's table, calls `runLiveExecution` for its entry and has an exit of its own.
The swing trader has orders and holdings of its own in the same broker account. The
scalper and the intraday account are paper only and share no rows with the others; the
ladder's worker records a signal, which Alpha Edge reads, and its execution is simulated.

## 2. The modules

| Module | Models | Checked by |
|---|---|---|
| `LiveFill` | one run of `runLiveExecution` and the broker | `MCLiveFill`, `LiveFillProofs` |
| `AutoEntry` | overlapping AUTO scans, one broker account, one database | `MCAutoEntry`, `ScanProofs` |
| `PositionExit` | the three handlers that close one AUTO position | `MCPositionExit`, `PositionExitProofs` |
| `ShadowOutcome` | abstract: an outcome is recorded once and the position booked with it | implemented by `ShadowExit` |
| `ShadowExit` | the exit of one SHADOW position, its recovery and manual close | `MCShadowExit`, `ShadowExitProofs` |
| `EdgePosition` | one week and mode of Alpha Edge | `MCEdgePosition`, `AlphaProofs` |
| `DepthSource` | the reconnecting depth feed of the ladder | composed into `LadderSession` |
| `LadderSession` | the ladder worker through one session, over `DepthSource` | `MCLadderSession`, `AlphaProofs` |
| `LadderSignal` | ingestion of depth, and the signal computed from it | `MCLadderSignal`, `AlphaProofs` |
| `LadderExecution` | a fired signal: structure, entry, rollback, exit | `MCLadderExecution`, `AlphaProofs` |
| `Scalper` | the VWAP scalper's paper account | `MCScalper`, `ScanProofs` |
| `SwingTrade` | the swing auto-trader and its guards at the broker | `MCSwingTrade`, `SwingTradeProofs` |
| `Intraday` | the intraday paper account | `MCIntraday`, `IntradayProofs` |
| `FoldLemmas` | nothing: what the sums over sets and the folds over sequences compute, for the proofs | |

`MC*` modules only give constants their values. In all modules an action is the code
between two awaits, a database or broker call that fails is a disjunct of the action
that makes it, a kill is an action of its own (`Crash`, `Forget`, or part of `Leave`),
and an order at the broker changes by actions of the broker, whether or not anybody
looks.

**LiveFill.** `pc`, `pass`, `todo` and `cur` are the position in `attemptPass` and in
the retry loop of `runLiveExecution`; `legState` and `fills` are `legStates` and
`fills` of the code. `entry[l][p]` is the order of leg `l` in pass `p`, with what it
is at the broker (`status`, `filled`) apart from what the process was told (`heard`).
`placeOrder` that throws may have reached the broker; `awaitFill` may time out on an
order that fills later; `getOrderStatus` may give no answer.
Constants: any plan of legs in which each short has a protecting long (`DefinedRisk`:
the strategies build credit spreads and iron condors), quantity, `MaxRetries`.

**AutoEntry.** Each scan reads the open rows, the broker's positions, the broker's
orders and the reconciliation inputs at four different times (`ReadPositions`,
`ReadBrokerPositions`, `ReadBrokerOrders`, `Reconcile`), claims an intent under the
partial unique index (`Locked`, `Claim`), sends orders (`Send`, `Unwind`; the detail is
in `LiveFill`) and records position, legs and intent in three writes. `Reconciled`
follows `reconcile`: both maps keyed by contract, so of two claimants the one that is
kept is a choice. Sizing, liquidity and margin are `Skip`. Positions are closed by
`ClosePosition` and `CloseFails` in one step each: the interleavings of closing are
`PositionExit`'s. A close goes by the leg rows alone, as in the code: a leg that was closed
at the broker without a note in its row is closed again, and then the account has the opposite
holding ("oversold"; at most once per leg). A scan
runs once; `ended`, `calm` and `lost` are history variables the properties need.

**PositionExit.** An invocation of one of three handlers reads the rows (`Begin`,
`BeginLeg`), walks the open legs (`IsNext`: shorts first), sends an order, hears of it
or not, writes the lock (which can be lost: the code does not look at the error), and
ends in CLOSED, CLOSE_FAILED, or leaves the position ACTIVE. `daily` counts how often
the P&L went into `daily_stats`. `mishap` is history: a handler began while another
was running, was killed, lost an update, or ended without having confirmed a single
leg. The loop over the legs goes on after a close that was not confirmed, so that a hedge may
be sold while its short is still at the broker; what that leaves behind is `NakedIsFlagged`.

**ShadowExit.** Slots of concurrent monitor invocations. The recovery at the top of
the loop (`ReadOutcome`, `CountExits`, `Finalize`) and the exit (`Evaluate`,
`FlagOrphans`, `Simulate`, `RecordOutcome`, `InsertTelemetry`, `Close`) with the
branches for a lost race and for errors. A simulated exit is a member of `Pnl`.
`ShadowOutcome` is what `SHADOW_EXIT_RECOVERY.md` promises of it; the
mapping is `outcome <- ledger`, `disturbed <- ledgerError \/ manual`.

**EdgePosition.** The row with its status, reason and attempts, the legs whose
`exit_fill` is written, and per call the position as it read it (`seen`), changed in
memory as the code changes `leg.exitFill`. A tick manages the open position or tries to
enter; a user's call claims or, when it finds EXITING, goes straight to the exit. `phase`
is the clock as far as `exitCheck` looks at it. `stray` are closing orders nobody
watches any more. The entry is the claim, one run of `runLiveExecution` with one of
three results, and its record; prices, direction and structure are left out.

**DepthSource** and **LadderSession.** `DepthSource` has the sockets (two suffice: the
current one and one that could linger), what was sent on them, and the status, the
failures and the timer of `KiteAlphaLadderDepthSource`; its actions are the handlers.
`LadderSession` EXTENDS it and adds the worker: `now` counts slots of time from an
origin before the open, `acc` is the accumulator down to which intervals have data,
`ckpt` and `gapRow` are what the database keeps, and a start goes through `loading`
and `connected` as `main` does. `Crash` forgets the process and keeps the database.
`watched` is history: the intervals during which a process was up for some of the time;
`lost` says that a write of a gap row or its read failed.

**LadderSignal.** `ingest` with its windows, intervals and thresholds as state; the
paths, areas, crossing, alignment and variation C as operators on it. An observation has
the exchange's stamp, which may be behind or ahead of the worker's `minute`; windows and
intervals end by the latter. `SaveAccumulator` stores a checkpoint at any time and `Restart`
goes on from the last one (`saved`), whatever came in since. Times are
minutes, each side of the book has one price, and ratios and areas are whole numbers
by a common multiple that the bounds of the run make exact; where other bounds do not,
`Quotient` rounds towards zero, so that like the quotient of floating-point numbers it
is negated with its dividend.

**LadderExecution.** `legs` are what `resolveLadder` makes of the spot, the direction
and the listed strikes; `entry` and `exit` the prices the legs were filled at. Entry,
rollback and exit proceed leg by leg against books chosen at each step, with the
limit price, the gate on the book and the number of snapshots of `simulateFill`. Nothing
in the worker calls these modules yet, so their composition is the one their documentation
gives. `AL/persistence/crashRecovery.ts` is left out: it decides from rows of legs and calls
that nothing in the repository writes, so there is no state to check its answer against.

**Scalper.** A scan reads the mode, the lock and the open positions, then claims and
inserts for signals on a candle; a monitor closes positions one by one and books each
with a read and a write of the day's row. `crowded` and `mixed` are history.

**SwingTrade.** The rows of the database and the guards of the broker are separate: a guard
fires, sells, or lapses whether or not anybody looks. A tick reconciles, counts its slots once
and then buys, protects and records from memory; an exit cancels, sells and closes. The read of
the open positions may fail and passes for an empty one. The answer of a guard may be lost: the
guard is at the broker all the same, in no row, and the next kind is put beside it. A trigger
the broker lists as no longer active may have fired, lapsed or been deleted, and may also be
missing from the list. `held` is what the broker holds of each stock by the program's orders.
`mishap` collects what has gone wrong; each property names what it excuses.

**Intraday.** A request carries the positions and the statistics it read (`seen`,
`stats`, `open`), manages position after position (`Manage`, `FoldStats`), and then, if
it is a scan with execution on, enters (`Enter`, `CountEntry`). Prices are moves from the
entry in units of risk `R`. A kill switch runs the same closes.

## 3. The runs

| Run | Shows | Bounds and why they are enough |
|---|---|---|
| `live_fill` | `HedgedBeforeShort`, `ActiveIsHeld`, `FailureExplained`, `QuietAfterAmbiguity`, `Terminates` | an iron condor of two units per leg with one retry: two shorts with a hedge each, a partial fill, a second pass, an unwind of several legs. The proofs lift the bounds, and show that no short believed filled is unprotected (`NoNakedShort`) |
| `auto_entry` | `OneExecutionPerTrade`, `EntersOnAgreeingBooks`, `FlagsBlock`, `NoLaterDuplicate` | three scans, two mirrored spreads that net to nothing when both are held. Two scans overlap at will; the third begins after them, its reads succeed, and it is followed up to its first order. So a position, what another scan left at the broker, and one that enters all meet; the first two are as free as in an instance of two. `View` does not tell apart what an ended scan remembered. The proofs lift these bounds; candidates of one shape but other legs are there only in the proof of `NoLaterDuplicate` |
| `position_exit` | `ClosedIsCovered`, `TwiceExplained`, `LockProtects`, `NakedIsFlagged` | three invocations of any handler on a short and a long: two that overlap and one that comes after |
| `position_exit_twice` (violation) | `SameLegOnce` fails | same |
| `shadow_exit` | `OneExitBatch`, `ValidIsWitnessed`, refinement `OutcomeImplemented`, liveness `CrashRecovered` | two slots that are used again and again, two outcomes. The safety is proved for any number |
| `edge_position` | `NoNakedShort`, `ClosedIsFlat`, `EnteredOnce`, `GivenUpStays`, liveness `ExpiredSettled` | two slots, `MaxAttempts` 2 (5 in the code: only reaching it matters), one closing order per leg that fills or may, and any number that is refused. The liveness check sets that bound; the safety properties are proved for any number |
| `ladder_session` | `OneSocket`, `HolesWatched`, `InvalidStays`, liveness `FeedReturns` | six slots: one before the open, intervals of two and a tolerated gap of three (3 and 5 minutes in the code: more than one interval, less than two), a signal window from slot 3; two failures to the breaker (8 in the code); any number of restarts |
| `ladder_signal` | `MirrorImage`, `CrossingStays` | every session of up to four observations and restarts in six minutes, with two sizes, stamps up to a minute behind the worker's clock, a checkpoint at any time, windows and intervals of two: a threshold that is learnt, one that is learnt anew, an interval that is closed a second time after a restart, and both decision paths. The proofs lift the bounds, and allow stamps that are ahead |
| `ladder_execution` | `ShortsCovered`, `PayoffAsDeclared` | four touch prices around the limit, two snapshots, an index from 0 to 32 steps with a strike missing or not, capital for one unit and for none. The proofs lift the bounds |
| `scalper` | `SlotsRespected`, `DailyIsSum` | two scans and two monitors at a time, two symbols, two positions, one slot: the slot is freed and taken again. The proofs allow any number of each |
| `swing_trade` | `SlotsKept`, `HeldOnce`, `SoldOnce` | two ticks, two exits, two stocks, one slot, two entry orders, one kind of mishap (each kind in turn, as often as it likes) |
| `intraday` | `StatsMatch`, `CapsKept`, `TrailedNeverLoses`, `EntriesWithinLimits` | three requests one after the other or two at a time, three stocks of which two share a sector, moves from a loss of one to a gain of two `R`, four positions on a day that allows three, one mishap |

Every invariant and action property of the passing runs, and the refinement, is also proved for every
value of the constants (section 5): the bounds matter to the liveness properties only.

`CHECK_DEADLOCK FALSE` is set everywhere because each model really stops: runs return, scans
end, a position is closed, a day is over. Most properties of the last four modules, and
`EntersOnAgreeingBooks`, are conditional on a history variable: the mishaps named there do
break them in the code, and each property says by which of them it is not broken.

### Findings

`position_exit_twice` shows that two overlapping closes send two closing orders for one
leg: the lock `exit_fill_price` is read when a handler begins and written after the
fill, and nothing is claimed in between, although `A` 3368-3373 says that the same leg
can never be closed twice.

### Other statements that do not hold

The modules state further claims of the repository's documentation that TLC refutes; none
is part of a run. To see one fail, put its name under INVARIANTS (or PROPERTIES, where it is
an action property) of the module's `.cfg` in place of the others.

| Property | Claim | What happens |
|---|---|---|
| `LiveFill!FailedIsClean` | FAILED leaves nothing open | a lost answer, a fill without a price, a partial fill or a closing order that fails leaves a leg at the broker (`X/liveFill.ts` 122-127, 168-172, 276-285) |
| `AutoEntry!DuplicateBlocked` | a candidate is opened once | the index covers intents that are not terminal, and the duplicate check was made from earlier reads (`A` 1609, 1870) |
| `AutoEntry!FlagsBlockUnconditionally` | flagged positions are "an immediate, unconditional block" (`X/brokerReconciliation.ts` 119-122) | a read of them that fails passes for an empty answer (`A` 748-777) |
| `AutoEntry!CrashedClaimBlocks` | a claim that never reached its end blocks (`X/brokerReconciliation.ts` 131-134) | a killed invocation leaves its intent CLAIMED; only ABANDONED is looked at |
| `PositionExit!ShortClosedFirst` | shorts first (`A` 2457-2458) | the loop goes on to sell the hedge after the close of its short was not confirmed (`A` 2513) |
| `EdgePosition!OneExecutor` | "one exit executor per position" (`AE/engine.ts` 17) | a call that finds the position EXITING executes the exit without a claim (`AE/engine.ts` 394, 406-411) |
| `EdgePosition!ExitingSettled` | "the exchange settled both legs" (`AE/engine.ts` 419) | a position that was EXITING for another reason when its contracts expired waits for a quote, or for a broker to take an order, and is never settled: only ACTIVE positions come to `exitCheck` |
| `LadderSession!FiredOnWholePath` | a session only qualifies with continuous coverage from its start (`AL/live/sessionIntegrity.ts` 2-5) | a feed that is silent under a running process leaves a hole that nothing looks for before the next start; observations made before the open can stand in for the first bucket |
| `LadderSignal!CrossingStaysForGood` (action) | the checkpoint holds what "a restart must not lose: completed G2 snapshots" (`AL/live/sessionAccumulator.ts` 119-120) | it is up to 30 s old (`AL/worker/main.ts` 237-238): observations of an interval that has ended since are lost, the interval is closed again without them, and the crossing found before may be gone |
| `LadderSignal!PathStays` (action) | each observation is judged with the threshold that applied at its time (`AL/signal/largeOrderNet.ts` 68-70) | the accumulator keeps one threshold, and every evaluation judges the whole day with it (`AL/live/sessionAccumulator.ts` 115) |
| `SwingTrade!ProtectionIsTrue` | `protection` is "what's actually guarding this position" (`src/swing/schema.sql` 200) | an exit cancels the GTT, its sale fails, and the row keeps `GTT`. If the broker's list no longer shows the trigger, the tick leaves the row alone for good; if it shows it as deleted, the tick closes the row as `GTT_DELETED` while the lot is still held (`api/swing-autotrade-tick.js` 96-107). A panic halt whose write is lost does the same |
| `Intraday!KillKeepsStats` (action) | without the statistics "stats just won't reflect these closes" (`api/intraday.js` 1270-1274) | the upsert of the first close replaces the day's row by one counted from zero |

### Seen while modelling

- `shadow_exit`: a monitor whose ledger write reports an error closes the position
  with its own P&L even if the ledger holds another one (`A` 2665; the position is not
  counted as valid, which `ValidIsWitnessed` shows), and the outcome is completed before
  the telemetry, where `SHADOW_EXIT_RECOVERY.md` lists it after. A position closed by
  hand keeps its eligibility while its ledger row stays open (`A` 3637).
- `auto_entry`: the reconciliation compares net quantities per contract, so two errors
  may hide each other: a leg that was closed and not noted, and the fill of a scan that
  was killed, of the same quantity. A scan enters on such books, rightly so far; when the exit
  path then closes that leg once more (it never asks what the broker holds, `A` 2494), the
  books come apart under the running scan. `EntersOnAgreeingBooks` excepts it (`calm`).
- Alpha Edge: `exitCheck` is evaluated for ACTIVE rows only, so a SHADOW position that
  is EXITING when it expires has no quote and is retried for ever; a call killed
  during the entry leaves an ENTERING row that no tick lists; a position whose leg rows
  were not inserted throws on every tick.
- `daily_stats` loses a P&L when two monitors close positions at one time
  (`A` 2755-2765), and manual closes never reach the daily lock.
- Ladder worker: `openSocket` counts a connection generation on every dial although
  its comment speaks of successful ones; `disconnect()` has no caller; `isSignalWeekday`
  is called with `precedingWednesdayHadData = false` (`AL/worker/main.ts` 285), so that
  Thursday always is a signal day, which `AL/calendar/signalCalendar.ts` makes conditional.
- Ladder execution: a position without leg rows resumes as `ENTRY_COMPLETE`;
  `noNakedShortInvariantHolds` compares one leg without the shorts filled before it; the
  800 and 600 of `computePayoffSummary` assume a strike step of 50.
- Scalper: clearing the lock answers that new entries can resume on the next scan
  (`A` 3834), but the next scan computes the lock again from the same row; the same
  signal can be opened twice by a scan whose reads are older than the first one's end.
- Swing: when the read of the open positions fails the tick sees no position
  (`stillOpen ?? []`, `api/swing-autotrade-tick.js` 125-130), so it takes all slots for free and
  may buy a stock that it holds ("blind"); when the answer of the GTT is lost a stop order is
  placed as well (201-228), so two guards of one lot are live and one is in the row ("orphan").
  An exit whose order was placed but whose answer was lost is reported as still
  open, to be tried again; a fallback stop is a DAY order that ends without notice; the
  limit order of a triggered GTT may lapse, and its row is closed all the same; a panic halt
  does not stop a tick that is buying.
- Intraday: the kill switch says that no new position can open once it has disabled the
  engine, but a scan that has begun goes on; the lock is computed anew at each close, so
  a winning close lifts it; entries are still made after the square-off time; a stop at
  breakeven counts as a loss; MOMENTUM_FAILURE looks at the current price only, not at
  whether target1 was ever reached, as its comment says.

## 4. Fairness

`LiveFill` assumes weak fairness of the process's own steps: `awaitFill` has a time-out.
The fetches of the broker adapters have none of their own; one that hangs is cut off with the
whole invocation after 60 s, so what `Terminates` shows is that the loop over passes and legs
ends as long as the calls do. Nothing is assumed of the broker's orders. `ShadowExit` assumes
weak fairness of the steps of a running invocation, and strong fairness of starting
one and of the recovery's three calls: cron starts a monitor every minute, and a call
that is made again and again does not fail or get killed every time. Nothing is assumed
of `evaluateExit`: `CrashRecovered` holds when it says HOLD for ever. `LadderSession`
assumes weak fairness of two things: a dial that is under way comes to an end, open or
closed (the network stack times out), and a timer that is set fires. Nothing is assumed of
the network beyond that, nor of the process, which may be down for ever. `EdgePosition`
assumes, after the expiry only, that a call which has begun goes on or ends, that cron's ticks
are not kept out by users for ever, and strong fairness of each step of the settlement: a step that
is tried on every tick does not fail or get killed every time. The other
modules have safety properties only and no fairness.

## 5. The proofs

| Theorem | Module |
|---|---|
| `TypeCorrect`, `HedgedBeforeShortHolds`, `NoNakedShortHolds`, `ActiveIsHeldHolds`, `FailureExplainedHolds`, `QuietAfterAmbiguityHolds` | `LiveFillProofs` |
| AUTO entry: `TypeCorrect`, `OneExecutionPerTradeHolds`, `FlagsBlockHolds`, `NoLaterDuplicateHolds`, `EntersOnAgreeingBooksHolds` | `ScanProofs` |
| VWAP scalper: `SlotsRespectedHolds`, `DailyIsSumHolds` | `ScanProofs` |
| `TypeCorrect`, `ClosedIsCoveredHolds`, `LockProtectsHolds`, `NakedIsFlaggedHolds`, `TwiceExplainedHolds` | `PositionExitProofs` |
| `TypeCorrect`, `OneExitBatchHolds`, `ValidIsWitnessedHolds`, `OutcomeRefined` | `ShadowExitProofs` |
| Alpha Edge: `TypeCorrect`, `NoNakedShortHolds`, `ClosedIsFlatHolds`, `EnteredOnceHolds`, `GivenUpStaysHolds` | `AlphaProofs` |
| Ladder worker: `OneSocketHolds`, `InvalidStaysHolds`, `HolesWatchedHolds` | `AlphaProofs` |
| Ladder execution: `ShortsCoveredHolds`, `PayoffAsDeclaredHolds` | `AlphaProofs` |
| Ladder signal: `CrossingStaysHolds`, `MirrorImageHolds` | `AlphaProofs` |
| `SlotsKeptHolds`, `HeldOnceHolds`, `SoldOnceHolds` | `SwingTradeProofs` |
| `CapsKeptHolds`, `TrailedNeverLosesHolds`, `StatsMatchHolds`, `EntriesWithinLimitsHolds` | `IntradayProofs` |

Assumptions: `PlanAssumption` and `DefinedRisk` (a well-formed plan; each short has a
protecting long), `PlanIsSigned` (a candidate's legs have integer quantities),
`ScansAreFinite` (finitely many scans, over which the account is a sum),
`LegAssumption` (each short leg has a hedge among the long ones), `NoneAssumption` (no
outcome is called None), `EdgeAssumption` (at least one attempt), `SignalAssumption`
(quantities and windows are positive; what stands for no signal is neither a knot nor a
decision), `LadderAssumption` (strikes are numbers and at least two are listed), and of
the other modules that their constants are numbers and None is none of them; for
`LadderSession` also that the tolerated gap is more than one interval and less than two
(3 and 5 minutes in the code). All are evaluated by TLC in the runs of the modules.

*LiveFill.* None of the properties is inductive: each speaks of the broker, and the
process acts on what it was told. `IInv` ties the two: what was heard of each
order fits what the order is (an order heard filled is complete, one heard rejected has
no fill), at most the current order is unresolved, what the process recorded of a
leg fits what it heard, and where it stands fits which legs it has been through. Hedges
first follows since a SELL leg leaves `todo` only after all BUY legs have.

*AutoEntry.* Two scans cannot execute the same candidate because the scan that executes
holds a CLAIMED intent, and `OneKey` says that at most one intent of a key is not
terminal. The gates are harder: a scan acts on what it read several awaits before.
`Gated` holds it to be still right because an ended scan writes nothing more (`Past`) and
its rows change only by being closed, which `Preserved` shows once for all steps. The
case of a position that fails to close later is excluded by the history variable
`ended`; that of a failed read by `lost`.
`EntersOnAgreeingBooks` is about sums: what the broker holds of a contract is what the
orders of all scans add up to. `BooksInv` splits off the scan's own (`Others`): nothing
of what the others sent is open when it comes to its gates, `StillHeld` says that the
quantity it read is still theirs, or the contract was closed since with the books agreeing, and
`Agree` that after the comparison the others hold what the one claimant of a contract
says. It stays so because, while a scan is alone and `calm`, the account changes only by
closes that remove a leg's claim and its quantity together.

*PositionExit.* A handler works from rows it read earlier, so its picture of a leg may be out
of date in one direction only: a leg it takes for open may be closed. `Belief` says that the
legs a handler no longer has to close are closed at the broker, and since a fill stays, no
other handler can make that false. `NakedIsFlagged` follows: a handler that ends without
CLOSE_FAILED has its queue empty and nothing unconfirmed, so the short was closed. `FreshInv`
says that a handler has ordered none of the legs still in its queue. For `TwiceExplained` it
says that without a mishap at most one handler runs on the position, and that each order sent
is accounted for: its leg is locked, or the position is no longer ACTIVE, or the one running
handler has it in hand.

*ShadowExit.* What an invocation knows may be old when it acts. `IInv` says why that
does not matter: an outcome, once recorded, stays, and so does a batch of telemetry,
so what it learnt stays true. As long as the ledger answers, only the invocation that
completed it comes to write telemetry. The refinement is proved step by step from `IInv`.

*EdgePosition.* Two calls may execute the same exit, so nothing can be said of who
closed what. `IInv` says instead that every leg a call takes for closed, in memory or
in a row, has been closed at the broker, which stays true whatever others do; that an
order a call has sent is for the leg its own memory says is next; and that one call at
most holds the claim of the week. `Local(k)` collects this per call, `OthersKeep` shows
that a step of one call keeps it for the others. `GivenUpStays` needs more: without a mishap
at most one call executes the exit, and the position is EXITING until it is done (`SoleInv`), so
that nobody executes once it has been given up.

*LadderSession.* A second socket could come from a timer that fires beside a socket or
from a second timer. `FeedInv` counts them together: the sockets that are dialling or
open and the timers that are set are at most one, and there is none of them when the
source has given up. It is an invariant of the feed alone, and every step of the worker is
a step of the feed, a stutter of it, or its reset. `InvalidStays` needs that a process which
has read a gap row never fires: `GapInv` says that a
running process knows of every stored gap unless a read or write of it was lost: it reads
the rows before it is `up`, and it is the only one to add one. `HolesWatched` asks of each
interval before the signal whether it has data, or will have when it is closed, or fell into a
time when a process was running (`Seen`). `JudgedInv` says that a session which nothing has
judged broken has them all, in memory up to now (`Cover`) and in the checkpoint up to
where it stops. A start that judges the gap tolerable keeps that, since a gap that is
less than two intervals hides no whole one that was not begun before or ended after it; a
checkpoint of the time before the open is the exception, and the first interval catches
it (`Uncovered`).

*LadderSignal.* `SignalInv` says that the snapshots are in the order of time and none is
later than the last closed interval, so what a later evaluation sees in addition is behind
every index that an earlier one looked at: a minute that passes uncovers no snapshot, and a
batch of observations only appends, whatever their stamps. A restart is the step that takes
snapshots away. `SavedInv` says that those of the checkpoint are the first ones and end where
the checkpoint does, so that a crossing in an interval that had ended by then is among them
(`CrossingRemembered`). The first crossing is the smallest such index, which
gives `CrossingStays`. `MirrorImage` follows the exchange of the sides through each operator: the
same observations are events, their signed sums are opposite (`NegatedSum`), so both paths
are mirrored (`G1Mirrored`, `G2Mirrored`), each segment of an area changes its sign,
interpolation included (`SegmentMirrored`), and the crossing keeps its instant.

*LadderExecution.* `LadderInv` ties the stage to which legs have gone in and out: they fill
in their order, the short is the last in, and a long is released only when the short is out or
never went in. The ratios of the resolved legs do the rest, with `selectATM` and
`deriveStrikeStep` shown to return a listed strike and a number for any list.
`PayoffAsDeclared` needs nothing of the run but the resolved structure.

*Scalper.* `Reserves` says of a scan that no other runs beside that the slots it still takes
for free are free, and that the symbols it has still to look at are not taken; monitors only
close positions, which keeps both. For the row, `Booked` says that while a monitor has a close in
hand the row is the sum of the closes before it; `TotalAppend` and `TrailingAppend` show
that both folds over the closes take one element at a time.

*SwingTrade.* A tick counts its free slots once and then buys from memory. `Room` carries the
count along: the open rows and the slots the tick still takes for free are no more than all
slots, and no open row is of a stock that the tick does not know of. That needs `OneRowEach`,
since slots are counted in stocks and the limit is on rows. Others only close rows (`Shrinks`).
A tick whose read failed knows of no row, so that step is a mishap of this property as
overlapping ticks are (`SlotsUnsafe`). The lots are bounded from both sides. `SoldInv`: the
broker holds at least as many lots of a stock as there are orders that may yet sell one, which
are live guards (`Live`), rows that an exit is selling or that have no guard (`Owed`), and lots
a tick has bought and not yet protected (`Fresh`); a guard that ends and a row that closes
leave these sets with the lot. A guard whose answer was lost would be counted beside the one of
the row, for one lot; hence "orphan" among what `SoldOnce` excuses (`SellsUnsafe`). `HeldInv`:
it holds at most the lots that are on sale and the one that the program knows of (`Known`).
Each excuses other mishaps, as the properties do.

*Intraday.* A scan enters by what it read at its start. `AloneInv` says that without two
requests side by side the rows in a request's memory are still what the table holds, which
gives `TrailedNeverLoses`: the stop it compares with is the stop of the row. Two scans are
enough to break the caps, other overlaps are not: `CapsInv` says that a scan which may still
enter knows of every open row, in memory or as the one it has inserted and not yet counted
(`Knows`). Requests beside it only close rows, which keeps that and the caps (`CapsShrink`);
the one step that adds a row does so within what the scan knows (`CapsGrow`). `StatsInv` says
that the day's row is behind the positions by exactly what the one request is about to count, a
close or an entry (`Counted`), and that the statistics in its memory are the row's;
`EntriesWithinLimits` is read off from it, as the gate looks at that memory.

*Sums and folds.* The library's induction theorems cannot be used here (they take an operator as
a parameter), so `FoldLemmas` shows what `MapThenSumSet` and `FoldLeft` compute by a smallest
counterexample: among the subsets of a finite set for which a claim fails one is smallest, as strict
inclusion is well-founded. From that it has that the recursive function the fold chooses exists, that
it depends on the summands only, that any element may be taken out first, and the like.

Left to TLC: the four liveness properties (`Terminates`, `CrashRecovered`, `FeedReturns`,
`ExpiredSettled`), since the prover has neither fairness nor ENABLED. Sorting and filtering with
`SortSeq` and `SelectSeq` mean nothing to the provers; `LadderSignal` picks and orders with
`InOrder` and `At` where a property depends on it, and keeps `SortSeq` in `empiricalQuantile`, whose
value neither property asks for.

## 6. What is not modelled

The models cover the code that keeps state of which more than one actor or more than one
step makes something that can go wrong. That is a small part of the repository by lines; the rest is:

- *User interface* (`App.jsx`, `components/`): React views and formatting over the
  handlers modelled here; and *data* (`src/swing/data/nifty500.js` and other tables).
- *Arithmetic on prices*: Black-76, Greeks, strikes, probabilities, regime, indicators, scores
  of the intraday and swing scanners, simulated fills, costs, and the backtests.
  These are pure functions of floating-point numbers over series of bars; a model on
  small whole numbers would say nothing of them. The models let their results be any
  choice that the code distinguishes.
- *Exit rules* (`X/exitEngine.ts`), the scalper's exit policy: a list of comparisons in
  order; in the models the rule may say CLOSE or HOLD at will, except in `Intraday`, where
  the order matters to `TrailedNeverLoses`.
- *Request authentication, market-data APIs, reports and telemetry*: no state, or rows that
  are only appended.
- *The daily lock of AUTO* over several positions: booked as in `Scalper` and
  `Intraday`, where it is checked; the AUTO handler only as far as one position goes.
- *Expiry of an EXITING SHADOW position of Alpha Edge*: known not to settle (above).

What could come next: the entry of PAPER and SHADOW positions with their ledger rows
(`handlePaperScan`), and the calendar of the ladder's week with a worker that runs over
midnight.
