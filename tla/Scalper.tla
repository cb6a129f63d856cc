------------------------------- MODULE Scalper -------------------------------
(***************************************************************************)
(* The VWAP scalper's paper account (handleVwapScalperScan,                *)
(* handleVwapScalperMonitor and the browser's handlers in                  *)
(* src/api/options-autotrade.ts): cron starts a scan and a monitor every   *)
(* minute, and a slow one overlaps the next.  A scan opens positions, a    *)
(* monitor closes them and books the result in the day's row, from which   *)
(* the next scan derives the daily risk lock.                              *)
(*                                                                         *)
(* Prices are left out: whether a signal is fresh, a position can be sized *)
(* or an exit is due is a choice.  The errors of most database calls are   *)
(* dropped.  The count of the day's trades, which nothing reads, is left   *)
(* out.                                                                    *)
(***************************************************************************)
EXTENDS Integers, FiniteSetsExt, SequencesExt

CONSTANTS Scanner, Monitor,  \* slots for running invocations
          None,
          Symbol,         \* positions in NIFTY_50_UNIVERSE
          Candle,         \* candles a signal may be on
          MaxPositions,   \* bound: positions of the day
          Pnl,            \* results of a position
          MaxOpen,        \* max_open_positions
          LossBudget,     \* max_daily_loss_pct of account_equity
          MaxLosses       \* max_consecutive_losses

ASSUME ScalperAssumption ==
  /\ Symbol \subseteq Nat /\ Pnl \subseteq Int
  /\ {MaxPositions, MaxOpen, LossBudget, MaxLosses} \subseteq Nat

VARIABLES
  mode,       \* settings.execution_mode
  positions,  \* position rows
  claimed,    \* keys of the entry intents that are not terminal
  daily,      \* the day's row
  scan,       \* the running scans
  monitor,    \* the running monitors
  results,    \* history: the results of the closes, in their order, unless mixed
  crowded,    \* history: scans overlapped, or one read or was told the wrong thing
  mixed       \* history: monitors overlapped, or a step of one was lost

accounts == <<mode, positions, claimed, daily>>
witnesses == <<results, crowded, mixed>>
scalperVars == <<accounts, scan, monitor, witnesses>>

NoRow == [pnl |-> 0, losses |-> 0, locked |-> FALSE]
IdleScan == [pc |-> "idle", todo |-> {}, room |-> 0, key |-> None]
IdleMonitor == [pc |-> "idle", todo |-> {}, pnl |-> 0, row |-> NoRow]

ActiveIds == {i \in DOMAIN positions : positions[i].status = "ACTIVE"}

ScalperInit ==
  /\ mode = "PAPER" /\ positions = <<>> /\ claimed = {} /\ daily = NoRow
  /\ scan = [k \in Scanner |-> IdleScan] /\ monitor = [m \in Monitor |-> IdleMonitor]
  /\ results = <<>> /\ crowded = FALSE /\ mixed = FALSE

ScanTo(k, next) == scan' = [scan EXCEPT ![k] = next]
EndScan(k) == ScanTo(k, IdleScan)
MonitorTo(m, next) == monitor' = [monitor EXCEPT ![m] = next]

-----------------------------------------------------------------------------
(* The browser and the clock *)

\* The settings form; the kill switch is one of its choices.
Settings == /\ mode' \in {"PAPER", "OFF"} \ {mode}
            /\ UNCHANGED <<positions, claimed, daily, scan, monitor, witnesses>>

ClearDailyLock ==
  /\ daily.locked /\ daily' = [daily EXCEPT !.locked = FALSE]
  /\ UNCHANGED <<mode, positions, claimed, scan, monitor, results, crowded, mixed>>

-----------------------------------------------------------------------------
(* The scan *)

checkDailyRiskLock(row) == row.pnl <= - LossBudget \/ row.losses >= MaxLosses

Overlaps(k) == \E j \in Scanner \ {k} : scan[j].pc # "idle"

\* A read that fails looks like a day without a row.
StartScan(k) ==
  /\ scan[k].pc = "idle" /\ mode = "PAPER"
  /\ \E row \in {daily, NoRow} :
       /\ crowded' = (crowded \/ Overlaps(k))
       /\ \/ /\ checkDailyRiskLock(row) /\ ~ daily.locked
             /\ daily' = [daily EXCEPT !.locked = TRUE] /\ UNCHANGED scan
          \/ /\ ~ checkDailyRiskLock(row)
             /\ ScanTo(k, [scan[k] EXCEPT !.pc = "slots"]) /\ UNCHANGED daily
  /\ UNCHANGED <<mode, positions, claimed, monitor, results, mixed>>

\* Mutant: one position more than the settings allow.
SlotsLeft(busy) == MaxOpen + 1 - Cardinality(busy)

openSlots(busy) == MaxOpen - Cardinality(busy)

\* The symbols with an ACTIVE position, or none when the read fails.
ReadSlots(k) ==
  /\ scan[k].pc = "slots"
  /\ \E blind \in BOOLEAN :
       LET busy == IF blind THEN {} ELSE {positions[i].symbol : i \in ActiveIds}
       IN  /\ IF openSlots(busy) <= 0 THEN EndScan(k)
              ELSE ScanTo(k, [scan[k] EXCEPT !.pc = "loop", !.room = openSlots(busy),
                                             !.todo = Symbol \ busy])
           /\ crowded' = (crowded \/ (blind /\ ActiveIds # {}))
  /\ UNCHANGED <<accounts, monitor, results, mixed>>

Looping(k) == scan[k].pc = "loop" /\ scan[k].room > 0 /\ scan[k].todo # {}

\* The symbols are tried in order: those before this one have no token, no bars, no fresh
\* signal, or one that cannot be sized.  The signal is on the last bar of candles fetched
\* a while ago: some candle.  The partial unique index refuses it while a claim for it is not terminal.
ClaimEntryIntent(k) ==
  /\ Looping(k)
  /\ \E s \in scan[k].todo, c \in Candle :
       LET later == {t \in scan[k].todo : t > s}
       IN  IF <<s, c>> \in claimed THEN ScanTo(k, [scan[k] EXCEPT !.todo = later]) /\ UNCHANGED claimed
           ELSE /\ claimed' = claimed \cup {<<s, c>>}
                /\ ScanTo(k, [scan[k] EXCEPT !.pc = "insert", !.key = <<s, c>>, !.todo = later])
  /\ UNCHANGED <<mode, positions, daily, monitor, witnesses>>

\* The claim fails for another reason.
ClaimFails(k) ==
  /\ Looping(k)
  /\ \E s \in scan[k].todo : ScanTo(k, [scan[k] EXCEPT !.todo = {t \in scan[k].todo : t > s}])
  /\ UNCHANGED <<accounts, monitor, witnesses>>

NewPosition(k) == [symbol |-> scan[k].key[1], status |-> "ACTIVE"]

\* The position, and the intent COMPLETED.
OpenPosition(k) ==
  /\ scan[k].pc = "insert" /\ Len(positions) < MaxPositions
  /\ positions' = Append(positions, NewPosition(k)) /\ claimed' = claimed \ {scan[k].key}
  /\ ScanTo(k, [scan[k] EXCEPT !.pc = "loop", !.key = None, !.room = @ - 1])
  /\ UNCHANGED <<mode, daily, monitor, witnesses>>

\* The intent is FAILED; the position may have been inserted all the same.
OpenFails(k) ==
  /\ scan[k].pc = "insert"
  /\ claimed' = claimed \ {scan[k].key} /\ ScanTo(k, [scan[k] EXCEPT !.pc = "loop", !.key = None])
  /\ \/ UNCHANGED <<positions, crowded>>
     \/ /\ Len(positions) < MaxPositions
        /\ positions' = Append(positions, NewPosition(k)) /\ crowded' = TRUE
  /\ UNCHANGED <<mode, daily, monitor, results, mixed>>

\* The scan ends, or is killed wherever it is.
StopScan(k) ==
  /\ scan[k].pc # "idle" /\ EndScan(k)
  /\ UNCHANGED <<accounts, monitor, witnesses>>

-----------------------------------------------------------------------------
(* The monitor *)

\* The history of a step that may break the sum: the closes matter no more then.
Book(breaks) == /\ mixed' = (mixed \/ breaks)
                /\ results' = IF mixed' THEN <<>> ELSE results

StartMonitor(m) ==
  /\ monitor[m].pc = "idle" /\ ActiveIds # {}
  /\ MonitorTo(m, [monitor[m] EXCEPT !.pc = "loop", !.todo = ActiveIds])
  /\ Book(\E j \in Monitor \ {m} : monitor[j].pc # "idle")
  /\ UNCHANGED <<accounts, scan, crowded>>

\* No quote, no bars, HOLD, or a close that could not be written.
LeavePosition(m) ==
  /\ monitor[m].pc = "loop"
  /\ \E i \in monitor[m].todo : MonitorTo(m, [monitor[m] EXCEPT !.todo = @ \ {i}])
  /\ UNCHANGED <<accounts, scan, witnesses>>

\* The update names the row only by its id.
ClosePaper(m) ==
  /\ monitor[m].pc = "loop"
  /\ \E i \in monitor[m].todo, p \in Pnl :
       /\ positions' = [positions EXCEPT ![i].status = "CLOSED"]
       /\ MonitorTo(m, [monitor[m] EXCEPT !.pc = "read", !.pnl = p, !.todo = @ \ {i}])
       /\ results' = IF mixed THEN <<>> ELSE Append(results, p)
  /\ UNCHANGED <<mode, claimed, daily, scan, crowded, mixed>>

ReadDaily(m) ==
  /\ monitor[m].pc = "read"
  /\ \E row \in {daily, NoRow} :
       /\ MonitorTo(m, [monitor[m] EXCEPT !.pc = "write", !.row = row])
       /\ Book(row # daily)
  /\ UNCHANGED <<accounts, scan, crowded>>

\* Mutant: a profit does not end a losing streak.
LossesKept(row, p) == IF p < 0 THEN row.losses + 1 ELSE row.losses

ConsecutiveLosses(row, p) == IF p < 0 THEN row.losses + 1 ELSE 0

\* The upsert writes its own columns; it may be lost.
WriteDaily(m) ==
  LET row == monitor[m].row
      p == monitor[m].pnl
  IN  /\ monitor[m].pc = "write"
      /\ MonitorTo(m, [monitor[m] EXCEPT !.pc = "loop", !.pnl = 0, !.row = NoRow])
      /\ \/ /\ daily' = [daily EXCEPT !.pnl = row.pnl + p, !.losses = ConsecutiveLosses(row, p)]
            /\ UNCHANGED <<mixed, results>>
         \/ UNCHANGED daily /\ Book(TRUE)
      /\ UNCHANGED <<mode, positions, claimed, scan, crowded>>

StopMonitor(m) ==
  /\ monitor[m].pc # "idle" /\ MonitorTo(m, IdleMonitor)
  /\ Book(monitor[m].pc \in {"read", "write"})
  /\ UNCHANGED <<accounts, scan, crowded>>

ScalperNext ==
  \/ Settings \/ ClearDailyLock
  \/ \E k \in Scanner : \/ StartScan(k) \/ ReadSlots(k) \/ ClaimEntryIntent(k)
                     \/ ClaimFails(k) \/ OpenPosition(k) \/ OpenFails(k)
                     \/ StopScan(k)
  \/ \E m \in Monitor : \/ StartMonitor(m) \/ LeavePosition(m) \/ ClosePaper(m)
                        \/ ReadDaily(m) \/ WriteDaily(m) \/ StopMonitor(m)

ScalperSpec == ScalperInit /\ [][ScalperNext]_scalperVars

-----------------------------------------------------------------------------
(* Properties *)

\* With scans one after the other the account never holds more positions than the
\* settings allow, nor two in one symbol, whatever monitors close meanwhile and wherever
\* a scan is killed (handleVwapScalperScan, options-autotrade.ts:3960-4066).  What breaks
\* it is a second scan running, a failed read of the open positions, or an insert whose
\* error hides that it was done.
SlotsRespected ==
  ~ crowded => /\ Cardinality(ActiveIds) <= MaxOpen
               /\ \A i, j \in ActiveIds : positions[i].symbol = positions[j].symbol => i = j

Trailing(s) == FoldLeft(LAMBDA n, p : IF p < 0 THEN n + 1 ELSE 0, 0, s)
Total(s) == FoldLeft(LAMBDA n, p : n + p, 0, s)

\* The day's row is the sum of the closes and their last losing streak, which the risk
\* lock is computed from, although scans write the same row in between: unless monitors
\* overlapped, a read or a write of the row failed, or a monitor was killed before it
\* booked a close (handleVwapScalperMonitor, options-autotrade.ts:4166-4180).
DailyIsSum ==
  ~ mixed /\ (\A m \in Monitor : monitor[m].pc \in {"idle", "loop"}) =>
    daily.pnl = Total(results) /\ daily.losses = Trailing(results)
=============================================================================
