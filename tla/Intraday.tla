------------------------------ MODULE Intraday ------------------------------
(***************************************************************************)
(* The paper trades of the intraday scanner (src/api/intraday.js).  A scan *)
(* reads the open positions and the day's statistics, closes or trails     *)
(* positions, and opens new ones, carrying both along in memory; the kill  *)
(* switch closes everything.  Requests overlap, may be killed, and drop    *)
(* the errors of most writes.                                              *)
(*                                                                         *)
(* A price is the move in favour of a position from its entry, so LONG and *)
(* SHORT are one case: the stop is at -R, the targets at R and 2R.  A      *)
(* position is one share; which candidate is confirmed is left open.       *)
(***************************************************************************)
EXTENDS Integers, FiniteSets, Sequences, FiniteSetsExt

CONSTANTS Symbol, SectorOf,  \* candidates, and their sector if it is known
          Scan, Kill,        \* requests: scans and kill switches
          R, Move,           \* riskPerShare; the moves a quote can show
          MaxOpen, MaxPerSector, MaxTrades, MaxLosses, MaxLoss,  \* intraday_settings
          MaxRows,           \* bound: positions of the day
          MaxRequests,       \* bound: requests of the day
          MaxMishaps,        \* bound: things that go wrong, each once
          None

ASSUME IntradayAssumption ==
  /\ None \notin Int /\ R \in Nat \ {0} /\ Move \subseteq Int
  /\ {MaxOpen, MaxPerSector, MaxTrades, MaxLosses, MaxLoss, MaxRows, MaxRequests, MaxMishaps} \subseteq Nat

VARIABLES
  enabled,  \* intraday_settings: enabled, and execution_mode PAPER
  rows,     \* intraday_positions
  stats,    \* intraday_daily_stats of today
  job,      \* the requests under way
  begun,    \* number of requests
  mishap    \* history: what has gone wrong so far

vars == <<enabled, rows, stats, job, begun, mishap>>

Job == Scan \cup Kill

\* trades_taken, gross_pnl, consecutive_losses, locked; wins and losses are left out.
NoStats == [trades |-> 0, gross |-> 0, run |-> 0, locked |-> FALSE]

\* What a request keeps: the rows it read, those still to go through, those it takes for
\* open, its view of the statistics, and the close or the entry it is about to count.
Request(pc, kind, on, late) ==
  [pc |-> pc, kind |-> kind, on |-> on, late |-> late, seen |-> <<>>, todo |-> {}, open |-> {},
   stats |-> NoStats, pnl |-> 0, new |-> 0]
Idle == Request("idle", "scan", FALSE, FALSE)

Open == {i \in DOMAIN rows : rows[i].status = "OPEN"}

Init ==
  /\ enabled = TRUE /\ rows = <<>> /\ stats = NoStats /\ job = [j \in Job |-> Idle]
  /\ begun = 0 /\ mishap = {}

Happen(ws) ==
  /\ ws \cap mishap = {} /\ Cardinality(mishap \cup ws) <= MaxMishaps
  /\ mishap' = mishap \cup ws
When(b, w) == Happen(IF b THEN {w} ELSE {})
Goto(j, r) == job' = [job EXCEPT ![j] = r]

checkDailyRiskLimits(s) == s.gross <= - MaxLoss \/ s.trades >= MaxTrades \/ s.run >= MaxLosses

-----------------------------------------------------------------------------
(* Beginning of a request *)

Busy(K) == \E j \in K : job[j] # Idle

\* Two scans at once, or a kill switch beside another request.
Begin(j) ==
  /\ job[j] = Idle /\ begun < MaxRequests /\ begun' = begun + 1
  /\ Happen(IF j \in Scan /\ Busy(Scan) THEN {"scans"} ELSE IF Busy(Job) THEN {"beside"} ELSE {})

\* `on` is executionOn.  Nothing but the square-off looks at the clock.
StartScan(j) ==
  /\ j \in Scan /\ Begin(j)
  /\ \E late \in BOOLEAN : Goto(j, Request("rows", "scan", enabled, late))
  /\ UNCHANGED <<enabled, rows, stats>>

\* The positions are read even if the engine could not be disabled.
StartKill(j) ==
  /\ j \in Kill /\ Begin(j) /\ enabled' \in {FALSE, enabled}
  /\ Goto(j, Request("rows", "kill", FALSE, FALSE))
  /\ UNCHANGED <<rows, stats>>

\* The two reads of a scan go out together; only another request could tell their order.
ReadRows(j) ==
  /\ job[j].pc = "rows"
  /\ \/ Goto(j, [job[j] EXCEPT !.pc = "stats", !.seen = IF Open = {} THEN <<>> ELSE rows, !.todo = Open, !.open = Open])
     \/ Goto(j, Idle)
  /\ UNCHANGED <<enabled, begun, rows, stats, mishap>>

\* A scan that cannot read the statistics does not trade; a kill switch that cannot goes
\* on with none.
ReadStats(j) ==
  /\ job[j].pc = "stats"
  /\ \/ Goto(j, [job[j] EXCEPT !.pc = "go", !.stats = stats]) /\ UNCHANGED mishap
     \/ job[j].kind = "scan" /\ Goto(j, Idle) /\ UNCHANGED mishap
     \/ job[j].kind = "kill" /\ Goto(j, [job[j] EXCEPT !.pc = "go"]) /\ Happen({"unread"})
  /\ UNCHANGED <<enabled, begun, rows, stats>>

-----------------------------------------------------------------------------
(* Position management *)

\* Mutant: momentum is looked at before the stop.
MomentumFirst(j, p, move, wrongSide) ==
  IF job[j].kind = "kill" THEN move
  ELSE IF job[j].late THEN move
  ELSE IF move >= 2 * R THEN 2 * R
  ELSE IF move < R /\ wrongSide THEN move
  ELSE IF move <= p.stop THEN p.stop
  ELSE None

\* The price at which a position is closed at a quote, if it is: by hand, at the square-off,
\* at TARGET2, at the stop or for MOMENTUM_FAILURE (on the wrong side of the VWAP, for the
\* two setups that look at it).
exitPrice(j, p, move, wrongSide) ==
  IF job[j].kind = "kill" THEN move
  ELSE IF job[j].late THEN move
  ELSE IF move >= 2 * R THEN 2 * R
  ELSE IF move <= p.stop THEN p.stop
  ELSE IF move < R /\ wrongSide THEN move
  ELSE None

\* The next position of the loop, as it was read.  Without a quote it stays; a write that
\* reports an error leaves it open in memory, whether or not it got there.  Of a closed position only the
\* P&L is kept.
Manage(j, i) ==
  /\ job[j].pc = "go" /\ i \in job[j].todo
  /\ \E move \in Move, wrongSide \in BOOLEAN :
       LET p == job[j].seen[i]
           exit == exitPrice(j, p, move, wrongSide)
           passed == IF job[j].todo = {i} THEN [job[j] EXCEPT !.todo = {}, !.seen = <<>>, !.late = FALSE]
                     ELSE [job[j] EXCEPT !.todo = @ \ {i}]
       IN  \/ Goto(j, passed) /\ UNCHANGED <<rows, mishap>>
           \/ /\ exit # None
              /\ rows' = [rows EXCEPT ![i] = [sym |-> @.sym, status |-> "CLOSED", stop |-> - R, pnl |-> exit]]
              /\ \/ /\ Goto(j, [passed EXCEPT !.pc = "fold", !.pnl = exit, !.new = i])
                    /\ UNCHANGED mishap
                 \/ Goto(j, passed) /\ Happen({"lost"})
           \/ /\ exit = None /\ move >= R /\ p.stop < 0
              /\ rows' = [rows EXCEPT ![i].stop = 0] /\ Goto(j, passed) /\ UNCHANGED mishap
  /\ UNCHANGED <<enabled, begun, stats>>

Folded(s, pnl) ==
  LET t == [s EXCEPT !.gross = @ + pnl, !.run = IF pnl > 0 THEN 0 ELSE @ + 1]
  IN  [t EXCEPT !.locked = checkDailyRiskLimits(t)]

\* Mutant: the next close and the entries of the request start from the old statistics.
FoldForgotten(j) ==
  /\ job[j].pc = "fold" /\ stats' = Folded(job[j].stats, job[j].pnl)
  /\ Goto(j, [job[j] EXCEPT !.pc = "go", !.pnl = 0, !.new = 0, !.open = @ \ {job[j].new}])
  /\ UNCHANGED <<enabled, begun, rows, mishap>>

\* The upsert replaces the day's row.  Its error is not looked at; if it throws, the close
\* is not counted at all.
FoldStats(j) ==
  /\ job[j].pc = "fold"
  /\ \E written, counted \in BOOLEAN :
       LET s == Folded(job[j].stats, job[j].pnl)
       IN  /\ stats' = IF written THEN s ELSE stats
           /\ Goto(j, IF counted THEN [job[j] EXCEPT !.pc = "go", !.pnl = 0, !.new = 0, !.stats = s, !.open = @ \ {job[j].new}]
                      ELSE [job[j] EXCEPT !.pc = "go", !.pnl = 0, !.new = 0])
           /\ When(~ (written /\ counted), "lost")
  /\ UNCHANGED <<enabled, begun, rows>>

-----------------------------------------------------------------------------
(* Entries *)

\* Mutant: the lock of the last close is trusted, and the limits are not looked at again.
LockOnly(j, s) ==
  LET open == job[j].open
  IN  /\ ~ job[j].stats.locked /\ Cardinality(open) < MaxOpen
      /\ \A i \in open : rows[i].sym # s
      /\ SectorOf[s] # None => Cardinality({i \in open : SectorOf[rows[i].sym] = SectorOf[s]}) < MaxPerSector

\* tryOpenPaperPosition, for a signal of any of the three strategies.
MayOpen(j, s) ==
  LET open == job[j].open
  IN  /\ ~ checkDailyRiskLimits(job[j].stats) /\ ~ job[j].stats.locked
      /\ Cardinality(open) < MaxOpen
      /\ \A i \in open : rows[i].sym # s
      /\ SectorOf[s] # None => Cardinality({i \in open : SectorOf[rows[i].sym] = SectorOf[s]}) < MaxPerSector

Enter(j, s) ==
  /\ job[j].pc = "go" /\ job[j].todo = {} /\ job[j].on /\ Len(rows) < MaxRows /\ MayOpen(j, s)
  /\ rows' = Append(rows, [sym |-> s, status |-> "OPEN", stop |-> - R, pnl |-> 0])
  /\ \/ Goto(j, [job[j] EXCEPT !.pc = "count", !.new = Len(rows')]) /\ UNCHANGED mishap
     \/ job' = job /\ Happen({"unanswered"})
  /\ UNCHANGED <<enabled, begun, stats>>

\* Mutant: the entry is not counted in memory.
CountForgotten(j) ==
  /\ job[j].pc = "count"
  /\ stats' = [job[j].stats EXCEPT !.trades = @ + 1]
  /\ Goto(j, [job[j] EXCEPT !.pc = "go", !.new = 0])
  /\ UNCHANGED <<enabled, begun, rows, mishap>>

\* As in FoldStats; if the upsert throws, the position passes for not opened.
CountEntry(j) ==
  /\ job[j].pc = "count"
  /\ \E written, counted \in BOOLEAN :
       LET s == [job[j].stats EXCEPT !.trades = @ + 1]
       IN  /\ stats' = IF written THEN s ELSE stats
           /\ Goto(j, IF counted THEN [job[j] EXCEPT !.pc = "go", !.new = 0, !.stats = s, !.open = @ \cup {job[j].new}]
                      ELSE [job[j] EXCEPT !.pc = "go", !.new = 0])
           /\ When(~ (written /\ counted), "lost")
  /\ UNCHANGED <<enabled, begun, rows>>

EndJob(j) ==
  /\ job[j].pc = "go" /\ job[j].todo = {} /\ Goto(j, Idle)
  /\ UNCHANGED <<enabled, begun, rows, stats, mishap>>

\* The platform kills a request.
KillJob(j) ==
  /\ job[j].pc \in {"go", "fold", "count"} /\ Goto(j, Idle)
  /\ When(job[j].pc # "go", "lost") /\ UNCHANGED <<enabled, begun, rows, stats>>

SaveSettings ==
  /\ enabled' \in BOOLEAN \ {enabled} /\ UNCHANGED <<begun, rows, stats, job, mishap>>

Next ==
  \/ \E j \in Job : \/ StartScan(j) \/ StartKill(j) \/ ReadRows(j) \/ ReadStats(j)
                    \/ \E i \in DOMAIN rows : Manage(j, i)
                    \/ \E s \in Symbol : Enter(j, s)
                    \/ FoldStats(j) \/ CountEntry(j) \/ EndJob(j) \/ KillJob(j)
  \/ SaveSettings

Spec == Init /\ [][Next]_vars

-----------------------------------------------------------------------------
(* Properties *)

Closed == {i \in DOMAIN rows : rows[i].status = "CLOSED"}
Pnl(I) == MapThenSumSet(LAMBDA i : rows[i].pnl, I)

\* The statistics add up to the positions of the day, whatever is trailed, closed or
\* killed between two positions, unless two requests ran at once, a write or its answer
\* was lost, or the kill switch could not read them (intraday.js:741-783, 808-843).
StatsMatch ==
  mishap = {} /\ (\A j \in Job : job[j].pc \notin {"fold", "count"}) =>
    /\ stats.trades = Len(rows) /\ stats.gross = Pnl(Closed)

\* The caps on open positions, in all, per symbol and per sector, hold over the signals
\* of one scan, over scans that end or are killed before or after they enter, and beside a
\* kill switch, unless two scans ran at once, the answer to an entry was lost, or a close or
\* an entry was made that was not counted, by a write that failed or a kill in between
\* (intraday.js:755-757, 929-930).
CapsKept ==
  mishap \cap {"scans", "unanswered", "lost"} = {} =>
    /\ Cardinality(Open) <= MaxOpen
    /\ \A i, k \in Open : i # k => rows[i].sym # rows[k].sym
    /\ \A s \in Symbol : SectorOf[s] # None =>
         Cardinality({i \in Open : SectorOf[rows[i].sym] = SectorOf[s]}) <= MaxPerSector

\* An entry is never made on a day whose closed positions have lost the limit already or
\* whose positions are used up, the closes and entries of the same scan included
\* (intraday.js:743-753, 1011-1015).
EntriesWithinLimits ==
  [][mishap = {} /\ Len(rows') > Len(rows) => Pnl(Closed) > - MaxLoss /\ Len(rows) < MaxTrades]_vars

\* Once trailed, a position is closed at a loss by the clock or by hand only
\* (intraday.js:850-856, 876-888).
TrailedNeverLoses ==
  [][mishap' \cap {"scans", "beside"} = {} =>
       \A i \in Open : rows[i].stop = 0 /\ rows'[i].status = "CLOSED" /\ rows'[i].pnl < 0 =>
         \E j \in Job : job[j].kind = "kill" \/ job[j].late]_vars

\* Stated at intraday.js:1270-1273: a kill switch that cannot read the statistics leaves
\* them as they are ("stats just won't reflect these closes").  The upsert replaces them.
KillKeepsStats == [][mishap = {"unread"} => stats'.trades >= stats.trades]_vars
=============================================================================
