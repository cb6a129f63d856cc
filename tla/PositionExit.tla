---------------------------- MODULE PositionExit ----------------------------
(***************************************************************************)
(* Closing one AUTO position (src/api/options-autotrade.ts).  Three        *)
(* handlers do it with real orders: handlePositionMonitor when             *)
(* evaluateExit says CLOSE, handleManualClose, and handleManualCloseLeg    *)
(* for a single leg.  Cron starts monitors every minute and a user clicks  *)
(* at will, so invocations overlap; each works from the rows it read when  *)
(* it began and updates them without a condition on their status.          *)
(*                                                                         *)
(* Each invocation runs once and sends at most one closing order per leg.  *)
(* Prices are left out: evaluateExit may say CLOSE whenever it is asked.   *)
(***************************************************************************)
EXTENDS Naturals

CONSTANTS Leg,      \* legs of the position, all filled at entry
          Sell,     \* the short ones
          Hedge,    \* [Sell -> Leg \ Sell]: the long that protects each short
          Closer    \* invocations of the three handlers

ASSUME LegAssumption == Sell \subseteq Leg /\ Hedge \in [Sell -> Leg \ Sell]

VARIABLES
  status,    \* status of the position row
  lock,      \* [Leg -> BOOLEAN]: exit_fill_price is set
  daily,     \* times the position's P&L is in today's daily_stats row
  pc,
  kind,      \* the handler each invocation runs
  queue,     \* legs it has still to close
  cur,       \* set of at most one leg: the one in hand
  allClosed, \* no closing order of it went unconfirmed
  others,    \* close leg: another leg was open in the rows it read
  dailyRow,  \* monitor: the daily_stats row it read
  order,     \* [Closer -> [Leg -> "none" | "open" | "filled" | "dead"]], at the broker
  mishap     \* history: something out of the ordinary has happened

vars == <<status, lock, daily, pc, kind, queue, cur, allClosed, others, dailyRow, order, mishap>>
memory == <<kind, queue, cur, allClosed, others, dailyRow>>
rows == <<status, lock, daily>>

Running == {"read position", "next", "await", "read daily", "write daily"}

TypeOK ==
  /\ status \in {"ACTIVE", "CLOSED", "CLOSE_FAILED"}
  /\ lock \in [Leg -> BOOLEAN]
  /\ daily \in Nat
  /\ pc \in [Closer -> Running \cup {"idle", "done", "crashed"}]
  /\ kind \in [Closer -> {"none", "monitor", "close", "close leg"}]
  /\ queue \in [Closer -> SUBSET Leg]
  /\ cur \in [Closer -> SUBSET Leg]
  /\ \A k \in Closer : IF pc[k] = "await" THEN \E l \in Leg : cur[k] = {l} ELSE cur[k] = {}
  /\ allClosed \in [Closer -> BOOLEAN]
  /\ others \in [Closer -> BOOLEAN]
  /\ dailyRow \in [Closer -> Nat]
  /\ order \in [Closer -> [Leg -> {"none", "open", "filled", "dead"}]]
  /\ mishap \in BOOLEAN

Init ==
  /\ status = "ACTIVE"
  /\ lock = [l \in Leg |-> FALSE]
  /\ daily = 0
  /\ pc = [k \in Closer |-> "idle"]
  /\ kind = [k \in Closer |-> "none"]
  /\ queue = [k \in Closer |-> {}]
  /\ cur = [k \in Closer |-> {}]
  /\ allClosed = [k \in Closer |-> TRUE]
  /\ others = [k \in Closer |-> FALSE]
  /\ dailyRow = [k \in Closer |-> 0]
  /\ order = [k \in Closer |-> [l \in Leg |-> "none"]]
  /\ mishap = FALSE

Go(k, from, to) == pc[k] = from /\ pc' = [pc EXCEPT ![k] = to]

\* An invocation that ends, one way or the other, forgets what it had in memory.
Stop(k, how) ==
  /\ pc' = [pc EXCEPT ![k] = how]
  /\ kind' = [kind EXCEPT ![k] = "none"]
  /\ queue' = [queue EXCEPT ![k] = {}]
  /\ cur' = [cur EXCEPT ![k] = {}]
  /\ allClosed' = [allClosed EXCEPT ![k] = TRUE]
  /\ others' = [others EXCEPT ![k] = FALSE]
  /\ dailyRow' = [dailyRow EXCEPT ![k] = 0]

\* A database update whose error nobody looks at.
Update(write) == \/ write /\ UNCHANGED mishap
                 \/ UNCHANGED rows /\ mishap' = TRUE

-----------------------------------------------------------------------------
(* Reading *)

\* Mutant: legs closed before are not left out.
UnlockedIsAll == Leg

Unlocked == {l \in Leg : ~ lock[l]}

\* An invocation that starts while another runs is a mishap.
Start(k, handler, legs, to) ==
  /\ Go(k, "idle", to)
  /\ kind' = [kind EXCEPT ![k] = handler]
  /\ queue' = [queue EXCEPT ![k] = legs]
  /\ mishap' = (mishap \/ \E other \in Closer : pc[other] \in Running)
  /\ UNCHANGED <<rows, cur, allClosed, others, dailyRow, order>>

\* handlePositionMonitor and handleManualClose read an ACTIVE position with its
\* legs in one query; the legs closed before are left out.
Begin(k, handler) == status = "ACTIVE" /\ Start(k, handler, Unlocked, "next")

\* handleManualCloseLeg reads the leg, then the position with all its legs.
BeginLeg(k, l) == ~ lock[l] /\ Start(k, "close leg", {l}, "read position")

ReadPosition(k) ==
  /\ pc[k] = "read position"
  /\ \/ /\ status = "ACTIVE" /\ Go(k, "read position", "next")
        /\ others' = [others EXCEPT ![k] = Unlocked \ queue[k] # {}]
        /\ UNCHANGED <<kind, queue, cur, allClosed, dailyRow>>
     \/ status # "ACTIVE" /\ Stop(k, "done")
  /\ UNCHANGED <<rows, order, mishap>>

-----------------------------------------------------------------------------
(* Closing the legs *)

\* orderedClose: the SELL legs first.
IsNext(k, l) == l \in queue[k] /\ (l \in Sell \/ queue[k] \cap Sell = {})

\* Mutant: the failure is logged only.
LegFailedUnnoted(k) ==
  /\ UNCHANGED allClosed
  /\ mishap' = (mishap \/ kind[k] = "close leg")

\* The leg counts as not closed.  For a single-leg close this is a mishap: the
\* position will be left ACTIVE.
LegFailed(k) ==
  /\ allClosed' = [allClosed EXCEPT ![k] = FALSE]
  /\ mishap' = (mishap \/ kind[k] = "close leg")

\* placer.closeLeg.  A request error, whether the broker took the order or not,
\* leaves the leg unconfirmed and the loop goes on.
CloseLeg(k, l) ==
  /\ pc[k] = "next" /\ IsNext(k, l)
  /\ queue' = [queue EXCEPT ![k] = @ \ {l}]
  /\ \/ /\ order' = [order EXCEPT ![k][l] = "open"]
        /\ pc' = [pc EXCEPT ![k] = "await"] /\ cur' = [cur EXCEPT ![k] = {l}]
        /\ UNCHANGED <<allClosed, mishap>>
     \/ /\ order' \in {order, [order EXCEPT ![k][l] = "open"]}
        /\ LegFailed(k)
        /\ UNCHANGED <<pc, cur>>
  /\ UNCHANGED <<rows, kind, others, dailyRow>>

BrokerEnds(k, l) ==
  /\ order[k][l] = "open"
  /\ \E o \in {"filled", "dead"} : order' = [order EXCEPT ![k][l] = o]
  /\ UNCHANGED <<rows, pc, memory, mishap>>

\* Mutant: whether all is closed is what the last leg says.
ConfirmedResets(k) ==
  /\ Go(k, "await", "next")
  /\ \A l \in cur[k] : order[k][l] = "filled"
  /\ cur' = [cur EXCEPT ![k] = {}]
  /\ Update(lock' = [l \in Leg |-> lock[l] \/ l \in cur[k]] /\ UNCHANGED <<status, daily>>)
  /\ allClosed' = [allClosed EXCEPT ![k] = TRUE]
  /\ UNCHANGED <<kind, queue, others, dailyRow, order>>

\* awaitFill reports COMPLETE with an average price, and exit_fill_price is written.
Confirmed(k) ==
  /\ Go(k, "await", "next")
  /\ \A l \in cur[k] : order[k][l] = "filled"
  /\ cur' = [cur EXCEPT ![k] = {}]
  /\ Update(lock' = [l \in Leg |-> lock[l] \/ l \in cur[k]] /\ UNCHANGED <<status, daily>>)
  /\ UNCHANGED <<kind, queue, allClosed, others, dailyRow, order>>

\* It reports anything else, or times out, whatever became of the order.
Unconfirmed(k) ==
  /\ Go(k, "await", "next")
  /\ cur' = [cur EXCEPT ![k] = {}]
  /\ LegFailed(k)
  /\ UNCHANGED <<rows, kind, queue, others, dailyRow, order>>

-----------------------------------------------------------------------------
(* Closing the position *)

LoopEnded(k) == pc[k] = "next" /\ queue[k] = {}

\* Mutant: the position is left ACTIVE for the next cycle.
MarkNothing(k) ==
  /\ LoopEnded(k) /\ ~ allClosed[k]
  /\ Stop(k, "done")
  /\ UNCHANGED <<rows, order, mishap>>

\* A leg went unconfirmed.  handleManualCloseLeg returns; the other two mark the
\* position for a human, out of every handler's reach.
MarkCloseFailed(k) ==
  /\ LoopEnded(k) /\ ~ allClosed[k]
  /\ \/ kind[k] = "close leg" /\ UNCHANGED <<rows, mishap>>
     \/ kind[k] # "close leg" /\ Update(status' = "CLOSE_FAILED" /\ UNCHANGED <<lock, daily>>)
  /\ Stop(k, "done")
  /\ UNCHANGED order

\* handleManualCloseLeg closes the position only if it saw no other leg open.
LeaveActive(k) ==
  /\ LoopEnded(k) /\ allClosed[k]
  /\ kind[k] = "close leg" /\ others[k]
  /\ Stop(k, "done")
  /\ UNCHANGED <<rows, order, mishap>>

\* Every leg it knew to be open is closed.  Only the monitor books the P&L, and
\* only if the update of the position succeeded.
MarkClosed(k) ==
  /\ LoopEnded(k) /\ allClosed[k]
  /\ ~ (kind[k] = "close leg" /\ others[k])
  /\ \/ /\ status' = "CLOSED" /\ UNCHANGED <<lock, daily, mishap>>
        /\ \/ kind[k] = "monitor" /\ Go(k, "next", "read daily") /\ UNCHANGED memory
           \/ kind[k] # "monitor" /\ Stop(k, "done")
     \/ UNCHANGED rows /\ mishap' = TRUE /\ Stop(k, "done")
  /\ UNCHANGED order

ReadDaily(k) ==
  /\ Go(k, "read daily", "write daily")
  /\ dailyRow' = [dailyRow EXCEPT ![k] = daily]
  /\ UNCHANGED <<rows, kind, queue, cur, allClosed, others, order, mishap>>

WriteDaily(k) ==
  /\ pc[k] = "write daily"
  /\ Update(daily' = dailyRow[k] + 1 /\ UNCHANGED <<status, lock>>)
  /\ Stop(k, "done")
  /\ UNCHANGED order

\* The platform kills the invocation.
Crash(k) ==
  /\ pc[k] \in Running
  /\ Stop(k, "crashed")
  /\ mishap' = TRUE
  /\ UNCHANGED <<rows, order>>

-----------------------------------------------------------------------------

Next ==
  \E k \in Closer :
    \/ \E handler \in {"monitor", "close"} : Begin(k, handler)
    \/ \E l \in Leg : BeginLeg(k, l) \/ CloseLeg(k, l) \/ BrokerEnds(k, l)
    \/ ReadPosition(k) \/ Confirmed(k) \/ Unconfirmed(k)
    \/ MarkCloseFailed(k) \/ LeaveActive(k) \/ MarkClosed(k)
    \/ ReadDaily(k) \/ WriteDaily(k) \/ Crash(k)

Spec == Init /\ [][Next]_vars

-----------------------------------------------------------------------------
(* Properties *)

Open(l) == \A k \in Closer : order[k][l] # "filled"
ClosedTwice(l) == \E j, k \in Closer : j # k /\ order[j][l] = "filled" /\ order[k][l] = "filled"

\* A position is CLOSED, and its P&L booked, only when every leg of it has been
\* closed at the broker: however the handlers overlap and overwrite each other's
\* status, none of them declares closed what it neither closed nor saw closed.
ClosedIsCovered ==
  status = "CLOSED" \/ daily > 0 => \A l \in Leg : ~ Open(l)

\* A leg whose lock is set has been closed at the broker, and no handler that
\* begins after that sends another order for it.
LockProtects ==
  [][\A k \in Closer, l \in Leg :
       lock[l] /\ pc[k] = "idle" /\ pc'[k] # "idle" => ~ Open(l) /\ l \notin queue'[k]]_vars

\* "A failed unwind can never be silently retried into double-closing a leg":
\* with no overlap, no killed invocation, no lost update and no unconfirmed
\* single-leg close, no leg is closed twice.
TwiceExplained == (\E l \in Leg : ClosedTwice(l)) => mishap

\* orderedClose goes on to sell a hedge although the short it protects is not confirmed to
\* be closed.  A handler of the whole position that ends with such a short still open leaves
\* the row CLOSE_FAILED for a human, whatever the others have written meanwhile, unless it
\* is killed or its update is lost.
NakedIsFlagged ==
  [][\A k \in Closer, s \in Sell :
       kind[k] # "close leg" /\ pc[k] \in Running /\ pc'[k] \notin Running
         /\ order[k][Hedge[s]] # "none" /\ Open(s) =>
           status' = "CLOSE_FAILED" \/ (mishap' /\ UNCHANGED rows)]_vars

\* handleManualCloseLeg on the lock: "this can never result in the same leg being
\* closed twice".
SameLegOnce == \A l \in Leg : ~ ClosedTwice(l)

\* handlePositionMonitor closes "SELL(short) legs first (buy-to-cover removes the
\* unbounded-risk leg first), then BUY(long) legs".
ShortClosedFirst ==
  [][\A k \in Closer, s \in Sell :
       kind[k] = "monitor" /\ order'[k][Hedge[s]] # order[k][Hedge[s]]
         /\ order[k][Hedge[s]] = "none" => ~ Open(s)]_vars
=============================================================================
