----------------------------- MODULE SwingTrade -----------------------------
(***************************************************************************)
(* The swing auto-trader, with real orders (src/api/swing-autotrade-tick.js*)
(* and swing-autotrade.js): a tick every five minutes closes the rows      *)
(* whose protection has fired and buys the next candidates; from the UI a  *)
(* position is exited, or everything is halted.  Requests overlap, may be  *)
(* killed between two calls, and drop the errors of their table writes.    *)
(*                                                                         *)
(* A position is one lot: sizing is left out.  A candidate that is skipped *)
(* (no quote, drift, no money) is one that is not picked.                  *)
(***************************************************************************)
EXTENDS Integers, FiniteSets, Sequences

CONSTANTS Symbol, Tick, Exit,  \* candidates; requests of the two kinds
          MaxPositions,        \* settings.max_positions
          MaxBuys,             \* bound: entry orders, and lots sold too many
          MaxMishaps,          \* bound: kinds of things that go wrong
          None

ASSUME SwingAssumption == MaxPositions \in Nat \ {0} /\ {MaxBuys, MaxMishaps} \subseteq Nat /\ None \notin Nat

VARIABLES
  enabled,  \* settings.enabled
  rows,     \* auto_trade_positions
  guards,   \* broker: GTTs and stop orders
  held,     \* broker: the lots that the orders of the program add up to
  bought,   \* number of entry orders
  tick,     \* the ticks under way
  exiting,  \* the exit requests under way
  halting,  \* rows that a panic halt still has to go through
  mishap    \* history: what has gone wrong so far

program == <<tick, exiting, halting>>
vars == <<enabled, rows, guards, held, bought, program, mishap>>

Idle == [pc |-> "idle"]
Open == {i \in DOMAIN rows : rows[i].status = "OPEN"}

Init ==
  /\ enabled = TRUE /\ rows = <<>> /\ guards = <<>> /\ bought = 0
  /\ held = [s \in Symbol |-> 0]
  /\ tick = [t \in Tick |-> Idle] /\ exiting = [e \in Exit |-> Idle] /\ halting = {}
  /\ mishap = {}

Happen(ws) == Cardinality(mishap \cup ws) <= MaxMishaps /\ mishap' = mishap \cup ws
Note(w) == Happen({w})

Trade(s, n) == held' = [held EXCEPT ![s] = @ + n]

-----------------------------------------------------------------------------
(* The broker *)

\* A GTT puts a limit order in when it triggers; a stop order is filled.
GuardFires(g) ==
  /\ guards[g].state = "active"
  /\ guards' = [guards EXCEPT ![g].state = IF @ = "active" /\ guards[g].kind = "GTT" THEN "selling" ELSE "sold"]
  /\ IF guards[g].kind = "GTT" THEN held' = held ELSE Trade(guards[g].sym, -1)
  /\ UNCHANGED <<enabled, rows, bought, program, mishap>>

LimitEnds(g) ==
  /\ guards[g].state = "selling"
  /\ \/ guards' = [guards EXCEPT ![g].state = "sold"] /\ Trade(guards[g].sym, -1) /\ UNCHANGED mishap
     \/ guards' = [guards EXCEPT ![g].state = "lapsed"] /\ Note("lapsed") /\ UNCHANGED held
  /\ UNCHANGED <<enabled, rows, bought, program>>

\* A GTT expires or is disabled; the fallback stop is a DAY order.
GuardEnds(g) ==
  /\ guards[g].state = "active" /\ guards' = [guards EXCEPT ![g].state = "lapsed"]
  /\ Note("lapsed") /\ UNCHANGED <<enabled, rows, held, bought, program>>

\* In the list of triggers, but not active any more, for whatever reason.
Ended == {g \in DOMAIN guards : guards[g].kind = "GTT" /\ guards[g].state # "active"}

-----------------------------------------------------------------------------
(* The tick *)

StartTick(t) ==
  /\ tick[t] = Idle /\ enabled
  /\ \E seen \in {Ended, {}} : tick' = [tick EXCEPT ![t] = [pc |-> "reconcile", seen |-> seen]]
  /\ Happen(IF \E o \in Tick : tick[o] # Idle THEN {"overlap"} ELSE {})
  /\ UNCHANGED <<enabled, rows, guards, held, bought, exiting, halting>>

\* Mutant: a trigger that the list does not show has fired.
MissingHasFired(t, i) ==
  /\ rows[i].status = "OPEN" /\ rows[i].guard # None
  /\ IF rows[i].protection = "GTT" THEN tick[t].seen = {} \/ rows[i].guard \in tick[t].seen
     ELSE rows[i].protection = "SL_ONLY" /\ guards[rows[i].guard].state = "sold"

\* A row is closed when its trigger is no longer active, or its stop order is complete.
Fired(t, i) ==
  /\ rows[i].status = "OPEN" /\ rows[i].guard # None
  /\ IF rows[i].protection = "GTT" THEN rows[i].guard \in tick[t].seen
     ELSE rows[i].protection = "SL_ONLY" /\ guards[rows[i].guard].state = "sold"

\* An order history that cannot be read, a trigger the list does not show, or a write that
\* is lost leaves the row for the next tick.  A trigger that somebody has deleted counts as
\* fired: "deleted".
Reconcile(t) ==
  /\ tick[t].pc = "reconcile"
  /\ \E left \in SUBSET DOMAIN rows :
       LET closed == {i \in DOMAIN rows \ left : Fired(t, i)}
       IN  /\ rows' = [i \in DOMAIN rows |-> IF i \in closed THEN [rows[i] EXCEPT !.status = "CLOSED"]
                                             ELSE rows[i]]
           /\ Happen(IF \E i \in closed : guards[rows[i].guard].state = "deleted" THEN {"deleted"} ELSE {})
  /\ tick' = [tick EXCEPT ![t] = [pc |-> "slots"]]
  /\ UNCHANGED <<enabled, guards, held, bought, exiting, halting>>

OpenSymbols == {rows[i].sym : i \in Open}

\* A read that fails is taken for no open position: "blind".
ReadSlots(t) ==
  /\ tick[t].pc = "slots"
  /\ \E seen \in {OpenSymbols, {}} :
       /\ tick' = [tick EXCEPT ![t] =
                     IF MaxPositions > Cardinality(seen)
                     THEN [pc |-> "pick", free |-> MaxPositions - Cardinality(seen), skip |-> seen]
                     ELSE Idle]
       /\ Happen(IF seen = OpenSymbols THEN {} ELSE {"blind"})
  /\ UNCHANGED <<enabled, rows, guards, held, bought, exiting, halting>>

EndTick(t) ==
  /\ tick[t].pc = "pick" /\ tick' = [tick EXCEPT ![t] = Idle]
  /\ UNCHANGED <<enabled, rows, guards, held, bought, exiting, halting, mishap>>

Ranked(t) == Symbol \ tick[t].skip

\* An order whose answer is lost counts as failed; one that is accepted may yet be
\* rejected, and is taken for filled.
Buy(t) ==
  /\ tick[t].pc = "pick" /\ tick[t].free > 0 /\ bought < MaxBuys
  /\ bought' = bought + 1
  /\ \E s \in Ranked(t), accepted \in BOOLEAN, filled \in BOOLEAN :
       /\ held' = IF filled THEN [held EXCEPT ![s] = @ + 1] ELSE held
       /\ tick' = [tick EXCEPT ![t] =
                     IF accepted THEN [pc |-> "protect", free |-> @.free, skip |-> @.skip \cup {s}, sym |-> s]
                     ELSE [pc |-> "pick", free |-> @.free, skip |-> @.skip \cup {s}]]
       /\ Happen(CASE accepted /\ ~ filled -> {"unbought"} [] ~ accepted /\ filled -> {"lost"} [] OTHER -> {})
  /\ UNCHANGED <<enabled, rows, guards, exiting, halting>>

NewGuard(s, kind) == [sym |-> s, kind |-> kind, state |-> "active"]

\* The guards that are placed when those of the given kinds were accepted and their answers lost.
WithOrphans(s, kinds) ==
  guards \o (IF "GTT" \in kinds THEN <<NewGuard(s, "GTT")>> ELSE <<>>)
         \o (IF "SL_ONLY" \in kinds THEN <<NewGuard(s, "SL_ONLY")>> ELSE <<>>)

\* What has failed before the protection is p, and so may be an orphan.
MayBeOrphan(p) == CASE p = "GTT" -> {} [] p = "SL_ONLY" -> {"GTT"} [] p = "NONE" -> {"GTT", "SL_ONLY"}

\* The two-leg GTT; if it fails, a stop order; if that fails too, nothing.  A call also fails
\* when its answer is lost: its guard is then at the broker and in no row ("orphan"), and the
\* next call puts a second one beside it.
Protect(t) ==
  /\ tick[t].pc = "protect"
  /\ \E p \in {"GTT", "SL_ONLY", "NONE"} : \E orphans \in SUBSET MayBeOrphan(p) :
       LET placed == WithOrphans(tick[t].sym, orphans)
       IN  /\ guards' = IF p = "NONE" THEN placed ELSE Append(placed, NewGuard(tick[t].sym, p))
           /\ tick' = [tick EXCEPT ![t] = [pc |-> "record", free |-> @.free, skip |-> @.skip, sym |-> @.sym,
                                           row |-> [sym |-> @.sym, status |-> "OPEN", protection |-> p,
                                                    guard |-> IF p = "NONE" THEN None ELSE Len(placed) + 1]]]
           /\ Happen(IF orphans = {} THEN {} ELSE {"orphan"})
  /\ UNCHANGED <<enabled, rows, held, bought, exiting, halting>>

\* Mutant: the slot is not counted as taken.
RecordFree(t) ==
  /\ tick[t].pc = "record" /\ rows' = Append(rows, tick[t].row)
  /\ tick' = [tick EXCEPT ![t] = [pc |-> "pick", free |-> @.free, skip |-> @.skip]]
  /\ UNCHANGED <<enabled, guards, held, bought, exiting, halting, mishap>>

\* The error of the insert is not looked at.
Record(t) ==
  /\ tick[t].pc = "record"
  /\ \/ rows' = Append(rows, tick[t].row) /\ UNCHANGED mishap
     \/ rows' = rows /\ Note("lost")
  /\ tick' = [tick EXCEPT ![t] = [pc |-> "pick", free |-> @.free - 1, skip |-> @.skip]]
  /\ UNCHANGED <<enabled, guards, held, bought, exiting, halting>>

-----------------------------------------------------------------------------
(* Manual overrides *)

Delete(g) == guards' = [guards EXCEPT ![g].state = "deleted"]

\* Mutant: the protection stays.
KeepProtection(i) == UNCHANGED <<guards, mishap>>

\* cancelProtection: a trigger or order that has fired cannot be deleted any more; an
\* answer may be lost before or after the deletion.
cancelProtection(i) ==
  IF rows[i].guard = None \/ rows[i].protection = "NONE" THEN UNCHANGED <<guards, mishap>>
  ELSE \/ guards[rows[i].guard].state = "active" /\ Delete(rows[i].guard) /\ UNCHANGED mishap
       \/ guards' = guards /\ Note("cancel")

StartExit(e) ==
  /\ exiting[e] = Idle
  /\ \E i \in Open :
       /\ exiting' = [exiting EXCEPT ![e] = [pc |-> "cancel", row |-> i]]
       /\ Happen(IF \E o \in Exit : exiting[o] # Idle /\ exiting[o].row = i THEN {"twice"} ELSE {})
  /\ UNCHANGED <<enabled, rows, guards, held, bought, tick, halting>>

\* The order goes out whether or not the protection could be cancelled.
ExitCancel(e) ==
  /\ exiting[e].pc = "cancel" /\ cancelProtection(exiting[e].row)
  /\ exiting' = [exiting EXCEPT ![e].pc = "sell"]
  /\ UNCHANGED <<enabled, rows, held, bought, tick, halting>>

\* Any error, of the order or of the question how it went, is answered with "still open".
ExitSell(e) ==
  /\ exiting[e].pc = "sell" /\ held[rows[exiting[e].row].sym] > - MaxBuys
  /\ \E answered \in BOOLEAN, filled \in BOOLEAN :
       /\ held' = IF filled THEN [held EXCEPT ![rows[exiting[e].row].sym] = @ - 1] ELSE held
       /\ exiting' = [exiting EXCEPT ![e] = IF answered THEN [@ EXCEPT !.pc = "close"] ELSE Idle]
       /\ Happen(CASE filled /\ ~ answered -> {"failed"} [] answered /\ ~ filled -> {"unsold"} [] OTHER -> {})
  /\ UNCHANGED <<enabled, rows, guards, bought, tick, halting>>

\* The row is closed whatever became of the order.
ExitClose(e) ==
  /\ exiting[e].pc = "close"
  /\ \/ /\ rows' = [rows EXCEPT ![exiting[e].row].status = "CLOSED", ![exiting[e].row].protection = "NONE"]
        /\ UNCHANGED mishap
     \/ rows' = rows /\ Note("lost")
  /\ exiting' = [exiting EXCEPT ![e] = Idle]
  /\ UNCHANGED <<enabled, guards, held, bought, tick, halting>>

\* The write may be lost and the read may fail; one halt at a time.
PanicHalt ==
  /\ halting = {} /\ enabled' \in {FALSE, enabled}
  /\ halting' \in {{i \in Open : rows[i].protection # "NONE"}, {}}
  /\ UNCHANGED <<rows, guards, held, bought, tick, exiting, mishap>>

\* One row of the loop: with the protection gone the row says so, if the write gets there.
HaltRow ==
  /\ \E i \in halting :
       /\ halting' = halting \ {i}
       /\ \/ rows[i].guard # None /\ guards[rows[i].guard].state = "active" /\ Delete(rows[i].guard)
             /\ \/ rows' = [rows EXCEPT ![i].protection = "NONE"] /\ UNCHANGED mishap
                \/ rows' = rows /\ Note("lost")
          \/ UNCHANGED <<rows, guards, mishap>>
  /\ UNCHANGED <<enabled, held, bought, tick, exiting>>

SaveSettings ==
  /\ enabled' \in BOOLEAN \ {enabled}
  /\ UNCHANGED <<rows, guards, held, bought, program, mishap>>

\* The platform kills a request.
KillTick(t) ==
  /\ tick[t] # Idle /\ tick' = [tick EXCEPT ![t] = Idle] /\ Note("killed")
  /\ UNCHANGED <<enabled, rows, guards, held, bought, exiting, halting>>

KillExit(e) ==
  /\ exiting[e] # Idle /\ exiting' = [exiting EXCEPT ![e] = Idle] /\ Note("killed")
  /\ UNCHANGED <<enabled, rows, guards, held, bought, tick, halting>>

Next ==
  \/ \E t \in Tick : \/ StartTick(t) \/ Reconcile(t) \/ ReadSlots(t) \/ EndTick(t)
                     \/ Buy(t) \/ Protect(t) \/ Record(t) \/ KillTick(t)
  \/ \E e \in Exit : \/ StartExit(e) \/ ExitCancel(e) \/ ExitSell(e) \/ ExitClose(e) \/ KillExit(e)
  \/ PanicHalt \/ HaltRow \/ SaveSettings
  \/ \E g \in DOMAIN guards : GuardFires(g) \/ LimitEnds(g) \/ GuardEnds(g)

Spec == Init /\ [][Next]_vars

-----------------------------------------------------------------------------
(* Properties *)

\* There are never more open positions than slots, whatever is killed, lost or exited,
\* unless two ticks ran at once or the read of the open positions failed
\* (swing-autotrade-tick.js:125-131, 145, 238).
SlotsKept == mishap \cap {"overlap", "blind"} = {} => Cardinality(Open) <= MaxPositions

OnSale(s) == {g \in DOMAIN guards : guards[g].sym = s /\ guards[g].state = "selling"}

\* A stock is not bought while a lot of it is held that is not on sale already, whatever
\* guards are left behind by lost answers, unless the program no longer knew of that lot:
\* two ticks at once, a read of the open positions that failed, a request killed, the answer
\* of the entry order or a write lost, a protection that went away unfilled or was deleted
\* and taken for fired, an exit order taken for filled (swing-autotrade-tick.js:96-131, 144-145).
HeldOnce ==
  mishap \cap {"overlap", "blind", "killed", "lost", "lapsed", "deleted", "unsold"} = {} =>
    \A s \in Symbol : held[s] - Cardinality(OnSale(s)) <= 1

\* No lot is sold twice, by its protection, by the exit from the UI or by both, unless the
\* answer of a protection was lost, so that there are two or one that no row names, the
\* protection could not be cancelled, the exit was asked for twice, was cut off or said it
\* had failed, or the lot was never bought (swing-autotrade-tick.js:96-118, 201-228,
\* swing-autotrade.js:178-208).
SoldOnce ==
  mishap \cap {"orphan", "cancel", "twice", "killed", "lost", "failed", "unbought"} = {} =>
    \A s \in Symbol : held[s] >= 0

Handled(i) == i \in halting \/ \E e \in Exit : exiting[e] # Idle /\ exiting[e].row = i

\* Violated by the code.  schema.sql:200: protection is what is actually guarding the
\* position; here, while no request is at work on it and nothing was lost or killed.
ProtectionIsTrue ==
  mishap = {} => \A i \in Open :
    rows[i].protection # "NONE" /\ ~ Handled(i) =>
      guards[rows[i].guard].state \in {"active", "selling", "sold"}
=============================================================================
