-------------------------- MODULE LadderExecution --------------------------
(***************************************************************************)
(* The option ladder of the Alpha Ladder, from a recorded signal to the    *)
(* closed position (src/src/nifty-alpha-ladder/ sizing, instruments,       *)
(* execution, exit, risk): sizing and resolution of the strikes, entry leg *)
(* by leg, rollback, the target of the futures monitor, and the exit with  *)
(* the shorts first.  All of it is simulated (SHADOW); the worker does not *)
(* call it yet, so each iteration of a simulator is a step of this machine *)
(* and what follows what is taken from the stages its documents describe.  *)
(*                                                                         *)
(* The premium of every leg is Ltp when its order is priced; a lot is one. *)
(***************************************************************************)
EXTENDS Integers, FiniteSetsExt, SequencesExt

CONSTANTS Listed,     \* the sets of listed strikes a day may have
          Spot,       \* index levels
          Capital,    \* allocations
          UnitBudget, \* STRUCTURE_UNIT_MARGIN
          Touch,      \* prices at which the other side of the book may stand
          Snapshots,  \* bound: snapshots after an order
          Gate,       \* snapshots before the deadline of a gated order
          Ltp, TickSize,
          Buffer,     \* MARKETABLE_LIMIT_PROPORTIONAL_BUFFER, in percent
          Floor,      \* MARKETABLE_LIMIT_ABSOLUTE_FLOOR
          Nothing

ASSUME LadderAssumption ==
  /\ Nothing \notin Int
  /\ Spot \subseteq Nat /\ Capital \subseteq Int /\ Touch \subseteq Nat
  /\ {UnitBudget, TickSize} \subseteq Nat \ {0} /\ {Snapshots, Gate, Ltp, Buffer, Floor} \subseteq Nat
  /\ \A l \in Listed : l \subseteq Nat /\ Cardinality(l) > 1

VARIABLES
  stage,   \* "idle", "signalled", "placing", "rollback", "live", "shorts", "longs", "over"
  d,       \* finalDirection: 1 bullish, -1 bearish
  units,
  atm,
  legs,    \* the resolved legs, in placement order
  entry,   \* fill prices of the entry
  exit     \* fill prices of the rollback or the exit

ladderVars == <<stage, d, units, atm, legs, entry, exit>>

Direction == {-1, 1}
LadderLeg == 1 .. 3

LadderInit ==
  /\ stage = "idle" /\ d = 0 /\ units = 0 /\ atm = 0 /\ legs = <<>>
  /\ entry = [i \in LadderLeg |-> Nothing] /\ exit = [i \in LadderLeg |-> Nothing]

Held == {i \in LadderLeg : entry[i] # Nothing /\ exit[i] = Nothing}
Entered(side) == {i \in DOMAIN legs : legs[i].side = side}
Quantity(i) == units * legs[i].ratio

-----------------------------------------------------------------------------
(* Sizing and resolution *)

computeUnitModeUnits(capital) == IF capital <= 0 THEN 0 ELSE capital \div UnitBudget

\* hasHeadroom with computeHeadroom, before anything is invested.
Headroom(capital, pnl) == Min({capital + pnl, capital})
hasHeadroom(invested, headroom) == ~ (invested >= headroom /\ headroom > 0)

deriveStrikeStep(listed) == Min({p[2] - p[1] : p \in {q \in listed \X listed : q[1] < q[2]}})

Dist(a, b) == IF a < b THEN b - a ELSE a - b

\* The lower strike wins a tie.
selectATM(spot, listed) ==
  Min({k \in listed : \A o \in listed : Dist(k, spot) <= Dist(o, spot)})

BearishTemplate == <<[offset |-> 0, ratio |-> 4, side |-> "BUY"],
                     [offset |-> -8, ratio |-> 1, side |-> "BUY"],
                     [offset |-> -4, ratio |-> 5, side |-> "SELL"]>>

\* Mutant: the strikes of a bullish ladder are not mirrored.
LadderBelow(direction, k, step) ==
  [i \in LadderLeg |-> [strike |-> k + BearishTemplate[i].offset * step,
                        ratio |-> BearishTemplate[i].ratio,
                        right |-> IF direction = -1 THEN "PE" ELSE "CE", side |-> BearishTemplate[i].side]]

resolveLadder(direction, k, step) ==
  [i \in LadderLeg |-> [strike |-> k - direction * BearishTemplate[i].offset * step,
                        ratio |-> BearishTemplate[i].ratio,
                        right |-> IF direction = -1 THEN "PE" ELSE "CE", side |-> BearishTemplate[i].side]]

allLegsResolved(ladder, listed) == \A i \in LadderLeg : ladder[i].strike \in listed

RecordSignal ==
  /\ stage = "idle" /\ stage' = "signalled"
  /\ d' \in Direction /\ \E c \in Capital : units' = computeUnitModeUnits(c)
  /\ UNCHANGED <<atm, legs, entry, exit>>

\* No structure for a day with a strike that is not listed, or without units.
ResolveStructure ==
  /\ stage = "signalled" /\ units >= 1 /\ hasHeadroom(0, Headroom(units * UnitBudget, 0))
  /\ \E listed \in Listed, spot \in Spot :
       LET k == selectATM(spot, listed)
           ladder == resolveLadder(d, k, deriveStrikeStep(listed))
       IN  /\ allLegsResolved(ladder, listed)
           /\ atm' = k /\ legs' = ladder
  /\ stage' = "placing" /\ UNCHANGED <<d, units, entry, exit>>

GiveUp ==
  /\ stage = "signalled"
  /\ \/ units < 1
     \/ \E listed \in Listed, spot \in Spot :
          ~ allLegsResolved(resolveLadder(d, selectATM(spot, listed), deriveStrikeStep(listed)), listed)
  /\ stage' = "over" /\ UNCHANGED <<d, units, atm, legs, entry, exit>>

-----------------------------------------------------------------------------
(* Orders *)

Ceil(a, b) == (a + b - 1) \div b
BufferOf(ltp) == Max({Buffer * ltp, 100 * Floor})   \* times 100

marketableLimitPrice(side, ltp) ==
  IF side = "BUY" THEN TickSize * Ceil(100 * ltp + BufferOf(ltp), 100 * TickSize)
  ELSE Max({TickSize, TickSize * ((100 * ltp - BufferOf(ltp)) \div (100 * TickSize))})

Opposite(side) == IF side = "BUY" THEN "SELL" ELSE "BUY"

\* What the book's other side shows after an order.
Markets == [1 .. Snapshots -> Touch \cup {Nothing}]

Marketable(side, limit, p) == p # Nothing /\ IF side = "BUY" THEN p <= limit ELSE p >= limit

\* The price of the first snapshot up to the deadline that crosses the limit.
simulateFill(side, limit, market, deadline) ==
  LET hits == {i \in 1 .. Min({Snapshots, deadline}) : Marketable(side, limit, market[i])}
  IN  IF hits = {} THEN Nothing ELSE market[Min(hits)]

Next1 == {i \in LadderLeg : entry[i] = Nothing /\ \A j \in 1 .. (i - 1) : entry[j] # Nothing}

\* One iteration of simulateEntrySequence.
PlaceLeg ==
  /\ stage = "placing"
  /\ \E i \in Next1, market \in Markets :
       LET side == legs[i].side
           price == simulateFill(side, marketableLimitPrice(side, Ltp), market, Gate)
       IN  /\ entry' = [entry EXCEPT ![i] = price]
           /\ stage' = CASE price = Nothing /\ i = 1 -> "over"
                         [] price = Nothing /\ i > 1 -> "rollback"
                         [] price # Nothing -> IF i = Len(legs) THEN "live" ELSE "placing"
  /\ UNCHANGED <<d, units, atm, legs, exit>>

RollbackReference(i) == entry[i]

\* One iteration of simulateRollback: the last leg filled goes first, and one that does
\* not fill stops it.
RollbackLeg ==
  /\ stage = "rollback"
  /\ \E market \in Markets :
       LET i == Max(Held)
           side == Opposite(legs[i].side)
           price == simulateFill(side, marketableLimitPrice(side, RollbackReference(i)), market, Gate)
       IN  /\ exit' = [exit EXCEPT ![i] = price]
           /\ stage' = IF price = Nothing \/ Held = {i} THEN "over" ELSE "rollback"
  /\ UNCHANGED <<d, units, atm, legs, entry>>

-----------------------------------------------------------------------------
(* The monitor and the exit *)

\* In points, from the entry of the future; shorter from Wednesday on.
targetDistance(weekday) == IF weekday \in {"Monday", "Tuesday"} THEN 400 ELSE 300
targetHit(moved, weekday) == d * moved >= targetDistance(weekday)

MonitorTick ==
  /\ stage = "live"
  /\ \E moved \in {-400, -300, 0, 300, 400}, w \in {"Monday", "Wednesday"} : targetHit(moved, w)
  /\ stage' = "shorts" /\ UNCHANGED <<d, units, atm, legs, entry, exit>>

Close(i, market, deadline) ==
  simulateFill(Opposite(legs[i].side), marketableLimitPrice(Opposite(legs[i].side), Ltp), market, deadline)

\* Mutant: every leg is closed at once.
ExitAllTogether ==
  /\ stage = "shorts"
  /\ \E market \in Markets :
       exit' = [i \in LadderLeg |-> IF i \in Held THEN Close(i, market, Gate) ELSE exit[i]]
  /\ stage' = IF \A i \in LadderLeg : exit'[i] # Nothing THEN "over" ELSE "shorts"
  /\ UNCHANGED <<d, units, atm, legs, entry>>

\* The first half of simulateShortFirstExit: with a short left the longs stay, and the
\* exit is tried again.
ExitShorts ==
  /\ stage = "shorts"
  /\ \E market \in Markets :
       exit' = [i \in LadderLeg |-> IF i \in Held \cap Entered("SELL") THEN Close(i, market, Gate)
                                    ELSE exit[i]]
  /\ stage' = IF \A i \in Entered("SELL") : exit'[i] # Nothing THEN "longs" ELSE "shorts"
  /\ UNCHANGED <<d, units, atm, legs, entry>>

ExitLongs ==
  /\ stage = "longs"
  /\ \E i \in Held, market \in Markets : exit' = [exit EXCEPT ![i] = Close(i, market, 10 * Gate)]
  /\ stage' = IF \A i \in LadderLeg : exit'[i] # Nothing THEN "over" ELSE "longs"
  /\ UNCHANGED <<d, units, atm, legs, entry>>

LadderNext == \/ RecordSignal \/ ResolveStructure \/ GiveUp \/ PlaceLeg \/ RollbackLeg
        \/ MonitorTick \/ ExitShorts \/ ExitLongs

LadderSpec == LadderInit /\ [][LadderNext]_ladderVars

-----------------------------------------------------------------------------
(* Properties *)

HeldQuantity(side) == MapThenSumSet(Quantity, Held \cap Entered(side))

\* The book is never short more than it is long: not while the legs go in, not when one
\* fails and the others are rolled back, not when an exit stops half way
\* (entrySequencer.ts:76-85, rollback.ts:45-60, shortFirstExit.ts:38-60).
ShortsCovered == HeldQuantity("SELL") <= HeldQuantity("BUY")

\* What the legs are worth at expiry, for one unit.
Intrinsic(leg, s) ==
  LET x == IF leg.right = "PE" THEN leg.strike - s ELSE s - leg.strike
  IN  (IF leg.side = "BUY" THEN leg.ratio ELSE - leg.ratio) * Max({x, 0})
LegsValue(s) == MapThenSumSet(LAMBDA i : Intrinsic(legs[i], s), LadderLeg)

bearishUnitPayoff(s, a, wing) ==
  4 * Max({a - s, 0}) - 5 * Max({a - wing - s, 0}) + Max({a - 2 * wing - s, 0})

\* wingPoints: from the strike at the money to the short leg.
WingWidth == Dist(atm, legs[3].strike)

\* Wherever the index ends, the resolved legs are worth what bearishUnitPayoff says of the
\* level, or of its mirror image about the strike, and never less than nothing nor more
\* than four wings, 800 points: the debit is the most that can be lost (resolveLadder,
\* ladderTemplate.ts:37-51; bearishUnitPayoff and computePayoffSummary, payoff.ts:24-50).
PayoffAsDeclared ==
  stage = "live" => \A s \in Spot :
    /\ LegsValue(s) = bearishUnitPayoff(IF d = -1 THEN s ELSE 2 * atm - s, atm, WingWidth)
    /\ LegsValue(s) \in 0 .. 4 * WingWidth

=============================================================================
