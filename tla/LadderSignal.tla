---------------------------- MODULE LadderSignal ----------------------------
(***************************************************************************)
(* What the Alpha Ladder signal is computed from                           *)
(* (src/src/nifty-alpha-ladder/signal/ and live/sessionAccumulator.ts):    *)
(* depth observations become the path G1 of large orders, classified with  *)
(* a threshold learnt over windows, and the path G2 of the book's          *)
(* imbalance over intervals; the decision follows from both.  Observations *)
(* carry the time of the exchange, and a restart resumes from the last     *)
(* checkpoint (worker/main.ts).                                            *)
(*                                                                         *)
(* Time goes in minutes and each side has one price; a change of the order *)
(* count counts as a change of the quantity.  Ratios are multiplied by     *)
(* Scale and areas by AreaScale, which the bounds make exact, and the      *)
(* tolerance of the sign is zero.                                          *)
(***************************************************************************)
EXTENDS Integers, FiniteSetsExt, SequencesExt

CONSTANTS Qty,          \* displayed quantities
          MaxEvents,    \* bound: observations and restarts
          Behind, Ahead,\* bounds: of the exchange's clock against the worker's
          Interval,     \* AGGREGATE_SNAPSHOT_INTERVAL_MIN
          Window,       \* LARGE_ORDER_REFERENCE_WINDOW_MIN
          WarmUp,       \* LARGE_ORDER_WARMUP_COUNT
          Percent,      \* LARGE_ORDER_QUANTILE, in percent
          CrossingLevel,\* IMBALANCE_CROSSING_LEVEL
          StrongLevel,  \* STRONG_READ_LEVEL
          Cutoff,       \* the minute of 14:30
          LastMinute,   \* bound: minutes of the session
          NoSignal

ASSUME SignalAssumption ==
  /\ Qty \subseteq Nat \ {0} /\ {Interval, Window, WarmUp} \subseteq Nat \ {0} /\ Percent \in 1 .. 100
  /\ {MaxEvents, Behind, Ahead, CrossingLevel, StrongLevel, Cutoff, LastMinute} \subseteq Nat
  /\ NoSignal \notin [t : Nat, v : Int]    \* neither a knot nor a decision
  /\ NoSignal \notin [path : {"crossing", "cutoff"}, instant : Nat, base : Int, final : Int]

VARIABLES
  minute,
  raw,      \* rawObservations
  ref,      \* referenceThresholds: N, and N times the threshold
  window,   \* pendingWindowObservations: the quantities of each side
  folded,   \* lastWindowFoldedAtMs
  pending,  \* pendingIntervalObservations
  ended,    \* lastIntervalEndMs
  snaps,    \* aggregateSnapshots
  saved,     \* the stored checkpoint; an accumulator just created while there is none
  events    \* number of observations and restarts

accumulator == <<raw, ref, window, folded, pending, ended, snaps>>
flow == <<minute, accumulator, saved, events>>

Side == {"b", "a"}
Scale == 840        \* divisible by each sum of two quantities
AreaScale == 840    \* twice a number divisible by each gap between knots

createSessionAccumulator ==
  [ref |-> [s \in Side |-> [n |-> 0, sum |-> 0]], window |-> [s \in Side |-> <<>>], folded |-> 0,
   pending |-> <<>>, ended |-> 0, snaps |-> <<>>]

\* The accumulator becomes c; of the observations only those still pending are kept.
restoreAccumulator(c) ==
  /\ window' = c.window /\ folded' = c.folded /\ ended' = c.ended /\ snaps' = c.snaps
  /\ pending' = c.pending /\ raw' = c.pending

SignalInit ==
  /\ minute = 0 /\ raw = <<>> /\ snaps = <<>> /\ pending = <<>> /\ folded = 0 /\ ended = 0
  /\ saved = createSessionAccumulator /\ ref = saved.ref /\ window = saved.window /\ events = 0

\* The members of a finite set of numbers, in increasing order.
InOrder(S) ==
  CHOOSE f \in [1 .. Cardinality(S) -> S] : \A i, j \in DOMAIN f : i < j => f[i] < f[j]

\* The observations at these places, in their order.
At(obs, places) == LET at == InOrder(places) IN [i \in DOMAIN at |-> obs[at[i]]]

\* Rounded towards zero where it is not exact: like the quotient of the code, it is
\* negated with its dividend.
Quotient(x, y) == IF x < 0 THEN - ((- x) \div y) ELSE x \div y

Sum(f, I) == MapThenSumSet(LAMBDA i : f[i], I)

Quantities(obs, s) ==
  LET own == At(obs, {i \in DOMAIN obs : obs[i].side = s})
  IN  [i \in DOMAIN own |-> own[i].qty]

-----------------------------------------------------------------------------
(* Ingesting an observation *)

\* Nearest rank.
empiricalQuantile(sizes) ==
  LET n == Len(sizes)
      rank == (Percent * n + 99) \div 100
  IN  SortSeq(sizes, <)[Max({1, rank})]

foldWindow(state, sizes) ==
  IF sizes = <<>> THEN state
  ELSE [n |-> state.n + Len(sizes), sum |-> state.sum + Len(sizes) * empiricalQuantile(sizes)]

\* The changes of a level within an interval.
Admitted(q) == Sum(q, {i \in DOMAIN q : i = 1 \/ q[i] # q[i - 1]})

Ends == {e \in (ended + 1) .. minute : (e - ended) % Interval = 0}

\* The observations that the interval ending at e is closed with.
Within(obs, e) ==
  At(obs, {i \in DOMAIN obs : obs[i].t <= e /\ (e = ended + Interval \/ obs[i].t > e - Interval)})

NewSnaps(obs) ==
  LET full == {e \in Ends : Within(obs, e) # <<>>}
      ends == InOrder(full)
  IN  [i \in DOMAIN ends |-> [t |-> ends[i],
                              b |-> Admitted(Quantities(Within(obs, ends[i]), "b")),
                              a |-> Admitted(Quantities(Within(obs, ends[i]), "a"))]]

\* The observation is pushed first, and so belongs to the windows it completes: these end
\* by the worker's clock, while t is the exchange's stamp and may lie before one that has
\* ended, or ahead.
Observe(s, q, t) ==
  LET obs == [t |-> t, side |-> s, qty |-> q]
      sizes == [window EXCEPT ![s] = Append(@, q)]
      full == minute - folded >= Window
      last == Max(Ends \cup {ended})
      open == Append(pending, obs)
  IN  /\ events < MaxEvents /\ events' = events + 1 /\ raw' = Append(raw, obs)
      /\ ref' = IF full THEN [x \in Side |-> foldWindow(ref[x], sizes[x])] ELSE ref
      /\ window' = IF full THEN [x \in Side |-> <<>>] ELSE sizes
      /\ folded' = folded + Window * ((minute - folded) \div Window)
      /\ snaps' = snaps \o NewSnaps(open)
      /\ pending' = At(open, {i \in DOMAIN open : last = ended \/ open[i].t > last})
      /\ ended' = last /\ UNCHANGED <<minute, saved>>

Stamps == Max({0, minute - Behind}) .. (minute + Ahead)

Minute == /\ minute < LastMinute /\ minute' = minute + 1
          /\ UNCHANGED <<accumulator, saved, events>>

\* Mutant: the snapshots that are complete are not stored.
WithoutSnaps ==
  [ref |-> ref, window |-> window, folded |-> folded, pending |-> pending, ended |-> ended, snaps |-> <<>>]

serializeAccumulator ==
  [ref |-> ref, window |-> window, folded |-> folded, pending |-> pending, ended |-> ended, snaps |-> snaps]

SaveAccumulator == saved' = serializeAccumulator /\ UNCHANGED <<minute, accumulator, events>>

\* A new process.  Without a checkpoint it starts afresh, from the thresholds of before if
\* they were stored.
Restart ==
  /\ events < MaxEvents /\ events' = events + 1
  /\ restoreAccumulator(saved)
  /\ ref' \in IF saved = createSessionAccumulator THEN {saved.ref, ref} ELSE {saved.ref}
  /\ UNCHANGED <<minute, saved>>

SignalNext == \/ Minute \/ SaveAccumulator \/ Restart
              \/ \E s \in Side, q \in Qty, t \in Stamps : Observe(s, q, t)

SignalSpec == SignalInit /\ [][SignalNext]_flow

-----------------------------------------------------------------------------
(* The paths *)

isLargeOrderLevel(q, state) == state.n >= WarmUp /\ q * state.n > state.sum

\* The observations of a side that are events: large, and not the same as the one before.
\* Every one is judged with the threshold of now.
IsEvent(obs, i, state) ==
  /\ isLargeOrderLevel(obs[i].qty, state)
  /\ \A j \in 1 .. (i - 1) :
       obs[j].side = obs[i].side /\ (\A k \in (j + 1) .. (i - 1) : obs[k].side # obs[i].side)
       => obs[j].qty # obs[i].qty

Events(obs, thresholds) == {i \in DOMAIN obs : IsEvent(obs, i, thresholds[obs[i].side])}

Signed(o) == IF o.side = "b" THEN o.qty ELSE - o.qty

G1Knots(obs, thresholds) ==
  LET large == Events(obs, thresholds)
      times == InOrder({obs[i].t : i \in large})
      signed == [i \in DOMAIN obs |-> Signed(obs[i])]
  IN  [k \in DOMAIN times |->
         [t |-> times[k], v |-> Sum(signed, {i \in large : obs[i].t <= times[k]})]]

Rho(s) == IF s.b + s.a > 0 THEN Quotient(Scale * (s.b - s.a), s.b + s.a) ELSE 0

G2Knots(ss) ==
  LET rho == [i \in DOMAIN ss |-> Rho(ss[i])]
  IN  [k \in DOMAIN ss |-> [t |-> ss[k].t, v |-> Sum(rho, 1 .. k)]]

\* The level of the path after knot j at instant x, times AreaScale.
Interpolate(knots, j, x) ==
  LET from == knots[j]
      to == knots[j + 1]
  IN  AreaScale * from.v + Quotient(AreaScale * (to.v - from.v) * (x - from.t), to.t - from.t)

\* One segment of the trapezoid rule, the last one up to u.
Segment(knots, j, u) ==
  LET last == j = Len(knots)
      end == IF last THEN u ELSE Min({knots[j + 1].t, u})
      level == IF last THEN AreaScale * knots[j].v ELSE Interpolate(knots, j, end)
  IN  (AreaScale * knots[j].v + level) * (end - knots[j].t)

signedArea(knots, u) ==
  LET before == {j \in DOMAIN knots : knots[j].t <= u}
      levels == [j \in DOMAIN knots |-> knots[j].v]
      segments == [j \in DOMAIN knots |-> Segment(knots, j, u)]
  IN  IF Cardinality(before) <= 1 THEN 2 * AreaScale * Sum(levels, before)
      ELSE Sum(segments, {j \in before : knots[j].t < u})

valueAtOrBefore(knots, u) ==
  LET before == {j \in DOMAIN knots : knots[j].t <= u}
  IN  IF before = {} THEN 0 ELSE knots[Max(before)].v

-----------------------------------------------------------------------------
(* The decision *)

\* Mutant: a path that is flat counts as bought.
SignUp(x) == IF x >= 0 THEN 1 ELSE -1

Sign(x) == IF x > 0 THEN 1 ELSE IF x < 0 THEN -1 ELSE 0

Abs(x) == IF x < 0 THEN - x ELSE x

findFirstCrossing(knots, u) ==
  LET beyond == {j \in DOMAIN knots : knots[j].t <= u /\ Abs(knots[j].v) >= Scale * CrossingLevel}
  IN  IF beyond = {} THEN NoSignal ELSE knots[Min(beyond)]

\* Aligned summaries are faded, divergent ones follow the large orders.
resolveAlignment(d1, d2) == IF d1 = d2 THEN - d1 ELSE d1

\* Only a weak bullish reading in a calm market is reversed.
applyVariationC(base, aligned, g2, calm) ==
  IF base = 1 /\ calm /\ (~ aligned \/ Abs(g2) < Scale * StrongLevel) THEN -1 ELSE base

Decision(path, instant, g1, d2, g2, calm) ==
  LET d1 == Sign(signedArea(g1, instant))
      base == resolveAlignment(d1, d2)
  IN  IF d1 = 0 THEN NoSignal
      ELSE [path |-> path, instant |-> instant, base |-> base,
            final |-> applyVariationC(base, d1 = d2, g2, calm)]

\* calm: the VIX is available and below its level.
evaluateSignal(g1, g2, now, calm) ==
  LET crossing == findFirstCrossing(g2, Min({now, Cutoff - 1}))
  IN  CASE now < Cutoff /\ crossing # NoSignal ->
             Decision("crossing", crossing.t, g1, Sign(crossing.v), crossing.v, calm)
        [] now >= Cutoff ->
             Decision("cutoff", Cutoff, g1, Sign(signedArea(g2, Cutoff)), valueAtOrBefore(g2, Cutoff), calm)
        [] OTHER -> NoSignal

-----------------------------------------------------------------------------
(* Properties *)

Crossed == findFirstCrossing(G2Knots(snaps), Min({minute, Cutoff - 1}))

\* Once the imbalance has crossed, every later evaluation finds the same crossing at the same
\* instant, however late or early the exchange has stamped what still comes in, and across a
\* restart too, if the checkpoint was taken after the interval of the crossing had ended
\* (findFirstCrossing, imbalancePath.ts:41-49; ingest and restoreFromCheckpoint,
\* sessionAccumulator.ts:57-113, 155-166).
CrossingStays == [][Crossed # NoSignal /\ ended' >= Crossed.t => Crossed' = Crossed]_flow

\* Violated by the code, if the checkpoint is older.  sessionAccumulator.ts:119-120: it holds
\* the completed snapshots, which a restart must not lose; but what came in since is lost, and
\* the interval is closed again without it.
CrossingStaysForGood == [][Crossed # NoSignal => Crossed' = Crossed]_flow

Other(s) == IF s = "b" THEN "a" ELSE "b"
MirrorObs(obs) == [i \in DOMAIN obs |-> [obs[i] EXCEPT !.side = Other(@)]]
MirrorSnaps(ss) == [i \in DOMAIN ss |-> [t |-> ss[i].t, b |-> ss[i].a, a |-> ss[i].b]]
MirrorRef(r) == [s \in Side |-> r[Other(s)]]
Negated(d) ==
  IF d = NoSignal THEN NoSignal
  ELSE [path |-> d.path, instant |-> d.instant, base |-> - d.base, final |-> - d.final]

\* With bids and asks exchanged the same day gives the opposite decision at the same
\* instant, when the volatility filter has nothing to say: no step from the levels to the
\* direction prefers a side (signalEngine.ts:63-128, and the operators it calls).
MirrorImage ==
  evaluateSignal(G1Knots(MirrorObs(raw), MirrorRef(ref)), G2Knots(MirrorSnaps(snaps)), minute, FALSE)
    = Negated(evaluateSignal(G1Knots(raw, ref), G2Knots(snaps), minute, FALSE))

\* Violated by the code.  largeOrderNet.ts:68-69: thresholds gives the threshold that
\* applied at the time of each observation, so a path that has been walked stays.
PathStays ==
  [][\A t \in 0 .. (minute - 1) :
       valueAtOrBefore(G1Knots(raw, ref)', t) = valueAtOrBefore(G1Knots(raw, ref), t)]_flow
=============================================================================
