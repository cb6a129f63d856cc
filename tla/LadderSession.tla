---------------------------- MODULE LadderSession ----------------------------
(***************************************************************************)
(* One session of the Alpha Ladder worker (src/src/nifty-alpha-ladder/     *)
(* worker/main.ts): it collects depth ticks over DepthSource, closes an    *)
(* interval of observations every few minutes, saves a checkpoint, and     *)
(* evaluates a signal that depends on the whole path from the open.  The   *)
(* process may be killed and started again at any point; the store drops   *)
(* the errors of most of its calls.                                        *)
(*                                                                         *)
(* Time goes in slots.  Whether the evaluation fires is a choice: the      *)
(* model is about the data it fires on.  A bucket is an interval of the    *)
(* grid that starts at Open, counted from 1.                               *)
(***************************************************************************)
EXTENDS DepthSource, FiniteSetsExt

CONSTANTS Open,       \* the slot of 09:15
          Bucket,     \* slots of an interval: 3 minutes
          MaxGap,     \* slots of MAX_RECOVERABLE_GAP_MS: 5 minutes
          WindowStart,\* the slot of 09:31
          LastSlot    \* bound: slots of the session

ASSUME SessionAssumption ==
  /\ Open \in Nat \ {0} /\ Bucket \in Nat \ {0} /\ WindowStart \in Nat /\ LastSlot \in Nat
  /\ MaxGap \in Nat /\ Bucket < MaxGap /\ MaxGap < 2 * Bucket

VARIABLES
  now,
  worker,   \* "down" | "loading" | "connected" | "up"
  acc,      \* the session accumulator in memory
  proof,    \* existingCheckpoint, until it has been judged; it shares its arrays with acc
  late,     \* restoreDecision.gapDetected, until then
  invalid,  \* hasUnrecoverableGapToday
  lastMsg,  \* slot of the last depth frame this process has seen
  ckpt,     \* the checkpoint row
  gapRow,   \* a feed-gap row of today
  signal,   \* the signal row of the week, with the path it was computed from
  watched,  \* history: buckets in which a process was running
  lost      \* history: a feed-gap row was not written, or not read

memory == <<acc, proof, late, invalid, lastMsg>>
stored == <<ckpt, gapRow, signal>>
sessionVars == <<feed, now, worker, memory, stored, watched, lost>>

BucketOf(t) == IF t < Open THEN 0 ELSE ((t - Open) \div Bucket) + 1
EndOf(b) == Open + b * Bucket

\* snaps: buckets with a snapshot; closed: buckets closed so far; pending: slots of the
\* observations since; rawFrom: the first slot of rawObservations.
Fresh == [snaps |-> {}, closed |-> 0, pending |-> {}, rawFrom |-> None]

SessionInit ==
  /\ FeedInit /\ now = 0 /\ worker = "down"
  /\ acc = Fresh /\ proof = None /\ late = FALSE /\ invalid = FALSE /\ lastMsg = None
  /\ ckpt = None /\ gapRow = FALSE /\ signal = None
  /\ watched = {} /\ lost = FALSE

Collecting == worker \in {"connected", "up"}
Watch(t) == IF worker # "down" THEN watched \cup {BucketOf(t)} ELSE watched

-----------------------------------------------------------------------------
(* The accumulator *)

\* The observations that bucket b is closed with.
InInterval(a, b) ==
  {t \in a.pending : t < EndOf(b) /\ (b = a.closed + 1 \/ t >= EndOf(b - 1))}

\* A bucket is closed by the first tick after it; one without observations leaves no snapshot.
ingest(a) ==
  LET pushed == [a EXCEPT !.pending = @ \cup {now}]
      last == Max({a.closed, BucketOf(now) - 1})
      done == (a.closed + 1) .. last
  IN  [snaps |-> a.snaps \cup {b \in done : InInterval(pushed, b) # {}}, closed |-> last,
       pending |-> {t \in pushed.pending : t >= EndOf(last) \/ last = a.closed},
       rawFrom |-> IF a.rawFrom = None THEN now ELSE a.rawFrom]

\* The checkpoint object of the start: ingest pushes onto the arrays it was restored
\* with; the pending one is replaced when a bucket closes.
Aliased ==
  IF proof = None THEN None
  ELSE [proof EXCEPT !.snaps = ingest(acc).snaps,
                     !.pending = IF acc.closed = proof.closed THEN @ \cup {now} ELSE @]

serializeCheckpoint == [snaps |-> acc.snaps, closed |-> acc.closed, pending |-> acc.pending]

restoreFromCheckpoint(c) ==
  [snaps |-> c.snaps, closed |-> c.closed, pending |-> c.pending,
   rawFrom |-> IF c.pending = {} THEN None ELSE Min(c.pending)]

-----------------------------------------------------------------------------
(* Starting *)

\* Mutant: a downtime is never a gap.
NoGap(c) == FALSE

gapDetected(c) == c # None /\ now - EndOf(c.closed) > MaxGap /\ now > EndOf(c.closed)

\* A read that fails looks like a day without a checkpoint.
LoadCheckpoint ==
  /\ worker = "down" /\ worker' = "loading"
  /\ \E c \in {ckpt, None} :
       /\ proof' = c /\ late' = gapDetected(c) /\ invalid' = gapDetected(c)
       /\ acc' = IF c = None THEN Fresh ELSE restoreFromCheckpoint(c)
  /\ lastMsg' = None /\ watched' = watched \cup {BucketOf(now)}
  /\ UNCHANGED <<feed, now, stored, lost>>

ConnectFeed ==
  /\ worker = "loading" /\ worker' = "connected" /\ Connect
  /\ UNCHANGED <<now, memory, stored, watched, lost>>

hasContinuousCoverageFromOpen(c) ==
  IF c.snaps = {} THEN \E t \in c.pending : t < EndOf(1)
  ELSE c.snaps = 1 .. Cardinality(c.snaps)

SessionIntact ==
  IF proof # None THEN ~ late /\ hasContinuousCoverageFromOpen(proof) ELSE now < Open

\* Mutant: each start judges for itself.
AssessAnew ==
  /\ worker = "connected" /\ worker' = "up"
  /\ invalid' = (invalid \/ ~ SessionIntact) /\ gapRow' = (gapRow \/ ~ SessionIntact)
  /\ proof' = None /\ late' = FALSE
  /\ UNCHANGED <<feed, now, acc, lastMsg, ckpt, signal, watched, lost>>

\* The gap rows of today, then the verdict, and a row for a new one.
AssessIntegrity ==
  /\ worker = "connected" /\ worker' = "up"
  /\ \E prior \in {gapRow, FALSE}, written \in BOOLEAN :
       LET broken == prior \/ ~ SessionIntact
       IN  /\ invalid' = (invalid \/ broken)
           /\ gapRow' = (gapRow \/ (broken /\ ~ prior /\ written))
           /\ lost' = (lost \/ (gapRow /\ ~ prior) \/ (broken /\ ~ prior /\ ~ written))
  /\ proof' = None /\ late' = FALSE
  /\ UNCHANGED <<feed, now, acc, lastMsg, ckpt, signal, watched>>

-----------------------------------------------------------------------------
(* Running *)

\* onDepthSnapshot: the frame resets the failures of the source and is ingested.
DepthTick(s) ==
  /\ Collecting /\ DepthFrame(s)
  /\ acc' = ingest(acc) /\ proof' = Aliased /\ lastMsg' = now
  /\ UNCHANGED <<now, worker, late, invalid, stored, watched, lost>>

FeedEvent ==
  /\ \/ \E s \in Socket : \/ SocketOpens(s) \/ ControlFrame(s)
                          \/ SocketError(s) \/ SocketCloses(s)
     \/ Redial
  /\ UNCHANGED <<now, worker, memory, stored, watched, lost>>

\* Every half minute; a save whose error is dropped is no step.
SaveCheckpoint ==
  /\ worker = "up" /\ ckpt' = serializeCheckpoint
  /\ UNCHANGED <<feed, now, worker, memory, gapRow, signal, watched, lost>>

\* The half minute of STALE_AFTER_MS may reach back into the slot before.
deriveHealthStatus ==
  CASE feedStatus = "FAILED" -> "FAILED"
    [] feedStatus # "FAILED" /\ lastMsg = None -> "CONNECTING"
    [] feedStatus # "FAILED" /\ lastMsg # None /\ lastMsg + 1 < now -> "STALE"
    [] feedStatus # "FAILED" /\ lastMsg # None /\ lastMsg + 1 >= now ->
         IF feedStatus = "HEALTHY" THEN "HEALTHY" ELSE "WARMING_UP"

canFireNewSignal == ~ invalid /\ deriveHealthStatus = "HEALTHY"

\* The evaluation fires: the unique week key keeps one row.
FireSignal ==
  /\ worker = "up" /\ now >= WindowStart /\ canFireNewSignal /\ signal = None
  /\ signal' = [snaps |-> acc.snaps, closed |-> acc.closed, rawFrom |-> acc.rawFrom]
  /\ UNCHANGED <<feed, now, worker, memory, ckpt, gapRow, watched, lost>>

\* The platform restarts the process, or a promise nobody awaits is rejected.
Crash ==
  /\ worker # "down" /\ worker' = "down" /\ FeedReset
  /\ acc' = Fresh /\ proof' = None /\ late' = FALSE /\ invalid' = FALSE /\ lastMsg' = None
  /\ UNCHANGED <<now, stored, watched, lost>>

NextSlot ==
  /\ now < LastSlot /\ now' = now + 1 /\ watched' = Watch(now + 1)
  /\ UNCHANGED <<feed, worker, memory, stored, lost>>

SessionNext ==
  \/ LoadCheckpoint \/ ConnectFeed \/ AssessIntegrity
  \/ (\E s \in Socket : DepthTick(s)) \/ FeedEvent
  \/ SaveCheckpoint \/ FireSignal \/ Crash \/ NextSlot

\* A timer that is set fires, and a dial comes to an end one way or the other.
DialEnds == FeedEvent /\ \E s \in Socket : sock[s] = "dialing" /\ sock'[s] # "dialing"
Redials == FeedEvent /\ timers' < timers

SessionSpec == SessionInit /\ [][SessionNext]_sessionVars /\ WF_sessionVars(DialEnds) /\ WF_sessionVars(Redials)

-----------------------------------------------------------------------------
(* Properties *)

\* The buckets the fired path has no data of.
Holes == IF signal = None THEN {} ELSE 1 .. signal.closed \ signal.snaps

\* A path that lacks a bucket is never used for a signal when the process was down in
\* the whole of it: the checkpoint, the gap and the coverage check of a restart find it,
\* unless a feed-gap row was lost.  What they cannot see is a feed that stays silent
\* under a running process (restoreOrStartFresh, assessSessionIntegrity,
\* sessionAccumulator.ts:171-193 and sessionIntegrity.ts:79-104).
HolesWatched == ~ lost => Holes \subseteq watched

\* Once a feed-gap row of the day is stored no process fires a signal any more,
\* however often it restarts from checkpoints that look complete, unless reading the row
\* failed (worker/main.ts:196-225).
InvalidStays == [][gapRow /\ ~ lost => signal' = signal]_sessionVars

\* The source never stays without a connection: time and again it is connected, or it
\* has given up and says so, or the process is down (kiteDepthSource.ts:157-170).
FeedReturns ==
  []<>(\/ worker \in {"down", "loading"}
       \/ feedStatus = "FAILED"
       \/ \E s \in Socket : sock[s] = "open")

\* Violated by the code.  sessionIntegrity.ts:2-5: a session only qualifies for a NEW
\* signal with continuous market-data coverage from the session start.
FiredOnWholePath ==
  signal # None => Holes = {} /\ signal.rawFrom < EndOf(1)
=============================================================================
