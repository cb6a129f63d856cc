----------------------------- MODULE ScanProofs -----------------------------
(***************************************************************************)
(* The two scans of src/api/options-autotrade.ts, for any number of        *)
(* invocations.                                                            *)
(*                                                                         *)
(* AUTO entry (IInv, BooksInv): a non-terminal intent is the only one of   *)
(* its key for as long as it lasts, and what an ended scan left in its     *)
(* rows changes only by being closed, so a gate that found nothing wrong   *)
(* with it stays right until the orders are sent.  While nobody else works *)
(* at the broker, what the other scans hold there is what their open rows  *)
(* say, less what the operator closed with the books agreeing, so agreeing *)
(* books stay agreeing.                                                    *)
(*                                                                         *)
(* VWAP scalper (ScalperInv): a scan that runs alone has reserved the      *)
(* slots and the symbols it may still use, and monitors only free some;    *)
(* while one monitor runs, the row is the sum of the closes, but for the   *)
(* one that it is about to book.                                           *)
(***************************************************************************)
EXTENDS AutoEntry, Scalper, FoldLemmas


Types ==
  /\ pc \in [Scan -> {"idle"} \cup Running \cup Stopped]
  /\ trade \in [Scan -> Trade]
  /\ duplicate \in [Scan -> BOOLEAN]
  /\ intent \in [Scan -> Intent]
  /\ outcome \in [Scan -> {"none", "ACTIVE", "FAILED", "RECONCILIATION_REQUIRED"}]
  /\ row \in [Scan -> Row]
  /\ ended \in [Scan -> SUBSET Scan]
  /\ lost \in [Scan -> BOOLEAN]

\* The stages in which a scan owns its key, and the statuses the index counts.
Owning == {"execute", "record", "legs", "intent", "abandon"}
NonTerminal == {"CLAIMED", "ABANDONED"}

OneKey ==
  \A r, s \in Scan :
    trade[r] = trade[s] /\ intent[r] \in NonTerminal /\ intent[s] \in NonTerminal => r = s

\* A scan before it opened a position of the same shape that is still ACTIVE.
LaterDuplicate(s) ==
  \E r \in ended[s] : row[r] = "ACTIVE" /\ Shape[trade[r]] = Shape[trade[s]]

Gated(s) ==
  /\ pc[s] \in Owning => intent[s] = "CLAIMED"
  /\ pc[s] = "execute" => ~ duplicate[s]
  /\ pc[s] \in {"claim", "execute"} /\ ~ lost[s] => ~ FlagSeen(s)
  /\ pc[s] \in {"broker", "broker positions", "broker orders", "database", "claim", "execute"}
       /\ ~ lost[s] /\ ~ duplicate[s] => ~ LaterDuplicate(s)

Past == \A s \in Scan : \A r \in ended[s] : pc[r] \in Stopped

IInv == Types /\ OneKey /\ Past /\ \A s \in Scan : Gated(s)

-----------------------------------------------------------------------------

LEMMA InitIInv == Init => IInv
<1> SUFFICES ASSUME Init PROVE IInv OBVIOUS
<1>1. Types BY DEF Init, Types, Intent, Row
<1>2. OneKey /\ Past BY DEF Init, OneKey, Past, NonTerminal
<1>3. ASSUME NEW s \in Scan PROVE Gated(s) BY DEF Init, Gated, Owning
<1> QED BY <1>1, <1>2, <1>3 DEF IInv

\* A step leaves what a scan holds alone.
Untouched(r) ==
  /\ pc'[r] = pc[r] /\ duplicate'[r] = duplicate[r] /\ lost'[r] = lost[r]
  /\ intent'[r] = intent[r] /\ row'[r] = row[r]

\* A step of one scan keeps the invariant if it takes the scan through its own gates and
\* touches the rows of an ended scan only to close them.
LEMMA Preserved ==
  ASSUME IInv, NEW s \in Scan, Types', UNCHANGED trade,
         \A r \in Scan \ {s} : Untouched(r),
         \A r \in Scan :
           \/ ended'[r] \subseteq ended[r]
           \/ r = s /\ ended'[s] \subseteq {q \in Scan : pc[q] \in Stopped},
         pc[s] \in Stopped =>
           /\ pc'[s] = pc[s] /\ intent'[s] = intent[s]
           /\ row'[s] \in {row[s], "CLOSED"} \/ \A r \in Scan : s \notin ended'[r],
         intent'[s] \in NonTerminal => intent[s] \in NonTerminal \/ ~ Locked(trade[s]),
         Gated(s)'
  PROVE  IInv'
<1> USE DEF Untouched
<1>1. OneKey'
  <2> SUFFICES ASSUME NEW q \in Scan, NEW r \in Scan, trade[q] = trade[r],
                      intent'[q] \in NonTerminal, intent'[r] \in NonTerminal
               PROVE  q = r
    BY DEF OneKey
  <2>1. CASE q = s /\ r # s BY <2>1 DEF IInv, OneKey, Locked, NonTerminal
  <2>2. CASE r = s /\ q # s BY <2>2 DEF IInv, OneKey, Locked, NonTerminal
  <2>3. CASE q # s /\ r # s BY <2>3 DEF IInv, OneKey
  <2> QED BY <2>1, <2>2, <2>3
<1>2. Past'
  <2>1. \A q \in Scan : pc[q] \in Stopped => pc'[q] \in Stopped OBVIOUS
  <2>2. \A r \in Scan : \A q \in ended'[r] : q \in Scan /\ pc[q] \in Stopped
    BY DEF IInv, Past, Types
  <2> QED BY <2>1, <2>2 DEF Past
<1>3. ASSUME NEW r \in Scan PROVE Gated(r)'
  <2>1. CASE r = s BY <2>1
  <2>2. CASE r # s
    <3>1. ended'[r] \subseteq ended[r] /\ Gated(r) BY <2>2 DEF IInv
    <3>2. \A q \in ended'[r] : /\ row'[q] \in {row[q], "CLOSED"} /\ intent'[q] = intent[q]
      BY <3>1 DEF IInv, Past, Types
    <3>3. FlagSeen(r)' => FlagSeen(r) BY <3>1, <3>2 DEF FlagSeen
    <3>4. LaterDuplicate(r)' => LaterDuplicate(r) BY <3>1, <3>2 DEF LaterDuplicate
    <3> QED BY <2>2, <3>1, <3>3, <3>4 DEF Gated
  <2> QED BY <2>1, <2>2
<1> QED BY <1>1, <1>2, <1>3 DEF IInv

-----------------------------------------------------------------------------
(* Steps of a scan *)

\* A scan goes on, having learnt nothing that matters here and written nothing.
LEMMA QuietStep ==
  ASSUME IInv, NEW s \in Scan, NEW to \in Running \cup Stopped, pc' = [pc EXCEPT ![s] = to],
         pc[s] \notin Stopped,
         UNCHANGED <<trade, ended, duplicate, lost, intent, row>>,
         outcome' \in [Scan -> {"none", "ACTIVE", "FAILED", "RECONCILIATION_REQUIRED"}],
         \/ to \in Stopped
         \/ to \in Owning \ {"execute"} /\ pc[s] \in Owning
         \/ /\ to \in {"broker positions", "broker orders", "database"}
            /\ pc[s] \in {"broker", "broker positions", "broker orders"}
  PROVE  IInv'
<1>1. Types' BY DEF IInv, Types
<1>2. pc'[s] = to /\ \A r \in Scan \ {s} : Untouched(r) BY DEF IInv, Types, Untouched
<1>3. Gated(s)'
  <2>1. FlagSeen(s)' = FlagSeen(s) /\ LaterDuplicate(s)' = LaterDuplicate(s)
    BY DEF FlagSeen, LaterDuplicate
  <2> QED BY <1>2, <2>1 DEF IInv, Gated, Owning, Stopped
<1> QED BY <1>1, <1>2, <1>3, Preserved

LEMMA WaitStep ==
  ASSUME IInv, NEW s \in Scan,
         ReadBrokerPositions(s) \/ ReadBrokerOrders(s) \/ Skip(s) \/ Executed(s)
           \/ RecordLegs(s) \/ Crash(s)
  PROVE  IInv'
<1> USE DEF Go, history, records
<1>1. CASE ReadBrokerPositions(s)
  BY <1>1, QuietStep DEF ReadBrokerPositions, IInv, Types, Running, Stopped
<1>2. CASE ReadBrokerOrders(s)
  BY <1>2, QuietStep DEF ReadBrokerOrders, IInv, Types, Running, Stopped
<1>3. CASE Skip(s) BY <1>3, QuietStep DEF Skip, IInv, Types, Stopped
<1>4. CASE Executed(s)
  <2>1. outcome' \in [Scan -> {"none", "ACTIVE", "FAILED", "RECONCILIATION_REQUIRED"}]
    BY <1>4 DEF Executed, IInv, Types
  <2> QED BY <1>4, <2>1, QuietStep DEF Executed, Running, Stopped, Owning
<1>5. CASE RecordLegs(s)
  BY <1>5, QuietStep DEF RecordLegs, IInv, Types, Running, Stopped, Owning
<1>6. CASE Crash(s) BY <1>6, QuietStep DEF Crash, IInv, Types, Running, Stopped
<1> QED BY <1>1, <1>2, <1>3, <1>4, <1>5, <1>6

LEMMA StartStep ==
  ASSUME IInv, NEW s \in Scan, Start(s) PROVE IInv'
<1> USE DEF Start, Go, records
<1>1. Types' BY DEF IInv, Types, Running
<1>2. pc'[s] = "positions" /\ \A r \in Scan \ {s} : Untouched(r)
  BY DEF IInv, Types, Untouched
<1>3. Gated(s)' BY <1>2 DEF Gated, Owning
<1>4. /\ ended'[s] = {r \in Scan : pc[r] \in Stopped}
      /\ \A r \in Scan \ {s} : ended'[r] = ended[r]
  BY DEF IInv, Types
<1>5. pc[s] \notin Stopped BY DEF Stopped
<1> QED BY <1>1, <1>2, <1>3, <1>4, <1>5, Preserved

\* The read that fails is remembered in lost; one that succeeds sees every ACTIVE row.
LEMMA ReadPositionsStep ==
  ASSUME IInv, NEW s \in Scan, ReadPositions(s) PROVE IInv'
<1> USE DEF ReadPositions, Go, history, records, Loses
<1>1. Types' BY DEF IInv, Types, Running
<1>2. /\ pc'[s] = "broker" /\ pc[s] = "positions"
      /\ \A r \in Scan \ {s} : Untouched(r)
  BY DEF IInv, Types, Untouched
<1>3. ~ lost'[s] /\ ~ duplicate'[s] =>
        ~ \E r \in Scan : row[r] = "ACTIVE" /\ Shape[trade[r]] = Shape[trade[s]]
  BY DEF IInv, Types
<1>4. Gated(s)'
  <2>1. ~ lost'[s] /\ ~ duplicate'[s] => ~ LaterDuplicate(s)'
    BY <1>3 DEF LaterDuplicate, IInv, Types
  <2> QED BY <1>2, <2>1 DEF Gated, Owning
<1> QED BY <1>1, <1>2, <1>4, Preserved DEF Stopped

\* With all its reads answered the gate opens only if nothing is flagged or abandoned.
LEMMA ReconcileStep ==
  ASSUME IInv, NEW s \in Scan, Reconcile(s) PROVE IInv'
<1>1. PICK active \in BOOLEAN, pending \in BOOLEAN, intents \in BOOLEAN, ok \in BOOLEAN :
        /\ ok => (IF pending THEN Flagged ELSE {}) = {} /\ (IF intents THEN Abandoned ELSE {}) = {}
        /\ pc[s] = "database" /\ pc' = [pc EXCEPT ![s] = IF ok THEN "claim" ELSE "done"]
        /\ lost' = [lost EXCEPT ![s] = @ \/ ~ (active /\ pending /\ intents)]
        /\ UNCHANGED <<trade, ended, duplicate, outcome, intent, row>>
  BY DEF Reconcile, Reconciled, Go, Loses, history, records
<1>2. Types' BY <1>1 DEF IInv, Types, Running, Stopped
<1>3. /\ pc'[s] = IF ok THEN "claim" ELSE "done"
      /\ \A r \in Scan \ {s} : Untouched(r)
      /\ ~ lost'[s] => ~ lost[s] /\ pending /\ intents
  BY <1>1 DEF IInv, Types, Untouched
<1>4. Gated(s)'
  <2>1. ok /\ ~ lost'[s] => ~ FlagSeen(s)'
    BY <1>1, <1>3 DEF FlagSeen, Flagged, Abandoned, IInv, Types
  <2>2. LaterDuplicate(s)' = LaterDuplicate(s) BY <1>1 DEF LaterDuplicate
  <2>3. pc'[s] \in {"claim", "done"} /\ (pc'[s] = "claim" => ok) BY <1>3
  <2>4. /\ duplicate'[s] = duplicate[s]
        /\ ~ lost[s] /\ ~ duplicate[s] => ~ LaterDuplicate(s)
    BY <1>1 DEF IInv, Gated
  <2>5. pc'[s] = "claim" /\ ~ lost'[s] => ~ FlagSeen(s)' BY <2>1, <2>3
  <2>6. ~ lost'[s] /\ ~ duplicate'[s] => ~ LaterDuplicate(s)' BY <1>3, <2>2, <2>4
  <2> QED BY <2>3, <2>5, <2>6 DEF Gated, Owning
<1> QED BY <1>1, <1>2, <1>3, <1>4, Preserved DEF Stopped

LEMMA ClaimStep ==
  ASSUME IInv, NEW s \in Scan, Claim(s) \/ ClaimRefused(s) PROVE IInv'
<1>1. CASE Claim(s)
  <2>1. /\ pc[s] = "claim" /\ ~ Locked(trade[s]) /\ intent' = [intent EXCEPT ![s] = "CLAIMED"]
        /\ UNCHANGED <<trade, ended, duplicate, row, lost>>
        /\ pc' = [pc EXCEPT ![s] = IF duplicate[s] THEN "record" ELSE "execute"]
    BY <1>1 DEF Claim, Go, history
  <2>2. outcome' \in [Scan -> {"none", "ACTIVE", "FAILED", "RECONCILIATION_REQUIRED"}]
    BY <1>1 DEF Claim, IInv, Types
  <2>3. Types' BY <2>1, <2>2 DEF IInv, Types, Running, Intent
  <2>4. /\ pc'[s] = IF duplicate[s] THEN "record" ELSE "execute"
        /\ intent'[s] = "CLAIMED"
        /\ \A r \in Scan \ {s} : Untouched(r)
    BY <2>1 DEF IInv, Types, Untouched
  <2>5. Gated(s)'
    <3>1. \A r \in ended[s] : r # s BY <2>1 DEF IInv, Past, Stopped
    <3>2. FlagSeen(s)' = FlagSeen(s) BY <2>1, <2>4, <3>1 DEF FlagSeen, IInv, Types
    <3>3. LaterDuplicate(s)' = LaterDuplicate(s) BY <2>1 DEF LaterDuplicate
    <3>4. ~ lost[s] => ~ FlagSeen(s) /\ (~ duplicate[s] => ~ LaterDuplicate(s))
      BY <2>1 DEF IInv, Gated
    <3>5. duplicate'[s] = duplicate[s] /\ lost'[s] = lost[s] BY <2>1
    <3>6. /\ pc'[s] \in {"record", "execute"}
          /\ pc'[s] = "execute" => ~ duplicate[s]
      BY <2>4
    <3> QED BY <2>4, <3>2, <3>3, <3>4, <3>5, <3>6 DEF Gated, Owning
  <2> QED BY <2>1, <2>3, <2>4, <2>5, Preserved DEF Stopped
<1>2. CASE ClaimRefused(s)
  <2>1. /\ pc[s] = "claim" /\ pc' = [pc EXCEPT ![s] = "done"]
        /\ UNCHANGED <<trade, ended, duplicate, row, lost, outcome>>
        /\ \/ UNCHANGED intent
           \/ ~ Locked(trade[s]) /\ intent' = [intent EXCEPT ![s] = "CLAIMED"]
    BY <1>2 DEF ClaimRefused, Go, history
  <2>2. Types' BY <2>1 DEF IInv, Types, Stopped, Intent
  <2>3. pc'[s] = "done" /\ \A r \in Scan \ {s} : Untouched(r)
    BY <2>1 DEF IInv, Types, Untouched
  <2>4. Gated(s)' BY <2>3 DEF Gated, Owning
  <2> QED BY <2>1, <2>2, <2>3, <2>4, Preserved DEF Stopped
<1> QED BY <1>1, <1>2

LEMMA OrderStep ==
  ASSUME IInv, NEW s \in Scan, NEW c \in Contract, Send(s, c) \/ Unwind(s, c) \/ BrokerEnds(s, c)
  PROVE  IInv'
<1> UNCHANGED <<pc, trade, ended, duplicate, lost, outcome, intent, row>>
  BY DEF Send, Unwind, BrokerEnds, history, records
<1>1. Types' BY DEF IInv, Types
<1>2. Gated(s)' BY DEF IInv, Gated, FlagSeen, LaterDuplicate
<1>3. \A r \in Scan : Untouched(r) BY DEF Untouched
<1> QED BY <1>1, <1>2, <1>3, Preserved

\* Its record and its intent are the scan's own business while it owns the key.
LEMMA RecordStep ==
  ASSUME IInv, NEW s \in Scan, RecordPosition(s) \/ UpdateIntent(s)
  PROVE  IInv'
<1>1. CASE RecordPosition(s)
  <2>1. /\ pc[s] = "record"
        /\ \E to \in {"intent", "legs", "abandon"} : pc' = [pc EXCEPT ![s] = to]
        /\ \/ UNCHANGED row
           \/ /\ outcome[s] \in {"ACTIVE", "RECONCILIATION_REQUIRED"}
              /\ row' = [row EXCEPT ![s] = outcome[s]]
        /\ UNCHANGED <<trade, ended, duplicate, outcome, intent, lost>>
    BY <1>1 DEF RecordPosition, Go, history
  <2>2. Types' BY <2>1 DEF IInv, Types, Running, Row
  <2>3. pc'[s] \in {"intent", "legs", "abandon"} /\ \A r \in Scan \ {s} : Untouched(r)
    BY <2>1 DEF IInv, Types, Untouched
  <2>4. Gated(s)' BY <2>1, <2>3 DEF IInv, Gated, Owning
  <2> QED BY <2>1, <2>2, <2>3, <2>4, Preserved DEF Stopped
<1>2. CASE UpdateIntent(s)
  <2>1. /\ pc[s] \in {"intent", "abandon"} /\ pc' = [pc EXCEPT ![s] = "done"]
        /\ \E new \in Intent : intent' = [intent EXCEPT ![s] = new]
        /\ UNCHANGED <<trade, ended, duplicate, outcome, row, lost>>
    BY <1>2 DEF UpdateIntent, FinalIntent, Go, history, IInv, Types, Intent
  <2>2. Types' BY <2>1 DEF IInv, Types, Stopped
  <2>3. pc'[s] = "done" /\ \A r \in Scan \ {s} : Untouched(r)
    BY <2>1 DEF IInv, Types, Untouched
  <2>4. Gated(s)' BY <2>3 DEF Gated, Owning
  <2>5. intent[s] \in NonTerminal BY <2>1 DEF IInv, Gated, Owning, NonTerminal
  <2> QED BY <2>1, <2>2, <2>3, <2>4, <2>5, Preserved DEF Stopped
<1> QED BY <1>1, <1>2

\* The exit path closes rows; a position it fails to close leaves the history.
LEMMA CloseStep ==
  ASSUME IInv, NEW s \in Scan, ClosePosition(s) \/ CloseFails(s)
  PROVE  IInv'
<1>1. CASE ClosePosition(s)
  <2>1. /\ \E new \in {row[s], "CLOSED"} : row' = [row EXCEPT ![s] = new]
        /\ UNCHANGED <<pc, trade, ended, duplicate, outcome, intent, lost>>
    BY <1>1 DEF ClosePosition, history
  <2>2. Types' /\ row'[s] \in {row[s], "CLOSED"} /\ \A r \in Scan \ {s} : Untouched(r)
    BY <2>1 DEF IInv, Types, Row, Untouched
  <2>3. Gated(s)'
    <3>1. \A r \in ended[s] : row'[r] \in {row[r], "CLOSED"}
      BY <2>1, <2>2 DEF IInv, Types, Untouched
    <3>2. (FlagSeen(s)' => FlagSeen(s)) /\ (LaterDuplicate(s)' => LaterDuplicate(s))
      BY <2>1, <3>1 DEF FlagSeen, LaterDuplicate
    <3> QED BY <2>1, <3>2 DEF IInv, Gated
  <2> QED BY <2>1, <2>2, <2>3, Preserved
<1>2. CASE CloseFails(s)
  <2>1. /\ \E new \in {"ACTIVE", "CLOSE_FAILED"} : row' = [row EXCEPT ![s] = new]
        /\ ended' = [r \in Scan |-> ended[r] \ {s}]
        /\ UNCHANGED <<pc, trade, duplicate, outcome, intent, lost>>
    BY <1>2 DEF CloseFails
  <2>2. Types' BY <2>1 DEF IInv, Types, Row
  <2>3. \A r \in Scan \ {s} : Untouched(r) BY <2>1 DEF IInv, Types, Untouched
  <2>4. \A r \in Scan : ended'[r] \subseteq ended[r] /\ s \notin ended'[r] BY <2>1
  <2>5. Gated(s)'
    <3>1. \A r \in ended'[s] : row'[r] = row[r] BY <2>1, <2>4 DEF IInv, Types
    <3>2. (FlagSeen(s)' => FlagSeen(s)) /\ (LaterDuplicate(s)' => LaterDuplicate(s))
      BY <2>1, <2>4, <3>1 DEF FlagSeen, LaterDuplicate
    <3> QED BY <2>1, <3>2 DEF IInv, Gated
  <2> QED BY <2>1, <2>2, <2>3, <2>4, <2>5, Preserved
<1> QED BY <1>1, <1>2

LEMMA NextIInv == IInv /\ [Next]_vars => IInv'
<1> SUFFICES ASSUME IInv, [Next]_vars PROVE IInv' OBVIOUS
<1>1. CASE Next
  BY <1>1, WaitStep, StartStep, ReadPositionsStep, ReconcileStep, ClaimStep, OrderStep,
     RecordStep, CloseStep
  DEF Next
<1>2. CASE UNCHANGED vars
  BY <1>2 DEF vars, IInv, Types, OneKey, Past, Gated, FlagSeen, LaterDuplicate, Locked
<1> QED BY <1>1, <1>2

-----------------------------------------------------------------------------
(* The books *)

\* The stages of a scan up to its first order, and those at which it has written nothing.
Gating == {"positions", "broker", "broker positions", "broker orders", "database", "claim"}
Unrecorded == {"idle", "execute"} \cup Gating

\* What the other scans' orders add up to.
NetOf(c) == [r \in Scan |-> Net(r, c)]
Others(s, c) == SumOf(NetOf(c), Scan \ {s})

\* Of a contract the others hold what the only position in it says.
Agree(s, c) ==
  /\ Claimants(c) = {} => Others(s, c) = 0
  /\ \A r \in Claimants(c) : Claimants(c) = {r} => Others(s, c) = Plan[trade[r]][c]

\* What the scan has read of a contract is still so, or the contract was closed on
\* agreeing books since.
StillHeld(s, c) ==
  \/ seen[s].held[c] = Others(s, c)
  \/ Claimants(c) = {} /\ Others(s, c) = 0

Blank(s) ==
  /\ pc[s] \in Unrecorded => row[s] = "NONE" /\ legRows[s] = {}
  /\ pc[s] \in Unrecorded \ {"execute"} => \A c \in Contract : order[s][c] = "none"

\* A scan that has the account to itself meets no order that works, and its picture of
\* the books stays right.
Undisturbed(s) ==
  Alone(s) /\ calm[s] =>
    /\ pc[s] \in Gating \cup {"execute"} =>
         \A r \in Scan \ {s} : \A c \in Contract : order[r][c] # "open"
    /\ pc[s] \in {"broker orders", "database"} => \A c \in Contract : StillHeld(s, c)
    /\ pc[s] \in {"claim", "execute"} /\ ~ lost[s] => \A c \in Contract : Agree(s, c)

BooksInv == \A s \in Scan : Blank(s) /\ Undisturbed(s)

HeldOf(c, I) == MapThenSumSet(LAMBDA s : Net(s, c), I)

LEMMA Zero == \A x \in Int : 0 + x = x OBVIOUS

LEMMA NetInt == ASSUME TypeOK, NEW s \in Scan, NEW c \in Contract PROVE Net(s, c) \in Int
BY PlanIsSigned DEF TypeOK, Net

LEMMA HeldIsSum ==
  ASSUME NEW c \in Contract, TypeOK
  PROVE  Held(c) = SumOf(NetOf(c), Scan)
<1> DEFINE f == NetOf(c)
           Fold(sum) == sum = [s \in SUBSET Scan |->
                                 IF s = {} THEN 0
                                 ELSE LET x == CHOOSE y \in s : TRUE IN Net(x, c) + sum[s \ {x}]]
           it == CHOOSE sum : Fold(sum)
<1>1. ASSUME NEW sum PROVE Fold(sum) <=> Adds(f, Scan, sum)
  <2>1. ASSUME NEW s \in SUBSET Scan
        PROVE  (IF s = {} THEN 0 ELSE LET x == CHOOSE y \in s : TRUE IN Net(x, c) + sum[s \ {x}]) = AddsLast(f, sum, s)
    <3>1. CASE s = {} BY <3>1 DEF AddsLast
    <3>2. CASE s # {}
      <4>1. Pick(s) \in Scan BY <3>2, PickIn
      <4>2. f[Pick(s)] = Net(Pick(s), c) BY <4>1 DEF NetOf
      <4> HIDE DEF f
      <4> QED BY <3>2, <4>2 DEF AddsLast, Pick
    <3> QED BY <3>1, <3>2
  <2> HIDE DEF f
  <2> QED BY <2>1 DEF Adds
<1> HIDE DEF f
<1>2. \E sum : Fold(sum)
  <2> HIDE DEF Fold
  <2> QED BY <1>1, SumExists, ScansAreFinite
<1>3. Fold(it)
  <2> HIDE DEF Fold
  <2> QED BY <1>2
<1>4. Held(c) = it[Scan]
  BY DEF Held, MapThenSumSet, MapThenFoldSet
<1>5. Adds(f, Scan, it)
  <2> HIDE DEF Fold, it
  <2> QED BY <1>1, <1>3
<1> HIDE DEF it
<1> QED BY <1>4, <1>5, SumIs, ScansAreFinite DEF f

LEMMA OthersInt == ASSUME TypeOK, NEW s \in Scan, NEW c \in Contract PROVE Others(s, c) \in Int
<1>1. IsFiniteSet(Scan \ {s}) BY ScansAreFinite, FS_RemoveElement
<1>2. \A r \in Scan \ {s} : NetOf(c)[r] \in Int BY NetInt DEF NetOf
<1> QED BY <1>1, <1>2, SumOfInt DEF Others

LEMMA HeldByAll ==
  ASSUME TypeOK, NEW s \in Scan, NEW c \in Contract
  PROVE  Held(c) = Net(s, c) + Others(s, c)
<1>1. \A r \in Scan : NetOf(c)[r] \in Int BY NetInt DEF NetOf
<1>2. NetOf(c)[s] = Net(s, c) BY DEF NetOf
<1> QED BY <1>1, <1>2, HeldIsSum, SumOfSplit, ScansAreFinite DEF Others

\* The sum without s depends on the orders of the others only.
LEMMA OthersSame ==
  ASSUME NEW s \in Scan, NEW c \in Contract, \A r \in Scan \ {s} : Net(r, c)' = Net(r, c)
  PROVE  Others(s, c)' = Others(s, c)
<1>1. IsFiniteSet(Scan \ {s}) BY ScansAreFinite, FS_RemoveElement
<1>2. \A r \in Scan \ {s} : NetOf(c)'[r] = NetOf(c)[r] BY DEF NetOf
<1>3. SumOf(NetOf(c)', Scan \ {s}) = SumOf(NetOf(c), Scan \ {s}) BY <1>1, <1>2, SumOfSame
<1> QED BY <1>3 DEF Others

\* It changes by what one of the others changes.
LEMMA OthersChange ==
  ASSUME TypeOK, TypeOK', NEW s \in Scan, NEW q \in Scan \ {s}, NEW c \in Contract,
         \A r \in Scan \ {q} : Net(r, c)' = Net(r, c)
  PROVE  Others(s, c)' = Others(s, c) - Net(q, c) + Net(q, c)'
<1> DEFINE I == Scan \ {s}
           f == NetOf(c)
           g == NetOf(c)'
<1>1. IsFiniteSet(I) /\ IsFiniteSet(I \ {q}) BY ScansAreFinite, FS_RemoveElement
<1>2. \A r \in I : f[r] = Net(r, c) /\ f[r] \in Int BY NetInt DEF NetOf
<1>6. \A r \in Scan : Net(r, c)' \in Int BY PlanIsSigned DEF TypeOK, Net
<1>3. \A r \in I : g[r] = Net(r, c)' /\ g[r] \in Int BY <1>6 DEF NetOf
<1>4. \A r \in I \ {q} : f[r] = g[r] BY <1>2, <1>3
<1>5. Others(s, c) = SumOf(f, I) /\ Others(s, c)' = SumOf(g, I) BY DEF Others
<1>7. q \in I OBVIOUS
<1> HIDE DEF f, g, I
<1>8. SumOf(f, I) = f[q] + SumOf(f, I \ {q}) BY <1>1, <1>2, <1>7, SumOfSplit
<1>9. SumOf(g, I) = g[q] + SumOf(g, I \ {q}) BY <1>1, <1>3, <1>7, SumOfSplit
<1>10. SumOf(f, I \ {q}) = SumOf(g, I \ {q}) BY <1>1, <1>4, SumOfSame
<1>11. SumOf(f, I \ {q}) \in Int BY <1>1, <1>2, SumOfInt
<1>12. f[q] = Net(q, c) /\ f[q] \in Int /\ g[q] = Net(q, c)' /\ g[q] \in Int BY <1>2, <1>3, <1>7
<1> QED BY <1>5, <1>8, <1>9, <1>10, <1>11, <1>12

-----------------------------------------------------------------------------
(* Types *)

LEMMA InitTypes == Init => TypeOK
BY DEF Init, TypeOK, NothingSeen, Books, Intent, Row

LEMMA SeenStep ==
  ASSUME TypeOK, NEW s \in Scan,
         ReadBrokerPositions(s) \/ ReadBrokerOrders(s) \/ Reconcile(s)
  PROVE  TypeOK'
<1> USE DEF Go, history, records, Running, Stopped
<1>1. CASE ReadBrokerPositions(s)
  <2>1. \A c \in Contract : Held(c) \in Int
    <3>1. ASSUME NEW c \in Contract PROVE Held(c) \in Int BY NetInt, OthersInt, HeldByAll
    <3> QED BY <3>1
  <2>2. seen' \in [Scan -> Books]
    <3> DEFINE held == [c \in Contract |-> Held(c)]
    <3>1. held \in [Contract -> Int] BY <2>1
    <3>2. seen' = [seen EXCEPT ![s].held = held] BY <1>1 DEF ReadBrokerPositions
    <3> HIDE DEF held
    <3>5. seen[s] \in Books BY DEF TypeOK
    <3>6. [seen[s] EXCEPT !.held = held] = [held |-> held, working |-> seen[s].working] BY <3>5 DEF Books
    <3>7. seen[s].working \in BOOLEAN BY <3>5 DEF Books
    <3>3. [seen[s] EXCEPT !.held = held] \in Books BY <3>1, <3>6, <3>7 DEF Books
    <3>4. seen' = [seen EXCEPT ![s] = [seen[s] EXCEPT !.held = held]] BY <3>2 DEF TypeOK
    <3> QED BY <3>3, <3>4 DEF TypeOK
  <2> QED BY <1>1, <2>2 DEF ReadBrokerPositions, TypeOK
<1>2. CASE ReadBrokerOrders(s)
  <2>1. Working \in BOOLEAN BY DEF Working
  <2>2. seen' \in [Scan -> Books]
    <3>3. seen[s] \in Books BY DEF TypeOK
    <3>4. [seen[s] EXCEPT !.working = Working] = [held |-> seen[s].held, working |-> Working]
      BY <3>3 DEF Books
    <3>5. seen[s].held \in [Contract -> Int] BY <3>3 DEF Books
    <3>1. [seen[s] EXCEPT !.working = Working] \in Books BY <2>1, <3>4, <3>5 DEF Books
    <3>2. seen' = [seen EXCEPT ![s] = [seen[s] EXCEPT !.working = Working]]
      BY <1>2 DEF ReadBrokerOrders, TypeOK
    <3> QED BY <3>1, <3>2 DEF TypeOK
  <2> QED BY <1>2, <2>2 DEF ReadBrokerOrders, TypeOK
<1>3. CASE Reconcile(s)
  <2>1. NothingSeen \in Books BY DEF NothingSeen, Books
  <2>2. PICK fails \in BOOLEAN, ok \in BOOLEAN :
          /\ pc' = [pc EXCEPT ![s] = IF ok THEN "claim" ELSE "done"]
          /\ lost' = [lost EXCEPT ![s] = @ \/ fails]
          /\ seen' = [seen EXCEPT ![s] = NothingSeen]
          /\ UNCHANGED <<trade, ended, calm, duplicate, outcome, intent, row, legRows, order>>
    BY <1>3 DEF Reconcile, Loses, Reconciled
  <2> QED BY <2>1, <2>2 DEF TypeOK
<1> QED BY <1>1, <1>2, <1>3

LEMMA ScanTypes ==
  ASSUME TypeOK, NEW s \in Scan,
         \/ Start(s) \/ ReadPositions(s) \/ Skip(s) \/ Claim(s) \/ ClaimRefused(s) \/ Executed(s)
         \/ RecordPosition(s) \/ RecordLegs(s) \/ UpdateIntent(s) \/ Crash(s)
  PROVE  TypeOK'
<1> USE DEF Go, history, records, Running, Stopped
<1>1. CASE Start(s) BY <1>1 DEF Start, TypeOK
<1>2. CASE ReadPositions(s) BY <1>2 DEF ReadPositions, Loses, TypeOK
<1>3. CASE Skip(s) BY <1>3 DEF Skip, TypeOK
<1>4. CASE Claim(s) BY <1>4 DEF Claim, TypeOK, Intent
<1>5. CASE ClaimRefused(s) BY <1>5 DEF ClaimRefused, TypeOK, Intent
<1>6. CASE Executed(s) BY <1>6 DEF Executed, TypeOK
<1>7. CASE RecordPosition(s)
  <2>1. PICK to \in {"intent", "legs", "abandon"} : pc' = [pc EXCEPT ![s] = to]
    BY <1>7 DEF RecordPosition
  <2>2. \/ UNCHANGED row
        \/ /\ outcome[s] \in {"ACTIVE", "RECONCILIATION_REQUIRED"}
           /\ row' = [row EXCEPT ![s] = outcome[s]]
    BY <1>7 DEF RecordPosition
  <2>3. UNCHANGED <<trade, ended, calm, duplicate, seen, outcome, intent, legRows, order, lost>>
    BY <1>7 DEF RecordPosition
  <2>4. row' \in [Scan -> Row] BY <2>2 DEF TypeOK, Row
  <2> QED BY <2>1, <2>3, <2>4 DEF TypeOK
<1>8. CASE RecordLegs(s)
  <2>1. PICK inserted \in SUBSET Contract : legRows' = [legRows EXCEPT ![s] = inserted]
    BY <1>8 DEF RecordLegs, Legs
  <2> QED BY <1>8, <2>1 DEF RecordLegs, TypeOK
<1>9. CASE UpdateIntent(s)
  <2>1. FinalIntent(s) \in Intent /\ intent[s] \in Intent BY DEF FinalIntent, Intent, TypeOK
  <2>2. PICK new \in Intent : intent' = [intent EXCEPT ![s] = new] BY <1>9, <2>1 DEF UpdateIntent
  <2>3. pc' = [pc EXCEPT ![s] = "done"] BY <1>9 DEF UpdateIntent
  <2>4. UNCHANGED <<trade, ended, calm, duplicate, seen, outcome, row, legRows, order, lost>>
    BY <1>9 DEF UpdateIntent
  <2> QED BY <2>2, <2>3, <2>4 DEF TypeOK
<1>10. CASE Crash(s) BY <1>10 DEF Crash, TypeOK
<1> QED BY <1>1, <1>2, <1>3, <1>4, <1>5, <1>6, <1>7, <1>8, <1>9, <1>10

LEMMA AccountTypes ==
  ASSUME TypeOK, NEW s \in Scan,
         \/ \E c \in Contract : Send(s, c) \/ Unwind(s, c) \/ BrokerEnds(s, c)
         \/ ClosePosition(s) \/ CloseFails(s)
  PROVE  TypeOK'
<1> USE DEF history, records
<1>1. ASSUME NEW c \in Contract, Send(s, c) \/ Unwind(s, c) \/ BrokerEnds(s, c) PROVE TypeOK'
  <2>1. PICK o \in {"none", "open", "filled"} : order' = [order EXCEPT ![s][c] = o]
    BY <1>1 DEF Send, Unwind, BrokerEnds
  <2>2. [order[s] EXCEPT ![c] = o] \in [Contract -> {"none", "open", "filled", "oversold"}] BY DEF TypeOK
  <2>3. order' = [order EXCEPT ![s] = [order[s] EXCEPT ![c] = o]] BY <2>1 DEF TypeOK
  <2>4. order' \in [Scan -> [Contract -> {"none", "open", "filled", "oversold"}]] BY <2>2, <2>3 DEF TypeOK
  <2>5. UNCHANGED <<pc, trade, ended, calm, duplicate, seen, outcome, intent, row, legRows, lost>>
    BY <1>1 DEF Send, Unwind, BrokerEnds
  <2> QED BY <2>4, <2>5 DEF TypeOK
<1>2. ASSUME NEW closed, AfterClose(s, closed)
      PROVE  order' \in [Scan -> [Contract -> {"none", "open", "filled", "oversold"}]]
  BY <1>2 DEF AfterClose, TypeOK
<1>3. CASE ClosePosition(s) BY <1>2, <1>3 DEF ClosePosition, TypeOK, Row
<1>4. CASE CloseFails(s) BY <1>2, <1>4 DEF CloseFails, TypeOK, Row
<1> QED BY <1>1, <1>3, <1>4

LEMMA TypeStep == TypeOK /\ [Next]_vars => TypeOK'
<1> SUFFICES ASSUME TypeOK, [Next]_vars PROVE TypeOK' OBVIOUS
<1>1. CASE Next BY <1>1, SeenStep, ScanTypes, AccountTypes DEF Next
<1>2. CASE UNCHANGED vars BY <1>2 DEF vars, TypeOK
<1> QED BY <1>1, <1>2

-----------------------------------------------------------------------------
(* The books at the steps of a scan *)

LEMMA InitBooks == Init => BooksInv
BY DEF Init, BooksInv, Blank, Undisturbed, Gating

\* With s running, no other scan has the account to itself.
LEMMA OwnStep ==
  ASSUME IInv, BooksInv, NEW s \in Scan, pc[s] \notin Stopped, pc'[s] # "idle",
         \A r \in Scan \ {s} :
           /\ pc'[r] = pc[r] /\ row'[r] = row[r] /\ legRows'[r] = legRows[r]
           /\ order'[r] = order[r] /\ ended'[r] = ended[r],
         Blank(s)', Undisturbed(s)'
  PROVE  BooksInv'
<1> SUFFICES ASSUME NEW r \in Scan \ {s} PROVE Blank(r)' /\ Undisturbed(r)' BY DEF BooksInv
<1>1. Blank(r)' BY DEF BooksInv, Blank
<1>2. s \notin ended'[r] BY DEF IInv, Past
<1>3. ~ Alone(r)' BY <1>2 DEF Alone
<1> QED BY <1>1, <1>3 DEF Undisturbed

\* The scan leaves the gates.
LEMMA LeaveStep ==
  ASSUME TypeOK, IInv, BooksInv, NEW s \in Scan, pc[s] \notin Stopped,
         NEW to, to \notin Unrecorded, pc' = [pc EXCEPT ![s] = to],
         \A r \in Scan \ {s} : row'[r] = row[r] /\ legRows'[r] = legRows[r],
         UNCHANGED <<order, ended>>
  PROVE  BooksInv'
<1>1. pc'[s] = to /\ \A r \in Scan \ {s} : pc'[r] = pc[r] BY DEF TypeOK
<1>2. Blank(s)' BY <1>1 DEF Blank
<1>3. Undisturbed(s)' BY <1>1 DEF Undisturbed, Unrecorded, Gating
<1>4. to # "idle" BY DEF Unrecorded
<1> QED BY <1>1, <1>2, <1>3, <1>4, OwnStep

LEMMA LeaveSteps ==
  ASSUME TypeOK, IInv, BooksInv, NEW s \in Scan,
         \/ Skip(s) \/ ClaimRefused(s) \/ Executed(s) \/ RecordPosition(s) \/ RecordLegs(s)
         \/ UpdateIntent(s) \/ Crash(s)
  PROVE  BooksInv'
<1> USE DEF Go, history, records, Running, Stopped
<1>1. PICK to \in {"done", "crashed", "record", "intent", "legs", "abandon"} : pc' = [pc EXCEPT ![s] = to]
  BY DEF Skip, ClaimRefused, Executed, RecordPosition, RecordLegs, UpdateIntent, Crash
<1>2. pc[s] \notin Stopped
  BY DEF Skip, ClaimRefused, Executed, RecordPosition, RecordLegs, UpdateIntent, Crash
<1>3. UNCHANGED <<order, ended>>
  BY DEF Skip, ClaimRefused, Executed, RecordPosition, RecordLegs, UpdateIntent, Crash
<1>4. \A r \in Scan \ {s} : row'[r] = row[r]
  BY DEF Skip, ClaimRefused, Executed, RecordPosition, RecordLegs, UpdateIntent, Crash, TypeOK
<1>5. \A r \in Scan \ {s} : legRows'[r] = legRows[r]
  <2>1. CASE RecordLegs(s)
    <3>1. PICK inserted : legRows' = [legRows EXCEPT ![s] = inserted] BY <2>1 DEF RecordLegs
    <3> QED BY <3>1 DEF TypeOK
  <2>2. CASE ~ RecordLegs(s)
    BY <2>2 DEF Skip, ClaimRefused, Executed, RecordPosition, UpdateIntent, Crash
  <2> QED BY <2>1, <2>2
<1>6. to \notin Unrecorded BY DEF Unrecorded, Gating
<1> QED BY <1>1, <1>2, <1>3, <1>4, <1>5, <1>6, LeaveStep

\* Rows and the orders of the others stay, and so do their sum and the claims.
LEMMA Unmoved ==
  ASSUME NEW s \in Scan, NEW c \in Contract, UNCHANGED <<trade, row, legRows>>,
         \A r \in Scan \ {s} : order'[r] = order[r]
  PROVE  Claimants(c)' = Claimants(c) /\ Others(s, c)' = Others(s, c)
<1>1. Claimants(c)' = Claimants(c) BY DEF Claimants
<1>2. \A r \in Scan \ {s} : Net(r, c)' = Net(r, c) BY DEF Net, Filled
<1> QED BY <1>1, <1>2, OthersSame

LEMMA StartBooks ==
  ASSUME TypeOK, IInv, BooksInv, NEW s \in Scan, Start(s) PROVE BooksInv'
<1> USE DEF Start, Go, records
<1>1. pc[s] = "idle" /\ pc'[s] = "positions" /\ calm'[s] = ~ Working BY DEF TypeOK
<1>2. Blank(s)' BY <1>1 DEF BooksInv, Blank, Unrecorded, Gating
<1>3. calm'[s] => \A r \in Scan : \A c \in Contract : order'[r][c] # "open" BY <1>1 DEF Working
<1>4. Undisturbed(s)' BY <1>1, <1>3 DEF Undisturbed
<1>5. \A r \in Scan \ {s} : pc'[r] = pc[r] /\ ended'[r] = ended[r] BY DEF TypeOK
<1> QED BY <1>1, <1>2, <1>4, <1>5, OwnStep DEF Stopped

\* A gate: the account is looked at, not changed.
LEMMA GateStep ==
  ASSUME TypeOK, IInv, BooksInv, NEW s \in Scan, NEW to \in Gating, pc[s] \in Gating,
         pc' = [pc EXCEPT ![s] = to],
         UNCHANGED <<trade, ended, calm, row, legRows, order>>,
         Alone(s) /\ calm[s] /\ to \in {"broker orders", "database"} =>
           \A c \in Contract : StillHeld(s, c)',
         Alone(s) /\ calm[s] /\ to = "claim" /\ ~ lost'[s] =>
           \A c \in Contract : Agree(s, c)'
  PROVE  BooksInv'
<1>1. pc'[s] = to /\ \A r \in Scan \ {s} : pc'[r] = pc[r] BY DEF TypeOK
<1>2. Blank(s)' BY <1>1 DEF BooksInv, Blank, Unrecorded, Gating
<1>3. Alone(s)' = Alone(s) BY <1>1 DEF Alone
<1>4. Undisturbed(s)' BY <1>1, <1>3 DEF BooksInv, Undisturbed, Gating
<1>5. pc[s] \notin Stopped /\ to # "idle" BY DEF Gating, Stopped
<1> QED BY <1>1, <1>2, <1>4, <1>5, OwnStep

LEMMA ReadSteps ==
  ASSUME TypeOK, IInv, BooksInv, NEW s \in Scan,
         ReadPositions(s) \/ ReadBrokerPositions(s) \/ ReadBrokerOrders(s)
  PROVE  BooksInv'
<1> USE DEF Go, history, records
<1>1. CASE ReadPositions(s)
  BY <1>1, GateStep DEF ReadPositions, Gating
<1>2. CASE ReadBrokerPositions(s)
  <2>1. PICK to \in {"broker orders", "database"} : pc' = [pc EXCEPT ![s] = to]
    BY <1>2 DEF ReadBrokerPositions
  <2>2. pc[s] \in {"broker", "broker positions"} /\ UNCHANGED <<trade, ended, calm, row, legRows, order>>
    BY <1>2 DEF ReadBrokerPositions
  <2>3. ASSUME NEW c \in Contract PROVE StillHeld(s, c)'
    <3>1. seen'[s].held[c] = Held(c)
      <4> DEFINE held == [k \in Contract |-> Held(k)]
      <4>1. seen' = [seen EXCEPT ![s].held = held] BY <1>2 DEF ReadBrokerPositions
      <4>2. held[c] = Held(c) OBVIOUS
      <4> HIDE DEF held
      <4>3. seen \in [Scan -> Books] /\ seen[s] \in [held : [Contract -> Int], working : BOOLEAN]
        BY DEF TypeOK, Books
      <4>4. seen'[s] = [seen[s] EXCEPT !.held = held] BY <4>1, <4>3
      <4>5. seen'[s].held = held BY <4>3, <4>4
      <4> QED BY <4>2, <4>5
    <3>2. Net(s, c) = 0 BY <2>2 DEF BooksInv, Blank, Unrecorded, Gating, Net, Filled
    <3>3. Held(c) = Others(s, c)
      <4>1. Held(c) = Net(s, c) + Others(s, c) /\ Others(s, c) \in Int BY HeldByAll, OthersInt
      <4>3. Held(c) = 0 + Others(s, c) BY <3>2, <4>1
      <4> QED BY <4>1, <4>3, Zero
    <3>4. Others(s, c)' = Others(s, c) BY <2>2, Unmoved
    <3> QED BY <3>1, <3>3, <3>4 DEF StillHeld
  <2> QED BY <2>1, <2>2, <2>3, GateStep DEF Gating
<1>3. CASE ReadBrokerOrders(s)
  <2>1. PICK to \in {"broker positions", "database"} : pc' = [pc EXCEPT ![s] = to]
    BY <1>3 DEF ReadBrokerOrders
  <2>2. /\ pc[s] \in {"broker", "broker orders"} /\ UNCHANGED <<trade, ended, calm, row, legRows, order>>
        /\ to = "database" => pc[s] = "broker orders"
    BY <1>3, <2>1 DEF ReadBrokerOrders, TypeOK
  <2>3. ASSUME Alone(s), calm[s], to = "database", NEW c \in Contract PROVE StillHeld(s, c)'
    <3>1. StillHeld(s, c) BY <2>2, <2>3 DEF BooksInv, Undisturbed
    <3>2. seen'[s].held = seen[s].held
      <4>1. seen' = [seen EXCEPT ![s].working = Working] BY <1>3 DEF ReadBrokerOrders
      <4>2. seen \in [Scan -> Books] /\ seen[s] \in [held : [Contract -> Int], working : BOOLEAN]
        BY DEF TypeOK, Books
      <4>3. seen'[s] = [seen[s] EXCEPT !.working = Working] BY <4>1, <4>2
      <4> QED BY <4>2, <4>3
    <3>3. Others(s, c)' = Others(s, c) /\ Claimants(c)' = Claimants(c) BY <2>2, Unmoved
    <3> QED BY <3>1, <3>2, <3>3 DEF StillHeld
  <2> QED BY <2>1, <2>2, <2>3, GateStep DEF Gating
<1> QED BY <1>1, <1>2, <1>3

\* With all reads answered, what matches are the books as they are.
LEMMA ReconcileBooks ==
  ASSUME TypeOK, IInv, BooksInv, NEW s \in Scan, Reconcile(s) PROVE BooksInv'
<1>1. PICK active \in BOOLEAN, pending \in BOOLEAN, intents \in BOOLEAN, ok \in BOOLEAN :
        /\ ok => Matches(seen[s].held, [c \in Contract |-> IF active THEN Claimants(c) ELSE {}])
        /\ pc[s] = "database" /\ pc' = [pc EXCEPT ![s] = IF ok THEN "claim" ELSE "done"]
        /\ lost' = [lost EXCEPT ![s] = @ \/ ~ (active /\ pending /\ intents)]
        /\ UNCHANGED <<trade, ended, calm, row, legRows, order>>
  BY DEF Reconcile, Reconciled, Go, Loses, history, records
<1>2. CASE ok
  <2>1. ASSUME Alone(s), calm[s], ~ lost'[s], NEW c \in Contract PROVE Agree(s, c)'
    <3>1. active BY <1>1, <2>1 DEF TypeOK
    <3>2. IF Claimants(c) = {} THEN seen[s].held[c] = 0
          ELSE \E r \in Claimants(c) : seen[s].held[c] = Plan[trade[r]][c]
      BY <1>1, <1>2, <3>1 DEF Matches
    <3>3. StillHeld(s, c) BY <1>1, <2>1 DEF BooksInv, Undisturbed
    <3>4. Agree(s, c) BY <3>2, <3>3 DEF StillHeld, Agree
    <3>5. Others(s, c)' = Others(s, c) /\ Claimants(c)' = Claimants(c) BY <1>1, Unmoved
    <3> QED BY <1>1, <3>4, <3>5 DEF Agree
  <2> QED BY <1>1, <1>2, <2>1, GateStep DEF Gating
<1>3. CASE ~ ok
  BY <1>1, <1>3, LeaveStep DEF Unrecorded, Gating, Stopped
<1> QED BY <1>2, <1>3

LEMMA ClaimBooks ==
  ASSUME TypeOK, IInv, BooksInv, NEW s \in Scan, Claim(s) PROVE BooksInv'
<1>1. /\ pc[s] = "claim" /\ pc' = [pc EXCEPT ![s] = IF duplicate[s] THEN "record" ELSE "execute"]
      /\ UNCHANGED <<trade, ended, calm, lost, row, legRows, order>>
  BY DEF Claim, Go, history
<1>2. CASE duplicate[s]
  BY <1>1, <1>2, LeaveStep DEF Unrecorded, Gating, Stopped
<1>3. CASE ~ duplicate[s]
  <2>1. pc'[s] = "execute" /\ \A r \in Scan \ {s} : pc'[r] = pc[r] BY <1>1, <1>3 DEF TypeOK
  <2>2. Blank(s)' BY <1>1, <2>1 DEF BooksInv, Blank, Unrecorded, Gating
  <2>3. Alone(s)' = Alone(s) BY <1>1, <2>1 DEF Alone
  <2>4. ASSUME NEW c \in Contract, Agree(s, c) PROVE Agree(s, c)'
    <3>1. Others(s, c)' = Others(s, c) /\ Claimants(c)' = Claimants(c) BY <1>1, Unmoved
    <3> QED BY <1>1, <2>4, <3>1 DEF Agree
  <2>5. Undisturbed(s)' BY <1>1, <2>1, <2>3, <2>4 DEF BooksInv, Undisturbed, Gating
  <2> QED BY <1>1, <2>1, <2>2, <2>5, OwnStep DEF Stopped
<1> QED BY <1>2, <1>3

\* Its own orders do not count among those of the others.
LEMMA SendBooks ==
  ASSUME TypeOK, IInv, BooksInv, NEW s \in Scan, NEW k \in Contract, Send(s, k) \/ Unwind(s, k)
  PROVE  BooksInv'
<1>1. /\ pc[s] = "execute" /\ \E o \in {"open", "none"} : order' = [order EXCEPT ![s][k] = o]
      /\ UNCHANGED <<pc, trade, ended, calm, lost, row, legRows>>
  BY DEF Send, Unwind, history, records
<1>2. \A r \in Scan \ {s} : order'[r] = order[r] BY <1>1 DEF TypeOK
<1>3. Blank(s)' BY <1>1 DEF BooksInv, Blank
<1>4. Alone(s)' = Alone(s) BY <1>1 DEF Alone
<1>5. ASSUME NEW c \in Contract, Agree(s, c) PROVE Agree(s, c)'
  <2>1. Others(s, c)' = Others(s, c) /\ Claimants(c)' = Claimants(c) BY <1>1, <1>2, Unmoved
  <2> QED BY <1>1, <1>5, <2>1 DEF Agree
<1>6. Undisturbed(s)'
  <2>1. Undisturbed(s) BY DEF BooksInv
  <2> QED BY <1>1, <1>2, <1>4, <1>5, <2>1 DEF Undisturbed
<1> QED BY <1>1, <1>2, <1>3, <1>6, OwnStep DEF Stopped

-----------------------------------------------------------------------------
(* The books at the steps of the account *)

\* An order that ends is not one of another scan than the one that is alone.
LEMMA EndBooks ==
  ASSUME TypeOK, IInv, BooksInv, NEW q \in Scan, NEW k \in Contract, BrokerEnds(q, k)
  PROVE  BooksInv'
<1>1. /\ order[q][k] = "open" /\ \E o \in {"none", "filled"} : order' = [order EXCEPT ![q][k] = o]
      /\ UNCHANGED <<pc, trade, ended, calm, lost, row, legRows, seen>>
  BY DEF BrokerEnds, history, records
<1>2. /\ \A r \in Scan \ {q} : order'[r] = order[r]
      /\ \A c \in Contract : order'[q][c] = order[q][c] \/ order'[q][c] \in {"none", "filled"}
  BY <1>1 DEF TypeOK
<1> SUFFICES ASSUME NEW s \in Scan PROVE Blank(s)' /\ Undisturbed(s)' BY DEF BooksInv
<1>3. Blank(s)' BY <1>1, <1>2 DEF BooksInv, Blank
<1>4. Alone(s)' = Alone(s) BY <1>1 DEF Alone
<1>5. Undisturbed(s) BY DEF BooksInv
<1>8. SUFFICES ASSUME Alone(s), calm[s], pc[s] \in Gating \cup {"execute"} PROVE Undisturbed(s)'
  <2>1. calm'[s] = calm[s] /\ pc'[s] = pc[s] BY <1>1
  <2> QED BY <1>3, <1>4, <2>1 DEF Undisturbed, Gating
<1>9. \A r \in Scan \ {s} : \A c \in Contract : order[r][c] # "open" BY <1>5, <1>8 DEF Undisturbed
<1>6. CASE s # q
  <2>1. order[q][k] # "open" BY <1>6, <1>9
  <2> QED BY <1>1, <2>1
<1>7. CASE s = q
  <2>1. ASSUME NEW c \in Contract
        PROVE  Others(s, c)' = Others(s, c) /\ Claimants(c)' = Claimants(c)
    BY <1>1, <1>2, <1>7, Unmoved
  <2>2. \A c \in Contract : (Agree(s, c) => Agree(s, c)') /\ (StillHeld(s, c) => StillHeld(s, c)')
    BY <1>1, <2>1 DEF Agree, StillHeld
  <2>3. \A r \in Scan \ {s} : \A c \in Contract : order'[r][c] # "open" BY <1>2, <1>7, <1>9
  <2>4. calm'[s] = calm[s] /\ pc'[s] = pc[s] /\ lost'[s] = lost[s] BY <1>1
  <2> QED BY <1>5, <1>8, <2>2, <2>3, <2>4 DEF Undisturbed
<1> QED BY <1>6, <1>7

\* A close that was agreed leaves nothing of the contract, in the books and in the rows.
LEMMA AgreedClose ==
  ASSUME TypeOK, TypeOK', NEW q \in Scan, NEW closed, closed \subseteq Closable(q), AfterClose(q, closed),
         legRows' = [legRows EXCEPT ![q] = @ \ closed],
         \A r \in Scan \ {q} : row'[r] = row[r], UNCHANGED trade,
         NEW s \in Scan \ {q}, NEW c \in closed, Agreed(q, c), Net(s, c) = 0
  PROVE  Others(s, c) = Plan[trade[q]][c] /\ Others(s, c)' = 0 /\ Claimants(c)' = {}
<1>1. c \in Contract /\ order[q][c] # "oversold" /\ c \in legRows[q] BY DEF Closable, TypeOK
<1>2. /\ \A r \in Scan \ {q} : order'[r] = order[r]
      /\ order'[q][c] = IF Filled(q, c) THEN "none" ELSE "oversold"
  BY <1>1 DEF AfterClose, TypeOK
<1>3. \A r \in Scan \ {q} : Net(r, c)' = Net(r, c) BY <1>2 DEF Net, Filled
<1>4. Plan[trade[q]][c] \in Int BY <1>1, PlanIsSigned DEF TypeOK
<1>5. Net(q, c)' = Net(q, c) - Plan[trade[q]][c] BY <1>1, <1>2, <1>4 DEF Net, Filled
<1>6. Others(s, c)' = Others(s, c) - Net(q, c) + Net(q, c)' BY <1>1, <1>3, OthersChange
<1>7. Held(c) = Net(s, c) + Others(s, c) /\ Others(s, c) \in Int /\ Net(q, c) \in Int
  BY <1>1, HeldByAll, OthersInt, NetInt
<1>8. Others(s, c) = Plan[trade[q]][c]
  <2>2. Held(c) = 0 + Others(s, c) BY <1>7
  <2> QED BY <1>7, <2>2, Zero DEF Agreed
<1>9. Others(s, c)' = 0 BY <1>4, <1>5, <1>6, <1>7, <1>8
<1>10. Claimants(c)' = {}
  <2>1. Claimants(c) = {q} BY DEF Agreed
  <2>2. c \notin legRows'[q] BY DEF TypeOK
  <2>3. \A r \in Scan \ {q} : legRows'[r] = legRows[r] /\ row'[r] = row[r] BY DEF TypeOK
  <2> QED BY <2>1, <2>2, <2>3 DEF Claimants
<1> QED BY <1>8, <1>9, <1>10

LEMMA CloseBooks ==
  ASSUME TypeOK, TypeOK', IInv, BooksInv, NEW q \in Scan, ClosePosition(q)
  PROVE  BooksInv'
<1>1. PICK closed \in SUBSET Closable(q) :
        /\ AfterClose(q, closed)
        /\ legRows' = [legRows EXCEPT ![q] = @ \ closed]
        /\ row' = [row EXCEPT ![q] = IF closed = legRows[q] THEN "CLOSED" ELSE @]
        /\ calm' = [r \in Scan |-> calm[r] /\ \A c \in closed : Agreed(q, c)]
  BY DEF ClosePosition
<1>2. row[q] = "ACTIVE" /\ UNCHANGED <<pc, trade, ended, lost, seen>> BY DEF ClosePosition
<1>3. /\ \A r \in Scan \ {q} : order'[r] = order[r] /\ row'[r] = row[r] /\ legRows'[r] = legRows[r]
      /\ \A c \in Contract : order'[q][c] = order[q][c] \/ order'[q][c] \in {"none", "oversold"}
      /\ \A c \in Contract \ closed : order'[q][c] = order[q][c]
  BY <1>1 DEF AfterClose, TypeOK
<1>4. pc[q] \notin Unrecorded BY <1>2 DEF BooksInv, Blank
<1> SUFFICES ASSUME NEW s \in Scan PROVE Blank(s)' /\ Undisturbed(s)' BY DEF BooksInv
<1>5. CASE s = q BY <1>2, <1>4, <1>5 DEF Blank, Undisturbed, Unrecorded, Gating
<1>6. CASE s # q
  <2>1. Blank(s)' BY <1>2, <1>3, <1>6 DEF BooksInv, Blank
  <2>2. SUFFICES ASSUME Alone(s), calm'[s], pc[s] \in Gating \cup {"execute"}
                 PROVE  Undisturbed(s)'
    <3>1. Alone(s)' = Alone(s) BY <1>2 DEF Alone
    <3> QED BY <1>2, <2>1, <3>1 DEF Undisturbed, Gating
  <2>3. calm[s] /\ \A c \in closed : Agreed(q, c) BY <1>1, <2>2
  <2>4. Undisturbed(s) BY DEF BooksInv
  <2>5. \A r \in Scan \ {s} : \A c \in Contract : order'[r][c] # "open"
    BY <1>3, <2>2, <2>3, <2>4 DEF Undisturbed
  <2>6. ASSUME NEW c \in Contract \ closed
        PROVE  Others(s, c)' = Others(s, c) /\ Claimants(c)' = Claimants(c)
    <3>1. \A r \in Scan \ {s} : Net(r, c)' = Net(r, c) BY <1>2, <1>3 DEF Net, Filled
    <3>2. c \in legRows'[q] <=> c \in legRows[q] BY <1>1 DEF TypeOK
    <3>3. row'[q] = IF closed = legRows[q] THEN "CLOSED" ELSE row[q] BY <1>1 DEF TypeOK
    <3>4. row'[q] = "ACTIVE" /\ c \in legRows'[q] <=> row[q] = "ACTIVE" /\ c \in legRows[q]
      BY <1>2, <3>2, <3>3
    <3>5. Claimants(c)' = Claimants(c) BY <1>3, <3>4 DEF Claimants
    <3> QED BY <3>1, <3>5, OthersSame
  <2>7. ASSUME NEW c \in closed, Net(s, c) = 0
        PROVE  Others(s, c) = Plan[trade[q]][c] /\ Others(s, c)' = 0 /\ Claimants(c)' = {}
    BY <1>1, <1>2, <1>3, <1>6, <2>3, <2>7, AgreedClose
  <2>8. closed \subseteq Contract BY <1>1 DEF Closable, TypeOK
  <2>9. ASSUME pc[s] \in {"broker orders", "database"}, NEW c \in Contract PROVE StillHeld(s, c)'
    <3>1. StillHeld(s, c) BY <2>2, <2>3, <2>4, <2>9 DEF Undisturbed
    <3>2. CASE c \notin closed BY <1>2, <2>6, <3>1, <3>2 DEF StillHeld
    <3>3. CASE c \in closed
      <4>1. Net(s, c) = 0 BY <2>9 DEF BooksInv, Blank, Unrecorded, Gating, Net, Filled
      <4> QED BY <2>7, <3>3, <4>1 DEF StillHeld
    <3> QED BY <3>2, <3>3
  <2>10. ASSUME pc[s] \in {"claim", "execute"}, ~ lost[s], NEW c \in Contract PROVE Agree(s, c)'
    <3>1. Agree(s, c) BY <2>2, <2>3, <2>4, <2>10 DEF Undisturbed
    <3>2. CASE c \notin closed BY <1>2, <2>6, <3>1, <3>2 DEF Agree
    <3>3. CASE c \in closed
      <4>1. Claimants(c) = {q} /\ Held(c) = Plan[trade[q]][c] BY <2>3, <3>3 DEF Agreed
      <4>2. Others(s, c) = Plan[trade[q]][c] BY <3>1, <4>1 DEF Agree
      <4>3. Held(c) = Net(s, c) + Others(s, c) /\ Net(s, c) \in Int /\ Others(s, c) \in Int
        BY HeldByAll, NetInt, OthersInt
      <4>4. Net(s, c) = 0 BY <4>1, <4>2, <4>3
      <4> QED BY <2>7, <3>3, <4>4 DEF Agree
    <3> QED BY <3>2, <3>3
  <2> QED BY <1>2, <2>5, <2>9, <2>10 DEF Undisturbed
<1> QED BY <1>5, <1>6

\* After a close that fails, no scan is alone any more.
LEMMA CloseFailsBooks ==
  ASSUME TypeOK, IInv, BooksInv, NEW q \in Scan, CloseFails(q)
  PROVE  BooksInv'
<1>1. PICK closed \in SUBSET Closable(q), noted \in SUBSET Contract :
        AfterClose(q, closed) /\ legRows' = [legRows EXCEPT ![q] = @ \ noted]
  BY DEF CloseFails, Closable, TypeOK
<1>2. /\ row[q] = "ACTIVE" /\ UNCHANGED <<pc, trade, calm, lost, seen>>
      /\ ended' = [r \in Scan |-> ended[r] \ {q}]
      /\ \E new \in {"ACTIVE", "CLOSE_FAILED"} : row' = [row EXCEPT ![q] = new]
  BY DEF CloseFails
<1>3. \A r \in Scan \ {q} : order'[r] = order[r] /\ row'[r] = row[r] /\ legRows'[r] = legRows[r]
  BY <1>1, <1>2 DEF AfterClose, TypeOK
<1>4. pc[q] \notin Unrecorded BY <1>2 DEF BooksInv, Blank
<1> SUFFICES ASSUME NEW s \in Scan PROVE Blank(s)' /\ Undisturbed(s)' BY DEF BooksInv
<1>5. CASE s = q BY <1>2, <1>4, <1>5 DEF Blank, Undisturbed, Unrecorded, Gating
<1>6. CASE s # q
  <2>1. Blank(s)' BY <1>2, <1>3, <1>6 DEF BooksInv, Blank
  <2>2. q \notin ended'[s] /\ pc'[q] # "idle" BY <1>2, <1>4 DEF Unrecorded
  <2>3. ~ Alone(s)' BY <1>6, <2>2 DEF Alone
  <2> QED BY <2>1, <2>3 DEF Undisturbed
<1> QED BY <1>5, <1>6

LEMMA BooksStep == TypeOK /\ TypeOK' /\ IInv /\ BooksInv /\ [Next]_vars => BooksInv'
<1> SUFFICES ASSUME TypeOK, TypeOK', IInv, BooksInv, [Next]_vars PROVE BooksInv' OBVIOUS
<1>1. CASE Next
  BY <1>1, LeaveSteps, StartBooks, ReadSteps, ReconcileBooks, ClaimBooks, SendBooks, EndBooks,
     CloseBooks, CloseFailsBooks
  DEF Next
<1>2. CASE UNCHANGED vars
  <2>1. \A r \in Scan, c \in Contract : Net(r, c)' = Net(r, c) BY <1>2 DEF vars, Net, Filled
  <2>2. ASSUME NEW s \in Scan, NEW c \in Contract
        PROVE  Others(s, c)' = Others(s, c) /\ Claimants(c)' = Claimants(c)
    <3>1. Others(s, c)' = Others(s, c) BY <2>1, OthersSame
    <3> QED BY <1>2, <3>1 DEF vars, Claimants
  <2> SUFFICES ASSUME NEW s \in Scan PROVE Blank(s)' /\ Undisturbed(s)' BY DEF BooksInv
  <2>3. Blank(s) /\ Undisturbed(s) BY DEF BooksInv
  <2>4. \A c \in Contract : (Agree(s, c) => Agree(s, c)') /\ (StillHeld(s, c) => StillHeld(s, c)')
    BY <1>2, <2>2 DEF vars, Agree, StillHeld
  <2>5. Alone(s)' = Alone(s) BY <1>2 DEF vars, Alone
  <2> QED BY <1>2, <2>3, <2>4, <2>5 DEF vars, Blank, Undisturbed
<1> QED BY <1>1, <1>2

-----------------------------------------------------------------------------
(* Theorems *)

\* Every reachable state satisfies IInv.
THEOREM Inductive == Spec => []IInv
BY InitIInv, NextIInv, PTL DEF Spec

\* However many scans overlap, two never place orders for the same candidate at
\* one time: the claim of the one that executes refuses the other.
THEOREM OneExecutionPerTradeHolds == Spec => []OneExecutionPerTrade
<1>1. IInv => OneExecutionPerTrade
  BY DEF IInv, OneKey, Gated, Owning, NonTerminal, OneExecutionPerTrade
<1> QED BY <1>1, Inductive, PTL

\* A scan executes only if every scan that ended before it left nothing for a
\* human, unless one of its own reads failed.
THEOREM FlagsBlockHolds == Spec => []FlagsBlock
<1>1. IInv => FlagsBlock BY DEF IInv, Gated, FlagsBlock
<1> QED BY <1>1, Inductive, PTL

\* A scan whose reads succeeded does not execute beside an equivalent position
\* of a scan before it.
THEOREM NoLaterDuplicateHolds == Spec => []NoLaterDuplicate
<1>1. IInv => NoLaterDuplicate BY DEF IInv, Gated, LaterDuplicate, NoLaterDuplicate
<1> QED BY <1>1, Inductive, PTL

\* Every variable keeps its type, for any candidates, scans and contracts.
THEOREM TypeCorrect == Spec => []TypeOK
BY InitTypes, TypeStep, PTL DEF Spec

\* A scan that had the account to itself and whose reads succeeded enters only on books
\* that agree with the rows, contract by contract (reconcile, brokerReconciliation.ts;
\* handlePaperScan).
THEOREM EntersOnAgreeingBooksHolds == Spec => []EntersOnAgreeingBooks
<1>1. TypeOK /\ BooksInv => EntersOnAgreeingBooks
  <2> SUFFICES ASSUME TypeOK, BooksInv, NEW s \in Scan, pc[s] = "execute",
                      \A c \in Contract : order[s][c] = "none", Alone(s), calm[s], ~ lost[s],
                      NEW c \in Contract
               PROVE  /\ Claimants(c) = {} => Held(c) = 0
                      /\ \A r \in Claimants(c) : Claimants(c) = {r} => Held(c) = Plan[trade[r]][c]
    BY DEF EntersOnAgreeingBooks
  <2>1. Agree(s, c) BY DEF BooksInv, Undisturbed
  <2>2. Net(s, c) = 0 BY DEF Net, Filled
  <2>3. Held(c) = Net(s, c) + Others(s, c) /\ Others(s, c) \in Int BY HeldByAll, OthersInt
  <2>5. Held(c) = 0 + Others(s, c) BY <2>2, <2>3
  <2>6. Held(c) = Others(s, c) BY <2>3, <2>5, Zero
  <2> QED BY <2>1, <2>6 DEF Agree
<1>2. Spec => []BooksInv
  BY InitBooks, BooksStep, TypeCorrect, Inductive, PTL DEF Spec
<1> QED BY <1>1, <1>2, TypeCorrect, PTL

-----------------------------------------------------------------------------
(* The VWAP scalper: what its invocations hold of the slots and the row *)

Position == [symbol : Symbol, status : {"ACTIVE", "CLOSED"}]
Account == [pnl : Int, losses : Int, locked : BOOLEAN]
ScanState == [pc : {"idle", "slots", "loop", "insert"}, todo : SUBSET Symbol, room : Int,
              key : {None} \cup (Symbol \X Candle)]
MonitorState == [pc : {"idle", "loop", "read", "write"}, todo : SUBSET Nat, pnl : Int, row : Account]

ScalperTypes ==
  /\ positions \in Seq(Position)
  /\ daily \in Account
  /\ scan \in [Scanner -> ScanState]
  /\ \A k \in Scanner : scan[k].pc = "insert" => scan[k].key \in Symbol \X Candle
  /\ monitor \in [Monitor -> MonitorState]
  /\ \A m \in Monitor : monitor[m].todo \subseteq DOMAIN positions
  /\ results \in Seq(Pnl)
  /\ crowded \in BOOLEAN /\ mixed \in BOOLEAN

Taken == {positions[i].symbol : i \in ActiveIds}

\* The symbols a scan may still open a position in have none, and its slots are free.
Reserves(k) ==
  /\ scan[k].pc \in {"loop", "insert"} =>
       /\ scan[k].room \in Nat
       /\ Cardinality(ActiveIds) + scan[k].room <= MaxOpen
       /\ scan[k].todo \cap Taken = {}
  /\ scan[k].pc = "insert" =>
       /\ scan[k].room > 0
       /\ scan[k].key[1] \notin Taken \cup scan[k].todo

OneScan == \A j, k \in Scanner : scan[j].pc # "idle" /\ scan[k].pc # "idle" => j = k
OnePerSymbol == \A i, j \in ActiveIds : positions[i].symbol = positions[j].symbol => i = j

SlotsInv ==
  ~ crowded => /\ OneScan
               /\ OnePerSymbol
               /\ Cardinality(ActiveIds) <= MaxOpen
               /\ \A k \in Scanner : Reserves(k)

\* The row without the close the monitor is about to book.
Sums(r, q) == r.pnl = Total(q) /\ r.losses = Trailing(q)
Booked(m) ==
  monitor[m].pc \in {"read", "write"} =>
    \E q \in Seq(Pnl) : /\ results = Append(q, monitor[m].pnl)
                        /\ Sums(daily, q)
                        /\ monitor[m].pc = "write" => Sums(monitor[m].row, q)

OneMonitor == \A j, m \in Monitor : monitor[j].pc # "idle" /\ monitor[m].pc # "idle" => j = m

DailyInv ==
  ~ mixed => /\ OneMonitor
             /\ \A m \in Monitor : Booked(m)
             /\ (\A m \in Monitor : monitor[m].pc \in {"idle", "loop"}) => Sums(daily, results)

-----------------------------------------------------------------------------
(* The two folds of DailyIsSum, one element after the other *)

\* Both folds of the closes at once: f is "total" or the losing streak.
Step(f, n, p) == IF f = "total" THEN n + p ELSE IF p < 0 THEN n + 1 ELSE 0
StepFold(f, q, it) ==
  it = [s \in SUBSET DOMAIN q |-> IF s = {} THEN 0 ELSE Step(f, it[s \ {Max(s)}], q[Max(s)])]

LEMMA Elements ==
  ASSUME NEW q \in Seq(Int)
  PROVE  /\ DOMAIN q = 1 .. Len(q) /\ Len(q) \in Nat /\ \A i \in 1 .. Len(q) : q[i] \in Int
         /\ \A s \in SUBSET DOMAIN q : s # {} => Max(s) \in s /\ q[Max(s)] \in Int
<1>1. DOMAIN q = 1 .. Len(q) /\ Len(q) \in Nat /\ \A i \in 1 .. Len(q) : q[i] \in Int
  OBVIOUS
<1>2. ASSUME NEW s \in SUBSET DOMAIN q, s # {} PROVE Max(s) \in s
  BY <1>1, <1>2, LargestIn
<1> QED BY <1>1, <1>2

LEMMA StepFoldExists ==
  ASSUME NEW f, NEW q \in Seq(Int)
  PROVE  \E it : StepFold(f, q, it)
<1> DEFINE g == [x \in Int \X Int |-> Step(f, x[1], x[2])]
           N == 1 .. Len(q)
<1>1. N = DOMAIN q /\ Len(q) \in Nat /\ \A i \in N : q[i] \in Int
  BY Elements
<1>2. PICK it : Folds(g, q, N, it)
  <2> HIDE DEF g
  <2> QED BY <1>1, FoldExists
<1>3. \A s \in SUBSET N : it[s] \in Int
  <2>1. g \in [Int \X Int -> Int] BY DEF Step
  <2> HIDE DEF g
  <2>2. SUFFICES ASSUME NEW s \in SUBSET N PROVE it[s] \in Int OBVIOUS
  <2> QED BY <1>1, <1>2, <2>1, FoldIsInt
<1>4. ASSUME NEW s \in SUBSET N
      PROVE  FoldsLast(g, q, it, s) = IF s = {} THEN 0 ELSE Step(f, it[s \ {Max(s)}], q[Max(s)])
  <2>1. CASE s = {} BY <2>1 DEF FoldsLast
  <2>2. CASE s # {}
    <3>1. it[s \ {Max(s)}] \in Int BY <1>3
    <3>2. q[Max(s)] \in Int BY <1>1, <2>2, Elements
    <3>3. \A a, b \in Int : g[<<a, b>>] = Step(f, a, b) OBVIOUS
    <3>4. g[<<it[s \ {Max(s)}], q[Max(s)]>>] = Step(f, it[s \ {Max(s)}], q[Max(s)])
      <4> HIDE DEF g
      <4> QED BY <3>1, <3>2, <3>3
    <3> QED BY <2>2, <3>4 DEF FoldsLast
  <2> QED BY <2>1, <2>2
<1> HIDE DEF g, N
<1>5. it = [s \in SUBSET N |-> IF s = {} THEN 0 ELSE Step(f, it[s \ {Max(s)}], q[Max(s)])]
  BY <1>2, <1>4 DEF Folds
<1> QED BY <1>1, <1>5 DEF StepFold

\* Any function that does the step on the values the fold takes computes it.
LEMMA StepFolds ==
  ASSUME NEW f, NEW q \in Seq(Int), NEW it, StepFold(f, q, it), NEW D, NEW g,
         \A s \in SUBSET DOMAIN q : it[s] \in D,
         \A a \in D, b \in Int : g[<<a, b>>] = Step(f, a, b)
  PROVE  Folds(g, q, DOMAIN q, it)
<1>1. ASSUME NEW s \in SUBSET DOMAIN q
      PROVE  FoldsLast(g, q, it, s) = IF s = {} THEN 0 ELSE Step(f, it[s \ {Max(s)}], q[Max(s)])
  <2>1. CASE s = {} BY <2>1 DEF FoldsLast
  <2>2. CASE s # {}
    <3>1. q[Max(s)] \in Int BY <2>2, Elements
    <3>2. it[s \ {Max(s)}] \in D OBVIOUS
    <3>3. g[<<it[s \ {Max(s)}], q[Max(s)]>>] = Step(f, it[s \ {Max(s)}], q[Max(s)])
      BY <3>1, <3>2
    <3> QED BY <2>2, <3>3 DEF FoldsLast
  <2> QED BY <2>1, <2>2
<1> QED BY <1>1 DEF Folds, StepFold


\* An element more is a step more.
LEMMA StepAppend ==
  ASSUME NEW f, NEW q \in Seq(Int), NEW p \in Int,
         NEW it, StepFold(f, q, it), NEW jt, StepFold(f, Append(q, p), jt)
  PROVE  jt[DOMAIN Append(q, p)] = Step(f, it[DOMAIN q], p)
<1> DEFINE r == Append(q, p)
           n == Len(q)
<1>1. r \in Seq(Int) /\ DOMAIN q = 1 .. n /\ DOMAIN r = 1 .. (n + 1) /\ n \in Nat /\ r[n + 1] = p
      /\ AgreeOn(1 .. n, q, r)
  BY DEF AgreeOn
<1>2. StepFold(f, q, it) /\ StepFold(f, r, jt) OBVIOUS
<1> HIDE DEF r, n
<1> DEFINE D == {it[s] : s \in SUBSET DOMAIN q} \cup {jt[s] : s \in SUBSET DOMAIN r}
           g == [x \in D \X Int |-> Step(f, x[1], x[2])]
<1>4. \A a \in D, b \in Int : g[<<a, b>>] = Step(f, a, b)
  <2> HIDE DEF D
  <2> QED OBVIOUS
<1>5. \A s \in SUBSET DOMAIN q : it[s] \in D
  OBVIOUS
<1>6. \A s \in SUBSET DOMAIN r : jt[s] \in D
  OBVIOUS
<1> HIDE DEF D, g
<1>7. Folds(g, q, 1 .. n, it) /\ Folds(g, r, 1 .. (n + 1), jt)
  <2>1. Folds(g, q, DOMAIN q, it) BY <1>2, <1>4, <1>5, StepFolds
  <2>2. Folds(g, r, DOMAIN r, jt) BY <1>1, <1>2, <1>4, <1>6, StepFolds
  <2> QED BY <1>1, <2>1, <2>2
<1>8. jt[1 .. (n + 1)] = g[<<it[1 .. n], p>>] BY <1>1, <1>7, FoldsAppend
<1>9. it[1 .. n] \in D BY <1>1, <1>5
<1>10. g[<<it[1 .. n], p>>] = Step(f, it[1 .. n], p) BY <1>4, <1>9
<1> QED BY <1>1, <1>8, <1>10 DEF r

LEMMA TotalIs ==
  ASSUME NEW q \in Seq(Int)
  PROVE  \E it : StepFold("total", q, it) /\ Total(q) = it[DOMAIN q]
<1> DEFINE Fold(it) == it = [s \in SUBSET DOMAIN q |->
                               IF s = {} THEN 0
                               ELSE LET x == Max(s) IN it[s \ {x}] + q[x]]
           sum == CHOOSE it : Fold(it)
<1>1. ASSUME NEW it PROVE Fold(it) <=> StepFold("total", q, it)
  BY Zenon DEF StepFold, Step
<1>2. \E it : Fold(it)
  <2> HIDE DEF Fold
  <2> QED BY <1>1, StepFoldExists
<1>3. Fold(sum)
  <2> HIDE DEF Fold
  <2> QED BY <1>2
<1>4. Total(q) = sum[DOMAIN q]
  BY DEF Total, FoldLeft, MapThenFoldSet
<1> HIDE DEF sum, Fold
<1> QED BY <1>1, <1>3, <1>4

LEMMA TotalNone == Total(<<>>) = 0
<1>1. <<>> \in Seq(Int) /\ DOMAIN <<>> = {} OBVIOUS
<1>2. PICK it : StepFold("total", <<>>, it) /\ Total(<<>>) = it[{}] BY <1>1, TotalIs
<1>3. \A h : h = [s \in SUBSET {} |-> IF s = {} THEN 0 ELSE Step("total", it[s \ {Max(s)}], <<>>[Max(s)])]
        => h[{}] = 0
  OBVIOUS
<1> QED BY <1>1, <1>2, <1>3 DEF StepFold

LEMMA TotalAppend ==
  ASSUME NEW q \in Seq(Int), NEW p \in Int
  PROVE  Total(Append(q, p)) = Total(q) + p
<1>1. Append(q, p) \in Seq(Int) OBVIOUS
<1>2. PICK it : StepFold("total", q, it) /\ Total(q) = it[DOMAIN q] BY TotalIs
<1>3. PICK jt : StepFold("total", Append(q, p), jt) /\ Total(Append(q, p)) = jt[DOMAIN Append(q, p)]
  BY <1>1, TotalIs
<1>4. jt[DOMAIN Append(q, p)] = Step("total", it[DOMAIN q], p) BY <1>2, <1>3, StepAppend
<1> QED BY <1>2, <1>3, <1>4 DEF Step

LEMMA TrailingIs ==
  ASSUME NEW q \in Seq(Int)
  PROVE  \E it : StepFold("streak", q, it) /\ Trailing(q) = it[DOMAIN q]
<1> DEFINE Fold(it) == it = [s \in SUBSET DOMAIN q |->
                               IF s = {} THEN 0
                               ELSE LET x == Max(s) IN IF q[x] < 0 THEN it[s \ {x}] + 1 ELSE 0]
           sum == CHOOSE it : Fold(it)
<1>1. ASSUME NEW it PROVE Fold(it) <=> StepFold("streak", q, it)
  BY Zenon DEF StepFold, Step
<1>2. \E it : Fold(it)
  <2> HIDE DEF Fold
  <2> QED BY <1>1, StepFoldExists
<1>3. Fold(sum)
  <2> HIDE DEF Fold
  <2> QED BY <1>2
<1>4. Trailing(q) = sum[DOMAIN q]
  BY DEF Trailing, FoldLeft, MapThenFoldSet
<1> HIDE DEF sum, Fold
<1> QED BY <1>1, <1>3, <1>4

LEMMA TrailingNone == Trailing(<<>>) = 0
<1>1. <<>> \in Seq(Int) /\ DOMAIN <<>> = {} OBVIOUS
<1>2. PICK it : StepFold("streak", <<>>, it) /\ Trailing(<<>>) = it[{}] BY <1>1, TrailingIs
<1>3. \A h : h = [s \in SUBSET {} |-> IF s = {} THEN 0 ELSE Step("streak", it[s \ {Max(s)}], <<>>[Max(s)])]
        => h[{}] = 0
  OBVIOUS
<1> QED BY <1>1, <1>2, <1>3 DEF StepFold

LEMMA TrailingAppend ==
  ASSUME NEW q \in Seq(Int), NEW p \in Int
  PROVE  Trailing(Append(q, p)) = IF p < 0 THEN Trailing(q) + 1 ELSE 0
<1>1. Append(q, p) \in Seq(Int) OBVIOUS
<1>2. PICK it : StepFold("streak", q, it) /\ Trailing(q) = it[DOMAIN q] BY TrailingIs
<1>3. PICK jt : StepFold("streak", Append(q, p), jt) /\ Trailing(Append(q, p)) = jt[DOMAIN Append(q, p)]
  BY <1>1, TrailingIs
<1>4. jt[DOMAIN Append(q, p)] = Step("streak", it[DOMAIN q], p) BY <1>2, <1>3, StepAppend
<1> QED BY <1>2, <1>3, <1>4 DEF Step

-----------------------------------------------------------------------------
(* Types *)

ScalperInv == ScalperTypes /\ SlotsInv /\ DailyInv

LEMMA Bounds ==
  Symbol \subseteq Nat /\ Pnl \subseteq Int /\ MaxOpen \in Nat /\ LossBudget \in Nat /\ MaxLosses \in Nat
BY ScalperAssumption

LEMMA ResultsInt == ASSUME NEW q \in Seq(Pnl) PROVE q \in Seq(Int)
<1>1. Pnl \subseteq Int BY Bounds
<1>2. \A i \in 1 .. Len(q) : q[i] \in Pnl OBVIOUS
<1>3. \A i \in 1 .. Len(q) : q[i] \in Int BY <1>1, <1>2
<1>4. q = [i \in 1 .. Len(q) |-> q[i]] /\ Len(q) \in Nat OBVIOUS
<1> QED BY <1>3, <1>4

LEMMA IdleTypes == IdleScan \in ScanState /\ IdleMonitor \in MonitorState /\ NoRow \in Account
BY DEF IdleScan, ScanState, IdleMonitor, MonitorState, NoRow, Account

LEMMA ActiveTypes ==
  ASSUME ScalperTypes
  PROVE  /\ IsFiniteSet(ActiveIds) /\ Cardinality(ActiveIds) \in Nat
         /\ ActiveIds \subseteq DOMAIN positions /\ DOMAIN positions = 1 .. Len(positions)
         /\ Len(positions) \in Nat
<1>1. DOMAIN positions = 1 .. Len(positions) /\ Len(positions) \in Nat BY DEF ScalperTypes
<1>2. ActiveIds \subseteq DOMAIN positions BY DEF ActiveIds
<1>3. IsFiniteSet(DOMAIN positions) BY <1>1, IntervalFinite
<1>4. IsFiniteSet(ActiveIds) BY <1>2, <1>3, FS_Subset
<1> QED BY <1>1, <1>2, <1>4, FS_CardinalityType

\* A symbol per position, as long as no two positions are in one symbol.
LEMMA TakenSize ==
  ASSUME ScalperTypes
  PROVE  /\ IsFiniteSet(Taken) /\ Cardinality(Taken) \in Nat
         /\ OnePerSymbol => Cardinality(Taken) = Cardinality(ActiveIds)
<1> DEFINE f == [i \in ActiveIds |-> positions[i].symbol]
<1>1. f \in Surjection(ActiveIds, Taken) BY DEF Surjection, Taken
<1>2. IsFiniteSet(Taken) /\ (Cardinality(Taken) = Cardinality(ActiveIds) <=> f \in Injection(ActiveIds, Taken))
  <2>1. IsFiniteSet(ActiveIds) BY ActiveTypes
  <2> HIDE DEF f
  <2> QED BY <1>1, <2>1, FS_Surjection
<1>3. OnePerSymbol => f \in Injection(ActiveIds, Taken)
  BY DEF OnePerSymbol, Injection, IsInjective, Taken
<1> QED BY <1>2, <1>3, FS_CardinalityType

LEMMA ScanMoves ==
  ASSUME ScalperTypes, NEW k \in Scanner, NEW st \in ScanState, ScanTo(k, st),
         st.pc = "insert" => st.key \in Symbol \X Candle
  PROVE  /\ scan' \in [Scanner -> ScanState] /\ scan'[k] = st
         /\ \A j \in Scanner : scan'[j].pc = "insert" => scan'[j].key \in Symbol \X Candle
         /\ \A j \in Scanner \ {k} : scan'[j] = scan[j]
BY DEF ScalperTypes, ScanTo

LEMMA MonitorMoves ==
  ASSUME ScalperTypes, NEW m \in Monitor, NEW st \in MonitorState, MonitorTo(m, st),
         st.todo \subseteq DOMAIN positions
  PROVE  /\ monitor' \in [Monitor -> MonitorState] /\ monitor'[m] = st
         /\ \A j \in Monitor \ {m} : monitor'[j] = monitor[j]
         /\ \A j \in Monitor : monitor'[j].todo \subseteq DOMAIN positions
BY DEF ScalperTypes, MonitorTo

LEMMA InitInv == ScalperInit => ScalperInv
<1> SUFFICES ASSUME ScalperInit PROVE ScalperInv OBVIOUS
<1>1. ScalperTypes
  <2>1. positions \in Seq(Position) /\ results \in Seq(Pnl) BY DEF ScalperInit
  <2>2. monitor \in [Monitor -> MonitorState] BY IdleTypes DEF ScalperInit
  <2>3. scan \in [Scanner -> ScanState] BY IdleTypes DEF ScalperInit
  <2>4. \A m \in Monitor : monitor[m].todo \subseteq DOMAIN positions BY DEF ScalperInit, IdleMonitor
  <2>5. \A k \in Scanner : scan[k].pc # "insert" BY DEF ScalperInit, IdleScan
  <2> QED BY <2>1, <2>2, <2>3, <2>4, <2>5, IdleTypes DEF ScalperInit, ScalperTypes
<1>2. SlotsInv
  <2>1. ActiveIds = {} BY DEF ScalperInit, ActiveIds
  <2>2. Cardinality(ActiveIds) = 0 BY <2>1, FS_EmptySet
  <2> QED BY <2>1, <2>2, Bounds DEF ScalperInit, SlotsInv, OneScan, OnePerSymbol, Reserves, IdleScan
<1>3. DailyInv
  BY TotalNone, TrailingNone DEF ScalperInit, DailyInv, OneMonitor, Booked, Sums, IdleMonitor, NoRow
<1> QED BY <1>1, <1>2, <1>3 DEF ScalperInv

-----------------------------------------------------------------------------
(* What leaves one side alone *)

LEMMA SlotsKept ==
  ASSUME SlotsInv, UNCHANGED <<positions, scan, crowded>>
  PROVE  SlotsInv'
BY DEF SlotsInv, OneScan, OnePerSymbol, Reserves, Taken, ActiveIds

LEMMA DailyKept ==
  ASSUME DailyInv, UNCHANGED <<monitor, results, mixed>>,
         daily'.pnl = daily.pnl, daily'.losses = daily.losses
  PROVE  DailyInv'
<1>1. SUFFICES ASSUME ~ mixed PROVE DailyInv' BY DEF DailyInv
<1>2. ASSUME NEW m \in Monitor PROVE Booked(m)'
  <2>1. SUFFICES ASSUME monitor[m].pc \in {"read", "write"} PROVE Booked(m)' BY DEF Booked
  <2>2. PICK q \in Seq(Pnl) : /\ results = Append(q, monitor[m].pnl) /\ Sums(daily, q)
                              /\ monitor[m].pc = "write" => Sums(monitor[m].row, q)
    BY <1>1, <2>1 DEF DailyInv, Booked
  <2>3. daily'.pnl = Total(q) /\ daily'.losses = Trailing(q) BY <2>2 DEF Sums
  <2>4. monitor'[m].pc = "write" => monitor'[m].row.pnl = Total(q) /\ monitor'[m].row.losses = Trailing(q)
    BY <2>2 DEF Sums
  <2>5. results' = Append(q, monitor'[m].pnl) BY <2>2
  <2> QED BY <2>3, <2>4, <2>5 DEF Booked, Sums
<1>3. OneMonitor' BY <1>1 DEF DailyInv, OneMonitor
<1>4. ((\A m \in Monitor : monitor[m].pc \in {"idle", "loop"}) => Sums(daily, results))'
  <2>1. SUFFICES ASSUME \A m \in Monitor : monitor[m].pc \in {"idle", "loop"} PROVE Sums(daily, results)'
    OBVIOUS
  <2>2. Sums(daily, results) BY <1>1, <2>1 DEF DailyInv
  <2> QED BY <2>2 DEF Sums
<1> QED BY <1>2, <1>3, <1>4 DEF DailyInv

\* A scan that runs alone does what keeps its reserve.
LEMMA ScanStep ==
  ASSUME ScalperTypes, SlotsInv, NEW k \in Scanner, scan[k].pc # "idle",
         UNCHANGED <<positions, crowded>>, \A j \in Scanner \ {k} : scan'[j] = scan[j],
         ~ crowded => Reserves(k)'
  PROVE  SlotsInv'
<1>1. ActiveIds' = ActiveIds /\ Taken' = Taken BY DEF ActiveIds, Taken
<1>2. SUFFICES ASSUME ~ crowded PROVE SlotsInv' BY DEF SlotsInv
<1>3. ASSUME NEW j \in Scanner PROVE Reserves(j)'
  <2>1. CASE j = k BY <1>2, <2>1
  <2>2. CASE j # k BY <1>1, <1>2, <2>2 DEF SlotsInv, Reserves
  <2> QED BY <2>1, <2>2
<1>4. OneScan' BY <1>2 DEF SlotsInv, OneScan
<1>5. OnePerSymbol' /\ Cardinality(ActiveIds') <= MaxOpen BY <1>1, <1>2 DEF SlotsInv, OnePerSymbol
<1> QED BY <1>3, <1>4, <1>5 DEF SlotsInv

-----------------------------------------------------------------------------
(* Every step keeps the types *)

LEMMA ScanTypesKept ==
  ASSUME ScalperTypes, NEW k \in Scanner, NEW st \in ScanState, ScanTo(k, st),
         st.pc = "insert" => st.key \in Symbol \X Candle,
         UNCHANGED <<monitor, results, mixed>>,
         positions' \in Seq(Position), DOMAIN positions \subseteq DOMAIN positions',
         daily' \in Account, crowded' \in BOOLEAN
  PROVE  ScalperTypes'
<1>1. scan' \in [Scanner -> ScanState]
      /\ \A j \in Scanner : scan'[j].pc = "insert" => scan'[j].key \in Symbol \X Candle
  BY ScanMoves
<1> QED BY <1>1 DEF ScalperTypes

LEMMA MonitorTypesKept ==
  ASSUME ScalperTypes, NEW m \in Monitor, NEW st \in MonitorState, MonitorTo(m, st),
         st.todo \subseteq DOMAIN positions,
         UNCHANGED <<scan, crowded>>,
         positions' \in Seq(Position), DOMAIN positions' = DOMAIN positions,
         daily' \in Account, results' \in Seq(Pnl), mixed' \in BOOLEAN
  PROVE  ScalperTypes'
<1>1. monitor' \in [Monitor -> MonitorState] /\ \A j \in Monitor : monitor'[j].todo \subseteq DOMAIN positions
  BY MonitorMoves
<1> QED BY <1>1 DEF ScalperTypes

LEMMA OpenTypes ==
  ASSUME ScalperTypes, NEW k \in Scanner, scan[k].key \in Symbol \X Candle
  PROVE  /\ Append(positions, NewPosition(k)) \in Seq(Position)
         /\ DOMAIN positions \subseteq DOMAIN Append(positions, NewPosition(k))
<1>1. NewPosition(k) \in Position BY DEF NewPosition, Position
<1>2. positions \in Seq(Position) BY DEF ScalperTypes
<1> QED BY <1>1, <1>2

LEMMA ScanTypeStep ==
  ASSUME ScalperTypes, NEW k \in Scanner,
         StartScan(k) \/ ReadSlots(k) \/ ClaimEntryIntent(k) \/ ClaimFails(k) \/ StopScan(k)
  PROVE  ScalperTypes'
<1>1. scan[k] \in ScanState /\ positions \in Seq(Position) /\ daily \in Account /\ crowded \in BOOLEAN
  BY DEF ScalperTypes
<1>2. CASE StartScan(k)
  <2>1. crowded' \in BOOLEAN BY <1>2 DEF StartScan
  <2>2. CASE UNCHANGED scan /\ daily' = [daily EXCEPT !.locked = TRUE]
    <3>1. daily' \in Account BY <1>1, <2>2 DEF Account
    <3> QED BY <1>2, <2>1, <2>2, <3>1 DEF ScalperTypes, StartScan
  <2>3. CASE ScanTo(k, [scan[k] EXCEPT !.pc = "slots"]) /\ UNCHANGED daily
    <3>1. [scan[k] EXCEPT !.pc = "slots"] \in ScanState /\ [scan[k] EXCEPT !.pc = "slots"].pc # "insert"
      BY <1>1 DEF ScanState
    <3> QED BY <1>1, <1>2, <2>1, <2>3, <3>1, ScanTypesKept DEF StartScan
  <2> QED BY <1>2, <2>2, <2>3 DEF StartScan
<1>3. CASE ReadSlots(k)
  <2>1. PICK blind \in BOOLEAN :
          LET busy == IF blind THEN {} ELSE {positions[i].symbol : i \in ActiveIds}
          IN  /\ IF openSlots(busy) <= 0 THEN EndScan(k)
                 ELSE ScanTo(k, [scan[k] EXCEPT !.pc = "loop", !.room = openSlots(busy),
                                                !.todo = Symbol \ busy])
              /\ crowded' = (crowded \/ (blind /\ ActiveIds # {}))
    BY <1>3 DEF ReadSlots
  <2> DEFINE busy == IF blind THEN {} ELSE Taken
  <2>2. openSlots(busy) \in Int
    <3>1. Cardinality(busy) \in Int BY TakenSize, FS_EmptySet
    <3> QED BY <3>1, Bounds DEF openSlots
  <2>3. [scan[k] EXCEPT !.pc = "loop", !.room = openSlots(busy), !.todo = Symbol \ busy] \in ScanState
    BY <1>1, <2>2 DEF ScanState
  <2>4. \E st \in ScanState : ScanTo(k, st) /\ st.pc # "insert"
    <3>1. IdleScan.pc # "insert" BY DEF IdleScan
    <3>2. [scan[k] EXCEPT !.pc = "loop", !.room = openSlots(busy), !.todo = Symbol \ busy].pc # "insert"
      BY <1>1 DEF ScanState
    <3>3. \/ EndScan(k)
          \/ ScanTo(k, [scan[k] EXCEPT !.pc = "loop", !.room = openSlots(busy), !.todo = Symbol \ busy])
      BY <2>1 DEF Taken
    <3> HIDE DEF busy
    <3> QED BY <2>3, <3>1, <3>2, <3>3, IdleTypes DEF EndScan
  <2>5. crowded' \in BOOLEAN BY <2>1
  <2> QED BY <1>1, <1>3, <2>4, <2>5, ScanTypesKept DEF ReadSlots, accounts
<1>4. CASE ClaimEntryIntent(k)
  <2>1. PICK s \in scan[k].todo : \E c \in Candle :
          LET later == {t \in scan[k].todo : t > s}
          IN  \/ ScanTo(k, [scan[k] EXCEPT !.todo = later])
              \/ ScanTo(k, [scan[k] EXCEPT !.pc = "insert", !.key = <<s, c>>, !.todo = later])
    BY <1>4 DEF ClaimEntryIntent
  <2>2. PICK c \in Candle :
          LET later == {t \in scan[k].todo : t > s}
          IN  \/ ScanTo(k, [scan[k] EXCEPT !.todo = later])
              \/ ScanTo(k, [scan[k] EXCEPT !.pc = "insert", !.key = <<s, c>>, !.todo = later])
    BY <2>1
  <2> DEFINE later == {t \in scan[k].todo : t > s}
  <2>3. scan[k].todo \subseteq Symbol BY <1>1 DEF ScanState
  <2>4. later \subseteq Symbol /\ s \in Symbol BY <2>3
  <2>5. [scan[k] EXCEPT !.todo = later] \in ScanState BY <1>1, <2>4 DEF ScanState
  <2>6. [scan[k] EXCEPT !.pc = "insert", !.key = <<s, c>>, !.todo = later] \in ScanState
    BY <1>1, <2>4 DEF ScanState
  <2>7. \E st \in ScanState : ScanTo(k, st) /\ (st.pc = "insert" => st.key \in Symbol \X Candle)
    <3>1. [scan[k] EXCEPT !.todo = later].pc # "insert" BY <1>1, <1>4 DEF ScanState, ClaimEntryIntent, Looping
    <3>2. [scan[k] EXCEPT !.pc = "insert", !.key = <<s, c>>, !.todo = later].key \in Symbol \X Candle
      BY <1>1, <2>4 DEF ScanState
    <3> QED BY <2>2, <2>5, <2>6, <3>1, <3>2
  <2> QED BY <1>1, <1>4, <2>7, ScanTypesKept DEF ClaimEntryIntent, witnesses
<1>5. CASE ClaimFails(k)
  <2>1. PICK s \in scan[k].todo : ScanTo(k, [scan[k] EXCEPT !.todo = {t \in scan[k].todo : t > s}])
    BY <1>5 DEF ClaimFails
  <2>2. [scan[k] EXCEPT !.todo = {t \in scan[k].todo : t > s}] \in ScanState BY <1>1 DEF ScanState
  <2>3. [scan[k] EXCEPT !.todo = {t \in scan[k].todo : t > s}].pc # "insert"
    BY <1>1, <1>5 DEF ScanState, ClaimFails, Looping
  <2> QED BY <1>1, <1>5, <2>1, <2>2, <2>3, ScanTypesKept DEF ClaimFails, accounts, witnesses
<1>6. CASE StopScan(k)
  <2>1. IdleScan.pc # "insert" BY DEF IdleScan
  <2> QED BY <2>1, <1>1, <1>6, IdleTypes, ScanTypesKept DEF StopScan, EndScan, accounts, witnesses
<1> QED BY <1>2, <1>3, <1>4, <1>5, <1>6

LEMMA OpenTypesKept ==
  ASSUME ScalperTypes, NEW k \in Scanner, OpenPosition(k) \/ OpenFails(k)
  PROVE  ScalperTypes'
<1>1. scan[k] \in ScanState /\ positions \in Seq(Position) /\ daily \in Account /\ crowded \in BOOLEAN
  BY DEF ScalperTypes
<1>2. scan[k].key \in Symbol \X Candle BY DEF ScalperTypes, OpenPosition, OpenFails
<1>3. [scan[k] EXCEPT !.pc = "loop", !.key = None, !.room = @ - 1] \in ScanState
  <2>1. scan[k].room - 1 \in Int BY <1>1 DEF ScanState
  <2> QED BY <1>1, <2>1 DEF ScanState
<1>4. [scan[k] EXCEPT !.pc = "loop", !.key = None] \in ScanState BY <1>1 DEF ScanState
<1>5. \E st \in ScanState : ScanTo(k, st) /\ st.pc # "insert"
  <2>1. [scan[k] EXCEPT !.pc = "loop", !.key = None, !.room = @ - 1].pc # "insert"
        /\ [scan[k] EXCEPT !.pc = "loop", !.key = None].pc # "insert"
    BY <1>1 DEF ScanState
  <2> QED BY <1>3, <1>4, <2>1 DEF OpenPosition, OpenFails
<1>6. positions' \in Seq(Position) /\ DOMAIN positions \subseteq DOMAIN positions'
  BY <1>1, <1>2, OpenTypes DEF OpenPosition, OpenFails
<1>7. crowded' \in BOOLEAN BY <1>1 DEF OpenPosition, OpenFails, witnesses
<1> QED BY <1>1, <1>5, <1>6, <1>7, ScanTypesKept DEF OpenPosition, OpenFails, witnesses

LEMMA MonitorTypeStep ==
  ASSUME ScalperTypes, NEW m \in Monitor,
         \/ StartMonitor(m) \/ LeavePosition(m) \/ ClosePaper(m)
         \/ ReadDaily(m) \/ WriteDaily(m) \/ StopMonitor(m)
  PROVE  ScalperTypes'
<1>1. /\ monitor[m] \in MonitorState /\ monitor[m].todo \subseteq DOMAIN positions
      /\ positions \in Seq(Position) /\ daily \in Account /\ results \in Seq(Pnl) /\ mixed \in BOOLEAN
  BY DEF ScalperTypes
<1>2. \A b \in BOOLEAN : Book(b) => mixed' \in BOOLEAN /\ results' \in Seq(Pnl)
  BY <1>1 DEF Book
<1>3. CASE StartMonitor(m)
  <2>1. [monitor[m] EXCEPT !.pc = "loop", !.todo = ActiveIds] \in MonitorState
    <3>1. ActiveIds \subseteq Nat BY ActiveTypes
    <3> QED BY <1>1, <3>1 DEF MonitorState
  <2>2. [monitor[m] EXCEPT !.pc = "loop", !.todo = ActiveIds].todo \subseteq DOMAIN positions
    BY <1>1, ActiveTypes DEF MonitorState
  <2>3. mixed' \in BOOLEAN /\ results' \in Seq(Pnl) BY <1>2, <1>3 DEF StartMonitor
  <2> QED BY <1>1, <1>3, <2>1, <2>2, <2>3, MonitorTypesKept DEF StartMonitor, accounts
<1>4. CASE LeavePosition(m)
  <2>1. PICK i \in monitor[m].todo : MonitorTo(m, [monitor[m] EXCEPT !.todo = @ \ {i}])
    BY <1>4 DEF LeavePosition
  <2>2. [monitor[m] EXCEPT !.todo = @ \ {i}] \in MonitorState
        /\ [monitor[m] EXCEPT !.todo = @ \ {i}].todo \subseteq DOMAIN positions
    BY <1>1 DEF MonitorState
  <2> QED BY <1>1, <1>4, <2>1, <2>2, MonitorTypesKept DEF LeavePosition, accounts, witnesses
<1>5. CASE ClosePaper(m)
  <2>1. PICK i \in monitor[m].todo, p \in Pnl :
          /\ positions' = [positions EXCEPT ![i].status = "CLOSED"]
          /\ MonitorTo(m, [monitor[m] EXCEPT !.pc = "read", !.pnl = p, !.todo = @ \ {i}])
          /\ results' = IF mixed THEN <<>> ELSE Append(results, p)
    BY <1>5 DEF ClosePaper
  <2>2. [monitor[m] EXCEPT !.pc = "read", !.pnl = p, !.todo = @ \ {i}] \in MonitorState
        /\ [monitor[m] EXCEPT !.pc = "read", !.pnl = p, !.todo = @ \ {i}].todo \subseteq DOMAIN positions
    BY <1>1, Bounds DEF MonitorState
  <2>3. positions' \in Seq(Position) /\ DOMAIN positions' = DOMAIN positions
    <3>1. i \in DOMAIN positions BY <1>1
    <3>2. positions[i] \in Position BY <1>1, <3>1
    <3>3. [positions[i] EXCEPT !.status = "CLOSED"] \in Position BY <3>2 DEF Position
    <3> QED BY <1>1, <2>1, <3>1, <3>3
  <2>4. results' \in Seq(Pnl) BY <1>1, <2>1
  <2> QED BY <1>1, <1>5, <2>1, <2>2, <2>3, <2>4, MonitorTypesKept DEF ClosePaper
<1>6. CASE ReadDaily(m)
  <2>1. PICK r \in {daily, NoRow} : MonitorTo(m, [monitor[m] EXCEPT !.pc = "write", !.row = r]) /\ Book(r # daily)
    BY <1>6 DEF ReadDaily
  <2>2. [monitor[m] EXCEPT !.pc = "write", !.row = r] \in MonitorState
        /\ [monitor[m] EXCEPT !.pc = "write", !.row = r].todo \subseteq DOMAIN positions
    BY <1>1, IdleTypes DEF MonitorState
  <2>3. mixed' \in BOOLEAN /\ results' \in Seq(Pnl) BY <1>2, <2>1
  <2> QED BY <1>1, <1>6, <2>1, <2>2, <2>3, MonitorTypesKept DEF ReadDaily, accounts
<1>7. CASE WriteDaily(m)
  <2>1. [monitor[m] EXCEPT !.pc = "loop", !.pnl = 0, !.row = NoRow] \in MonitorState
        /\ [monitor[m] EXCEPT !.pc = "loop", !.pnl = 0, !.row = NoRow].todo \subseteq DOMAIN positions
    <3>1. NoRow \in Account /\ 0 \in Int BY IdleTypes
    <3> QED BY <1>1, <3>1 DEF MonitorState
  <2>2. monitor[m].row.pnl + monitor[m].pnl \in Int /\ ConsecutiveLosses(monitor[m].row, monitor[m].pnl) \in Int
    BY <1>1 DEF MonitorState, Account, ConsecutiveLosses
  <2>3. daily' \in Account
    BY <1>1, <1>7, <2>2 DEF WriteDaily, Account
  <2>4. mixed' \in BOOLEAN /\ results' \in Seq(Pnl) BY <1>1, <1>2, <1>7 DEF WriteDaily
  <2> QED BY <1>1, <1>7, <2>1, <2>3, <2>4, MonitorTypesKept DEF WriteDaily
<1>8. CASE StopMonitor(m)
  <2>1. mixed' \in BOOLEAN /\ results' \in Seq(Pnl) BY <1>1, <1>8 DEF StopMonitor, Book
  <2>2. IdleMonitor.todo \subseteq DOMAIN positions BY DEF IdleMonitor
  <2> QED BY <1>1, <1>8, <2>1, <2>2, IdleTypes, MonitorTypesKept DEF StopMonitor, accounts
<1> QED BY <1>3, <1>4, <1>5, <1>6, <1>7, <1>8

-----------------------------------------------------------------------------
(* Every step keeps the slots *)

LEMMA StartScanSlots ==
  ASSUME ScalperTypes, SlotsInv, NEW k \in Scanner, StartScan(k)
  PROVE  SlotsInv'
<1>1. scan[k] \in ScanState BY DEF ScalperTypes
<1>2. crowded' = (crowded \/ Overlaps(k)) /\ UNCHANGED positions BY DEF StartScan
<1>3. CASE UNCHANGED scan
  <2>1. ActiveIds' = ActiveIds /\ Taken' = Taken BY <1>2 DEF ActiveIds, Taken
  <2> QED BY <1>2, <1>3, <2>1 DEF SlotsInv, OneScan, OnePerSymbol, Reserves
<1>4. CASE ScanTo(k, [scan[k] EXCEPT !.pc = "slots"])
  <2>1. ActiveIds' = ActiveIds /\ Taken' = Taken BY <1>2 DEF ActiveIds, Taken
  <2>2. SUFFICES ASSUME ~ crowded, ~ Overlaps(k) PROVE SlotsInv' BY <1>2 DEF SlotsInv
  <2>3. scan'[k].pc = "slots" /\ \A j \in Scanner \ {k} : scan'[j] = scan[j]
    BY <1>1, <1>4 DEF ScanTo, ScalperTypes, ScanState
  <2>4. \A j \in Scanner \ {k} : scan[j].pc = "idle" BY <2>2 DEF Overlaps
  <2>5. OneScan' BY <2>3, <2>4 DEF OneScan
  <2>6. ASSUME NEW j \in Scanner PROVE Reserves(j)'
    BY <2>3, <2>4 DEF Reserves
  <2>7. OnePerSymbol' /\ Cardinality(ActiveIds') <= MaxOpen
    BY <1>2, <2>1, <2>2 DEF SlotsInv, OnePerSymbol
  <2> QED BY <2>5, <2>6, <2>7 DEF SlotsInv
<1> QED BY <1>3, <1>4 DEF StartScan

LEMMA FreeSlots ==
  ASSUME ScalperTypes, SlotsInv, NEW k \in Scanner, ReadSlots(k)
  PROVE  SlotsInv'
<1>1. scan[k] \in ScanState /\ scan[k].pc = "slots" /\ UNCHANGED positions
  BY DEF ScalperTypes, ReadSlots, accounts
<1>2. PICK blind \in BOOLEAN :
        LET busy == IF blind THEN {} ELSE {positions[i].symbol : i \in ActiveIds}
        IN  /\ IF openSlots(busy) <= 0 THEN EndScan(k)
               ELSE ScanTo(k, [scan[k] EXCEPT !.pc = "loop", !.room = openSlots(busy),
                                              !.todo = Symbol \ busy])
            /\ crowded' = (crowded \/ (blind /\ ActiveIds # {}))
  BY DEF ReadSlots
<1>3. SUFFICES ASSUME ~ crowded, ~ crowded' PROVE SlotsInv' BY <1>2 DEF SlotsInv
<1> DEFINE busy == IF blind THEN {} ELSE Taken
<1>4. busy = Taken BY <1>2, <1>3 DEF Taken
<1>5. OnePerSymbol /\ Cardinality(ActiveIds) <= MaxOpen BY <1>3 DEF SlotsInv
<1>6. Cardinality(Taken) = Cardinality(ActiveIds) /\ Cardinality(ActiveIds) \in Nat
  BY <1>5, TakenSize, ActiveTypes
<1>7. \/ openSlots(Taken) <= 0 /\ EndScan(k)
      \/ /\ ~ openSlots(Taken) <= 0
         /\ ScanTo(k, [scan[k] EXCEPT !.pc = "loop", !.room = openSlots(Taken), !.todo = Symbol \ Taken])
  BY <1>2, <1>4 DEF Taken
<1>8. \A j \in Scanner \ {k} : scan'[j] = scan[j] BY <1>7 DEF EndScan, ScanTo, ScalperTypes
<1>9. Reserves(k)'
  <2>1. ActiveIds' = ActiveIds /\ Taken' = Taken BY <1>1 DEF ActiveIds, Taken
  <2>2. CASE EndScan(k)
    <3>1. scan'[k] = IdleScan BY <2>2 DEF EndScan, ScanTo, ScalperTypes
    <3> QED BY <3>1 DEF Reserves, IdleScan
  <2>3. CASE /\ ~ openSlots(Taken) <= 0
             /\ ScanTo(k, [scan[k] EXCEPT !.pc = "loop", !.room = openSlots(Taken), !.todo = Symbol \ Taken])
    <3>1. scan'[k].pc = "loop" /\ scan'[k].room = openSlots(Taken) /\ scan'[k].todo = Symbol \ Taken
      BY <1>1, <2>3 DEF ScanTo, ScalperTypes, ScanState
    <3>2. openSlots(Taken) \in Nat /\ Cardinality(ActiveIds) + openSlots(Taken) <= MaxOpen
      BY <1>6, <2>3, Bounds DEF openSlots
    <3> QED BY <2>1, <3>1, <3>2 DEF Reserves
  <2> QED BY <1>7, <2>2, <2>3
<1>10. UNCHANGED <<positions, crowded>>
  <2>1. crowded \in BOOLEAN /\ crowded' \in BOOLEAN BY <1>2 DEF ScalperTypes
  <2>2. crowded' = crowded BY <1>3, <2>1
  <2> QED BY <1>1, <2>2
<1> QED BY <1>1, <1>8, <1>9, <1>10, ScanStep

LEMMA ClaimSlots ==
  ASSUME ScalperTypes, SlotsInv, NEW k \in Scanner,
         ClaimEntryIntent(k) \/ ClaimFails(k) \/ StopScan(k)
  PROVE  SlotsInv'
<1>1. scan[k] \in ScanState /\ UNCHANGED <<positions, crowded>>
  BY DEF ScalperTypes, ClaimEntryIntent, ClaimFails, StopScan, accounts, witnesses
<1>2. scan[k].pc # "idle" BY DEF ClaimEntryIntent, ClaimFails, StopScan, Looping
<1>3. ActiveIds' = ActiveIds /\ Taken' = Taken BY <1>1 DEF ActiveIds, Taken
<1>4. SUFFICES ASSUME ~ crowded
               PROVE  (\A j \in Scanner \ {k} : scan'[j] = scan[j]) /\ Reserves(k)'
  BY <1>1, <1>2, ScanStep DEF SlotsInv
<1>5. Reserves(k) BY <1>4 DEF SlotsInv
<1>6. CASE ClaimEntryIntent(k)
  <2>1. PICK s \in scan[k].todo : \E c \in Candle :
          LET later == {t \in scan[k].todo : t > s}
          IN  \/ ScanTo(k, [scan[k] EXCEPT !.todo = later])
              \/ ScanTo(k, [scan[k] EXCEPT !.pc = "insert", !.key = <<s, c>>, !.todo = later])
    BY <1>6 DEF ClaimEntryIntent
  <2>2. PICK c \in Candle :
          LET later == {t \in scan[k].todo : t > s}
          IN  \/ ScanTo(k, [scan[k] EXCEPT !.todo = later])
              \/ ScanTo(k, [scan[k] EXCEPT !.pc = "insert", !.key = <<s, c>>, !.todo = later])
    BY <2>1
  <2> DEFINE later == {t \in scan[k].todo : t > s}
  <2>3. later \subseteq scan[k].todo /\ s \notin later
    <3>1. s \in Nat BY <1>1, Bounds DEF ScanState
    <3> QED BY <3>1
  <2>4. scan[k].pc = "loop" /\ scan[k].room > 0 BY <1>6 DEF ClaimEntryIntent, Looping
  <2>5. scan[k].room \in Nat /\ Cardinality(ActiveIds) + scan[k].room <= MaxOpen
        /\ scan[k].todo \cap Taken = {}
    BY <1>5, <2>4 DEF Reserves
  <2>6. CASE ScanTo(k, [scan[k] EXCEPT !.todo = later])
    <3> HIDE DEF later
    <3>1. scan'[k].pc = "loop" /\ scan'[k].room = scan[k].room /\ scan'[k].todo = later
          /\ \A j \in Scanner \ {k} : scan'[j] = scan[j]
      BY <1>1, <2>4, <2>6 DEF ScanTo, ScalperTypes, ScanState
    <3> QED BY <1>3, <2>3, <2>5, <3>1 DEF Reserves
  <2>7. CASE ScanTo(k, [scan[k] EXCEPT !.pc = "insert", !.key = <<s, c>>, !.todo = later])
    <3> HIDE DEF later
    <3>1. scan'[k].pc = "insert" /\ scan'[k].room = scan[k].room /\ scan'[k].todo = later
          /\ scan'[k].key = <<s, c>>
          /\ \A j \in Scanner \ {k} : scan'[j] = scan[j]
      BY <1>1, <2>7 DEF ScanTo, ScalperTypes, ScanState
    <3>2. scan'[k].key[1] = s BY <3>1
    <3> QED BY <1>3, <2>3, <2>4, <2>5, <3>1, <3>2 DEF Reserves
  <2> QED BY <2>2, <2>6, <2>7
<1>7. CASE ClaimFails(k)
  <2>1. PICK s \in scan[k].todo : ScanTo(k, [scan[k] EXCEPT !.todo = {t \in scan[k].todo : t > s}])
    BY <1>7 DEF ClaimFails
  <2>2. scan[k].pc = "loop" BY <1>7 DEF ClaimFails, Looping
  <2>3. scan'[k].pc = "loop" /\ scan'[k].room = scan[k].room /\ scan'[k].todo \subseteq scan[k].todo
        /\ \A j \in Scanner \ {k} : scan'[j] = scan[j]
    BY <1>1, <2>1, <2>2 DEF ScanTo, ScalperTypes, ScanState
  <2> QED BY <1>3, <1>5, <2>2, <2>3 DEF Reserves
<1>8. CASE StopScan(k)
  <2>1. scan'[k] = IdleScan /\ \A j \in Scanner \ {k} : scan'[j] = scan[j]
    BY <1>8 DEF StopScan, EndScan, ScanTo, ScalperTypes
  <2> QED BY <2>1 DEF Reserves, IdleScan
<1> QED BY <1>6, <1>7, <1>8

\* A position more: its symbol was reserved by the scan that runs alone.
LEMMA OpenSlots ==
  ASSUME ScalperTypes, SlotsInv, NEW k \in Scanner, OpenPosition(k)
  PROVE  SlotsInv'
<1>1. /\ scan[k] \in ScanState /\ scan[k].pc = "insert" /\ positions \in Seq(Position)
      /\ positions' = Append(positions, NewPosition(k)) /\ crowded' = crowded
      /\ scan[k].key \in Symbol \X Candle
  BY DEF ScalperTypes, OpenPosition, witnesses
<1>2. SUFFICES ASSUME ~ crowded PROVE SlotsInv' BY <1>1 DEF SlotsInv
<1>3. Reserves(k) /\ OnePerSymbol /\ OneScan BY <1>2 DEF SlotsInv
<1> DEFINE n == Len(positions) + 1
<1>4. /\ n \notin ActiveIds /\ DOMAIN positions' = DOMAIN positions \cup {n}
      /\ positions'[n] = NewPosition(k)
      /\ \A i \in DOMAIN positions : positions'[i] = positions[i] /\ i # n
  <2>1. DOMAIN positions = 1 .. Len(positions) /\ Len(positions) \in Nat BY <1>1
  <2>2. NewPosition(k) \in Position BY <1>1 DEF NewPosition, Position
  <2>3. n \notin ActiveIds BY <2>1 DEF ActiveIds
  <2>4. DOMAIN positions' = 1 .. n BY <1>1
  <2>5. 1 .. n = 1 .. Len(positions) \cup {n} BY <2>1
  <2>6. positions'[n] = NewPosition(k) BY <1>1
  <2>7. \A i \in 1 .. Len(positions) : positions'[i] = positions[i] /\ i # n BY <1>1
  <2> QED BY <2>1, <2>3, <2>4, <2>5, <2>6, <2>7
<1> HIDE DEF n
<1>5. NewPosition(k).status = "ACTIVE" /\ NewPosition(k).symbol = scan[k].key[1] BY DEF NewPosition
<1>6. ActiveIds' = ActiveIds \cup {n} BY <1>4, <1>5 DEF ActiveIds
<1>7. Taken' = Taken \cup {scan[k].key[1]}
  <2>1. \A i \in ActiveIds : positions'[i] = positions[i] BY <1>4 DEF ActiveIds
  <2>2. Taken' = {positions'[i].symbol : i \in ActiveIds'} BY DEF Taken
  <2> QED BY <1>4, <1>5, <1>6, <2>1, <2>2 DEF Taken
<1>8. Cardinality(ActiveIds') = Cardinality(ActiveIds) + 1
  BY <1>4, <1>6, ActiveTypes, FS_AddElement
<1>9. /\ scan[k].room \in Nat /\ scan[k].room > 0 /\ Cardinality(ActiveIds) + scan[k].room <= MaxOpen
      /\ scan[k].todo \cap Taken = {} /\ scan[k].key[1] \notin Taken \cup scan[k].todo
  BY <1>1, <1>3 DEF Reserves
<1>10. /\ scan'[k].pc = "loop" /\ scan'[k].room = scan[k].room - 1 /\ scan'[k].todo = scan[k].todo
       /\ \A j \in Scanner \ {k} : scan'[j] = scan[j]
  BY <1>1 DEF OpenPosition, ScanTo, ScalperTypes, ScanState
<1>11. \A j \in Scanner \ {k} : scan[j].pc = "idle" BY <1>1, <1>3 DEF OneScan
<1>12. OneScan' BY <1>10, <1>11 DEF OneScan
<1>13. OnePerSymbol'
  <2>1. SUFFICES ASSUME NEW i \in ActiveIds', NEW j \in ActiveIds',
                        positions'[i].symbol = positions'[j].symbol
                 PROVE  i = j
    BY DEF OnePerSymbol
  <2>2. \A h \in ActiveIds : positions'[h] = positions[h] /\ positions[h].symbol \in Taken
    BY <1>4 DEF ActiveIds, Taken
  <2> QED BY <1>3, <1>4, <1>5, <1>6, <1>9, <2>1, <2>2 DEF OnePerSymbol
<1>14. ASSUME NEW j \in Scanner PROVE Reserves(j)'
  <2>1. CASE j = k
    <3>1. scan'[k].room \in Nat /\ Cardinality(ActiveIds') + scan'[k].room <= MaxOpen
      BY <1>8, <1>9, <1>10, ActiveTypes, Bounds
    <3> QED BY <1>7, <1>9, <1>10, <2>1, <3>1 DEF Reserves
  <2>2. CASE j # k BY <1>10, <1>11, <2>2 DEF Reserves
  <2> QED BY <2>1, <2>2
<1>15. Cardinality(ActiveIds') <= MaxOpen BY <1>8, <1>9, ActiveTypes, Bounds
<1> QED BY <1>12, <1>13, <1>14, <1>15 DEF SlotsInv

LEMMA OpenFailsSlots ==
  ASSUME ScalperTypes, SlotsInv, NEW k \in Scanner, OpenFails(k)
  PROVE  SlotsInv'
<1>1. SUFFICES ASSUME ~ crowded, UNCHANGED <<positions, crowded>> PROVE SlotsInv'
  BY DEF SlotsInv, OpenFails
<1>2. scan[k] \in ScanState /\ scan[k].pc = "insert" BY DEF ScalperTypes, OpenFails
<1>3. /\ scan'[k].pc = "loop" /\ scan'[k].room = scan[k].room /\ scan'[k].todo = scan[k].todo
      /\ \A j \in Scanner \ {k} : scan'[j] = scan[j]
  BY <1>2 DEF OpenFails, ScanTo, ScalperTypes, ScanState
<1>4. ActiveIds' = ActiveIds /\ Taken' = Taken BY <1>1 DEF ActiveIds, Taken
<1>5. Reserves(k)' BY <1>1, <1>2, <1>3, <1>4 DEF SlotsInv, Reserves
<1> QED BY <1>1, <1>2, <1>3, <1>5, ScanStep

\* A close frees its slot, whatever scan runs.
LEMMA CloseSlots ==
  ASSUME ScalperTypes, SlotsInv, NEW m \in Monitor, ClosePaper(m)
  PROVE  SlotsInv'
<1>1. PICK i \in monitor[m].todo : positions' = [positions EXCEPT ![i].status = "CLOSED"]
  BY DEF ClosePaper
<1>2. positions \in Seq(Position) /\ i \in DOMAIN positions /\ UNCHANGED <<scan, crowded>>
  BY DEF ScalperTypes, ClosePaper
<1>3. /\ DOMAIN positions' = DOMAIN positions /\ positions'[i].status = "CLOSED"
      /\ \A j \in DOMAIN positions : positions'[j].symbol = positions[j].symbol
      /\ \A j \in DOMAIN positions \ {i} : positions'[j] = positions[j]
  <2>1. \A j \in DOMAIN positions : positions[j] \in Position BY <1>2
  <2> QED BY <1>1, <1>2, <2>1 DEF Position
<1>4. ActiveIds' = ActiveIds \ {i} BY <1>3 DEF ActiveIds
<1>5. Taken' \subseteq Taken
  <2>1. Taken' = {positions'[j].symbol : j \in ActiveIds'} BY DEF Taken
  <2> QED BY <1>3, <1>4, <2>1 DEF Taken, ActiveIds
<1>6. Cardinality(ActiveIds') <= Cardinality(ActiveIds) /\ Cardinality(ActiveIds') \in Nat
  BY <1>4, ActiveTypes, FS_Subset, FS_CardinalityType
<1>7. SUFFICES ASSUME ~ crowded PROVE SlotsInv' BY <1>2 DEF SlotsInv
<1>8. OneScan' BY <1>2, <1>7 DEF SlotsInv, OneScan
<1>9. OnePerSymbol' BY <1>3, <1>4, <1>7 DEF SlotsInv, OnePerSymbol, ActiveIds
<1>10. Cardinality(ActiveIds') <= MaxOpen BY <1>6, <1>7, ActiveTypes, Bounds DEF SlotsInv
<1>11. ASSUME NEW k \in Scanner PROVE Reserves(k)'
  <2>1. Reserves(k) BY <1>7 DEF SlotsInv
  <2>2. scan[k].room \in Nat /\ Cardinality(ActiveIds) + scan[k].room <= MaxOpen
          => Cardinality(ActiveIds') + scan[k].room <= MaxOpen
    BY <1>6, ActiveTypes, Bounds
  <2> QED BY <1>2, <1>5, <2>1, <2>2 DEF Reserves
<1> QED BY <1>8, <1>9, <1>10, <1>11 DEF SlotsInv

-----------------------------------------------------------------------------
(* Every step of a monitor keeps the sums *)

\* The history of an unbroken step goes on; that of a broken one binds nothing.
LEMMA BookDaily ==
  ASSUME NEW breaks, Book(breaks), ~ mixed'
  PROVE  ~ mixed /\ ~ breaks /\ results' = results
BY DEF Book

LEMMA OneMonitorKept ==
  ASSUME OneMonitor, NEW m \in Monitor, monitor[m].pc # "idle",
         \A j \in Monitor \ {m} : monitor'[j] = monitor[j]
  PROVE  OneMonitor' /\ \A j \in Monitor \ {m} : monitor[j].pc = "idle" /\ monitor'[j].pc = "idle"
BY DEF OneMonitor

\* A monitor that stands between two positions, and runs alone, leaves the sums right.
LEMMA LoopDaily ==
  ASSUME OneMonitor', NEW m \in Monitor, \A j \in Monitor \ {m} : monitor'[j].pc = "idle",
         monitor'[m].pc \in {"idle", "loop"}, Sums(daily, results)'
  PROVE  DailyInv'
<1>1. \A j \in Monitor : monitor'[j].pc \in {"idle", "loop"} OBVIOUS
<1>2. \A j \in Monitor : Booked(j)' BY <1>1 DEF Booked
<1> QED BY <1>2 DEF DailyInv

LEMMA BookingDaily ==
  ASSUME OneMonitor', NEW m \in Monitor, \A j \in Monitor \ {m} : monitor'[j].pc = "idle",
         monitor'[m].pc \in {"read", "write"}, Booked(m)'
  PROVE  DailyInv'
<1>1. \A j \in Monitor : Booked(j)' BY DEF Booked
<1>2. ~ \A j \in Monitor : monitor'[j].pc \in {"idle", "loop"} OBVIOUS
<1> QED BY <1>1, <1>2 DEF DailyInv

LEMMA StartDaily ==
  ASSUME ScalperTypes, DailyInv, NEW m \in Monitor, StartMonitor(m)
  PROVE  DailyInv'
<1>1. SUFFICES ASSUME ~ mixed' PROVE DailyInv' BY DEF DailyInv
<1>2. ~ mixed /\ results' = results /\ \A j \in Monitor \ {m} : monitor[j].pc = "idle"
  BY <1>1, BookDaily DEF StartMonitor
<1>3. monitor'[m].pc = "loop" /\ \A j \in Monitor \ {m} : monitor'[j] = monitor[j]
  BY DEF StartMonitor, MonitorTo, ScalperTypes, MonitorState
<1>4. monitor[m].pc = "idle" /\ UNCHANGED daily BY DEF StartMonitor, accounts
<1>5. Sums(daily, results) BY <1>2, <1>4 DEF DailyInv
<1>6. Sums(daily, results)' BY <1>2, <1>4, <1>5 DEF Sums
<1>7. OneMonitor' BY <1>2, <1>3 DEF OneMonitor
<1> QED BY <1>2, <1>3, <1>6, <1>7, LoopDaily

LEMMA LeaveDaily ==
  ASSUME ScalperTypes, DailyInv, NEW m \in Monitor, LeavePosition(m)
  PROVE  DailyInv'
<1>1. UNCHANGED <<daily, results, mixed>> BY DEF LeavePosition, accounts, witnesses
<1>2. SUFFICES ASSUME ~ mixed PROVE DailyInv' BY <1>1 DEF DailyInv
<1>3. monitor[m].pc = "loop" BY DEF LeavePosition
<1>4. monitor'[m].pc = "loop" /\ \A j \in Monitor \ {m} : monitor'[j] = monitor[j]
  BY <1>3 DEF LeavePosition, MonitorTo, ScalperTypes, MonitorState
<1>5. OneMonitor' /\ \A j \in Monitor \ {m} : monitor[j].pc = "idle" /\ monitor'[j].pc = "idle"
  BY <1>2, <1>3, <1>4, OneMonitorKept DEF DailyInv
<1>6. Sums(daily, results) BY <1>2, <1>3, <1>5 DEF DailyInv
<1>7. Sums(daily, results)' BY <1>1, <1>6 DEF Sums
<1> QED BY <1>4, <1>5, <1>7, LoopDaily

LEMMA CloseDaily ==
  ASSUME ScalperTypes, DailyInv, NEW m \in Monitor, ClosePaper(m)
  PROVE  DailyInv'
<1>1. UNCHANGED <<daily, mixed>> BY DEF ClosePaper
<1>2. SUFFICES ASSUME ~ mixed PROVE DailyInv' BY <1>1 DEF DailyInv
<1>3. monitor[m].pc = "loop" BY DEF ClosePaper
<1>4. PICK i \in monitor[m].todo, p \in Pnl :
        /\ MonitorTo(m, [monitor[m] EXCEPT !.pc = "read", !.pnl = p, !.todo = @ \ {i}])
        /\ results' = Append(results, p)
  BY <1>2 DEF ClosePaper
<1>5. /\ monitor'[m].pc = "read" /\ monitor'[m].pnl = p
      /\ \A j \in Monitor \ {m} : monitor'[j] = monitor[j]
  BY <1>4 DEF MonitorTo, ScalperTypes, MonitorState
<1>6. OneMonitor' /\ \A j \in Monitor \ {m} : monitor[j].pc = "idle" /\ monitor'[j].pc = "idle"
  BY <1>2, <1>3, <1>5, OneMonitorKept DEF DailyInv
<1>7. Sums(daily, results) BY <1>2, <1>3, <1>6 DEF DailyInv
<1>8. daily'.pnl = Total(results) /\ daily'.losses = Trailing(results) BY <1>1, <1>7 DEF Sums
<1>9. results \in Seq(Pnl) BY DEF ScalperTypes
<1>10. Booked(m)'
  <2>1. \E q \in Seq(Pnl) : /\ results' = Append(q, monitor'[m].pnl)
                            /\ daily'.pnl = Total(q) /\ daily'.losses = Trailing(q)
    BY <1>4, <1>5, <1>8, <1>9
  <2> QED BY <1>5, <2>1 DEF Booked, Sums
<1> QED BY <1>5, <1>6, <1>10, BookingDaily

LEMMA ReadRowDaily ==
  ASSUME ScalperTypes, DailyInv, NEW m \in Monitor, ReadDaily(m)
  PROVE  DailyInv'
<1>1. SUFFICES ASSUME ~ mixed' PROVE DailyInv' BY DEF DailyInv
<1>2. PICK r \in {daily, NoRow} : MonitorTo(m, [monitor[m] EXCEPT !.pc = "write", !.row = r]) /\ Book(r # daily)
  BY DEF ReadDaily
<1>3. ~ mixed /\ r = daily /\ results' = results BY <1>1, <1>2, BookDaily
<1>4. monitor[m].pc = "read" /\ UNCHANGED daily BY DEF ReadDaily, accounts
<1>5. /\ monitor'[m].pc = "write" /\ monitor'[m].pnl = monitor[m].pnl /\ monitor'[m].row = daily
      /\ \A j \in Monitor \ {m} : monitor'[j] = monitor[j]
  BY <1>2, <1>3 DEF MonitorTo, ScalperTypes, MonitorState
<1>6. OneMonitor' /\ \A j \in Monitor \ {m} : monitor[j].pc = "idle" /\ monitor'[j].pc = "idle"
  BY <1>3, <1>4, <1>5, OneMonitorKept DEF DailyInv
<1>7. PICK q \in Seq(Pnl) : results = Append(q, monitor[m].pnl) /\ Sums(daily, q)
  BY <1>3, <1>4 DEF DailyInv, Booked
<1>8. Booked(m)' BY <1>3, <1>4, <1>5, <1>7 DEF Booked, Sums
<1> QED BY <1>5, <1>6, <1>8, BookingDaily

LEMMA WriteRowDaily ==
  ASSUME ScalperTypes, DailyInv, NEW m \in Monitor, WriteDaily(m)
  PROVE  DailyInv'
<1>1. SUFFICES ASSUME ~ mixed' PROVE DailyInv' BY DEF DailyInv
<1> DEFINE r == monitor[m].row
           p == monitor[m].pnl
<1>2. ~ (UNCHANGED daily /\ Book(TRUE)) BY <1>1, BookDaily
<1>3. /\ daily' = [daily EXCEPT !.pnl = r.pnl + p, !.losses = ConsecutiveLosses(r, p)]
      /\ UNCHANGED <<mixed, results>> /\ monitor[m].pc = "write"
  BY <1>2 DEF WriteDaily
<1>4. monitor'[m].pc = "loop" /\ \A j \in Monitor \ {m} : monitor'[j] = monitor[j]
  BY DEF WriteDaily, MonitorTo, ScalperTypes, MonitorState
<1>5. OneMonitor' /\ \A j \in Monitor \ {m} : monitor[j].pc = "idle" /\ monitor'[j].pc = "idle"
  BY <1>1, <1>3, <1>4, OneMonitorKept DEF DailyInv
<1>6. PICK q \in Seq(Pnl) : results = Append(q, p) /\ Sums(r, q)
  BY <1>1, <1>3 DEF DailyInv, Booked
<1>7. daily'.pnl = r.pnl + p /\ daily'.losses = ConsecutiveLosses(r, p)
  <2>1. daily \in Account BY DEF ScalperTypes
  <2> QED BY <1>3, <2>1 DEF Account
<1>8. q \in Seq(Int) /\ p \in Int
  <2>1. p \in Int BY DEF ScalperTypes, MonitorState
  <2> QED BY <2>1, ResultsInt
<1>9. Total(Append(q, p)) = Total(q) + p BY <1>8, TotalAppend
<1>10. Trailing(Append(q, p)) = IF p < 0 THEN Trailing(q) + 1 ELSE 0 BY <1>8, TrailingAppend
<1> HIDE DEF r, p
<1>11. daily'.pnl = Total(results) /\ daily'.losses = Trailing(results)
  BY <1>6, <1>7, <1>9, <1>10 DEF Sums, ConsecutiveLosses
<1>12. Sums(daily, results)' BY <1>3, <1>11 DEF Sums
<1> QED BY <1>4, <1>5, <1>12, LoopDaily

LEMMA StopDaily ==
  ASSUME ScalperTypes, DailyInv, NEW m \in Monitor, StopMonitor(m)
  PROVE  DailyInv'
<1>1. SUFFICES ASSUME ~ mixed' PROVE DailyInv' BY DEF DailyInv
<1>2. ~ mixed /\ monitor[m].pc \notin {"read", "write"} /\ results' = results
  BY <1>1, BookDaily DEF StopMonitor
<1>3. monitor[m].pc # "idle" /\ UNCHANGED daily BY DEF StopMonitor, accounts
<1>4. monitor'[m].pc = "idle" /\ \A j \in Monitor \ {m} : monitor'[j] = monitor[j]
  BY DEF StopMonitor, MonitorTo, ScalperTypes, IdleMonitor
<1>5. OneMonitor' /\ \A j \in Monitor \ {m} : monitor[j].pc = "idle" /\ monitor'[j].pc = "idle"
  BY <1>2, <1>3, <1>4, OneMonitorKept DEF DailyInv
<1>6. monitor[m].pc = "loop"
  <2>1. monitor[m] \in MonitorState BY DEF ScalperTypes
  <2> QED BY <1>2, <1>3, <2>1 DEF MonitorState
<1>7. Sums(daily, results) BY <1>2, <1>5, <1>6 DEF DailyInv
<1>8. Sums(daily, results)' BY <1>2, <1>3, <1>7 DEF Sums
<1> QED BY <1>4, <1>5, <1>8, LoopDaily

-----------------------------------------------------------------------------
(* The invariant, and the properties *)

LEMMA ScanInv ==
  ASSUME ScalperInv, NEW k \in Scanner,
         \/ StartScan(k) \/ ReadSlots(k) \/ ClaimEntryIntent(k)
         \/ ClaimFails(k) \/ OpenPosition(k) \/ OpenFails(k) \/ StopScan(k)
  PROVE  ScalperInv'
<1>1. ScalperTypes /\ SlotsInv /\ DailyInv BY DEF ScalperInv
<1>2. ScalperTypes' BY <1>1, ScanTypeStep, OpenTypesKept
<1>3. SlotsInv'
  BY <1>1, StartScanSlots, FreeSlots, ClaimSlots, OpenSlots, OpenFailsSlots
<1>4. DailyInv'
  <2>1. UNCHANGED <<monitor, results, mixed>>
    BY DEF StartScan, ReadSlots, ClaimEntryIntent, ClaimFails, OpenPosition, OpenFails, StopScan, witnesses
  <2>2. daily \in Account BY <1>1 DEF ScalperTypes
  <2>3. daily'.pnl = daily.pnl /\ daily'.losses = daily.losses
    BY <2>2 DEF StartScan, ReadSlots, ClaimEntryIntent, ClaimFails, OpenPosition, OpenFails, StopScan,
                accounts, Account
  <2> QED BY <1>1, <2>1, <2>3, DailyKept
<1> QED BY <1>2, <1>3, <1>4 DEF ScalperInv

LEMMA MonitorInv ==
  ASSUME ScalperInv, NEW m \in Monitor,
         \/ StartMonitor(m) \/ LeavePosition(m) \/ ClosePaper(m)
         \/ ReadDaily(m) \/ WriteDaily(m) \/ StopMonitor(m)
  PROVE  ScalperInv'
<1>1. ScalperTypes /\ SlotsInv /\ DailyInv BY DEF ScalperInv
<1>2. ScalperTypes' BY <1>1, MonitorTypeStep
<1>3. SlotsInv'
  <2>1. CASE ClosePaper(m) BY <1>1, <2>1, CloseSlots
  <2>2. CASE ~ ClosePaper(m)
    <3>1. UNCHANGED <<positions, scan, crowded>>
      BY <2>2 DEF StartMonitor, LeavePosition, ReadDaily, WriteDaily, StopMonitor, accounts, witnesses
    <3> QED BY <1>1, <3>1, SlotsKept
  <2> QED BY <2>1, <2>2
<1>4. DailyInv'
  BY <1>1, StartDaily, LeaveDaily, CloseDaily, ReadRowDaily, WriteRowDaily, StopDaily
<1> QED BY <1>2, <1>3, <1>4 DEF ScalperInv

LEMMA FormInv ==
  ASSUME ScalperInv, Settings \/ ClearDailyLock \/ UNCHANGED scalperVars
  PROVE  ScalperInv'
<1>1. ScalperTypes /\ SlotsInv /\ DailyInv BY DEF ScalperInv
<1>2. UNCHANGED <<positions, scan, monitor, results, crowded, mixed>>
  BY DEF Settings, ClearDailyLock, scalperVars, accounts, witnesses
<1>3. daily' = daily \/ daily' = [daily EXCEPT !.locked = FALSE]
  BY DEF Settings, ClearDailyLock, scalperVars, accounts
<1>4. daily' \in Account /\ daily'.pnl = daily.pnl /\ daily'.losses = daily.losses
  BY <1>1, <1>3 DEF ScalperTypes, Account
<1>5. ScalperTypes' BY <1>1, <1>2, <1>4 DEF ScalperTypes
<1>6. SlotsInv' BY <1>1, <1>2, SlotsKept
<1>7. DailyInv' BY <1>1, <1>2, <1>4, DailyKept
<1> QED BY <1>5, <1>6, <1>7 DEF ScalperInv

LEMMA NextInv == ScalperInv /\ [ScalperNext]_scalperVars => ScalperInv'
BY ScanInv, MonitorInv, FormInv DEF ScalperNext

\* What one scan after the other opens stays within the settings, one position per
\* symbol, for any universe, limit and number of invocations: SlotsRespected
\* (handleVwapScalperScan, options-autotrade.ts:3960-4066).
THEOREM SlotsRespectedHolds == ScalperSpec => []SlotsRespected
<1>1. ScalperInv => SlotsRespected BY DEF ScalperInv, SlotsInv, SlotsRespected, OnePerSymbol
<1> QED BY InitInv, NextInv, <1>1, PTL DEF ScalperSpec

\* The day's row is the sum of the closes and their last losing streak, for any sequence
\* of closes and any results: DailyIsSum (handleVwapScalperMonitor,
\* options-autotrade.ts:4166-4180).
THEOREM DailyIsSumHolds == ScalperSpec => []DailyIsSum
<1>1. ScalperInv => DailyIsSum BY DEF ScalperInv, DailyInv, DailyIsSum, Sums
<1> QED BY InitInv, NextInv, <1>1, PTL DEF ScalperSpec
=============================================================================
