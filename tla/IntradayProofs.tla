--------------------------- MODULE IntradayProofs ---------------------------
(***************************************************************************)
(* Proofs about Intraday: that the caps on open positions are kept, that a *)
(* trailed position is not closed at a loss by a rule, that the day's      *)
(* statistics add up to its positions, and that entries stay within the    *)
(* limits of the day.                                                      *)
(***************************************************************************)
EXTENDS Intraday, FoldLemmas

-----------------------------------------------------------------------------
(* Types *)

Row == [sym : Symbol, status : {"OPEN", "CLOSED"}, stop : Int, pnl : Int]
Stats == [trades : Int, gross : Int, run : Int, locked : BOOLEAN]
Req == [pc : {"idle", "rows", "stats", "go", "fold", "count"}, kind : {"scan", "kill"},
        on : BOOLEAN, late : BOOLEAN, seen : Seq(Row), todo : SUBSET Nat, open : SUBSET Nat,
        stats : Stats, pnl : Int, new : Nat]

TypeInv ==
  /\ enabled \in BOOLEAN /\ rows \in Seq(Row) /\ stats \in Stats /\ job \in [Job -> Req]
  /\ \A j \in Job : job[j].todo \subseteq DOMAIN job[j].seen

\* The caps of CapsKept, as a function of the rows.
OpenIn(rs) == {i \in DOMAIN rs : rs[i].status = "OPEN"}
OfSector(rs, I, v) == {i \in I : SectorOf[rs[i].sym] = v}
Caps(rs) ==
  /\ Cardinality(OpenIn(rs)) <= MaxOpen
  /\ \A i, k \in OpenIn(rs) : i # k => rs[i].sym # rs[k].sym
  /\ \A s \in Symbol : SectorOf[s] # None =>
       Cardinality(OfSector(rs, OpenIn(rs), SectorOf[s])) <= MaxPerSector

LEMMA LimitsAreNumbers ==
  MaxOpen \in Nat /\ MaxPerSector \in Nat /\ R \in Nat \ {0} /\ Move \subseteq Int /\ None \notin Int
BY IntradayAssumption

LEMMA OpenIsFinite ==
  ASSUME NEW rs \in Seq(Row)
  PROVE  IsFiniteSet(OpenIn(rs)) /\ OpenIn(rs) \subseteq Nat
<1>1. IsFiniteSet(1 .. Len(rs)) BY FS_Interval
<1>2. OpenIn(rs) \subseteq 1 .. Len(rs) BY DEF OpenIn
<1> QED BY <1>1, <1>2, FS_Subset

LEMMA PriceIsNumber ==
  ASSUME TypeInv, NEW j \in Job, NEW i \in job[j].todo, NEW move \in Move, NEW w \in BOOLEAN
  PROVE  exitPrice(j, job[j].seen[i], move, w) \in Int \cup {None}
<1>1. job[j].seen[i] \in Row BY DEF TypeInv, Req
<1>2. job[j].seen[i].stop \in Int BY <1>1 DEF Row
<1> QED BY <1>2, LimitsAreNumbers DEF exitPrice

LEMMA FoldedType ==
  ASSUME NEW s \in Stats, NEW pnl \in Int
  PROVE  Folded(s, pnl) \in Stats
<1> DEFINE t == [s EXCEPT !.gross = @ + pnl, !.run = IF pnl > 0 THEN 0 ELSE @ + 1]
<1>1. t \in Stats
  <2> DEFINE gross == s.gross + pnl
             run == IF pnl > 0 THEN 0 ELSE s.run + 1
  <2>1. gross \in Int /\ run \in Int BY DEF Stats
  <2>2. t = [s EXCEPT !.gross = gross, !.run = run] BY Zenon
  <2> HIDE DEF gross, run, t
  <2> QED BY <2>1, <2>2 DEF Stats
<1>2. checkDailyRiskLimits(t) \in BOOLEAN BY DEF checkDailyRiskLimits
<1>3. [t EXCEPT !.locked = checkDailyRiskLimits(t)] \in Stats
  <2> HIDE DEF t
  <2> QED BY <1>1, <1>2 DEF Stats
<1> QED BY <1>3 DEF Folded

-----------------------------------------------------------------------------
(* What a step does to the requests and to the rows *)

\* A step of one request, and the settings.
Acts(j) ==
  \/ StartScan(j) \/ StartKill(j) \/ ReadRows(j) \/ ReadStats(j)
  \/ \E i \in DOMAIN rows : Manage(j, i)
  \/ \E s \in Symbol : Enter(j, s)
  \/ FoldStats(j) \/ CountEntry(j) \/ EndJob(j) \/ KillJob(j)

LEMMA Steps ==
  ASSUME [Next]_vars
  PROVE  (\E j \in Job : Acts(j)) \/ SaveSettings \/ UNCHANGED vars
BY DEF Next, Acts

LEMMA Growing ==
  ASSUME [Next]_vars
  PROVE  mishap \subseteq mishap'
<1>1. ASSUME NEW ws, Happen(ws) PROVE mishap \subseteq mishap' BY <1>1 DEF Happen
<1>2. ASSUME NEW j \in Job, Acts(j) PROVE mishap \subseteq mishap'
  <2>1. CASE StartScan(j) \/ StartKill(j) BY <1>1, <2>1 DEF StartScan, StartKill, Begin
  <2>2. CASE ReadRows(j) \/ ReadStats(j) BY <1>1, <2>2 DEF ReadRows, ReadStats
  <2>3. ASSUME NEW i \in DOMAIN rows, Manage(j, i) PROVE mishap \subseteq mishap'
    <3>1. UNCHANGED mishap \/ Happen({"lost"}) BY <2>3, Zenon DEF Manage
    <3> QED BY <1>1, <3>1
  <2>4. ASSUME NEW s \in Symbol, Enter(j, s) PROVE mishap \subseteq mishap' BY <1>1, <2>4 DEF Enter
  <2>5. CASE FoldStats(j) BY <1>1, <2>5, Zenon DEF FoldStats, When
  <2>6. CASE CountEntry(j) BY <1>1, <2>6, Zenon DEF CountEntry, When
  <2>7. CASE EndJob(j) \/ KillJob(j) BY <1>1, <2>7 DEF EndJob, KillJob, When
  <2> QED BY <1>2, <2>1, <2>2, <2>3, <2>4, <2>5, <2>6, <2>7 DEF Acts
<1> QED BY <1>2, Steps DEF SaveSettings, vars

LEMMA TypeInit == Init => TypeInv
<1> SUFFICES ASSUME Init PROVE TypeInv OBVIOUS
<1>1. NoStats \in Stats BY DEF NoStats, Stats
<1>2. Idle \in Req BY <1>1 DEF Idle, Request, Req
<1>3. Idle.todo = {} BY DEF Idle, Request
<1> QED BY <1>1, <1>2, <1>3 DEF Init, TypeInv

LEMMA RequestType ==
  ASSUME NEW pc \in {"idle", "rows"}, NEW kind \in {"scan", "kill"}, NEW on \in BOOLEAN, NEW late \in BOOLEAN
  PROVE  /\ Request(pc, kind, on, late) \in Req /\ Request(pc, kind, on, late).todo = {}
         /\ Request(pc, kind, on, late).on = on /\ Request(pc, kind, on, late).pc = pc
<1>1. NoStats \in Stats BY DEF NoStats, Stats
<1> QED BY <1>1 DEF Request, Req

LEMMA IdleType == Idle \in Req /\ Idle.todo = {} /\ Idle.on = FALSE /\ Idle.pc = "idle"
BY RequestType DEF Idle

LEMMA PassedType ==
  ASSUME NEW r \in Req
  PROVE  LET q == [r EXCEPT !.pc = "go", !.pnl = 0, !.new = 0]
         IN  q \in Req /\ q.todo = r.todo /\ q.seen = r.seen
<1>1. ASSUME NEW pc \in {"idle", "rows", "stats", "go", "fold", "count"}, NEW p \in Int, NEW n \in Nat
      PROVE  [r EXCEPT !.pc = pc, !.pnl = p, !.new = n] \in Req
  BY DEF Req
<1>2. "go" \in {"idle", "rows", "stats", "go", "fold", "count"} /\ 0 \in Int /\ 0 \in Nat OBVIOUS
<1>3. [r EXCEPT !.pc = "go", !.pnl = 0, !.new = 0] \in Req BY <1>1, <1>2, Zenon
<1> QED BY <1>3 DEF Req

LEMMA UpdateType ==
  ASSUME NEW r \in Req, NEW s \in Stats, NEW I \in SUBSET Nat
  PROVE  LET q == [r EXCEPT !.pc = "go", !.pnl = 0, !.new = 0, !.stats = s, !.open = I]
         IN  q \in Req /\ q.todo = r.todo /\ q.seen = r.seen
<1> DEFINE q == [r EXCEPT !.pc = "go", !.pnl = 0, !.new = 0]
<1>1. q \in Req /\ q.todo = r.todo /\ q.seen = r.seen BY PassedType, Zenon
<1>2. [r EXCEPT !.pc = "go", !.pnl = 0, !.new = 0, !.stats = s, !.open = I] = [q EXCEPT !.stats = s, !.open = I] BY Zenon
<1> HIDE DEF q
<1>3. [q EXCEPT !.stats = s, !.open = I] \in Req BY <1>1 DEF Req
<1> QED BY <1>1, <1>2, <1>3 DEF Req

LEMMA TypeStep ==
  ASSUME TypeInv, [Next]_vars
  PROVE  TypeInv'
<1> DEFINE Fine(r) == r \in Req /\ r.todo \subseteq DOMAIN r.seen
<1>1. ASSUME NEW j \in Job, NEW r, Goto(j, r), Fine(r)
      PROVE  job' \in [Job -> Req] /\ \A k \in Job : job'[k].todo \subseteq DOMAIN job'[k].seen
  BY <1>1 DEF TypeInv, Goto
<1>2. \A j \in Job : Fine(job[j]) BY DEF TypeInv
<1>3. Fine(Idle) BY IdleType
<1>4. ASSUME NEW j \in Job, Acts(j) PROVE TypeInv'
  <2>0. job[j] \in Req /\ Fine(job[j]) BY <1>2
  <2>1. CASE StartScan(j)
    <3>1. PICK late \in BOOLEAN : Goto(j, Request("rows", "scan", enabled, late)) BY <2>1 DEF StartScan
    <3>2. Fine(Request("rows", "scan", enabled, late)) BY RequestType DEF TypeInv
    <3> QED BY <1>1, <2>1, <3>1, <3>2 DEF StartScan, TypeInv
  <2>2. CASE StartKill(j)
    <3>1. Fine(Request("rows", "kill", FALSE, FALSE)) BY RequestType
    <3> QED BY <1>1, <2>2, <3>1 DEF StartKill, TypeInv
  <2>3. CASE ReadRows(j)
    <3>1. Open \subseteq Nat /\ Open \subseteq DOMAIN rows BY OpenIsFinite DEF TypeInv, Open, OpenIn
    <3> DEFINE r == [job[j] EXCEPT !.pc = "stats", !.seen = IF Open = {} THEN <<>> ELSE rows, !.todo = Open, !.open = Open]
    <3>2. Fine(r)
      <4>1. (IF Open = {} THEN <<>> ELSE rows) \in Seq(Row) BY DEF TypeInv
      <4>2. r \in Req BY <2>0, <3>1, <4>1 DEF Req
      <4>3. r.todo = Open /\ r.seen = IF Open = {} THEN <<>> ELSE rows BY <2>0 DEF Req
      <4> QED BY <3>1, <4>2, <4>3
    <3>3. Goto(j, r) \/ Goto(j, Idle) BY <2>3 DEF ReadRows
    <3> HIDE DEF r
    <3> QED BY <1>1, <1>3, <2>3, <3>2, <3>3 DEF ReadRows, TypeInv
  <2>4. CASE ReadStats(j)
    <3>1. Fine([job[j] EXCEPT !.pc = "go", !.stats = stats]) BY <2>0 DEF TypeInv, Req
    <3>2. Fine([job[j] EXCEPT !.pc = "go"]) BY <2>0 DEF Req
    <3> QED BY <1>1, <1>3, <2>4, <3>1, <3>2 DEF ReadStats, TypeInv
  <2>5. ASSUME NEW i \in DOMAIN rows, Manage(j, i) PROVE TypeInv'
    <3>1. PICK move \in Move, wrongSide \in BOOLEAN :
            LET p == job[j].seen[i]
                exit == exitPrice(j, p, move, wrongSide)
                passed == IF job[j].todo = {i} THEN [job[j] EXCEPT !.todo = {}, !.seen = <<>>, !.late = FALSE]
                          ELSE [job[j] EXCEPT !.todo = @ \ {i}]
            IN  \/ Goto(j, passed) /\ UNCHANGED rows
                \/ /\ exit # None
                   /\ rows' = [rows EXCEPT ![i] = [sym |-> @.sym, status |-> "CLOSED", stop |-> - R, pnl |-> exit]]
                   /\ Goto(j, [passed EXCEPT !.pc = "fold", !.pnl = exit, !.new = i]) \/ Goto(j, passed)
                \/ rows' = [rows EXCEPT ![i].stop = 0] /\ Goto(j, passed)
      BY <2>5, Zenon DEF Manage
    <3> DEFINE exit == exitPrice(j, job[j].seen[i], move, wrongSide)
               passed == IF job[j].todo = {i} THEN [job[j] EXCEPT !.todo = {}, !.seen = <<>>, !.late = FALSE]
                         ELSE [job[j] EXCEPT !.todo = @ \ {i}]
    <3>2. exit \in Int \cup {None} BY <2>5, PriceIsNumber DEF Manage
    <3>3. Fine(passed)
      <4>1. <<>> \in Seq(Row) OBVIOUS
      <4>2. CASE job[j].todo = {i} BY <2>0, <4>1, <4>2 DEF Req
      <4>3. CASE job[j].todo # {i} BY <2>0, <4>3 DEF Req
      <4> QED BY <4>2, <4>3
    <3>4. i \in Nat BY DEF TypeInv
    <3>5. ASSUME exit # None PROVE Fine([passed EXCEPT !.pc = "fold", !.pnl = exit, !.new = i])
      <4> HIDE DEF passed, exit
      <4> QED BY <3>2, <3>3, <3>4, <3>5 DEF Req
    <3>6. rows' \in Seq(Row)
      <4>1. rows[i] \in Row BY DEF TypeInv
      <4>2. ASSUME exit # None PROVE [sym |-> rows[i].sym, status |-> "CLOSED", stop |-> - R, pnl |-> exit] \in Row
        <5> HIDE DEF exit
        <5> QED BY <3>2, <4>1, <4>2, LimitsAreNumbers DEF Row
      <4>3. [rows[i] EXCEPT !.stop = 0] \in Row BY <4>1 DEF Row
      <4> HIDE DEF exit
      <4> QED BY <3>1, <4>2, <4>3 DEF TypeInv, exit
    <3>7. (exit # None /\ Goto(j, [passed EXCEPT !.pc = "fold", !.pnl = exit, !.new = i])) \/ Goto(j, passed) BY <3>1
    <3> HIDE DEF passed, exit
    <3> QED BY <1>1, <2>5, <3>3, <3>5, <3>6, <3>7 DEF Manage, TypeInv
  <2>6. ASSUME NEW s \in Symbol, Enter(j, s) PROVE TypeInv'
    <3>1. rows' \in Seq(Row) /\ Len(rows') \in Nat
      <4>1. [sym |-> s, status |-> "OPEN", stop |-> - R, pnl |-> 0] \in Row BY LimitsAreNumbers DEF Row
      <4> QED BY <2>6, <4>1 DEF Enter, TypeInv
    <3>2. Fine([job[j] EXCEPT !.pc = "count", !.new = Len(rows')]) BY <2>0, <3>1 DEF Req
    <3>3. Goto(j, [job[j] EXCEPT !.pc = "count", !.new = Len(rows')]) \/ job' = job BY <2>6 DEF Enter
    <3> QED BY <1>1, <1>2, <2>6, <3>1, <3>2, <3>3 DEF Enter, TypeInv
  <2>7. CASE FoldStats(j)
    <3> DEFINE s == Folded(job[j].stats, job[j].pnl)
    <3>1. s \in Stats BY <2>0, FoldedType DEF Req
    <3>2. Fine([job[j] EXCEPT !.pc = "go", !.pnl = 0, !.new = 0])
      BY <2>0, PassedType, Zenon
    <3>3. Fine([job[j] EXCEPT !.pc = "go", !.pnl = 0, !.new = 0, !.stats = s, !.open = @ \ {job[j].new}])
      <4>1. job[j].open \ {job[j].new} \in SUBSET Nat BY <2>0 DEF Req
      <4> HIDE DEF s
      <4>2. LET q == [job[j] EXCEPT !.pc = "go", !.pnl = 0, !.new = 0, !.stats = s, !.open = job[j].open \ {job[j].new}]
            IN  q \in Req /\ q.todo = job[j].todo /\ q.seen = job[j].seen
        BY <2>0, <3>1, <4>1, UpdateType, ZenonT(60)
      <4> QED BY <2>0, <4>2, Zenon
    <3>4. /\ stats' = s \/ stats' = stats
          /\ \/ Goto(j, [job[j] EXCEPT !.pc = "go", !.pnl = 0, !.new = 0])
             \/ Goto(j, [job[j] EXCEPT !.pc = "go", !.pnl = 0, !.new = 0, !.stats = s, !.open = @ \ {job[j].new}])
          /\ UNCHANGED <<enabled, rows>>
      BY <2>7, Zenon DEF FoldStats
    <3> HIDE DEF s
    <3> QED BY <1>1, <3>1, <3>2, <3>3, <3>4 DEF TypeInv
  <2>8. CASE CountEntry(j)
    <3> DEFINE s == [job[j].stats EXCEPT !.trades = @ + 1]
    <3>1. s \in Stats BY <2>0 DEF Req, Stats
    <3>2. Fine([job[j] EXCEPT !.pc = "go", !.new = 0]) BY <2>0 DEF Req
    <3>3. Fine([job[j] EXCEPT !.pc = "go", !.new = 0, !.stats = s, !.open = @ \cup {job[j].new}])
      <4> HIDE DEF s
      <4> QED BY <2>0, <3>1 DEF Req
    <3>4. /\ stats' = s \/ stats' = stats
          /\ \/ Goto(j, [job[j] EXCEPT !.pc = "go", !.new = 0])
             \/ Goto(j, [job[j] EXCEPT !.pc = "go", !.new = 0, !.stats = s, !.open = @ \cup {job[j].new}])
          /\ UNCHANGED <<enabled, rows>>
      BY <2>8, Zenon DEF CountEntry
    <3> HIDE DEF s
    <3> QED BY <1>1, <3>1, <3>2, <3>3, <3>4 DEF TypeInv
  <2>9. CASE EndJob(j) BY <1>1, <1>3, <2>9 DEF EndJob, TypeInv
  <2>10. CASE KillJob(j) BY <1>1, <1>3, <2>10 DEF KillJob, TypeInv
  <2> QED BY <1>4, <2>1, <2>2, <2>3, <2>4, <2>5, <2>6, <2>7, <2>8, <2>9, <2>10 DEF Acts
<1>5. CASE SaveSettings BY <1>5 DEF SaveSettings, TypeInv
<1>6. CASE UNCHANGED vars BY <1>6 DEF vars, TypeInv
<1> QED BY <1>4, <1>5, <1>6, Steps

\* What Manage leaves: the others' rows, symbols, and no closed row open.
LEMMA ManageDoes ==
  ASSUME TypeInv, NEW j \in Job, NEW i \in DOMAIN rows, Manage(j, i)
  PROVE  /\ job[j].pc = "go" /\ i \in job[j].todo
         /\ \E r \in Req :
              /\ Goto(j, r) /\ r.todo = job[j].todo \ {i} /\ (r.todo = {} \/ r.seen = job[j].seen)
              /\ r.on = job[j].on /\ r.open = job[j].open
              /\ r.pc = "go" \/ (r.pc = "fold" /\ r.new = i /\ rows'[i].status = "CLOSED")
         /\ DOMAIN rows' = DOMAIN rows /\ rows'[i].sym = rows[i].sym
         /\ rows'[i].status = "OPEN" => rows[i].status = "OPEN"
         /\ \A k \in DOMAIN rows : k # i => rows'[k] = rows[k]
<1>1. PICK move \in Move, wrongSide \in BOOLEAN :
        LET p == job[j].seen[i]
            exit == exitPrice(j, p, move, wrongSide)
            passed == IF job[j].todo = {i} THEN [job[j] EXCEPT !.todo = {}, !.seen = <<>>, !.late = FALSE]
                      ELSE [job[j] EXCEPT !.todo = @ \ {i}]
        IN  \/ Goto(j, passed) /\ UNCHANGED rows
            \/ /\ exit # None
               /\ rows' = [rows EXCEPT ![i] = [sym |-> @.sym, status |-> "CLOSED", stop |-> - R, pnl |-> exit]]
               /\ Goto(j, [passed EXCEPT !.pc = "fold", !.pnl = exit, !.new = i]) \/ Goto(j, passed)
            \/ rows' = [rows EXCEPT ![i].stop = 0] /\ Goto(j, passed)
  BY Zenon DEF Manage
<1> DEFINE exit == exitPrice(j, job[j].seen[i], move, wrongSide)
           passed == IF job[j].todo = {i} THEN [job[j] EXCEPT !.todo = {}, !.seen = <<>>, !.late = FALSE]
                     ELSE [job[j] EXCEPT !.todo = @ \ {i}]
           counted == [passed EXCEPT !.pc = "fold", !.pnl = exit, !.new = i]
<1>2. job[j].pc = "go" /\ i \in job[j].todo /\ job[j] \in Req /\ i \in Nat BY DEF Manage, TypeInv
<1>3. exit \in Int \cup {None} BY <1>2, PriceIsNumber
<1>4. /\ passed \in Req /\ passed.todo = job[j].todo \ {i} /\ (passed.todo = {} \/ passed.seen = job[j].seen)
      /\ passed.on = job[j].on /\ passed.open = job[j].open /\ passed.pc = "go"
  <2>1. CASE job[j].todo = {i}
    <3>0. <<>> \in Seq(Row) OBVIOUS
    <3>1. [job[j] EXCEPT !.todo = {}, !.seen = <<>>, !.late = FALSE] \in Req BY <1>2, <3>0 DEF Req
    <3> QED BY <1>2, <2>1, <3>1 DEF Req
  <2>2. CASE job[j].todo # {i}
    <3>1. [job[j] EXCEPT !.todo = @ \ {i}] \in Req BY <1>2 DEF Req
    <3> QED BY <1>2, <2>2, <3>1 DEF Req
  <2> QED BY <2>1, <2>2
<1>5. ASSUME exit # None
      PROVE  /\ counted \in Req /\ counted.todo = passed.todo /\ counted.seen = passed.seen
             /\ counted.on = passed.on /\ counted.open = passed.open /\ counted.pc = "fold" /\ counted.new = i
  <2> HIDE DEF passed, exit
  <2>1. counted \in Req BY <1>2, <1>3, <1>4, <1>5 DEF Req
  <2> QED BY <1>4, <2>1 DEF Req
<1>6. rows[i] \in Row /\ rows \in Seq(Row) BY DEF TypeInv
<1>7. \/ Goto(j, passed) /\ UNCHANGED rows
      \/ /\ exit # None
         /\ rows' = [rows EXCEPT ![i] = [sym |-> @.sym, status |-> "CLOSED", stop |-> - R, pnl |-> exit]]
         /\ Goto(j, counted) \/ Goto(j, passed)
      \/ rows' = [rows EXCEPT ![i] = [@ EXCEPT !.stop = 0]] /\ Goto(j, passed)
  BY <1>1, Zenon
<1> HIDE DEF passed, exit, counted
<1>8. /\ DOMAIN rows' = DOMAIN rows /\ rows'[i].sym = rows[i].sym
      /\ rows'[i].status = "OPEN" => rows[i].status = "OPEN"
      /\ \A k \in DOMAIN rows : k # i => rows'[k] = rows[k]
  BY <1>6, <1>7 DEF Row
<1>9. CASE Goto(j, passed)
  <2>1. passed \in Req /\ passed.pc = "go" BY <1>4
  <2> QED BY <1>2, <1>4, <1>8, <1>9, <2>1
<1>10. CASE exit # None /\ Goto(j, counted) /\ rows' = [rows EXCEPT ![i] = [sym |-> @.sym, status |-> "CLOSED", stop |-> - R, pnl |-> exit]]
  <2>1. rows'[i].status = "CLOSED" BY <1>6, <1>10
  <2>2. counted \in Req BY <1>5, <1>10
  <2> QED BY <1>2, <1>4, <1>5, <1>8, <1>10, <2>1, <2>2
<1> QED BY <1>7, <1>9, <1>10

-----------------------------------------------------------------------------
(* A request that nothing runs beside: what it read is still so *)

Alone == mishap \cap {"scans", "beside"} = {}

AloneInv ==
  Alone => /\ \A j, k \in Job : job[j] # Idle /\ job[k] # Idle => j = k
           /\ \A j \in Job : \A i \in job[j].todo : i \in DOMAIN rows /\ job[j].seen[i] = rows[i]

LEMMA AloneInit == Init => AloneInv
BY IdleType DEF Init, AloneInv

LEMMA AloneStep ==
  ASSUME TypeInv, AloneInv, [Next]_vars
  PROVE  AloneInv'
<1> SUFFICES ASSUME Alone'
             PROVE  /\ \A j, k \in Job : job'[j] # Idle /\ job'[k] # Idle => j = k
                    /\ \A j \in Job : \A i \in job'[j].todo : i \in DOMAIN rows' /\ job'[j].seen[i] = rows'[i]
  BY DEF AloneInv
<1>1. /\ \A j, k \in Job : job[j] # Idle /\ job[k] # Idle => j = k
      /\ \A j \in Job : \A i \in job[j].todo : i \in DOMAIN rows /\ job[j].seen[i] = rows[i]
  BY Growing DEF AloneInv, Alone
<1>2. job \in [Job -> Req] /\ rows \in Seq(Row) BY DEF TypeInv
<1> DEFINE True(r) == \A i \in r.todo : i \in DOMAIN rows /\ r.seen[i] = rows[i]
<1>3. ASSUME NEW j \in Job, NEW r, Goto(j, r), True(r), UNCHANGED rows,
             \A k \in Job : job[k] # Idle => k = j
      PROVE  /\ \A k, l \in Job : job'[k] # Idle /\ job'[l] # Idle => k = l
             /\ \A k \in Job : \A i \in job'[k].todo : i \in DOMAIN rows' /\ job'[k].seen[i] = rows'[i]
  BY <1>1, <1>2, <1>3 DEF Goto
<1>4. ASSUME NEW j \in Job, Begin(j) PROVE \A k \in Job : job[k] = Idle
  BY <1>4 DEF Begin, Happen, Alone, Busy, Job
<1>5. ASSUME NEW j \in Job, job[j].pc # "idle" PROVE \A k \in Job : job[k] # Idle => k = j
  BY <1>1, <1>5, IdleType
<1>6. True(Idle) BY IdleType
<1>7. ASSUME NEW j \in Job, Acts(j)
      PROVE  /\ \A k, l \in Job : job'[k] # Idle /\ job'[l] # Idle => k = l
             /\ \A k \in Job : \A i \in job'[k].todo : i \in DOMAIN rows' /\ job'[k].seen[i] = rows'[i]
  <2>0. job[j] \in Req /\ True(job[j]) BY <1>1, <1>2
  <2>1. CASE StartScan(j)
    <3>1. PICK late \in BOOLEAN : Goto(j, Request("rows", "scan", enabled, late)) BY <2>1 DEF StartScan
    <3>2. True(Request("rows", "scan", enabled, late)) BY RequestType DEF TypeInv
    <3> QED BY <1>3, <1>4, <2>1, <3>1, <3>2 DEF StartScan
  <2>2. CASE StartKill(j)
    <3>1. True(Request("rows", "kill", FALSE, FALSE)) BY RequestType
    <3> QED BY <1>3, <1>4, <2>2, <3>1 DEF StartKill
  <2>3. CASE ReadRows(j)
    <3> DEFINE r == [job[j] EXCEPT !.pc = "stats", !.seen = IF Open = {} THEN <<>> ELSE rows, !.todo = Open, !.open = Open]
    <3>1. r.todo = Open /\ r.seen = IF Open = {} THEN <<>> ELSE rows BY <2>0 DEF Req
    <3>2. True(r) BY <3>1 DEF Open
    <3>3. Goto(j, r) \/ Goto(j, Idle) BY <2>3 DEF ReadRows
    <3> HIDE DEF r
    <3> QED BY <1>3, <1>5, <1>6, <2>3, <3>2, <3>3 DEF ReadRows
  <2>4. CASE ReadStats(j)
    <3>1. True([job[j] EXCEPT !.pc = "go", !.stats = stats]) BY <2>0 DEF Req
    <3>2. True([job[j] EXCEPT !.pc = "go"]) BY <2>0 DEF Req
    <3> QED BY <1>3, <1>5, <1>6, <2>4, <3>1, <3>2 DEF ReadStats
  <2>5. ASSUME NEW i \in DOMAIN rows, Manage(j, i)
        PROVE  /\ \A k, l \in Job : job'[k] # Idle /\ job'[l] # Idle => k = l
               /\ \A k \in Job : \A m \in job'[k].todo : m \in DOMAIN rows' /\ job'[k].seen[m] = rows'[m]
    <3>1. PICK r \in Req : Goto(j, r) /\ r.todo = job[j].todo \ {i} /\ (r.todo = {} \/ r.seen = job[j].seen)
      BY <2>5, ManageDoes
    <3>2. /\ job[j].pc = "go" /\ DOMAIN rows' = DOMAIN rows /\ \A k \in DOMAIN rows : k # i => rows'[k] = rows[k]
      BY <2>5, ManageDoes
    <3>3. \A k \in Job : job[k] # Idle => k = j BY <1>5, <3>2
    <3>4. \A m \in r.todo : m \in DOMAIN rows' /\ r.seen[m] = rows'[m] BY <2>0, <3>1, <3>2
    <3> QED BY <1>2, <3>1, <3>3, <3>4, IdleType DEF Goto
  <2>6. ASSUME NEW s \in Symbol, Enter(j, s)
        PROVE  /\ \A k, l \in Job : job'[k] # Idle /\ job'[l] # Idle => k = l
               /\ \A k \in Job : \A m \in job'[k].todo : m \in DOMAIN rows' /\ job'[k].seen[m] = rows'[m]
    <3>1. job[j].pc = "go" /\ job[j].todo = {} BY <2>6 DEF Enter
    <3>2. [job[j] EXCEPT !.pc = "count", !.new = Len(rows')].todo = {} BY <2>0, <3>1 DEF Req
    <3>3. Goto(j, [job[j] EXCEPT !.pc = "count", !.new = Len(rows')]) \/ job' = job BY <2>6 DEF Enter
    <3>4. \A k \in Job : job[k] # Idle => k = j BY <1>5, <3>1
    <3>5. \A k \in Job : job'[k].todo = {} BY <1>2, <3>1, <3>2, <3>3, <3>4, IdleType DEF Goto
    <3> QED BY <1>2, <3>3, <3>4, <3>5 DEF Goto
  <2>7. CASE FoldStats(j)
    <3> DEFINE s == Folded(job[j].stats, job[j].pnl)
               q == [job[j] EXCEPT !.pc = "go", !.pnl = 0, !.new = 0]
               u == [job[j] EXCEPT !.pc = "go", !.pnl = 0, !.new = 0, !.stats = s, !.open = @ \ {job[j].new}]
    <3>1. q.todo = job[j].todo /\ q.seen = job[j].seen BY <2>0 DEF Req
    <3>2. u.todo = job[j].todo /\ u.seen = job[j].seen BY <2>0 DEF Req
    <3>3. Goto(j, q) \/ Goto(j, u) BY <2>7, Zenon DEF FoldStats
    <3>4. job[j].pc # "idle" /\ UNCHANGED rows BY <2>7 DEF FoldStats
    <3> HIDE DEF s, q, u
    <3>5. True(q) /\ True(u) BY <2>0, <3>1, <3>2
    <3> QED BY <1>3, <1>5, <3>3, <3>4, <3>5
  <2>8. CASE CountEntry(j)
    <3> DEFINE s == [job[j].stats EXCEPT !.trades = @ + 1]
               q == [job[j] EXCEPT !.pc = "go", !.new = 0]
               u == [job[j] EXCEPT !.pc = "go", !.new = 0, !.stats = s, !.open = @ \cup {job[j].new}]
    <3>1. q.todo = job[j].todo /\ q.seen = job[j].seen BY <2>0 DEF Req
    <3>2. u.todo = job[j].todo /\ u.seen = job[j].seen BY <2>0 DEF Req
    <3>3. Goto(j, q) \/ Goto(j, u) BY <2>8, Zenon DEF CountEntry
    <3>4. job[j].pc # "idle" /\ UNCHANGED rows BY <2>8 DEF CountEntry
    <3> HIDE DEF s, q, u
    <3>5. True(q) /\ True(u) BY <2>0, <3>1, <3>2
    <3> QED BY <1>3, <1>5, <3>3, <3>4, <3>5
  <2>9. CASE EndJob(j) BY <1>3, <1>5, <1>6, <2>9 DEF EndJob
  <2>10. CASE KillJob(j) BY <1>3, <1>5, <1>6, <2>10 DEF KillJob
  <2> QED BY <1>7, <2>1, <2>2, <2>3, <2>4, <2>5, <2>6, <2>7, <2>8, <2>9, <2>10 DEF Acts
<1>8. CASE SaveSettings BY <1>1, <1>8 DEF SaveSettings
<1>9. CASE UNCHANGED vars BY <1>1, <1>9 DEF vars
<1> QED BY <1>7, <1>8, <1>9, Steps
\* Only Manage closes a row.
LEMMA ClosedByManage ==
  ASSUME TypeInv, [Next]_vars, NEW i \in Open, rows'[i].status = "CLOSED"
  PROVE  \E j \in Job : Manage(j, i)
<1>1. i \in DOMAIN rows /\ rows[i].status = "OPEN" /\ rows \in Seq(Row) BY DEF Open, TypeInv
<1>2. ASSUME UNCHANGED rows PROVE FALSE BY <1>1, <1>2
<1>3. PICK j \in Job : Acts(j) BY <1>2, Steps DEF SaveSettings, vars
<1>4. CASE \E m \in DOMAIN rows : Manage(j, m)
  <2>1. PICK m \in DOMAIN rows : Manage(j, m) BY <1>4
  <2>2. \A k \in DOMAIN rows : k # m => rows'[k] = rows[k] BY <2>1, ManageDoes
  <2>3. m = i BY <1>1, <2>2
  <2> QED BY <2>1, <2>3
<1>5. ASSUME NEW s \in Symbol, Enter(j, s) PROVE FALSE
  <2>1. rows' = Append(rows, [sym |-> s, status |-> "OPEN", stop |-> - R, pnl |-> 0]) BY <1>5 DEF Enter
  <2>2. rows'[i] = rows[i] BY <1>1, <2>1
  <2> QED BY <1>1, <2>2
<1>6. CASE StartScan(j) \/ StartKill(j) \/ ReadRows(j) \/ ReadStats(j) \/ FoldStats(j) \/ CountEntry(j) \/ EndJob(j) \/ KillJob(j)
  BY <1>2, <1>6, Zenon DEF StartScan, StartKill, ReadRows, ReadStats, FoldStats, CountEntry, EndJob, KillJob
<1> QED BY <1>3, <1>4, <1>5, <1>6 DEF Acts

TrailedKept ==
  mishap' \cap {"scans", "beside"} = {} =>
    \A i \in Open : rows[i].stop = 0 /\ rows'[i].status = "CLOSED" /\ rows'[i].pnl < 0 =>
      \E j \in Job : job[j].kind = "kill" \/ job[j].late

LEMMA TrailedStep ==
  ASSUME TypeInv, AloneInv, [Next]_vars
  PROVE  TrailedKept
<1> SUFFICES ASSUME mishap' \cap {"scans", "beside"} = {}, NEW i \in Open,
                    rows[i].stop = 0, rows'[i].status = "CLOSED", rows'[i].pnl < 0
             PROVE  \E j \in Job : job[j].kind = "kill" \/ job[j].late
  BY DEF TrailedKept
<1>1. PICK j \in Job : Manage(j, i) BY ClosedByManage
<1>2. i \in job[j].todo /\ i \in DOMAIN rows /\ rows \in Seq(Row) /\ rows[i].status = "OPEN" /\ rows[i] \in Row
  BY <1>1 DEF Manage, Open, TypeInv
<1>3. job[j].seen[i] = rows[i] BY <1>2, Growing DEF AloneInv, Alone
<1>4. PICK move \in Move, wrongSide \in BOOLEAN :
        LET exit == exitPrice(j, job[j].seen[i], move, wrongSide)
        IN  \/ UNCHANGED rows
            \/ /\ exit # None
               /\ rows' = [rows EXCEPT ![i] = [sym |-> @.sym, status |-> "CLOSED", stop |-> - R, pnl |-> exit]]
            \/ rows' = [rows EXCEPT ![i] = [@ EXCEPT !.stop = 0]]
  BY <1>1, Zenon DEF Manage
<1> DEFINE exit == exitPrice(j, job[j].seen[i], move, wrongSide)
<1>5. exit # None /\ rows'[i].pnl = exit
  <2> HIDE DEF exit
  <2>1. CASE UNCHANGED rows BY <1>2, <2>1
  <2>2. CASE rows' = [rows EXCEPT ![i] = [@ EXCEPT !.stop = 0]] BY <1>2, <2>2 DEF Row
  <2>3. CASE exit # None /\ rows' = [rows EXCEPT ![i] = [sym |-> @.sym, status |-> "CLOSED", stop |-> - R, pnl |-> exit]]
    BY <1>2, <2>3
  <2> QED BY <1>4, <2>1, <2>2, <2>3 DEF exit
<1>6. move \in Int /\ R \in Nat \ {0} BY LimitsAreNumbers
<1>7. SUFFICES ASSUME job[j].kind # "kill", ~ job[j].late PROVE FALSE OBVIOUS
<1>8. exit \in {2 * R, 0} \/ (exit = move /\ move > 0)
  BY <1>3, <1>5, <1>6, <1>7 DEF exitPrice
<1> HIDE DEF exit
<1> QED BY <1>5, <1>6, <1>8

-----------------------------------------------------------------------------
(* The caps *)

\* A close keeps the caps.
LEMMA CapsShrink ==
  ASSUME NEW rs \in Seq(Row), NEW rt \in Seq(Row), Caps(rs), DOMAIN rt = DOMAIN rs,
         \A k \in DOMAIN rs : rt[k].sym = rs[k].sym,
         \A k \in DOMAIN rs : rt[k].status = "OPEN" => rs[k].status = "OPEN"
  PROVE  Caps(rt)
<1>1. OpenIn(rt) \subseteq OpenIn(rs) BY DEF OpenIn
<1>2. IsFiniteSet(OpenIn(rs)) BY OpenIsFinite
<1>3. Cardinality(OpenIn(rt)) <= MaxOpen
  <2>1. /\ Cardinality(OpenIn(rt)) <= Cardinality(OpenIn(rs))
        /\ Cardinality(OpenIn(rt)) \in Nat /\ Cardinality(OpenIn(rs)) \in Nat
    BY <1>1, <1>2, FS_Subset, FS_CardinalityType
  <2> QED BY <2>1, LimitsAreNumbers DEF Caps
<1>4. \A i, k \in OpenIn(rt) : i # k => rt[i].sym # rt[k].sym BY <1>1 DEF Caps, OpenIn
<1>5. ASSUME NEW s \in Symbol, SectorOf[s] # None
      PROVE  Cardinality(OfSector(rt, OpenIn(rt), SectorOf[s])) <= MaxPerSector
  <2> DEFINE A == OfSector(rs, OpenIn(rs), SectorOf[s])
             B == OfSector(rt, OpenIn(rt), SectorOf[s])
  <2>1. B \subseteq A /\ A \subseteq OpenIn(rs) BY <1>1 DEF OfSector, OpenIn
  <2>2. Cardinality(A) <= MaxPerSector BY <1>5 DEF Caps
  <2> HIDE DEF A, B
  <2>3. IsFiniteSet(A) BY <1>2, <2>1, FS_Subset
  <2>4. Cardinality(B) <= Cardinality(A) /\ Cardinality(A) \in Nat /\ Cardinality(B) \in Nat
    BY <2>1, <2>3, FS_Subset, FS_CardinalityType
  <2>5. Cardinality(B) <= MaxPerSector BY <2>2, <2>4, LimitsAreNumbers
  <2> QED BY <2>5 DEF B
<1> QED BY <1>3, <1>4, <1>5 DEF Caps

\* So does an entry of a request that takes for open whatever is.
LEMMA CapsGrow ==
  ASSUME NEW rs \in Seq(Row), NEW row \in Row, NEW I, IsFiniteSet(I), OpenIn(rs) \subseteq I, Caps(rs),
         Cardinality(I) < MaxOpen, \A i \in I : rs[i].sym # row.sym,
         SectorOf[row.sym] # None => Cardinality(OfSector(rs, I, SectorOf[row.sym])) < MaxPerSector
  PROVE  Caps(Append(rs, row))
<1> DEFINE rt == Append(rs, row)
           x == Len(rs) + 1
<1>1. /\ rt \in Seq(Row) /\ DOMAIN rt = DOMAIN rs \cup {x} /\ x \notin DOMAIN rs /\ rt[x] = row
      /\ \A k \in DOMAIN rs : rt[k] = rs[k]
  OBVIOUS
<1> HIDE DEF rt, x
<1>2. OpenIn(rt) \subseteq OpenIn(rs) \cup {x} BY <1>1 DEF OpenIn
<1>3. ASSUME NEW A, IsFiniteSet(A), NEW B, B \subseteq A \cup {x}, NEW n \in Nat, Cardinality(A) < n
      PROVE  Cardinality(B) <= n
  <2>0. /\ IsFiniteSet(A \cup {x})
        /\ Cardinality(A \cup {x}) = IF x \in A THEN Cardinality(A) ELSE Cardinality(A) + 1
    BY <1>3, FS_AddElement, Zenon
  <2>1. IsFiniteSet(A \cup {x}) /\ Cardinality(A \cup {x}) <= Cardinality(A) + 1 /\ Cardinality(A) \in Nat
        /\ Cardinality(A \cup {x}) \in Nat
    <3>1. Cardinality(A) \in Nat BY <1>3, FS_CardinalityType
    <3> QED BY <2>0, <3>1
  <2>2. Cardinality(B) <= Cardinality(A \cup {x}) /\ Cardinality(B) \in Nat BY <1>3, <2>1, FS_Subset, FS_CardinalityType
  <2> QED BY <1>3, <2>1, <2>2
<1>4. Cardinality(OpenIn(rt)) <= MaxOpen
  <2>1. OpenIn(rt) \subseteq I \cup {x} BY <1>2
  <2> QED BY <1>3, <2>1, LimitsAreNumbers
<1>5. \A i, k \in OpenIn(rt) : i # k => rt[i].sym # rt[k].sym
  <2> SUFFICES ASSUME NEW i \in OpenIn(rt), NEW k \in OpenIn(rt), i # k PROVE rt[i].sym # rt[k].sym OBVIOUS
  <2>1. CASE i \in OpenIn(rs) /\ k \in OpenIn(rs) BY <1>1, <2>1 DEF Caps, OpenIn
  <2>2. CASE i = x /\ k \in OpenIn(rs) BY <1>1, <2>2 DEF OpenIn
  <2>3. CASE i \in OpenIn(rs) /\ k = x BY <1>1, <2>3 DEF OpenIn
  <2> QED BY <1>2, <2>1, <2>2, <2>3
<1>6. ASSUME NEW s \in Symbol, SectorOf[s] # None
      PROVE  Cardinality(OfSector(rt, OpenIn(rt), SectorOf[s])) <= MaxPerSector
  <2>1. CASE SectorOf[row.sym] = SectorOf[s]
    <3> DEFINE A == OfSector(rs, I, SectorOf[s])
               B == OfSector(rt, OpenIn(rt), SectorOf[s])
    <3>1. B \subseteq A \cup {x} BY <1>1, <1>2 DEF OfSector, OpenIn
    <3>2. Cardinality(A) < MaxPerSector BY <1>6, <2>1
    <3>3. A \subseteq I BY DEF OfSector
    <3> HIDE DEF A, B
    <3>4. IsFiniteSet(A) BY <3>3, FS_Subset
    <3>5. Cardinality(B) <= MaxPerSector BY <1>3, <3>1, <3>2, <3>4, LimitsAreNumbers
    <3> QED BY <3>5 DEF B
  <2>2. CASE SectorOf[row.sym] # SectorOf[s]
    <3>1. OfSector(rt, OpenIn(rt), SectorOf[s]) = OfSector(rs, OpenIn(rs), SectorOf[s])
      BY <1>1, <2>2 DEF OfSector, OpenIn
    <3> QED BY <1>6, <3>1 DEF Caps
  <2> QED BY <2>1, <2>2
<1>7. Caps(rt) BY <1>4, <1>5, <1>6 DEF Caps
<1> QED BY <1>7 DEF rt
\* The position just inserted is counted as open with the answer to the upsert.
Held(r) == IF r.pc = "count" THEN {r.new} ELSE {}

Quiet == mishap \cap {"scans", "unanswered", "lost"} = {}

\* What request r has to know when the rows are rs.
Knows(rs, r) ==
  /\ IsFiniteSet(r.open)
  /\ r.on /\ r.pc \notin {"idle", "rows"} => OpenIn(rs) \ Held(r) \subseteq r.open
  /\ r.pc = "fold" => r.new \in DOMAIN rs /\ rs[r.new].status = "CLOSED"

CapsInv ==
  Quiet => /\ \A j \in Job : job[j].on => j \in Scan
           /\ \A j, k \in Job : job[j].on /\ job[k].on => j = k
           /\ \A j \in Job : Knows(rows, job[j])
           /\ Caps(rows)

LEMMA IdleKnows == ASSUME NEW rs PROVE Knows(rs, Idle)
<1>1. Idle.open = {} BY DEF Idle, Request
<1>2. IsFiniteSet({}) BY FS_EmptySet
<1> QED BY <1>1, <1>2, IdleType DEF Knows

LEMMA CapsInit == Init => CapsInv
<1> SUFFICES ASSUME Init PROVE CapsInv OBVIOUS
<1>1. \A j \in Job : job[j] = Idle BY DEF Init
<1>2. \A j \in Job : Knows(rows, job[j]) BY <1>1, IdleKnows
<1>3. OpenIn(rows) = {} BY DEF Init, OpenIn
<1>4. Cardinality({}) = 0 BY FS_EmptySet
<1>5. \A v : OfSector(rows, {}, v) = {} BY DEF OfSector
<1>6. Caps(rows) BY <1>3, <1>4, <1>5, LimitsAreNumbers DEF Caps
<1> QED BY <1>1, <1>2, <1>6, IdleType DEF CapsInv

\* A row that is closed, or one that is added, does not surprise a request that is not
\* about to enter.
LEMMA StillKnows ==
  ASSUME NEW rs \in Seq(Row), NEW rt \in Seq(Row), NEW r, Knows(rs, r),
         DOMAIN rs \subseteq DOMAIN rt,
         \A k \in DOMAIN rs : rs[k].status = "CLOSED" => rt[k].status = "CLOSED",
         DOMAIN rt = DOMAIN rs \/ ~ r.on
  PROVE  Knows(rt, r)
<1>1. \A k \in DOMAIN rs : rs[k].status \in {"OPEN", "CLOSED"}
  <2>1. \A k \in DOMAIN rs : rs[k] \in Row OBVIOUS
  <2> QED BY <2>1 DEF Row
<1>2. DOMAIN rt = DOMAIN rs => OpenIn(rt) \subseteq OpenIn(rs) BY <1>1 DEF OpenIn
<1> QED BY <1>2 DEF Knows

LEMMA CapsStep ==
  ASSUME TypeInv, TypeInv', CapsInv, [Next]_vars
  PROVE  CapsInv'
<1> DEFINE Good == /\ \A j \in Job : job'[j].on => j \in Scan
                   /\ \A j, k \in Job : job'[j].on /\ job'[k].on => j = k
                   /\ \A j \in Job : Knows(rows', job'[j])
                   /\ Caps(rows')
<1> SUFFICES ASSUME Quiet' PROVE Good BY DEF CapsInv
<1>1. /\ \A j \in Job : job[j].on => j \in Scan
      /\ \A j, k \in Job : job[j].on /\ job[k].on => j = k
      /\ \A j \in Job : Knows(rows, job[j])
      /\ Caps(rows)
  BY Growing DEF CapsInv, Quiet
<1>2. job \in [Job -> Req] /\ rows \in Seq(Row) /\ rows' \in Seq(Row) BY DEF TypeInv
<1>3. ASSUME NEW j \in Job, NEW r, Goto(j, r), UNCHANGED rows, Knows(rows, r), r.on => job[j].on
      PROVE  Good
  BY <1>1, <1>2, <1>3 DEF Goto
<1>4. ASSUME NEW j \in Job, Acts(j) PROVE Good
  <2>0. job[j] \in Req /\ Knows(rows, job[j]) BY <1>1, <1>2
  <2>1. CASE StartScan(j)
    <3>1. PICK late \in BOOLEAN : Goto(j, Request("rows", "scan", enabled, late)) BY <2>1 DEF StartScan
    <3> DEFINE r == Request("rows", "scan", enabled, late)
    <3>2. r.pc = "rows" /\ r.open = {} BY DEF Request
    <3>3. Knows(rows, r) BY <3>2, FS_EmptySet DEF Knows
    <3>4. \A k \in Scan : job[k] = Idle BY <2>1 DEF StartScan, Begin, Happen, Busy, Quiet
    <3>5. \A k \in Job : ~ job[k].on BY <1>1, <3>4, IdleType
    <3>6. j \in Scan /\ UNCHANGED rows BY <2>1 DEF StartScan
    <3> HIDE DEF r
    <3> QED BY <1>1, <1>2, <3>1, <3>3, <3>5, <3>6 DEF Goto, r
  <2>2. CASE StartKill(j)
    <3> DEFINE r == Request("rows", "kill", FALSE, FALSE)
    <3>1. r.pc = "rows" /\ r.open = {} /\ r.on = FALSE BY DEF Request
    <3>2. Knows(rows, r) BY <3>1, FS_EmptySet DEF Knows
    <3>3. Goto(j, r) /\ UNCHANGED rows BY <2>2 DEF StartKill
    <3> HIDE DEF r
    <3> QED BY <1>3, <3>1, <3>2, <3>3
  <2>3. CASE ReadRows(j)
    <3> DEFINE r == [job[j] EXCEPT !.pc = "stats", !.seen = IF Open = {} THEN <<>> ELSE rows, !.todo = Open, !.open = Open]
    <3>1. r.open = Open /\ r.on = job[j].on /\ r.pc = "stats" BY <2>0 DEF Req
    <3>2. Open = OpenIn(rows) BY DEF Open, OpenIn
    <3>3. Goto(j, r) \/ Goto(j, Idle) BY <2>3 DEF ReadRows
    <3> HIDE DEF r
    <3>4. Knows(rows, r) BY <1>2, <3>1, <3>2, OpenIsFinite DEF Knows
    <3> QED BY <1>3, <2>3, <3>1, <3>3, <3>4, IdleKnows, IdleType DEF ReadRows
  <2>4. CASE ReadStats(j)
    <3> DEFINE q == [job[j] EXCEPT !.pc = "go", !.stats = stats]
               u == [job[j] EXCEPT !.pc = "go"]
    <3>1. q.pc = "go" /\ q.open = job[j].open /\ q.on = job[j].on BY <2>0 DEF Req
    <3>2. u.pc = "go" /\ u.open = job[j].open /\ u.on = job[j].on BY <2>0 DEF Req
    <3>3. Goto(j, q) \/ Goto(j, u) \/ Goto(j, Idle) BY <2>4, Zenon DEF ReadStats
    <3>4. job[j].pc = "stats" /\ UNCHANGED rows BY <2>4 DEF ReadStats
    <3> HIDE DEF q, u
    <3>5. Knows(rows, q) /\ Knows(rows, u) BY <2>0, <3>1, <3>2, <3>4 DEF Knows, Held
    <3> QED BY <1>3, <3>1, <3>2, <3>3, <3>4, <3>5, IdleKnows, IdleType
  <2>5. ASSUME NEW i \in DOMAIN rows, Manage(j, i) PROVE Good
    <3>1. PICK r \in Req :
            /\ Goto(j, r) /\ r.on = job[j].on /\ r.open = job[j].open
            /\ r.pc = "go" \/ (r.pc = "fold" /\ r.new = i /\ rows'[i].status = "CLOSED")
      BY <2>5, ManageDoes
    <3>2. /\ job[j].pc = "go" /\ DOMAIN rows' = DOMAIN rows /\ rows'[i].sym = rows[i].sym
          /\ rows'[i].status = "OPEN" => rows[i].status = "OPEN"
          /\ \A k \in DOMAIN rows : k # i => rows'[k] = rows[k]
      BY <2>5, ManageDoes
    <3>3. /\ \A k \in DOMAIN rows : rows'[k].sym = rows[k].sym
          /\ \A k \in DOMAIN rows : rows'[k].status = "OPEN" => rows[k].status = "OPEN"
      BY <3>2
    <3>4. Caps(rows') BY <1>1, <1>2, <3>2, <3>3, CapsShrink
    <3>5. \A k \in DOMAIN rows : rows'[k].status \in {"OPEN", "CLOSED"}
      <4>1. \A k \in DOMAIN rows : rows'[k] \in Row BY <1>2, <3>2
      <4> QED BY <4>1 DEF Row
    <3>6. \A k \in DOMAIN rows : rows[k].status = "CLOSED" => rows'[k].status = "CLOSED" BY <3>3, <3>5
    <3>7. \A k \in Job : Knows(rows', job[k]) BY <1>1, <1>2, <3>2, <3>6, StillKnows
    <3>8. Knows(rows', r) BY <3>1, <3>2, <3>7 DEF Knows, Held
    <3> QED BY <1>1, <1>2, <3>1, <3>4, <3>7, <3>8 DEF Goto
  <2>6. ASSUME NEW s \in Symbol, Enter(j, s) PROVE Good
    <3> DEFINE row == [sym |-> s, status |-> "OPEN", stop |-> - R, pnl |-> 0]
               r == [job[j] EXCEPT !.pc = "count", !.new = Len(rows')]
    <3>1. job[j].pc = "go" /\ job[j].on /\ MayOpen(j, s) /\ rows' = Append(rows, row) BY <2>6 DEF Enter
    <3>2. Goto(j, r) BY <2>6 DEF Enter, Happen, Quiet
    <3>3. row \in Row /\ row.sym = s /\ row.status = "OPEN" BY LimitsAreNumbers DEF Row
    <3>4. r.pc = "count" /\ r.open = job[j].open /\ r.on = job[j].on /\ r.new = Len(rows') BY <2>0 DEF Req
    <3> HIDE DEF row, r
    <3>5. OpenIn(rows) \subseteq job[j].open /\ IsFiniteSet(job[j].open) BY <2>0, <3>1 DEF Knows, Held
    <3>6. Caps(rows')
      <4>1. /\ Cardinality(job[j].open) < MaxOpen /\ \A i \in job[j].open : rows[i].sym # s
            /\ SectorOf[s] # None => Cardinality(OfSector(rows, job[j].open, SectorOf[s])) < MaxPerSector
        BY <3>1, Zenon DEF MayOpen, OfSector
      <4> QED BY <1>1, <1>2, <3>1, <3>3, <3>5, <4>1, CapsGrow
    <3>7. /\ Len(rows') = Len(rows) + 1 /\ DOMAIN rows' = DOMAIN rows \cup {Len(rows')}
          /\ \A k \in DOMAIN rows : rows'[k] = rows[k]
      BY <1>2, <3>1, <3>3
    <3>8. OpenIn(rows') \ {Len(rows')} \subseteq OpenIn(rows) BY <3>7 DEF OpenIn
    <3>9. Knows(rows', r) BY <3>4, <3>5, <3>8 DEF Knows, Held
    <3>10. ASSUME NEW k \in Job, k # j PROVE Knows(rows', job[k])
      <4>1. ~ job[k].on BY <1>1, <3>1, <3>10
      <4> QED BY <1>1, <1>2, <3>7, <4>1, StillKnows
    <3> QED BY <1>1, <1>2, <3>2, <3>4, <3>6, <3>9, <3>10 DEF Goto
  <2>7. CASE FoldStats(j)
    <3> DEFINE s == Folded(job[j].stats, job[j].pnl)
               u == [job[j] EXCEPT !.pc = "go", !.pnl = 0, !.new = 0, !.stats = s, !.open = @ \ {job[j].new}]
    <3>1. u.pc = "go" /\ u.on = job[j].on /\ u.open = job[j].open \ {job[j].new} BY <2>0 DEF Req
    <3>2. Goto(j, u)
      <4>1. PICK written \in BOOLEAN, counted \in BOOLEAN :
              /\ Goto(j, IF counted THEN u ELSE [job[j] EXCEPT !.pc = "go", !.pnl = 0, !.new = 0])
              /\ When(~ (written /\ counted), "lost")
        BY <2>7, Zenon DEF FoldStats
      <4>2. counted BY <4>1 DEF When, Happen, Quiet
      <4> HIDE DEF u
      <4> QED BY <4>1, <4>2
    <3>3. job[j].pc = "fold" /\ UNCHANGED rows BY <2>7 DEF FoldStats
    <3> HIDE DEF s, u
    <3>4. IsFiniteSet(u.open) BY <2>0, <3>1, FS_RemoveElement DEF Knows
    <3>5. job[j].new \notin OpenIn(rows) BY <2>0, <3>3 DEF Knows, OpenIn
    <3>6. Knows(rows, u) BY <2>0, <3>1, <3>3, <3>4, <3>5 DEF Knows, Held
    <3> QED BY <1>3, <3>1, <3>2, <3>3, <3>6
  <2>8. CASE CountEntry(j)
    <3> DEFINE s == [job[j].stats EXCEPT !.trades = @ + 1]
               u == [job[j] EXCEPT !.pc = "go", !.new = 0, !.stats = s, !.open = @ \cup {job[j].new}]
    <3>1. u.pc = "go" /\ u.on = job[j].on /\ u.open = job[j].open \cup {job[j].new} BY <2>0 DEF Req
    <3>2. Goto(j, u)
      <4>1. PICK written \in BOOLEAN, counted \in BOOLEAN :
              /\ Goto(j, IF counted THEN u ELSE [job[j] EXCEPT !.pc = "go", !.new = 0])
              /\ When(~ (written /\ counted), "lost")
        BY <2>8, Zenon DEF CountEntry
      <4>2. counted BY <4>1 DEF When, Happen, Quiet
      <4> HIDE DEF u
      <4> QED BY <4>1, <4>2
    <3>3. job[j].pc = "count" /\ UNCHANGED rows BY <2>8 DEF CountEntry
    <3> HIDE DEF s, u
    <3>4. IsFiniteSet(u.open) BY <2>0, <3>1, FS_AddElement DEF Knows
    <3>5. Knows(rows, u) BY <2>0, <3>1, <3>3, <3>4 DEF Knows, Held
    <3> QED BY <1>3, <3>1, <3>2, <3>3, <3>5
  <2>9. CASE EndJob(j) BY <1>3, <2>9, IdleKnows, IdleType DEF EndJob
  <2>10. CASE KillJob(j) BY <1>3, <2>10, IdleKnows, IdleType DEF KillJob
  <2> QED BY <1>4, <2>1, <2>2, <2>3, <2>4, <2>5, <2>6, <2>7, <2>8, <2>9, <2>10 DEF Acts
<1>5. CASE SaveSettings BY <1>1, <1>5 DEF SaveSettings
<1>6. CASE UNCHANGED vars BY <1>1, <1>6 DEF vars
<1> QED BY <1>4, <1>5, <1>6, Steps

-----------------------------------------------------------------------------
(* The results of the closed positions *)

PnlOf(q, I) == MapThenSumSet(LAMBDA i : q[i].pnl, I)

LEMMA PnlIsSum ==
  ASSUME NEW q, NEW I, IsFiniteSet(I)
  PROVE  PnlOf(q, I) = SumOf([i \in I |-> q[i].pnl], I)
<1> DEFINE f == [i \in I |-> q[i].pnl]
           Fold(sum) == sum = [s \in SUBSET I |->
                                 IF s = {} THEN 0
                                 ELSE LET x == CHOOSE y \in s : TRUE IN q[x].pnl + sum[s \ {x}]]
           it == CHOOSE sum : Fold(sum)
<1>1. ASSUME NEW sum PROVE Fold(sum) <=> Adds(f, I, sum)
  <2>1. ASSUME NEW s \in SUBSET I
        PROVE  (IF s = {} THEN 0 ELSE LET x == CHOOSE y \in s : TRUE IN q[x].pnl + sum[s \ {x}]) = AddsLast(f, sum, s)
    <3>1. CASE s = {} BY <3>1 DEF AddsLast
    <3>2. CASE s # {}
      <4>1. Pick(s) \in I BY <3>2, PickIn
      <4>2. f[Pick(s)] = q[Pick(s)].pnl BY <4>1
      <4> HIDE DEF f
      <4> QED BY <3>2, <4>2 DEF AddsLast, Pick
    <3> QED BY <3>1, <3>2
  <2> HIDE DEF f
  <2> QED BY <2>1 DEF Adds
<1> HIDE DEF f
<1>2. \E sum : Fold(sum)
  <2> HIDE DEF Fold
  <2> QED BY <1>1, SumExists
<1>3. Fold(it)
  <2> HIDE DEF Fold
  <2> QED BY <1>2
<1>4. PnlOf(q, I) = it[I]
  BY DEF PnlOf, MapThenSumSet, MapThenFoldSet
<1> HIDE DEF it, Fold
<1> QED BY <1>1, <1>3, <1>4, SumIs DEF f

ClosedIn(rs) == {i \in DOMAIN rs : rs[i].status = "CLOSED"}
Total(rs) == PnlOf(rs, ClosedIn(rs))

LEMMA ClosedFinite ==
  ASSUME NEW rs \in Seq(Row)
  PROVE  IsFiniteSet(ClosedIn(rs)) /\ \A i \in ClosedIn(rs) : rs[i].pnl \in Int
<1>1. IsFiniteSet(1 .. Len(rs)) BY FS_Interval
<1>2. ClosedIn(rs) \subseteq 1 .. Len(rs) BY DEF ClosedIn
<1>3. \A i \in DOMAIN rs : rs[i] \in Row OBVIOUS
<1> QED BY <1>1, <1>2, <1>3, FS_Subset DEF Row, ClosedIn

LEMMA PnlSame ==
  ASSUME NEW q, NEW r, NEW I, IsFiniteSet(I), \A i \in I : q[i].pnl = r[i].pnl
  PROVE  PnlOf(q, I) = PnlOf(r, I)
<1>1. [i \in I |-> q[i].pnl] = [i \in I |-> r[i].pnl] OBVIOUS
<1> QED BY <1>1, PnlIsSum

LEMMA PnlSplit ==
  ASSUME NEW q, NEW I, IsFiniteSet(I), \A i \in I : q[i].pnl \in Int, NEW x \in I
  PROVE  PnlOf(q, I) = q[x].pnl + PnlOf(q, I \ {x})
<1> DEFINE f == [i \in I |-> q[i].pnl]
           g == [i \in I \ {x} |-> q[i].pnl]
<1>1. IsFiniteSet(I \ {x}) BY FS_RemoveElement
<1>2. PnlOf(q, I) = SumOf(f, I) /\ PnlOf(q, I \ {x}) = SumOf(g, I \ {x}) BY <1>1, PnlIsSum
<1>3. /\ \A i \in I \ {x} : f[i] = g[i]
      /\ \A i \in I : f[i] \in Int
      /\ f[x] = q[x].pnl
  OBVIOUS
<1> HIDE DEF f, g
<1>4. SumOf(f, I \ {x}) = SumOf(g, I \ {x}) BY <1>1, <1>3, SumOfSame
<1>5. SumOf(f, I) = f[x] + SumOf(f, I \ {x}) BY <1>3, SumOfSplit
<1> QED BY <1>2, <1>3, <1>4, <1>5

LEMMA PnlIsInt ==
  ASSUME NEW q, NEW I, IsFiniteSet(I), \A i \in I : q[i].pnl \in Int
  PROVE  PnlOf(q, I) \in Int
<1> DEFINE f == [i \in I |-> q[i].pnl]
<1>1. PnlOf(q, I) = SumOf(f, I) BY PnlIsSum
<1>2. \A i \in I : f[i] \in Int OBVIOUS
<1> HIDE DEF f
<1> QED BY <1>1, <1>2, SumOfInt

\* A close adds its result; nothing else changes the total.
LEMMA TotalSame ==
  ASSUME NEW rs \in Seq(Row), NEW rt, ClosedIn(rt) = ClosedIn(rs), \A i \in ClosedIn(rs) : rt[i].pnl = rs[i].pnl
  PROVE  Total(rt) = Total(rs)
BY ClosedFinite, PnlSame DEF Total

LEMMA TotalClose ==
  ASSUME NEW rs \in Seq(Row), NEW rt \in Seq(Row), DOMAIN rt = DOMAIN rs, NEW i \in DOMAIN rs,
         rs[i].status = "OPEN", rt[i].status = "CLOSED", \A k \in DOMAIN rs : k # i => rt[k] = rs[k]
  PROVE  Total(rt) = Total(rs) + rt[i].pnl
<1>1. i \in ClosedIn(rt) /\ ClosedIn(rt) \ {i} = ClosedIn(rs) BY DEF ClosedIn
<1>2. IsFiniteSet(ClosedIn(rt)) /\ IsFiniteSet(ClosedIn(rs)) /\ rt[i].pnl \in Int BY <1>1, ClosedFinite
<1>3. PnlOf(rt, ClosedIn(rt)) = rt[i].pnl + PnlOf(rt, ClosedIn(rs)) BY <1>1, <1>2, ClosedFinite, PnlSplit
<1>4. PnlOf(rt, ClosedIn(rs)) = PnlOf(rs, ClosedIn(rs))
  <2>1. \A k \in ClosedIn(rs) : rt[k].pnl = rs[k].pnl BY DEF ClosedIn
  <2> QED BY <1>2, <2>1, PnlSame
<1>5. PnlOf(rs, ClosedIn(rs)) \in Int BY <1>2, ClosedFinite, PnlIsInt
<1> QED BY <1>2, <1>3, <1>4, <1>5 DEF Total

-----------------------------------------------------------------------------
(* The statistics *)

\* The statistics st are behind the rows by what request r is about to count.
Counted(r, rs, st) ==
  /\ r.todo \subseteq OpenIn(rs)
  /\ r.pc \in {"go", "fold", "count"} => r.stats = st
  /\ st.trades = Len(rs) - (IF r.pc = "count" THEN 1 ELSE 0)
  /\ st.gross = Total(rs) - (IF r.pc = "fold" THEN r.pnl ELSE 0)

StatsInv ==
  mishap = {} =>
    /\ \A j \in Job : (\A k \in Job : k # j => job[k] = Idle) => Counted(job[j], rows, stats)
    /\ (\A j \in Job : job[j] = Idle) => stats.trades = Len(rows) /\ stats.gross = Total(rows)

LEMMA TotalNow == Pnl(Closed) = Total(rows)
BY DEF Pnl, Closed, Total, PnlOf, ClosedIn, MapThenSumSet, MapThenFoldSet

LEMMA TotalEmpty == Total(<<>>) = 0
<1>1. ClosedIn(<<>>) = {} BY DEF ClosedIn
<1>2. PnlOf(<<>>, {}) = SumOf([i \in {} |-> <<>>[i].pnl], {}) BY FS_EmptySet, PnlIsSum
<1> QED BY <1>1, <1>2, SumOfNone DEF Total

LEMMA StatsInit == Init => StatsInv
<1> SUFFICES ASSUME Init PROVE StatsInv OBVIOUS
<1>1. stats.trades = 0 /\ stats.gross = 0 /\ Len(rows) = 0 /\ Total(rows) = 0
  BY TotalEmpty DEF Init, NoStats
<1>2. Idle.todo = {} /\ Idle.pc = "idle" BY IdleType
<1>3. Counted(Idle, rows, stats) BY <1>1, <1>2 DEF Counted
<1> QED BY <1>1, <1>3 DEF Init, StatsInv

\* Without a write that is lost, a managed position is closed and about to be counted, or
\* its result stays what it was.
LEMMA ManageBooks ==
  ASSUME TypeInv, NEW j \in Job, NEW i \in DOMAIN rows, Manage(j, i), mishap' = {}
  PROVE  \E r \in Req :
           /\ Goto(j, r) /\ r.stats = job[j].stats
           /\ \/ r.pc = "go" /\ rows'[i].status = rows[i].status /\ rows'[i].pnl = rows[i].pnl
              \/ r.pc = "fold" /\ rows'[i].status = "CLOSED" /\ r.pnl = rows'[i].pnl
<1> DEFINE passed == IF job[j].todo = {i} THEN [job[j] EXCEPT !.todo = {}, !.seen = <<>>, !.late = FALSE]
                     ELSE [job[j] EXCEPT !.todo = @ \ {i}]
<1>1. PICK move \in Move, wrongSide \in BOOLEAN :
        LET exit == exitPrice(j, job[j].seen[i], move, wrongSide)
        IN  \/ Goto(j, passed) /\ UNCHANGED <<rows, mishap>>
            \/ /\ exit # None
               /\ rows' = [rows EXCEPT ![i] = [sym |-> @.sym, status |-> "CLOSED", stop |-> - R, pnl |-> exit]]
               /\ \/ Goto(j, [passed EXCEPT !.pc = "fold", !.pnl = exit, !.new = i]) /\ UNCHANGED mishap
                  \/ Goto(j, passed) /\ Happen({"lost"})
            \/ rows' = [rows EXCEPT ![i].stop = 0] /\ Goto(j, passed)
  BY Zenon DEF Manage
<1> DEFINE exit == exitPrice(j, job[j].seen[i], move, wrongSide)
           counted == [passed EXCEPT !.pc = "fold", !.pnl = exit, !.new = i]
<1>2. job[j].pc = "go" /\ i \in job[j].todo /\ job[j] \in Req /\ i \in Nat BY DEF Manage, TypeInv
<1>3. exit \in Int \cup {None} BY <1>2, PriceIsNumber
<1>4. passed \in Req /\ passed.pc = "go" /\ passed.stats = job[j].stats
  <2>1. CASE job[j].todo = {i}
    <3>0. <<>> \in Seq(Row) OBVIOUS
    <3>1. [job[j] EXCEPT !.todo = {}, !.seen = <<>>, !.late = FALSE] \in Req BY <1>2, <3>0 DEF Req
    <3> QED BY <1>2, <2>1, <3>1 DEF Req
  <2>2. CASE job[j].todo # {i}
    <3>1. [job[j] EXCEPT !.todo = @ \ {i}] \in Req BY <1>2 DEF Req
    <3> QED BY <1>2, <2>2, <3>1 DEF Req
  <2> QED BY <2>1, <2>2
<1>5. ASSUME exit # None
      PROVE  counted \in Req /\ counted.pc = "fold" /\ counted.pnl = exit /\ counted.stats = passed.stats
  <2> HIDE DEF passed, exit
  <2>1. counted \in Req BY <1>2, <1>3, <1>4, <1>5 DEF Req
  <2> QED BY <1>4, <2>1 DEF Req
<1>6. rows[i] \in Row /\ rows \in Seq(Row) BY DEF TypeInv
<1>7. ~ Happen({"lost"}) BY DEF Happen
<1>8. \/ Goto(j, passed) /\ UNCHANGED rows
      \/ /\ exit # None /\ Goto(j, counted)
         /\ rows' = [rows EXCEPT ![i] = [sym |-> @.sym, status |-> "CLOSED", stop |-> - R, pnl |-> exit]]
      \/ rows' = [rows EXCEPT ![i] = [@ EXCEPT !.stop = 0]] /\ Goto(j, passed)
  BY <1>1, <1>7, Zenon
<1> HIDE DEF passed, exit, counted
<1>9. CASE Goto(j, passed) /\ UNCHANGED rows
  BY <1>4, <1>9
<1>10. CASE rows' = [rows EXCEPT ![i] = [@ EXCEPT !.stop = 0]] /\ Goto(j, passed)
  <2>1. rows'[i].status = rows[i].status /\ rows'[i].pnl = rows[i].pnl BY <1>6, <1>10 DEF Row
  <2> QED BY <1>4, <1>10, <2>1
<1>11. CASE /\ exit # None /\ Goto(j, counted)
            /\ rows' = [rows EXCEPT ![i] = [sym |-> @.sym, status |-> "CLOSED", stop |-> - R, pnl |-> exit]]
  <2>1. rows'[i].status = "CLOSED" /\ rows'[i].pnl = exit BY <1>6, <1>11
  <2>2. counted \in Req /\ counted.pc = "fold" /\ counted.pnl = rows'[i].pnl /\ counted.stats = job[j].stats
    BY <1>4, <1>5, <1>11, <2>1
  <2> QED BY <1>11, <2>1, <2>2
<1> QED BY <1>8, <1>9, <1>10, <1>11

LEMMA TotalIsInt == ASSUME NEW rs \in Seq(Row) PROVE Total(rs) \in Int
BY ClosedFinite, PnlIsInt DEF Total

LEMMA StatsStep ==
  ASSUME TypeInv, TypeInv', AloneInv, StatsInv, [Next]_vars
  PROVE  StatsInv'
<1> DEFINE Good == /\ \A j \in Job : (\A k \in Job : k # j => job'[k] = Idle) => Counted(job'[j], rows', stats')
                   /\ (\A j \in Job : job'[j] = Idle) => stats'.trades = Len(rows') /\ stats'.gross = Total(rows')
<1> SUFFICES ASSUME mishap' = {} PROVE Good BY DEF StatsInv
<1>1. /\ mishap = {}
      /\ \A j \in Job : (\A k \in Job : k # j => job[k] = Idle) => Counted(job[j], rows, stats)
      /\ (\A j \in Job : job[j] = Idle) => stats.trades = Len(rows) /\ stats.gross = Total(rows)
      /\ \A j, k \in Job : job[j] # Idle /\ job[k] # Idle => j = k
  BY Growing DEF StatsInv, AloneInv, Alone
<1>2. /\ job \in [Job -> Req] /\ rows \in Seq(Row) /\ rows' \in Seq(Row) /\ stats \in Stats
      /\ Len(rows) \in Nat /\ Total(rows) \in Int /\ Total(rows') \in Int
  BY TotalIsInt DEF TypeInv
\* The request that acts is the only one, and a request that has ended counts nothing.
<1>3. ASSUME NEW j \in Job, NEW r, Goto(j, r), \A k \in Job : k # j => job[k] = Idle, Counted(r, rows', stats')
      PROVE  Good
  <2>1. \A k \in Job : job'[k] = IF k = j THEN r ELSE Idle BY <1>2, <1>3 DEF Goto
  <2>2. ASSUME NEW k \in Job, \A l \in Job : l # k => job'[l] = Idle PROVE Counted(job'[k], rows', stats')
    <3>1. CASE k = j BY <1>3, <2>1, <3>1
    <3>2. CASE k # j
      <4>1. r = Idle /\ job'[k] = Idle BY <2>1, <2>2, <3>2
      <4> QED BY <1>3, <4>1
    <3> QED BY <3>1, <3>2
  <2>3. ASSUME \A k \in Job : job'[k] = Idle PROVE stats'.trades = Len(rows') /\ stats'.gross = Total(rows')
    <3>1. Counted(Idle, rows', stats') BY <1>3, <2>1, <2>3
    <3>2. Len(rows') \in Nat BY <1>2
    <3> QED BY <1>2, <3>1, <3>2, IdleType DEF Counted
  <2> QED BY <2>2, <2>3
<1>4. ASSUME NEW j \in Job, job[j].pc # "idle"
      PROVE  (\A k \in Job : k # j => job[k] = Idle) /\ Counted(job[j], rows, stats)
  BY <1>1, <1>4, IdleType
<1>5. ASSUME NEW r, r.todo = {}, r.pc \in {"idle", "rows"}, stats.trades = Len(rows), stats.gross = Total(rows)
      PROVE  Counted(r, rows, stats)
  BY <1>2, <1>5 DEF Counted
<1>6. ASSUME NEW j \in Job, job[j].pc \in {"rows", "stats", "go"}
      PROVE  stats.trades = Len(rows) /\ stats.gross = Total(rows)
  BY <1>2, <1>4, <1>6 DEF Counted
<1>7. ASSUME NEW j \in Job, Acts(j) PROVE Good
  <2>0. job[j] \in Req BY <1>2
  <2>1. CASE StartScan(j) \/ StartKill(j)
    <3>1. \A k \in Job : job[k] = Idle BY <1>1, <2>1 DEF StartScan, StartKill, Begin, Happen, Busy, Job
    <3>2. \E r : Goto(j, r) /\ r.todo = {} /\ r.pc = "rows"
      <4>1. CASE StartScan(j)
        <5>1. PICK late \in BOOLEAN : Goto(j, Request("rows", "scan", enabled, late)) BY <4>1 DEF StartScan
        <5>2. Request("rows", "scan", enabled, late).todo = {} /\ Request("rows", "scan", enabled, late).pc = "rows"
          BY DEF Request
        <5> QED BY <5>1, <5>2
      <4>2. CASE StartKill(j)
        <5>1. Goto(j, Request("rows", "kill", FALSE, FALSE)) BY <4>2 DEF StartKill
        <5>2. Request("rows", "kill", FALSE, FALSE).todo = {} /\ Request("rows", "kill", FALSE, FALSE).pc = "rows"
          BY DEF Request
        <5> QED BY <5>1, <5>2
      <4> QED BY <2>1, <4>1, <4>2
    <3>3. UNCHANGED <<rows, stats>> BY <2>1 DEF StartScan, StartKill
    <3>4. stats.trades = Len(rows) /\ stats.gross = Total(rows) BY <1>1, <3>1
    <3>5. PICK r : Goto(j, r) /\ r.todo = {} /\ r.pc = "rows" BY <3>2
    <3>6. Counted(r, rows, stats) BY <1>5, <3>4, <3>5
    <3>7. Counted(r, rows', stats') BY <3>3, <3>6
    <3> QED BY <1>3, <3>1, <3>5, <3>7
  <2>2. ASSUME ReadRows(j) \/ ReadStats(j) PROVE Good
    <3>1. job[j].pc \in {"rows", "stats"} /\ UNCHANGED <<rows, stats>> BY <2>2 DEF ReadRows, ReadStats
    <3>2. \E r : /\ Goto(j, r) /\ r.todo \subseteq OpenIn(rows) /\ r.pc \in {"idle", "stats", "go"}
                 /\ r.pc = "go" => r.stats = stats
      <4>1. CASE ReadRows(j)
        <5> DEFINE r == [job[j] EXCEPT !.pc = "stats", !.seen = IF Open = {} THEN <<>> ELSE rows, !.todo = Open, !.open = Open]
        <5>1. r.todo = Open /\ r.pc = "stats" BY <2>0 DEF Req
        <5>2. Goto(j, r) \/ Goto(j, Idle) BY <4>1 DEF ReadRows
        <5> HIDE DEF r
        <5> QED BY <5>1, <5>2, IdleType DEF Open, OpenIn
      <4>2. CASE ReadStats(j)
        <5>0. Counted(job[j], rows, stats) BY <1>4, <3>1
        <5> DEFINE r == [job[j] EXCEPT !.pc = "go", !.stats = stats]
        <5>1. r.todo = job[j].todo /\ r.pc = "go" /\ r.stats = stats BY <2>0 DEF Req
        <5>2. ~ Happen({"unread"}) BY DEF Happen
        <5>3. Goto(j, r) \/ Goto(j, Idle) BY <4>2, <5>2, Zenon DEF ReadStats
        <5> HIDE DEF r
        <5> QED BY <5>0, <5>1, <5>3, IdleType DEF Counted
      <4> QED BY <2>2, <4>1, <4>2
    <3>3. PICK r : /\ Goto(j, r) /\ r.todo \subseteq OpenIn(rows) /\ r.pc \in {"idle", "stats", "go"}
                   /\ r.pc = "go" => r.stats = stats
      BY <3>2
    <3>4. Counted(r, rows, stats) BY <1>2, <1>6, <3>1, <3>3 DEF Counted
    <3>5. Counted(r, rows', stats') BY <3>1, <3>4
    <3> QED BY <1>3, <1>4, <3>1, <3>3, <3>5
  <2>3. ASSUME NEW i \in DOMAIN rows, Manage(j, i) PROVE Good
    <3>1. job[j].pc = "go" /\ i \in job[j].todo /\ UNCHANGED stats BY <2>3 DEF Manage
    <3>2. Counted(job[j], rows, stats) BY <1>4, <3>1
    <3>3. PICK r \in Req :
            /\ Goto(j, r) /\ r.stats = job[j].stats
            /\ \/ r.pc = "go" /\ rows'[i].status = rows[i].status /\ rows'[i].pnl = rows[i].pnl
               \/ r.pc = "fold" /\ rows'[i].status = "CLOSED" /\ r.pnl = rows'[i].pnl
      BY <2>3, ManageBooks
    <3>4. PICK q \in Req : Goto(j, q) /\ q.todo = job[j].todo \ {i} BY <2>3, ManageDoes
    <3>5. q = r BY <1>2, <3>3, <3>4 DEF Goto
    <3>6. DOMAIN rows' = DOMAIN rows /\ \A k \in DOMAIN rows : k # i => rows'[k] = rows[k] BY <2>3, ManageDoes
    <3>7. Len(rows') = Len(rows) BY <1>2, <3>6
    <3>8. rows[i].status = "OPEN" BY <3>1, <3>2 DEF Counted, OpenIn
    <3>9. r.todo \subseteq OpenIn(rows') BY <3>2, <3>4, <3>5, <3>6 DEF Counted, OpenIn
    <3>10. CASE r.pc = "go" /\ rows'[i].status = rows[i].status /\ rows'[i].pnl = rows[i].pnl
      <4>1. ClosedIn(rows') = ClosedIn(rows) BY <3>6, <3>10 DEF ClosedIn
      <4>2. \A k \in ClosedIn(rows) : rows'[k].pnl = rows[k].pnl BY <3>6, <3>10 DEF ClosedIn
      <4>3. Total(rows') = Total(rows) BY <1>2, <4>1, <4>2, TotalSame
      <4>4. Counted(r, rows', stats') BY <3>1, <3>2, <3>3, <3>7, <3>9, <3>10, <4>3 DEF Counted
      <4> QED BY <1>3, <1>4, <3>1, <3>3, <4>4
    <3>11. CASE r.pc = "fold" /\ rows'[i].status = "CLOSED" /\ r.pnl = rows'[i].pnl
      <4>1. Total(rows') = Total(rows) + r.pnl BY <1>2, <3>6, <3>8, <3>11, TotalClose
      <4>2. r.pnl \in Int BY DEF Req
      <4>3. stats.gross = Total(rows') - r.pnl BY <1>2, <1>6, <3>1, <4>1, <4>2
      <4>4. Counted(r, rows', stats') BY <3>1, <3>2, <3>3, <3>7, <3>9, <3>11, <4>3 DEF Counted
      <4> QED BY <1>3, <1>4, <3>1, <3>3, <4>4
    <3> QED BY <3>3, <3>10, <3>11
  <2>4. ASSUME NEW s \in Symbol, Enter(j, s) PROVE Good
    <3> DEFINE row == [sym |-> s, status |-> "OPEN", stop |-> - R, pnl |-> 0]
               r == [job[j] EXCEPT !.pc = "count", !.new = Len(rows')]
    <3>1. job[j].pc = "go" /\ job[j].todo = {} /\ rows' = Append(rows, row) /\ UNCHANGED stats BY <2>4 DEF Enter
    <3>2. Goto(j, r) BY <2>4 DEF Enter, Happen
    <3>3. row \in Row /\ row.status = "OPEN" BY LimitsAreNumbers DEF Row
    <3>4. r.pc = "count" /\ r.todo = {} /\ r.stats = job[j].stats BY <2>0, <3>1 DEF Req
    <3>5. Counted(job[j], rows, stats) BY <1>4, <3>1
    <3> HIDE DEF row, r
    <3>6. /\ Len(rows') = Len(rows) + 1 /\ DOMAIN rows' = DOMAIN rows \cup {Len(rows) + 1}
          /\ \A k \in DOMAIN rows : rows'[k] = rows[k]
          /\ rows'[Len(rows) + 1] = row
      BY <1>2, <3>1, <3>3
    <3>7. ClosedIn(rows') = ClosedIn(rows) BY <3>3, <3>6 DEF ClosedIn
    <3>8. \A k \in ClosedIn(rows) : rows'[k].pnl = rows[k].pnl BY <3>6 DEF ClosedIn
    <3>9. Total(rows') = Total(rows) BY <1>2, <3>7, <3>8, TotalSame
    <3>10. stats.trades = Len(rows') - 1 BY <1>2, <1>6, <3>1, <3>6
    <3>11. Counted(r, rows', stats') BY <3>1, <3>4, <3>5, <3>9, <3>10 DEF Counted
    <3> QED BY <1>3, <1>4, <3>1, <3>2, <3>11
  <2>5. CASE FoldStats(j)
    <3> DEFINE s == Folded(job[j].stats, job[j].pnl)
               u == [job[j] EXCEPT !.pc = "go", !.pnl = 0, !.new = 0, !.stats = s, !.open = @ \ {job[j].new}]
    <3>1. job[j].pc = "fold" /\ UNCHANGED rows BY <2>5 DEF FoldStats
    <3>2. Goto(j, u) /\ stats' = s
      <4>1. PICK written \in BOOLEAN, counted \in BOOLEAN :
              /\ stats' = IF written THEN s ELSE stats
              /\ Goto(j, IF counted THEN u ELSE [job[j] EXCEPT !.pc = "go", !.pnl = 0, !.new = 0])
              /\ When(~ (written /\ counted), "lost")
        BY <2>5, Zenon DEF FoldStats
      <4>2. written /\ counted BY <4>1 DEF When, Happen
      <4> HIDE DEF u, s
      <4> QED BY <4>1, <4>2
    <3>3. u.pc = "go" /\ u.stats = s /\ u.todo = job[j].todo BY <2>0 DEF Req
    <3>4. Counted(job[j], rows, stats) BY <1>4, <3>1
    <3>5. s.trades = stats.trades /\ s.gross = stats.gross + job[j].pnl
      <4>1. job[j].stats = stats BY <3>1, <3>4 DEF Counted
      <4>2. \A b : [[stats EXCEPT !.gross = @ + job[j].pnl, !.run = IF job[j].pnl > 0 THEN 0 ELSE @ + 1] EXCEPT !.locked = b].trades = stats.trades
        BY <1>2 DEF Stats
      <4>3. \A b : [[stats EXCEPT !.gross = @ + job[j].pnl, !.run = IF job[j].pnl > 0 THEN 0 ELSE @ + 1] EXCEPT !.locked = b].gross = stats.gross + job[j].pnl
        BY <1>2 DEF Stats
      <4> QED BY <4>1, <4>2, <4>3, Zenon DEF Folded
    <3>6. job[j].pnl \in Int /\ stats.gross \in Int BY <1>2, <2>0 DEF Req, Stats
    <3> HIDE DEF s, u
    <3>7. s.gross = Total(rows) BY <1>2, <3>1, <3>4, <3>5, <3>6 DEF Counted
    <3>8. Counted(u, rows', stats') BY <3>1, <3>2, <3>3, <3>4, <3>5, <3>7, <1>2 DEF Counted
    <3> QED BY <1>3, <1>4, <3>1, <3>2, <3>8
  <2>6. CASE CountEntry(j)
    <3> DEFINE s == [job[j].stats EXCEPT !.trades = @ + 1]
               u == [job[j] EXCEPT !.pc = "go", !.new = 0, !.stats = s, !.open = @ \cup {job[j].new}]
    <3>1. job[j].pc = "count" /\ UNCHANGED rows BY <2>6 DEF CountEntry
    <3>2. Goto(j, u) /\ stats' = s
      <4>1. PICK written \in BOOLEAN, counted \in BOOLEAN :
              /\ stats' = IF written THEN s ELSE stats
              /\ Goto(j, IF counted THEN u ELSE [job[j] EXCEPT !.pc = "go", !.new = 0])
              /\ When(~ (written /\ counted), "lost")
        BY <2>6, Zenon DEF CountEntry
      <4>2. written /\ counted BY <4>1 DEF When, Happen
      <4> HIDE DEF u, s
      <4> QED BY <4>1, <4>2
    <3>3. u.pc = "go" /\ u.stats = s /\ u.todo = job[j].todo BY <2>0 DEF Req
    <3>4. Counted(job[j], rows, stats) BY <1>4, <3>1
    <3>5. s.trades = stats.trades + 1 /\ s.gross = stats.gross
      <4>1. job[j].stats = stats BY <3>1, <3>4 DEF Counted
      <4> QED BY <1>2, <4>1 DEF Stats
    <3>6. stats.trades \in Int BY <1>2 DEF Stats
    <3> HIDE DEF s, u
    <3>7. Counted(u, rows', stats') BY <1>2, <3>1, <3>2, <3>3, <3>4, <3>5, <3>6 DEF Counted
    <3> QED BY <1>3, <1>4, <3>1, <3>2, <3>7
  <2>7. CASE EndJob(j) \/ KillJob(j)
    <3>1. job[j].pc = "go" /\ Goto(j, Idle) /\ UNCHANGED <<rows, stats>>
      BY <2>7 DEF EndJob, KillJob, When, Happen
    <3>2. Counted(Idle, rows, stats) BY <1>5, <1>6, <3>1, IdleType
    <3>3. Counted(Idle, rows', stats') BY <3>1, <3>2
    <3> QED BY <1>3, <1>4, <3>1, <3>3
  <2> QED BY <1>7, <2>1, <2>2, <2>3, <2>4, <2>5, <2>6, <2>7 DEF Acts
<1>8. CASE SaveSettings BY <1>1, <1>8 DEF SaveSettings
<1>9. CASE UNCHANGED vars BY <1>1, <1>9 DEF vars
<1> QED BY <1>7, <1>8, <1>9, Steps

\* What the properties say of a state without a mishap, from the inductive invariant.
LEMMA StatsKept == ASSUME TypeInv, AloneInv, StatsInv PROVE StatsMatch
<1> SUFFICES ASSUME mishap = {}, \A j \in Job : job[j].pc \notin {"fold", "count"}
             PROVE  stats.trades = Len(rows) /\ stats.gross = Total(rows)
  BY TotalNow DEF StatsMatch
<1>1. CASE \A j \in Job : job[j] = Idle BY <1>1 DEF StatsInv
<1>2. CASE \E j \in Job : job[j] # Idle
  <2>1. PICK j \in Job : job[j] # Idle BY <1>2
  <2>2. \A k \in Job : k # j => job[k] = Idle BY <2>1 DEF AloneInv, Alone
  <2>3. Counted(job[j], rows, stats) BY <2>2 DEF StatsInv
  <2>4. Total(rows) \in Int /\ Len(rows) \in Nat /\ stats \in Stats BY TotalIsInt DEF TypeInv
  <2> QED BY <2>3, <2>4 DEF Counted
<1> QED BY <1>1, <1>2

-----------------------------------------------------------------------------
(* Entries within the limits of the day *)

LimitsKept == mishap = {} /\ Len(rows') > Len(rows) => Pnl(Closed) > - MaxLoss /\ Len(rows) < MaxTrades

\* Only Enter makes rows grow, and it looks at the statistics that the request holds,
\* which are the day's.
LEMMA LimitsStep ==
  ASSUME TypeInv, AloneInv, StatsInv, [Next]_vars
  PROVE  [LimitsKept]_vars
<1> SUFFICES ASSUME mishap = {}, Len(rows') > Len(rows) PROVE Total(rows) > - MaxLoss /\ Len(rows) < MaxTrades
  BY TotalNow DEF LimitsKept
<1>0. Len(rows) \in Nat /\ rows \in Seq(Row) /\ job \in [Job -> Req] /\ Total(rows) \in Int BY TotalIsInt DEF TypeInv
<1>1. rows' # rows BY <1>0
<1>2. \E j \in Job, s \in Symbol : Enter(j, s)
  <2>1. CASE UNCHANGED vars BY <1>1, <2>1 DEF vars
  <2>2. CASE SaveSettings BY <1>1, <2>2 DEF SaveSettings
  <2>3. ASSUME NEW j \in Job, Acts(j) PROVE \E s \in Symbol : Enter(j, s)
    <3>1. ASSUME NEW i \in DOMAIN rows, Manage(j, i) PROVE FALSE
      <4>1. DOMAIN rows' = DOMAIN rows /\ rows' \in Seq(Row) BY <3>1, ManageDoes
      <4> QED BY <1>0, <4>1
    <3> QED
      BY <1>1, <2>3, <3>1 DEF Acts, StartScan, StartKill, ReadRows, ReadStats, FoldStats, CountEntry, EndJob, KillJob
  <2> QED BY <2>1, <2>2, <2>3, Steps
<1>3. PICK j \in Job, s \in Symbol : Enter(j, s) BY <1>2
<1>4. job[j].pc = "go" /\ ~ checkDailyRiskLimits(job[j].stats) BY <1>3 DEF Enter, MayOpen
<1>5. Counted(job[j], rows, stats) BY <1>4, IdleType DEF AloneInv, Alone, StatsInv
<1>6. job[j].stats.gross = Total(rows) /\ job[j].stats.trades = Len(rows) BY <1>0, <1>4, <1>5 DEF Counted
<1>7. MaxLoss \in Nat /\ MaxTrades \in Nat BY IntradayAssumption
<1> QED BY <1>0, <1>4, <1>6, <1>7 DEF checkDailyRiskLimits

-----------------------------------------------------------------------------
(* Theorems *)

IInv == TypeInv /\ AloneInv /\ CapsInv /\ StatsInv

LEMMA Inductive == Spec => []IInv
<1>1. Init => IInv BY TypeInit, AloneInit, CapsInit, StatsInit DEF IInv
<1>2. IInv /\ [Next]_vars => IInv' BY TypeStep, AloneStep, CapsStep, StatsStep DEF IInv
<1> QED BY <1>1, <1>2, PTL DEF Spec

\* The caps on open positions hold for any signals, requests and limits, unless two scans
\* ran at once or an answer was lost (intraday.js:755-757).
THEOREM CapsKeptHolds == Spec => []CapsKept
<1>1. IInv => CapsKept BY Zenon DEF IInv, CapsInv, Caps, CapsKept, Quiet, Open, OpenIn, OfSector
<1> QED BY <1>1, Inductive, PTL

\* A trailed position is closed at a loss by the clock or by hand only, whatever the
\* prices, the quotes and R are (intraday.js:876-888).
THEOREM TrailedNeverLosesHolds == Spec => TrailedNeverLoses
<1>1. IInv /\ [Next]_vars => [TrailedKept]_vars BY TrailedStep DEF IInv
<1>2. Spec => [][TrailedKept]_vars BY <1>1, Inductive, PTL DEF Spec
<1> QED BY <1>2 DEF TrailedNeverLoses, TrailedKept

\* Without a mishap, the day's statistics add up to the positions, for any number of them
\* and any prices, limits and requests (intraday.js:741-783, 808-843).
THEOREM StatsMatchHolds == Spec => []StatsMatch
<1>1. IInv => StatsMatch BY StatsKept DEF IInv
<1> QED BY <1>1, Inductive, PTL

\* Without a mishap, no position is opened on a day whose loss or whose number of trades
\* is at its limit (intraday.js:743-753, 1011-1015).
THEOREM EntriesWithinLimitsHolds == Spec => EntriesWithinLimits
<1>1. IInv /\ [Next]_vars => [LimitsKept]_vars BY LimitsStep DEF IInv
<1>2. Spec => [][LimitsKept]_vars BY <1>1, Inductive, PTL DEF Spec
<1> QED BY <1>2 DEF EntriesWithinLimits, LimitsKept
=============================================================================
