------------------------- MODULE PositionExitProofs -------------------------
(***************************************************************************)
(* The safety of closing one AUTO position, for any legs and any number of *)
(* overlapping invocations of the three handlers.  The inductive invariant *)
(* IInv says of every invocation that each leg it no longer holds to be    *)
(* open has been closed at the broker: a fill stays, so what one handler   *)
(* saw stays true however late it acts on it.                              *)
(***************************************************************************)
EXTENDS PositionExit, TLAPS

Order == {"none", "open", "filled", "dead"}

\* An invocation has ordered nothing before it begins, and each leg of its queue is
\* still to be ordered.
FreshInv ==
  \A k \in Closer, l \in Leg :
    pc[k] = "idle" \/ l \in queue[k] => order[k][l] = "none"

\* A lock is set, a position CLOSED and a P&L booked after the broker's fills.
RowInv ==
  /\ \A l \in Leg : lock[l] => ~ Open(l)
  /\ status = "CLOSED" \/ daily > 0 => \A l \in Leg : ~ Open(l)

\* While an invocation believes that it closes everything, each leg is in its queue, in
\* hand, or closed.  A single-leg close believes so once it has seen the position.
Whole(k) == /\ pc[k] \in {"next", "await"} /\ allClosed[k]
            /\ ~ (kind[k] = "close leg" /\ others[k])
Belief(k) ==
  /\ Whole(k) => \A l \in Leg : l \in queue[k] \cup cur[k] \/ ~ Open(l)
  /\ pc[k] = "read position" => kind[k] = "close leg"
  /\ pc[k] \in {"read daily", "write daily"} => \A l \in Leg : ~ Open(l)

IInv == TypeOK /\ FreshInv /\ RowInv /\ \A k \in Closer : Belief(k)

-----------------------------------------------------------------------------

LEMMA InitIInv == Init => IInv
<1> SUFFICES ASSUME Init PROVE IInv OBVIOUS
<1>1. TypeOK BY DEF Init, TypeOK, Running
<1>2. FreshInv /\ RowInv BY DEF Init, FreshInv, RowInv
<1>3. ASSUME NEW k \in Closer PROVE Belief(k) BY DEF Init, Belief, Whole
<1> QED BY <1>1, <1>2, <1>3 DEF IInv

\* What one invocation believes survives the steps of the others: fills stay.
LEMMA OthersBelieve ==
  ASSUME IInv, NEW k \in Closer, NEW j \in Closer \ {k},
         UNCHANGED <<pc[j], kind[j], queue[j], cur[j], allClosed[j], others[j]>>,
         \A l \in Leg : ~ Open(l) => ~ Open(l)'
  PROVE  Belief(j)'
  BY DEF IInv, Belief, Whole

\* An invocation ends with the row in any state that the legs justify.
LEMMA StopStep ==
  ASSUME IInv, NEW k \in Closer, NEW how \in {"done", "crashed"}, Stop(k, how),
         UNCHANGED <<order, lock>>, mishap' \in BOOLEAN,
         status' \in {"ACTIVE", "CLOSED", "CLOSE_FAILED"}, daily' \in Nat,
         status' = "CLOSED" \/ daily' > 0 => \A l \in Leg : ~ Open(l)
  PROVE  IInv'
<1> USE DEF Stop
<1>1. TypeOK' BY DEF IInv, TypeOK
<1>2. /\ pc'[k] = how /\ queue'[k] = {}
      /\ \A j \in Closer \ {k} :
           UNCHANGED <<pc[j], kind[j], queue[j], cur[j], allClosed[j], others[j]>>
  BY DEF IInv, TypeOK
<1>3. FreshInv' BY <1>2 DEF IInv, FreshInv
<1>4. \A l \in Leg : Open(l)' = Open(l) BY DEF Open
<1>5. RowInv' BY <1>4 DEF IInv, RowInv
<1>6. Belief(k)' BY <1>2 DEF Belief, Whole
<1>7. \A j \in Closer : Belief(j)' BY <1>2, <1>4, <1>6, OthersBelieve
<1> QED BY <1>1, <1>3, <1>5, <1>7 DEF IInv

-----------------------------------------------------------------------------
(* Reading *)

LEMMA StartStep ==
  ASSUME IInv, NEW k \in Closer, NEW handler \in {"monitor", "close", "close leg"},
         NEW legs \in SUBSET Leg, NEW to \in {"next", "read position"},
         Start(k, handler, legs, to),
         IF to = "next" THEN legs = Unlocked ELSE handler = "close leg"
  PROVE  IInv'
<1>1. TypeOK' BY DEF IInv, TypeOK, Start, Go, rows, Running
<1>2. /\ pc'[k] = to /\ kind'[k] = handler /\ queue'[k] = legs /\ pc[k] = "idle"
      /\ UNCHANGED <<rows, cur, allClosed, others, dailyRow, order>>
      /\ \A j \in Closer \ {k} :
           UNCHANGED <<pc[j], kind[j], queue[j], cur[j], allClosed[j], others[j]>>
  BY DEF IInv, TypeOK, Start, Go
<1>3. FreshInv' BY ZenonT(60), <1>2 DEF IInv, FreshInv
<1>4. \A l \in Leg : Open(l)' = Open(l) BY <1>2 DEF Open
<1>5. RowInv' BY <1>2, <1>4 DEF IInv, RowInv, rows
<1>6. Belief(k)'
  <2>1. \A l \in Leg : l \in Unlocked \/ ~ Open(l) BY DEF IInv, RowInv, Unlocked
  <2> QED BY <1>2, <1>4, <2>1 DEF Belief, Whole
<1>7. \A j \in Closer : Belief(j)' BY <1>2, <1>4, <1>6, OthersBelieve
<1> QED BY <1>1, <1>3, <1>5, <1>7 DEF IInv

LEMMA BeginStep ==
  ASSUME IInv, NEW k \in Closer,
         \/ \E handler \in {"monitor", "close"} : Begin(k, handler)
         \/ \E l \in Leg : BeginLeg(k, l)
  PROVE  IInv'
<1>1. ASSUME NEW handler \in {"monitor", "close"}, Begin(k, handler) PROVE IInv'
  <2>1. Unlocked \in SUBSET Leg BY DEF Unlocked
  <2> QED BY <1>1, <2>1, StartStep DEF Begin
<1>2. ASSUME NEW l \in Leg, BeginLeg(k, l) PROVE IInv'
  <2>1. Start(k, "close leg", {l}, "read position") /\ {l} \in SUBSET Leg BY <1>2 DEF BeginLeg
  <2> QED BY <2>1, StartStep
<1> QED BY <1>1, <1>2

LEMMA ReadPositionStep ==
  ASSUME IInv, NEW k \in Closer, ReadPosition(k) PROVE IInv'
<1>1. CASE status = "ACTIVE"
  <2>1. /\ Go(k, "read position", "next")
        /\ others' = [others EXCEPT ![k] = Unlocked \ queue[k] # {}]
        /\ UNCHANGED <<kind, queue, cur, allClosed, dailyRow, rows, order, mishap>>
    BY <1>1 DEF ReadPosition
  <2>2. TypeOK' BY <2>1 DEF IInv, TypeOK, Go, rows, Running
  <2>3. FreshInv' BY <2>1 DEF IInv, TypeOK, FreshInv, Go
  <2>4. \A l \in Leg : Open(l)' = Open(l) BY <2>1 DEF Open
  <2>5. RowInv' BY <2>1, <2>4 DEF IInv, RowInv, rows
  <2>6. Belief(k)'
    <3>1. kind[k] = "close leg" BY <2>1 DEF IInv, Belief, Go
    <3>2. ~ others'[k] => \A l \in Leg : l \in queue[k] \/ ~ Open(l)
      BY <2>1 DEF IInv, TypeOK, RowInv, Unlocked
    <3>3. pc'[k] = "next" BY <2>1 DEF IInv, TypeOK, Go
    <3> QED BY <2>1, <2>4, <3>1, <3>2, <3>3 DEF Belief, Whole
  <2>7. \A j \in Closer \ {k} :
          UNCHANGED <<pc[j], kind[j], queue[j], cur[j], allClosed[j], others[j]>>
    BY <2>1 DEF IInv, TypeOK, Go
  <2>8. \A j \in Closer : Belief(j)' BY <2>4, <2>6, <2>7, OthersBelieve
  <2> QED BY <2>2, <2>3, <2>5, <2>8 DEF IInv
<1>2. CASE status # "ACTIVE"
  <2>1. Stop(k, "done") /\ UNCHANGED <<rows, order, mishap>> BY <1>2 DEF ReadPosition
  <2> QED BY <2>1, StopStep DEF IInv, TypeOK, RowInv, rows
<1> QED BY <1>1, <1>2

-----------------------------------------------------------------------------
(* Closing the legs *)

\* An invocation that has a leg to order has ordered it nowhere yet, so that sending
\* the order undoes no fill.
LEMMA CloseLegStep ==
  ASSUME IInv, NEW k \in Closer, NEW l \in Leg, CloseLeg(k, l) PROVE IInv'
<1>1. /\ pc[k] = "next" /\ l \in queue[k] /\ order[k][l] = "none"
      /\ queue' = [queue EXCEPT ![k] = @ \ {l}]
      /\ UNCHANGED <<rows, kind, others, dailyRow>>
      /\ order' = order \/ order' = [order EXCEPT ![k][l] = "open"]
  BY DEF CloseLeg, IsNext, IInv, FreshInv
<1>2. /\ order' \in [Closer -> [Leg -> Order]]
      /\ \A j \in Closer, m \in Leg : j # k \/ m # l => order'[j][m] = order[j][m]
      /\ order'[k][l] \in {"none", "open"}
  <2>1. order \in [Closer -> [Leg -> Order]] BY DEF IInv, TypeOK, Order
  <2>2. CASE order' = order BY <1>1, <2>1, <2>2
  <2>3. CASE order' = [order EXCEPT ![k][l] = "open"]
    <3>1. "open" \in Order BY DEF Order
    <3> QED BY <2>1, <2>3, <3>1
  <2> QED BY <1>1, <2>2, <2>3
<1>3. \/ /\ pc' = [pc EXCEPT ![k] = "await"] /\ cur' = [cur EXCEPT ![k] = {l}]
         /\ UNCHANGED <<allClosed, mishap>>
      \/ /\ UNCHANGED <<pc, cur>> /\ mishap' \in BOOLEAN
         /\ allClosed' = [allClosed EXCEPT ![k] = FALSE]
  <2>1. mishap \in BOOLEAN BY DEF IInv, TypeOK
  <2>2. (mishap \/ kind[k] = "close leg") \in BOOLEAN BY <2>1
  <2> QED BY <2>2 DEF CloseLeg, LegFailed
<1>4. TypeOK'
  <2>1. queue' \in [Closer -> SUBSET Leg] BY <1>1 DEF IInv, TypeOK
  <2>2. /\ pc' \in [Closer -> Running \cup {"idle", "done", "crashed"}]
        /\ cur' \in [Closer -> SUBSET Leg] /\ allClosed' \in [Closer -> BOOLEAN]
        /\ mishap' \in BOOLEAN
    <3>1. /\ pc \in [Closer -> Running \cup {"idle", "done", "crashed"}]
          /\ cur \in [Closer -> SUBSET Leg] /\ allClosed \in [Closer -> BOOLEAN]
          /\ mishap \in BOOLEAN /\ "await" \in Running
      BY DEF IInv, TypeOK, Running
    <3> QED BY ZenonT(60), <1>3, <3>1
  <2>3. \A j \in Closer :
          IF pc'[j] = "await" THEN \E m \in Leg : cur'[j] = {m} ELSE cur'[j] = {}
    BY <1>3 DEF IInv, TypeOK
  <2> QED BY <1>1, <1>2, <2>1, <2>2, <2>3 DEF IInv, TypeOK, rows, Order
<1>5. /\ queue'[k] = queue[k] \ {l}
      /\ pc'[k] \in {"next", "await"}
      /\ \A j \in Closer \ {k} :
           UNCHANGED <<pc[j], kind[j], queue[j], cur[j], allClosed[j], others[j]>>
  BY <1>1, <1>3 DEF IInv, TypeOK
<1>6. FreshInv' BY <1>2, <1>5 DEF IInv, FreshInv
<1>7. \A m \in Leg : Open(m)' = Open(m)
  BY <1>1, <1>2 DEF Open
<1>8. RowInv' BY <1>1, <1>7 DEF IInv, RowInv, rows
<1>9. Belief(k)'
  <2>1. allClosed'[k] => /\ allClosed[k] /\ cur'[k] = {l}
    BY <1>3 DEF IInv, TypeOK
  <2> QED BY <1>1, <1>5, <1>7, <2>1 DEF IInv, Belief, Whole, TypeOK
<1>10. \A j \in Closer : Belief(j)' BY <1>5, <1>7, <1>9, OthersBelieve
<1> QED BY <1>4, <1>6, <1>8, <1>10 DEF IInv

LEMMA BrokerEndsStep ==
  ASSUME IInv, NEW k \in Closer, NEW l \in Leg, BrokerEnds(k, l) PROVE IInv'
<1>1. PICK o \in {"filled", "dead"} : order' = [order EXCEPT ![k][l] = o]
  BY DEF BrokerEnds
<1>2. order[k][l] = "open" /\ UNCHANGED <<rows, pc, memory, mishap>> BY DEF BrokerEnds
<1>3. /\ order' \in [Closer -> [Leg -> Order]]
      /\ \A j \in Closer, m \in Leg : j # k \/ m # l => order'[j][m] = order[j][m]
  BY <1>1 DEF IInv, TypeOK, Order
<1>4. TypeOK' BY <1>2, <1>3 DEF IInv, TypeOK, rows, memory, Order
<1>5. FreshInv' BY <1>2, <1>3 DEF IInv, FreshInv, memory
<1>6. \A m \in Leg : ~ Open(m) => ~ Open(m)' BY <1>2, <1>3 DEF Open
<1>7. RowInv' BY <1>2, <1>6 DEF IInv, RowInv, rows
<1>8. \A j \in Closer : Belief(j)' BY <1>2, <1>6 DEF IInv, Belief, Whole, memory
<1> QED BY <1>4, <1>5, <1>7, <1>8 DEF IInv

LEMMA ConfirmedStep ==
  ASSUME IInv, NEW k \in Closer, Confirmed(k) PROVE IInv'
<1>1. /\ Go(k, "await", "next") /\ cur' = [cur EXCEPT ![k] = {}]
      /\ UNCHANGED <<kind, queue, allClosed, others, dailyRow, order, status, daily>>
      /\ mishap' \in BOOLEAN
      /\ lock' = lock \/ lock' = [l \in Leg |-> lock[l] \/ l \in cur[k]]
  BY DEF Confirmed, Update, rows, IInv, TypeOK
<1>2. TypeOK' BY <1>1 DEF IInv, TypeOK, Go, Running
<1>3. FreshInv' BY <1>1 DEF IInv, TypeOK, FreshInv, Go
<1>4. \A l \in Leg : Open(l)' = Open(l) BY <1>1 DEF Open
<1>5. \A l \in cur[k] : ~ Open(l) BY DEF Confirmed, Open
<1>6. RowInv' BY <1>1, <1>4, <1>5 DEF IInv, RowInv
<1>7. /\ pc'[k] = "next" /\ cur'[k] = {}
      /\ \A j \in Closer \ {k} :
           UNCHANGED <<pc[j], kind[j], queue[j], cur[j], allClosed[j], others[j]>>
  BY <1>1 DEF IInv, TypeOK, Go
<1>8. Belief(k)' BY <1>1, <1>4, <1>5, <1>7 DEF IInv, Belief, Whole, Go
<1>9. \A j \in Closer : Belief(j)' BY <1>4, <1>7, <1>8, OthersBelieve
<1> QED BY <1>2, <1>3, <1>6, <1>9 DEF IInv

LEMMA UnconfirmedStep ==
  ASSUME IInv, NEW k \in Closer, Unconfirmed(k) PROVE IInv'
<1>1. /\ Go(k, "await", "next") /\ cur' = [cur EXCEPT ![k] = {}]
      /\ allClosed' = [allClosed EXCEPT ![k] = FALSE] /\ mishap' \in BOOLEAN
      /\ UNCHANGED <<rows, kind, queue, others, dailyRow, order>>
  BY DEF Unconfirmed, LegFailed, IInv, TypeOK
<1>2. TypeOK' BY <1>1 DEF IInv, TypeOK, Go, Running, rows
<1>3. FreshInv' BY <1>1 DEF IInv, TypeOK, FreshInv, Go
<1>4. \A l \in Leg : Open(l)' = Open(l) BY <1>1 DEF Open
<1>5. RowInv' BY <1>1, <1>4 DEF IInv, RowInv, rows
<1>6. /\ pc'[k] = "next" /\ ~ allClosed'[k]
      /\ \A j \in Closer \ {k} :
           UNCHANGED <<pc[j], kind[j], queue[j], cur[j], allClosed[j], others[j]>>
  BY <1>1 DEF IInv, TypeOK, Go
<1>7. Belief(k)' BY <1>6 DEF Belief, Whole
<1>8. \A j \in Closer : Belief(j)' BY <1>4, <1>6, <1>7, OthersBelieve
<1> QED BY <1>2, <1>3, <1>5, <1>8 DEF IInv

-----------------------------------------------------------------------------
(* Closing the position *)

\* An invocation at the end of its loop that closed all it knew of.
LEMMA CoveredAtEnd ==
  ASSUME IInv, NEW k \in Closer, LoopEnded(k), allClosed[k],
         ~ (kind[k] = "close leg" /\ others[k])
  PROVE  \A l \in Leg : ~ Open(l)
<1>1. pc[k] = "next" /\ queue[k] = {} BY DEF LoopEnded
<1>2. cur[k] = {} BY <1>1 DEF IInv, TypeOK
<1> QED BY <1>1, <1>2 DEF IInv, Belief, Whole

LEMMA MarkCloseFailedStep ==
  ASSUME IInv, NEW k \in Closer, MarkCloseFailed(k) PROVE IInv'
<1>1. Stop(k, "done") /\ UNCHANGED <<order, lock, daily>> /\ mishap' \in BOOLEAN
  BY DEF MarkCloseFailed, Update, rows, IInv, TypeOK
<1>2. status' = status \/ status' = "CLOSE_FAILED" BY DEF MarkCloseFailed, Update, rows
<1> QED BY <1>1, <1>2, StopStep DEF IInv, TypeOK, RowInv

LEMMA LeaveActiveStep ==
  ASSUME IInv, NEW k \in Closer, LeaveActive(k) PROVE IInv'
<1>1. Stop(k, "done") /\ UNCHANGED <<status, daily, order, lock, mishap>>
  BY DEF LeaveActive, rows
<1> QED BY <1>1, StopStep DEF IInv, TypeOK, RowInv

\* A monitor on its way to daily_stats, behind the row it has just CLOSED.
LEMMA BookingStep ==
  ASSUME IInv, NEW k \in Closer, pc[k] \in {"next", "read daily"},
         NEW to \in {"read daily", "write daily"}, pc' = [pc EXCEPT ![k] = to],
         cur[k] = {},
         UNCHANGED <<kind, queue, cur, allClosed, others, order, lock, daily, mishap>>,
         status' \in {status, "CLOSED"}, dailyRow' \in [Closer -> Nat],
         \A l \in Leg : ~ Open(l)
  PROVE  IInv'
<1>1. TypeOK' BY DEF IInv, TypeOK, Running
<1>2. pc'[k] = to /\ \A j \in Closer \ {k} : pc'[j] = pc[j] BY DEF IInv, TypeOK
<1>3. FreshInv'
  <2>1. FreshInv BY DEF IInv
  <2>2. \A j \in Closer : pc'[j] = "idle" => pc[j] = "idle" BY <1>2
  <2> QED BY <2>1, <2>2 DEF FreshInv
<1>4. \A l \in Leg : Open(l)' = Open(l) BY DEF Open
<1>5. RowInv' BY <1>4 DEF IInv, RowInv
<1>6. Belief(k)' BY <1>2, <1>4 DEF Belief, Whole
<1>7. \A j \in Closer : Belief(j)' BY <1>2, <1>4, <1>6, OthersBelieve
<1> QED BY <1>1, <1>3, <1>5, <1>7 DEF IInv

LEMMA MarkClosedStep ==
  ASSUME IInv, NEW k \in Closer, MarkClosed(k) PROVE IInv'
<1>1. \A l \in Leg : ~ Open(l) BY CoveredAtEnd DEF MarkClosed
<1>2. CASE Stop(k, "done")
  <2>1. UNCHANGED <<order, lock, daily>> /\ mishap' \in BOOLEAN
        /\ status' \in {status, "CLOSED"}
    BY DEF MarkClosed, rows, IInv, TypeOK
  <2> QED BY <1>1, <1>2, <2>1, StopStep DEF IInv, TypeOK
<1>3. CASE ~ Stop(k, "done")
  <2>1. /\ Go(k, "next", "read daily") /\ UNCHANGED memory
        /\ status' = "CLOSED" /\ UNCHANGED <<lock, daily, mishap, order>>
    BY <1>3 DEF MarkClosed
  <2>2. cur[k] = {} /\ dailyRow \in [Closer -> Nat] BY <2>1 DEF Go, IInv, TypeOK
  <2> QED BY <1>1, <2>1, <2>2, BookingStep DEF Go, memory
<1> QED BY <1>2, <1>3

LEMMA ReadDailyStep ==
  ASSUME IInv, NEW k \in Closer, ReadDaily(k) PROVE IInv'
<1>1. /\ pc[k] = "read daily" /\ pc' = [pc EXCEPT ![k] = "write daily"]
      /\ UNCHANGED <<status, kind, queue, cur, allClosed, others, order, lock, daily, mishap>>
  BY DEF ReadDaily, Go, rows
<1>2. dailyRow' \in [Closer -> Nat] /\ cur[k] = {} BY <1>1 DEF ReadDaily, IInv, TypeOK
<1>3. \A l \in Leg : ~ Open(l) BY <1>1 DEF IInv, Belief
<1> QED BY <1>1, <1>2, <1>3, BookingStep

LEMMA WriteDailyStep ==
  ASSUME IInv, NEW k \in Closer, WriteDaily(k) PROVE IInv'
<1>1. Stop(k, "done") /\ UNCHANGED <<status, order, lock>> /\ mishap' \in BOOLEAN
  BY DEF WriteDaily, Update, rows, IInv, TypeOK
<1>2. daily' \in Nat
  <2>1. daily \in Nat /\ dailyRow \in [Closer -> Nat] BY DEF IInv, TypeOK
  <2>2. daily' = daily \/ daily' = dailyRow[k] + 1 BY DEF WriteDaily, Update, rows
  <2> QED BY <2>1, <2>2
<1>3. \A l \in Leg : ~ Open(l) BY DEF WriteDaily, IInv, Belief
<1> QED BY <1>1, <1>2, <1>3, StopStep DEF IInv, TypeOK

LEMMA CrashStep ==
  ASSUME IInv, NEW k \in Closer, Crash(k) PROVE IInv'
  BY StopStep DEF Crash, IInv, TypeOK, RowInv, rows

LEMMA NextIInv == IInv /\ [Next]_vars => IInv'
<1> SUFFICES ASSUME IInv, [Next]_vars PROVE IInv' OBVIOUS
<1>1. ASSUME NEW k \in Closer, NEW l \in Leg, CloseLeg(k, l) \/ BrokerEnds(k, l)
      PROVE  IInv'
  BY <1>1, CloseLegStep, BrokerEndsStep
<1>2. ASSUME NEW k \in Closer,
             \/ \E handler \in {"monitor", "close"} : Begin(k, handler)
             \/ \E l \in Leg : BeginLeg(k, l)
      PROVE  IInv'
  BY <1>2, BeginStep
<1>3. ASSUME NEW k \in Closer, ReadPosition(k) \/ Confirmed(k) \/ Unconfirmed(k)
      PROVE  IInv'
  BY <1>3, ReadPositionStep, ConfirmedStep, UnconfirmedStep
<1>4. ASSUME NEW k \in Closer, MarkCloseFailed(k) \/ LeaveActive(k) \/ MarkClosed(k)
      PROVE  IInv'
  BY <1>4, MarkCloseFailedStep, LeaveActiveStep, MarkClosedStep
<1>5. ASSUME NEW k \in Closer, ReadDaily(k) \/ WriteDaily(k) \/ Crash(k) PROVE IInv'
  BY <1>5, ReadDailyStep, WriteDailyStep, CrashStep
<1>6. CASE UNCHANGED vars
  <2> USE <1>6 DEF vars
  <2>1. TypeOK' BY DEF IInv, TypeOK
  <2>2. \A l \in Leg : Open(l)' = Open(l) BY DEF Open
  <2>3. FreshInv' /\ RowInv' BY <2>2 DEF IInv, FreshInv, RowInv
  <2>4. \A k \in Closer : Belief(k)' BY <2>2 DEF IInv, Belief, Whole
  <2> QED BY <2>1, <2>3, <2>4 DEF IInv
<1> QED BY <1>1, <1>2, <1>3, <1>4, <1>5, <1>6 DEF Next

-----------------------------------------------------------------------------
(* Without a mishap *)

Closing(k) == pc[k] \in {"next", "await"}

\* One invocation runs at a time, on an ACTIVE position while it closes legs ...
Alone == \A j, k \in Closer : pc[j] \in Running /\ pc[k] \in Running => j = k
OnActive == \A k \in Closer : Closing(k) => status = "ACTIVE"

\* ... whose legs had no lock, and it has an unconfirmed leg only if it is not a
\* single-leg close.
UnlockedQueue ==
  \A k \in Closer, l \in Leg :
    pc[k] \in {"next", "await", "read position"} /\ l \in queue[k] => ~ lock[l]
WholeLeg ==
  \A k \in Closer :
    pc[k] \in {"idle", "read position"} \/ (Closing(k) /\ kind[k] = "close leg") =>
      allClosed[k]

\* A leg was ordered once, and its order has either set the lock, or taken the position
\* out of reach, or belongs to the invocation that runs.
OrderedOnce ==
  \A j, k \in Closer, l \in Leg : order[j][l] # "none" /\ order[k][l] # "none" => j = k
Accounted ==
  \A k \in Closer, l \in Leg : order[k][l] # "none" =>
    \/ lock[l] \/ status # "ACTIVE"
    \/ Closing(k) /\ (l \in cur[k] \/ ~ allClosed[k])

Calm == Alone /\ OnActive /\ UnlockedQueue /\ WholeLeg /\ OrderedOnce /\ Accounted
CalmInv == mishap \/ Calm

LEMMA CalmStopStep ==
  ASSUME IInv, Calm, NEW k \in Closer, Stop(k, "done"), UNCHANGED <<order, lock>>,
         pc[k] \in Running, status' # "ACTIVE" \/ UNCHANGED status,
         \A l \in Leg : order[k][l] # "none" => lock[l] \/ status' # "ACTIVE"
  PROVE  Calm'
<1>1. /\ pc'[k] = "done"
      /\ \A j \in Closer \ {k} : /\ UNCHANGED <<pc[j], kind[j], queue[j], cur[j], allClosed[j]>>
                                 /\ pc[j] \notin Running
  BY DEF Stop, IInv, TypeOK, Calm, Alone
<1>2. Alone' /\ OnActive' BY <1>1 DEF Alone, OnActive, Closing, Running
<1>3. UnlockedQueue' /\ WholeLeg'
  BY <1>1 DEF Calm, UnlockedQueue, WholeLeg, Closing, Running
<1>4. OrderedOnce' BY DEF Calm, OrderedOnce
<1>5. ASSUME NEW j \in Closer, NEW l \in Leg, order[j][l] # "none"
      PROVE  lock[l] \/ status' # "ACTIVE"
  <2>1. CASE j = k BY <1>5, <2>1
  <2>2. CASE j # k
    <3>1. ~ Closing(j) BY <1>1, <2>2 DEF Closing, Running
    <3>2. lock[l] \/ status # "ACTIVE" BY <1>5, <3>1 DEF Calm, Accounted
    <3> QED BY <3>2
  <2> QED BY <2>1, <2>2
<1>6. Accounted' BY <1>5 DEF Accounted
<1> QED BY <1>2, <1>3, <1>4, <1>6 DEF Calm

LEMMA CalmStartStep ==
  ASSUME IInv, Calm, ~ mishap', NEW k \in Closer,
         NEW handler \in {"monitor", "close", "close leg"}, NEW legs \in SUBSET Leg,
         NEW to \in {"next", "read position"}, Start(k, handler, legs, to),
         \A l \in legs : ~ lock[l], to = "next" => status = "ACTIVE"
  PROVE  Calm'
<1>1. /\ pc[k] = "idle" /\ pc'[k] = to /\ queue'[k] = legs /\ allClosed[k]
      /\ UNCHANGED <<rows, cur, allClosed, order>>
      /\ \A j \in Closer \ {k} : UNCHANGED <<pc[j], kind[j], queue[j]>>
      /\ \A j \in Closer : pc[j] \notin Running
  BY DEF Start, Go, IInv, TypeOK, Calm, WholeLeg
<1>2. Alone' /\ OnActive' BY <1>1 DEF Alone, OnActive, Closing, Running, rows
<1>3. UnlockedQueue' /\ WholeLeg'
  BY <1>1 DEF Calm, UnlockedQueue, WholeLeg, Closing, Running, rows
<1>4. OrderedOnce' BY <1>1 DEF Calm, OrderedOnce
<1>5. Accounted' BY <1>1 DEF Calm, Accounted, Closing, Running, rows
<1> QED BY <1>2, <1>3, <1>4, <1>5 DEF Calm

LEMMA CalmReadPositionStep ==
  ASSUME IInv, Calm, NEW k \in Closer, ReadPosition(k) PROVE Calm'
<1>1. pc[k] = "read position" /\ UNCHANGED <<rows, order>> BY DEF ReadPosition
<1>2. \A l \in Leg : order[k][l] # "none" => lock[l] \/ status # "ACTIVE"
  BY <1>1 DEF Calm, Accounted, Closing
<1>3. CASE Stop(k, "done") BY <1>1, <1>2, <1>3, CalmStopStep DEF rows, Running
<1>4. CASE /\ status = "ACTIVE" /\ Go(k, "read position", "next")
           /\ UNCHANGED <<kind, queue, cur, allClosed, dailyRow>>
  <2>1. pc'[k] = "next" /\ \A j \in Closer \ {k} : pc'[j] = pc[j]
    BY <1>4 DEF Go, IInv, TypeOK
  <2>2. Alone' /\ OnActive'
    BY <1>1, <1>4, <2>1 DEF Calm, Alone, OnActive, Closing, Running, rows
  <2>3. UnlockedQueue' /\ WholeLeg'
    BY <1>1, <1>4, <2>1 DEF Calm, UnlockedQueue, WholeLeg, Closing, rows
  <2>4. OrderedOnce' BY <1>1 DEF Calm, OrderedOnce
  <2>5. Accounted' BY <1>1, <1>4, <2>1 DEF Calm, Accounted, Closing, rows
  <2> QED BY <2>2, <2>3, <2>4, <2>5 DEF Calm
<1> QED BY <1>3, <1>4 DEF ReadPosition

\* The only place where a leg is ordered: no other invocation has an order for it.
LEMMA CalmCloseLegStep ==
  ASSUME IInv, Calm, ~ mishap', NEW k \in Closer, NEW l \in Leg, CloseLeg(k, l)
  PROVE  Calm'
<1>1. /\ pc[k] = "next" /\ l \in queue[k] /\ UNCHANGED <<rows, kind>>
      /\ queue' = [queue EXCEPT ![k] = @ \ {l}]
      /\ order' = order \/ order' = [order EXCEPT ![k][l] = "open"]
  BY DEF CloseLeg, IsNext
<1>2. /\ order \in [Closer -> [Leg -> Order]] /\ queue \in [Closer -> SUBSET Leg]
      /\ pc \in [Closer -> Running \cup {"idle", "done", "crashed"}]
      /\ cur \in [Closer -> SUBSET Leg] /\ allClosed \in [Closer -> BOOLEAN]
  BY DEF IInv, TypeOK, Order
<1>3. \A j \in Closer, m \in Leg : j # k \/ m # l => order'[j][m] = order[j][m]
  BY <1>1, <1>2
<1>4. \A j \in Closer : order[j][l] = "none"
  BY <1>1 DEF IInv, FreshInv, Calm, Alone, OnActive, UnlockedQueue, Accounted, Closing, Running
<1>5. \/ pc' = [pc EXCEPT ![k] = "await"] /\ cur' = [cur EXCEPT ![k] = {l}] /\ UNCHANGED allClosed
      \/ /\ UNCHANGED <<pc, cur>> /\ allClosed' = [allClosed EXCEPT ![k] = FALSE]
         /\ kind[k] # "close leg"
  BY DEF CloseLeg, LegFailed
<1>6. /\ pc'[k] \in {"next", "await"}
      /\ \A j \in Closer \ {k} : UNCHANGED <<pc[j], cur[j], allClosed[j], queue[j]>>
      /\ queue'[k] \subseteq queue[k]
  BY <1>1, <1>2, <1>5
<1>7. Alone' /\ OnActive'
  BY <1>1, <1>6 DEF Calm, Alone, OnActive, Closing, Running, rows
<1>8. UnlockedQueue' BY <1>1, <1>6 DEF Calm, UnlockedQueue, rows
<1>9. WholeLeg'
  <2>1. allClosed[k] /\ kind[k] = "close leg" => allClosed'[k] BY <1>2, <1>5
  <2> QED BY <1>1, <1>6, <2>1 DEF Calm, WholeLeg, Closing
<1>10. OrderedOnce' BY <1>3, <1>4 DEF Calm, OrderedOnce
<1>11. Accounted'
  <2>1. cur[k] = {} BY <1>1 DEF IInv, TypeOK
  <2>2. allClosed'[k] => allClosed[k] /\ l \in cur'[k] BY <1>2, <1>5
  <2>3. ASSUME NEW j \in Closer, NEW m \in Leg, order'[j][m] # "none"
        PROVE  \/ lock'[m] \/ status' # "ACTIVE"
               \/ Closing(j)' /\ (m \in cur'[j] \/ ~ allClosed'[j])
    <3>1. CASE j = k /\ m = l BY <1>6, <2>2, <3>1 DEF Closing
    <3>2. CASE ~ (j = k /\ m = l)
      <4>1. order[j][m] # "none" BY <1>3, <2>3, <3>2
      <4>2. \/ lock[m] \/ status # "ACTIVE"
            \/ Closing(j) /\ (m \in cur[j] \/ ~ allClosed[j])
        BY <4>1 DEF Calm, Accounted
      <4>3. CASE j = k BY <1>1, <1>6, <2>1, <2>2, <4>2, <4>3 DEF Closing, rows
      <4>4. CASE j # k BY <1>1, <1>6, <4>2, <4>4 DEF Closing, rows
      <4> QED BY <4>3, <4>4
    <3> QED BY <3>1, <3>2
  <2> QED BY <2>3 DEF Accounted
<1> QED BY <1>7, <1>8, <1>9, <1>10, <1>11 DEF Calm

LEMMA CalmBrokerEndsStep ==
  ASSUME IInv, Calm, NEW k \in Closer, NEW l \in Leg, BrokerEnds(k, l) PROVE Calm'
<1>1. PICK o \in {"filled", "dead"} : order' = [order EXCEPT ![k][l] = o]
  BY DEF BrokerEnds
<1>2. order[k][l] = "open" /\ UNCHANGED <<rows, pc, memory>> BY DEF BrokerEnds
<1>3. \A j \in Closer, m \in Leg : order'[j][m] # "none" => order[j][m] # "none"
  <2>1. order \in [Closer -> [Leg -> Order]] BY DEF IInv, TypeOK, Order
  <2>2. \A j \in Closer, m \in Leg : j # k \/ m # l => order'[j][m] = order[j][m]
    BY <1>1, <2>1
  <2> QED BY <1>2, <2>2
<1>4. Alone' /\ OnActive' /\ UnlockedQueue' /\ WholeLeg'
  BY <1>2 DEF Calm, Alone, OnActive, UnlockedQueue, WholeLeg, Closing, rows, memory
<1>5. OrderedOnce' BY <1>3 DEF Calm, OrderedOnce
<1>6. Accounted' BY <1>2, <1>3 DEF Calm, Accounted, Closing, rows, memory
<1> QED BY <1>4, <1>5, <1>6 DEF Calm

LEMMA CalmConfirmedStep ==
  ASSUME IInv, Calm, ~ mishap', NEW k \in Closer, Confirmed(k) PROVE Calm'
<1>1. /\ pc[k] = "await" /\ pc' = [pc EXCEPT ![k] = "next"] /\ cur' = [cur EXCEPT ![k] = {}]
      /\ UNCHANGED <<kind, queue, allClosed, order, status>>
      /\ lock' = [l \in Leg |-> lock[l] \/ l \in cur[k]]
  BY DEF Confirmed, Update, Go
<1>2. /\ pc'[k] = "next" /\ cur'[k] = {}
      /\ \A j \in Closer \ {k} : UNCHANGED <<pc[j], cur[j]>> /\ pc[j] \notin Running
  BY <1>1 DEF IInv, TypeOK, Calm, Alone, Running
<1>3. \A l \in Leg : lock'[l] <=> lock[l] \/ l \in cur[k] BY <1>1
<1>4. \A l \in cur[k] : l \notin queue[k]
  BY DEF Confirmed, IInv, TypeOK, FreshInv
<1>5. Alone' /\ OnActive' BY <1>1, <1>2 DEF Calm, Alone, OnActive, Closing, Running
<1>6. UnlockedQueue'
  BY <1>1, <1>2, <1>3, <1>4 DEF Calm, UnlockedQueue, Running
<1>7. WholeLeg' BY <1>1, <1>2 DEF Calm, WholeLeg, Closing
<1>8. OrderedOnce' BY <1>1 DEF Calm, OrderedOnce
<1>9. Accounted' BY <1>1, <1>2, <1>3 DEF Calm, Accounted, Closing
<1> QED BY <1>5, <1>6, <1>7, <1>8, <1>9 DEF Calm

LEMMA CalmUnconfirmedStep ==
  ASSUME IInv, Calm, ~ mishap', NEW k \in Closer, Unconfirmed(k) PROVE Calm'
<1>1. /\ pc[k] = "await" /\ pc' = [pc EXCEPT ![k] = "next"] /\ cur' = [cur EXCEPT ![k] = {}]
      /\ allClosed' = [allClosed EXCEPT ![k] = FALSE]
      /\ UNCHANGED <<rows, kind, queue, order>> /\ kind[k] # "close leg"
  BY DEF Unconfirmed, LegFailed, Go
<1>2. /\ pc'[k] = "next" /\ ~ allClosed'[k]
      /\ \A j \in Closer \ {k} : UNCHANGED <<pc[j], cur[j], allClosed[j]>>
  BY <1>1 DEF IInv, TypeOK
<1>3. Alone' /\ OnActive'
  BY <1>1, <1>2 DEF Calm, Alone, OnActive, Closing, Running, rows
<1>4. UnlockedQueue' /\ WholeLeg'
  BY <1>1, <1>2 DEF Calm, UnlockedQueue, WholeLeg, Closing, rows
<1>5. OrderedOnce' BY <1>1 DEF Calm, OrderedOnce
<1>6. Accounted' BY <1>1, <1>2 DEF Calm, Accounted, Closing, rows
<1> QED BY <1>3, <1>4, <1>5, <1>6 DEF Calm

\* At the end of a loop that closed everything, what was ordered is locked.
LEMMA CalmAtEnd ==
  ASSUME IInv, Calm, NEW k \in Closer, LoopEnded(k), allClosed[k]
  PROVE  \A l \in Leg : order[k][l] # "none" => lock[l]
<1>1. cur[k] = {} /\ status = "ACTIVE"
  BY DEF LoopEnded, IInv, TypeOK, Calm, OnActive, Closing
<1> QED BY <1>1 DEF Calm, Accounted

LEMMA CalmEndStep ==
  ASSUME IInv, Calm, ~ mishap', NEW k \in Closer,
         MarkCloseFailed(k) \/ LeaveActive(k) \/ MarkClosed(k)
  PROVE  Calm'
<1>1. pc[k] = "next" /\ LoopEnded(k) /\ UNCHANGED <<order, lock>>
  BY DEF MarkCloseFailed, LeaveActive, MarkClosed, LoopEnded, Update, rows
<1>2. CASE MarkCloseFailed(k)
  <2>1. kind[k] # "close leg" BY <1>1, <1>2 DEF MarkCloseFailed, Calm, WholeLeg, Closing
  <2>2. status' = "CLOSE_FAILED" BY <1>2, <2>1 DEF MarkCloseFailed, Update
  <2> QED BY <1>1, <1>2, <2>2, CalmStopStep DEF MarkCloseFailed, Running
<1>3. CASE LeaveActive(k)
  BY <1>1, <1>3, CalmAtEnd, CalmStopStep DEF LeaveActive, Running, rows
<1>4. CASE MarkClosed(k) /\ Stop(k, "done")
  <2>1. status' = "CLOSED" BY <1>4 DEF MarkClosed
  <2> QED BY <1>1, <1>4, <2>1, CalmStopStep DEF Running
<1>5. CASE MarkClosed(k) /\ ~ Stop(k, "done")
  <2>1. pc' = [pc EXCEPT ![k] = "read daily"] /\ UNCHANGED memory /\ status' = "CLOSED"
    BY <1>5 DEF MarkClosed, Go
  <2>2. pc'[k] = "read daily" /\ \A j \in Closer \ {k} : pc'[j] = pc[j] /\ pc[j] \notin Running
    BY <1>1, <2>1 DEF IInv, TypeOK, Calm, Alone, Running
  <2>3. Alone' /\ OnActive' BY <2>2 DEF Alone, OnActive, Closing, Running
  <2>4. UnlockedQueue' /\ WholeLeg'
    BY <1>1, <2>1, <2>2 DEF Calm, UnlockedQueue, WholeLeg, Closing, memory
  <2>5. OrderedOnce' /\ Accounted' BY <1>1, <2>1 DEF Calm, OrderedOnce, Accounted
  <2> QED BY <2>3, <2>4, <2>5 DEF Calm
<1> QED BY <1>2, <1>3, <1>4, <1>5

LEMMA CalmDailyStep ==
  ASSUME IInv, Calm, NEW k \in Closer, ReadDaily(k) \/ WriteDaily(k) PROVE Calm'
<1>1. UNCHANGED <<order, lock, status>> BY DEF ReadDaily, WriteDaily, Update, rows
<1>2. pc[k] \in {"read daily", "write daily"} BY DEF ReadDaily, WriteDaily, Go
<1>3. \A l \in Leg : order[k][l] # "none" => lock[l] \/ status # "ACTIVE"
  BY <1>2 DEF Calm, Accounted, Closing
<1>4. CASE WriteDaily(k)
  BY <1>1, <1>2, <1>3, <1>4, CalmStopStep DEF WriteDaily, Running
<1>5. CASE ReadDaily(k)
  <2>1. pc' = [pc EXCEPT ![k] = "write daily"] /\ UNCHANGED <<kind, queue, cur, allClosed>>
    BY <1>5 DEF ReadDaily, Go
  <2>2. pc'[k] = "write daily" /\ \A j \in Closer \ {k} : pc'[j] = pc[j] /\ pc[j] \notin Running
    BY <1>2, <2>1 DEF IInv, TypeOK, Calm, Alone, Running
  <2>3. Alone' /\ OnActive'
    BY <1>1, <2>2 DEF Calm, Alone, OnActive, Closing, Running
  <2>4. UnlockedQueue' /\ WholeLeg'
    BY <1>1, <2>1, <2>2 DEF Calm, UnlockedQueue, WholeLeg, Closing
  <2>5. OrderedOnce' /\ Accounted'
    BY ZenonT(60), <1>1, <1>3, <2>1, <2>2 DEF Calm, OrderedOnce, Accounted, Closing
  <2> QED BY <2>3, <2>4, <2>5 DEF Calm
<1> QED BY <1>4, <1>5

LEMMA InitCalm == Init => CalmInv
<1> SUFFICES ASSUME Init PROVE Calm BY DEF CalmInv
<1>1. Alone /\ OnActive /\ UnlockedQueue BY DEF Init, Alone, OnActive, UnlockedQueue, Closing, Running
<1>2. WholeLeg /\ OrderedOnce /\ Accounted
  BY DEF Init, WholeLeg, OrderedOnce, Accounted, Closing
<1> QED BY <1>1, <1>2 DEF Calm

LEMMA NextCalm == IInv /\ CalmInv /\ [Next]_vars => CalmInv'
<1> SUFFICES ASSUME IInv, CalmInv, [Next]_vars, ~ mishap' PROVE Calm'
  BY DEF CalmInv
<1>1. CASE UNCHANGED vars
  <2>1. Calm BY <1>1 DEF vars, CalmInv
  <2> QED BY <1>1, <2>1 DEF vars, Calm, Alone, OnActive, UnlockedQueue, WholeLeg, OrderedOnce,
                            Accounted, Closing
<1>2. ASSUME NEW k \in Closer,
             \/ \E handler \in {"monitor", "close"} : Begin(k, handler)
             \/ \E l \in Leg : BeginLeg(k, l)
      PROVE  Calm'
  <2>1. Calm BY <1>2 DEF Begin, BeginLeg, Start, CalmInv
  <2>2. ASSUME NEW handler \in {"monitor", "close"}, Begin(k, handler) PROVE Calm'
    <3>1. Unlocked \subseteq Leg /\ \A l \in Unlocked : ~ lock[l] BY DEF Unlocked
    <3> QED BY <2>1, <2>2, <3>1, CalmStartStep DEF Begin
  <2>3. ASSUME NEW l \in Leg, BeginLeg(k, l) PROVE Calm'
    <3>1. Start(k, "close leg", {l}, "read position") /\ ~ lock[l] BY <2>3 DEF BeginLeg
    <3>2. {l} \in SUBSET Leg /\ \A m \in {l} : ~ lock[m] BY <3>1
    <3> QED BY <2>1, <3>1, <3>2, CalmStartStep
  <2> QED BY <1>2, <2>2, <2>3
<1>3. ASSUME NEW k \in Closer, NEW l \in Leg, CloseLeg(k, l) \/ BrokerEnds(k, l)
      PROVE  Calm'
  <2>1. Calm BY <1>3 DEF CloseLeg, LegFailed, BrokerEnds, CalmInv
  <2> QED BY <1>3, <2>1, CalmCloseLegStep, CalmBrokerEndsStep
<1>4. ASSUME NEW k \in Closer, ReadPosition(k) \/ Confirmed(k) \/ Unconfirmed(k) PROVE Calm'
  <2>1. Calm BY <1>4 DEF ReadPosition, Confirmed, Unconfirmed, Update, LegFailed, CalmInv
  <2> QED BY <1>4, <2>1, CalmReadPositionStep, CalmConfirmedStep, CalmUnconfirmedStep
<1>5. ASSUME NEW k \in Closer, MarkCloseFailed(k) \/ LeaveActive(k) \/ MarkClosed(k)
      PROVE  Calm'
  <2>1. Calm BY <1>5 DEF MarkCloseFailed, LeaveActive, MarkClosed, Update, CalmInv
  <2> QED BY <1>5, <2>1, CalmEndStep
<1>6. ASSUME NEW k \in Closer, ReadDaily(k) \/ WriteDaily(k) \/ Crash(k) PROVE Calm'
  <2>1. ~ Crash(k) BY DEF Crash
  <2>2. Calm BY <1>6, <2>1 DEF ReadDaily, WriteDaily, Update, CalmInv
  <2> QED BY <1>6, <2>1, <2>2, CalmDailyStep
<1> QED BY <1>1, <1>2, <1>3, <1>4, <1>5, <1>6 DEF Next

-----------------------------------------------------------------------------
(* Theorems *)

\* IInv is an inductive invariant of the handlers.
THEOREM Inductive == Spec => []IInv
BY InitIInv, NextIInv, PTL DEF Spec

\* The state is always what the declarations say; an invocation has a leg in hand only
\* while it awaits the fill (the loops over orderedClose).
THEOREM TypeCorrect == Spec => []TypeOK
<1>1. IInv => TypeOK BY DEF IInv
<1> QED BY <1>1, Inductive, PTL

\* However many handlers overlap, fail and overwrite each other's status, a position is
\* CLOSED or booked only after the broker has closed each of its legs
\* (handlePositionMonitor, handleManualClose, finishPositionIfFullyClosed).
THEOREM ClosedIsCoveredHolds == Spec => []ClosedIsCovered
<1>1. IInv => ClosedIsCovered BY DEF IInv, RowInv, ClosedIsCovered
<1> QED BY <1>1, Inductive, PTL

\* A leg whose exit_fill_price is set is closed at the broker, and no handler that begins
\* later has it to close (openLegs, and the check of handleManualCloseLeg).
THEOREM LockProtectsHolds == Spec => LockProtects
<1>1. IInv /\ [Next]_vars =>
        [\A k \in Closer, l \in Leg :
           lock[l] /\ pc[k] = "idle" /\ pc'[k] # "idle" => ~ Open(l) /\ l \notin queue'[k]]_vars
  <2> SUFFICES ASSUME IInv, Next, NEW k \in Closer, NEW l \in Leg,
                      lock[l], pc[k] = "idle", pc'[k] # "idle"
               PROVE  ~ Open(l) /\ l \notin queue'[k]
    OBVIOUS
  <2>1. ~ Open(l) BY DEF IInv, RowInv
  <2>2. PICK j \in Closer :
          \/ \E handler \in {"monitor", "close"} : Begin(j, handler)
          \/ \E m \in Leg : BeginLeg(j, m)
          \/ pc[j] # "idle" /\ \E stage : pc' = [pc EXCEPT ![j] = stage]
          \/ pc' = pc
    BY DEF Next, CloseLeg, BrokerEnds, ReadPosition, Confirmed, Unconfirmed, MarkCloseFailed,
           LeaveActive, MarkClosed, ReadDaily, WriteDaily, Crash, Stop, Go, LoopEnded, Running
  <2>3. CASE \E handler \in {"monitor", "close"} : Begin(j, handler)
    <3>1. queue'[j] = Unlocked /\ \A i \in Closer \ {j} : pc'[i] = pc[i]
      BY <2>3 DEF Begin, Start, Go, IInv, TypeOK
    <3> QED BY <2>1, <3>1 DEF Unlocked
  <2>4. CASE \E m \in Leg : BeginLeg(j, m)
    <3>1. PICK m \in Leg : BeginLeg(j, m) BY <2>4
    <3>2. queue'[j] = {m} /\ ~ lock[m] /\ \A i \in Closer \ {j} : pc'[i] = pc[i]
      BY <3>1 DEF BeginLeg, Start, Go, IInv, TypeOK
    <3> QED BY <2>1, <3>2
  <2>5. CASE pc[j] # "idle" /\ \E stage : pc' = [pc EXCEPT ![j] = stage]
    BY <2>5 DEF IInv, TypeOK
  <2>6. CASE pc' = pc BY <2>6
  <2> QED BY <2>2, <2>3, <2>4, <2>5, <2>6
<1> QED BY <1>1, Inductive, PTL DEF Spec, LockProtects

\* A handler of the whole position that sold a hedge, or asked to, and ends with the short
\* still open leaves the row CLOSE_FAILED, unless it is killed or its update is lost: the
\* loop over orderedClose goes on after an unconfirmed leg, and what it remembers of it is
\* enough (lines 2494-2527, 3178-3215).
THEOREM NakedIsFlaggedHolds == Spec => NakedIsFlagged
<1> DEFINE Flagged == \A k \in Closer, s \in Sell :
             kind[k] # "close leg" /\ pc[k] \in Running /\ pc'[k] \notin Running
               /\ order[k][Hedge[s]] # "none" /\ Open(s) =>
                 status' = "CLOSE_FAILED" \/ (mishap' /\ UNCHANGED rows)
<1>1. IInv /\ [Next]_vars => [Flagged]_vars
  <2> SUFFICES ASSUME IInv, Next, NEW k \in Closer, NEW s \in Sell, kind[k] # "close leg",
                      pc[k] \in Running, pc'[k] \notin Running, Open(s)
               PROVE  status' = "CLOSE_FAILED" \/ (mishap' /\ UNCHANGED rows)
    OBVIOUS
  <2>1. s \in Leg BY LegAssumption
  <2>2. pc[k] \notin {"read position", "read daily", "write daily"}
    BY <2>1 DEF IInv, Belief
  <2>3. ASSUME NEW j \in Closer, NEW stage \in Running, pc' = [pc EXCEPT ![j] = stage]
        PROVE  FALSE
    BY <2>3 DEF IInv, TypeOK
  <2>4. ASSUME NEW j \in Closer, NEW how \in {"done", "crashed"}, Stop(j, how) PROVE j = k
    BY <2>4 DEF Stop, IInv, TypeOK
  <2>5. ASSUME NEW j \in Closer, \/ \E handler \in {"monitor", "close"} : Begin(j, handler)
                                 \/ \E l \in Leg : BeginLeg(j, l) \/ CloseLeg(j, l) \/ BrokerEnds(j, l)
        PROVE  FALSE
    BY <2>3, <2>5 DEF Begin, BeginLeg, CloseLeg, BrokerEnds, Start, Go, Running
  <2>6. ASSUME NEW j \in Closer,
               ReadPosition(j) \/ Confirmed(j) \/ Unconfirmed(j) \/ LeaveActive(j) \/ ReadDaily(j) \/ WriteDaily(j)
        PROVE  FALSE
    BY <2>2, <2>3, <2>4, <2>6 DEF ReadPosition, Confirmed, Unconfirmed, LeaveActive, ReadDaily, WriteDaily,
       Go, Running
  <2>7. ASSUME NEW j \in Closer, MarkCloseFailed(j)
        PROVE  status' = "CLOSE_FAILED" \/ (mishap' /\ UNCHANGED rows)
    BY <2>4, <2>7 DEF MarkCloseFailed, Update
  <2>8. ASSUME NEW j \in Closer, MarkClosed(j) PROVE FALSE
    <3>1. \A l \in Leg : ~ Open(l) BY <2>8, CoveredAtEnd DEF MarkClosed
    <3> QED BY <2>1, <3>1
  <2>9. ASSUME NEW j \in Closer, Crash(j) PROVE mishap' /\ UNCHANGED rows
    BY <2>9 DEF Crash
  <2> QED BY <2>5, <2>6, <2>7, <2>8, <2>9 DEF Next
<1> QED BY <1>1, Inductive, PTL DEF Spec, NakedIsFlagged

\* With no overlap, no killed invocation, no lost update and no unconfirmed single-leg
\* close, no leg is closed twice (the locks and the status of the row, lines 2494-2527,
\* 3178-3215, 3302-3345): what the code says of a retried unwind holds for any legs.
THEOREM TwiceExplainedHolds == Spec => []TwiceExplained
<1>1. CalmInv => TwiceExplained BY DEF CalmInv, Calm, OrderedOnce, TwiceExplained, ClosedTwice
<1> QED BY <1>1, InitIInv, NextIInv, InitCalm, NextCalm, PTL DEF Spec
=============================================================================
