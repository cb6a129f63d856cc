--------------------------- MODULE LiveFillProofs ---------------------------
(***************************************************************************)
(* The safety properties of LiveFill, for every plan, quantity and retry   *)
(* limit.  They follow from one inductive invariant, IInv: what the        *)
(* process was told of each order fits what the order is at the broker,    *)
(* and where the process stands fits which legs it has been through.       *)
(***************************************************************************)
EXTENDS LiveFill, TLAPS

\* What an order is at the broker.
OrderConsistent(o) ==
  /\ o.status = "COMPLETE" => o.filled = Qty
  /\ o.status \in {"NONE", "OPEN", "REJECTED"} => o.filled = 0
  /\ o.status = "CANCELLED" => o.filled < Qty
  /\ o.heard = "nothing" => o.status = "NONE"
  /\ o.heard \in {"filled", "no price"} => o.status = "COMPLETE"
  /\ o.heard = "rejected" => o.status = "REJECTED"
  /\ o.heard = "cancelled" => o.status = "CANCELLED"

OrdersInv ==
  /\ \A l \in Leg : OrderConsistent(close[l])
  /\ \A l \in Leg, k \in Pass : OrderConsistent(entry[l][k])
  /\ \A l \in Leg, k \in Pass : k > pass => ~ Sent(entry[l][k])

\* What was heard of an order, against the process's own records.
HeardInv ==
  \A l \in Leg, k \in Pass :
    /\ entry[l][k].heard = "accepted" => pc \in {"await", "query"} /\ cur = l /\ k = pass
    /\ entry[l][k].heard = "unresolved" => legState[l] = "AMBIGUOUS"
    /\ entry[l][k].heard = "filled" <=> fills[l] = k

\* A leg of the running pass is waiting, in hand, or filled; the rest of the
\* run has nothing left to attempt.
PassInv ==
  /\ pc = "validate" => \A l \in Leg, k \in Pass : ~ Sent(entry[l][k])
  /\ pc = "leg" => todo # {}
  /\ pc \in {"leg", "await", "query"} =>
       \A l \in Leg : /\ l \in todo => /\ legState[l] = "PENDING"
                                       /\ ~ Sent(entry[l][pass])
                      /\ l \notin todo => \/ fills[l] # 0
                                          \/ pc \in {"await", "query"} /\ l = cur
  /\ pc \in {"await", "query"} => /\ entry[cur][pass].heard = "accepted"
                                  /\ cur \notin todo
                                  /\ legState[cur] = "PENDING"

ResultInv ==
  /\ result # "none" <=> pc = "done"
  /\ result # "FAILED" => \A l \in Leg : legState[l] = "FILLED" <=> fills[l] # 0
  /\ pc = "validate" => \A l \in Leg : fills[l] = 0 /\ legState[l] = "PENDING"
  /\ result = "FAILED" => \A l \in Leg : /\ legState[l] \in {"REJECTED", "CANCELLED"}
                                         /\ fills[l] # 0 => Sent(close[l])
  /\ result = "ACTIVE" => \A l \in Leg : fills[l] # 0
  /\ Ambiguous => pc \in {"decide", "done"}
  /\ pc = "unwind" => \A l \in Leg : fills[l] # 0 => l \in unwind \/ Sent(close[l])
  /\ pc # "unwind" /\ result # "FAILED" => \A l \in Leg : ~ Sent(close[l])

HedgeInv ==
  (\E s \in Sell, k \in Pass : Sent(entry[s][k])) => \A b \in Buy : fills[b] # 0

IInv == TypeOK /\ OrdersInv /\ HeardInv /\ PassInv /\ ResultInv /\ HedgeInv

-----------------------------------------------------------------------------
(* Types *)

LEMMA Bounds == Qty \in Nat \ {0} /\ N \in Nat \ {0} /\ MaxRetries \in Nat
  BY PlanAssumption

LEMMA PassPositive == \A k \in Pass : k \in Nat /\ k # 0
  BY Bounds DEF Pass

LEMMA OrderEnds ==
  ASSUME NEW o \in Order, NEW e \in Ends(o)
  PROVE  /\ e \in Order
         /\ e.heard = o.heard
         /\ e.status # "NONE"
         /\ OrderConsistent(o) /\ Working(o) => OrderConsistent(e)
<1>1. PICK s \in {"COMPLETE", "REJECTED", "CANCELLED"}, q \in 0..Qty :
        /\ e = At(o, s, q)
        /\ s = "COMPLETE" => q = Qty
        /\ s = "REJECTED" => q = 0
        /\ s = "CANCELLED" => q < Qty
  BY Bounds DEF Ends
<1>2. e \in Order BY <1>1 DEF At, Order, OrderStatus
<1>3. e.heard = o.heard /\ e.status = s /\ e.filled = q BY <1>1 DEF At
<1>4. OrderConsistent(o) /\ Working(o) => OrderConsistent(e)
  BY <1>1, <1>3 DEF Working, OrderConsistent
<1> QED BY <1>1, <1>2, <1>3, <1>4

\* What replacing one entry order does to the table of them.
LEMMA EntryUpdate ==
  ASSUME entry \in [Leg -> [Pass -> Order]], NEW l \in Leg, NEW k \in Pass,
         NEW o \in Order, entry' = [entry EXCEPT ![l][k] = o]
  PROVE  /\ entry' \in [Leg -> [Pass -> Order]]
         /\ entry'[l][k] = o
         /\ \A m \in Leg, j \in Pass : m # l \/ j # k => entry'[m][j] = entry[m][j]
  OBVIOUS

LEMMA HearUpdate ==
  ASSUME entry \in [Leg -> [Pass -> Order]], pass \in Pass, NEW l \in Leg,
         NEW w \in Heard, Hear(l, w)
  PROVE  /\ entry' \in [Leg -> [Pass -> Order]]
         /\ entry'[l][pass].heard = w
         /\ entry'[l][pass].status = entry[l][pass].status
         /\ entry'[l][pass].filled = entry[l][pass].filled
         /\ \A m \in Leg, j \in Pass : m # l \/ j # pass => entry'[m][j] = entry[m][j]
<1> DEFINE o == [entry[l][pass] EXCEPT !.heard = w]
<1>1. entry[l][pass] \in Order OBVIOUS
<1>2. o \in Order BY <1>1 DEF Order
<1>3. /\ o.heard = w /\ o.status = entry[l][pass].status
      /\ o.filled = entry[l][pass].filled
  BY <1>1 DEF Order
<1>4. entry' = [entry EXCEPT ![l][pass] = o] BY DEF Hear
<1> HIDE DEF o
<1> QED BY <1>2, <1>3, <1>4, EntryUpdate

LEMMA RequestedIsOrder ==
  ASSUME NEW o \in Requested
  PROVE  /\ o \in Order
         /\ OrderConsistent(o)
         /\ o.heard \in {"accepted", "request error"}
<1>1. 0 \in 0..Qty BY Bounds
<1>2. CASE o = [status |-> "OPEN", filled |-> 0, heard |-> "accepted"]
  BY <1>1, <1>2 DEF Order, OrderStatus, Heard, OrderConsistent
<1>3. CASE o = [status |-> "NONE", filled |-> 0, heard |-> "request error"]
  BY <1>1, <1>3 DEF Order, OrderStatus, Heard, OrderConsistent
<1>4. CASE o = [status |-> "OPEN", filled |-> 0, heard |-> "request error"]
  BY <1>1, <1>4 DEF Order, OrderStatus, Heard, OrderConsistent
<1> QED BY <1>2, <1>3, <1>4 DEF Requested

LEMMA TypeStep ==
  ASSUME TypeOK, [Next]_vars PROVE TypeOK'
<1> USE Bounds DEF TypeOK, LegStatus, Outcome
<1>1. ASSUME NEW l \in Leg, NEW k \in Pass, BrokerEndsEntry(l, k) PROVE TypeOK'
  <2>1. PICK o \in Ends(entry[l][k]) : entry' = [entry EXCEPT ![l][k] = o]
    BY <1>1 DEF BrokerEndsEntry
  <2>2. o \in Order BY OrderEnds
  <2> QED BY <1>1, <2>1, <2>2 DEF BrokerEndsEntry, process
<1>2. ASSUME NEW l \in Leg, BrokerEndsClose(l) PROVE TypeOK'
  <2>1. PICK o \in Ends(close[l]) : close' = [close EXCEPT ![l] = o]
    BY <1>2 DEF BrokerEndsClose
  <2>2. o \in Order BY OrderEnds
  <2> QED BY <1>2, <2>1, <2>2 DEF BrokerEndsClose, process
<1>3. CASE FailValidation BY <1>3 DEF FailValidation
<1>4. CASE PassValidation BY <1>4 DEF PassValidation
<1>5. ASSUME NEW l \in Leg, SkipLeg(l) PROVE TypeOK'
  BY <1>5 DEF SkipLeg
<1>6. ASSUME NEW l \in Leg, PlaceOrder(l) PROVE TypeOK'
  <2>1. PICK o \in Requested :
          /\ entry' = [entry EXCEPT ![l][pass] = o]
          /\ IF o.heard = "accepted"
               THEN pc' = "await" /\ cur' = l /\ UNCHANGED legState
               ELSE pc' = "decide" /\ legState' = [legState EXCEPT ![l] = "REJECTED"]
                                   /\ UNCHANGED cur
    BY <1>6 DEF PlaceOrder
  <2>2. o \in Order BY RequestedIsOrder
  <2> QED BY <1>6, <2>1, <2>2 DEF PlaceOrder
<1>7. ASSUME NEW l \in Leg, CloseLeg(l) PROVE TypeOK'
  <2>1. PICK o \in Requested : close' = [close EXCEPT ![l] = o]
    BY <1>7 DEF CloseLeg
  <2>2. o \in Order BY RequestedIsOrder
  <2> QED BY <1>7, <2>1, <2>2 DEF CloseLeg
<1>8. CASE ConfirmFill
  BY <1>8, HearUpdate DEF ConfirmFill, Conclude, Heard
<1>9. CASE CompleteWithoutPrice
  BY <1>9, HearUpdate DEF CompleteWithoutPrice, Conclude, Heard
<1>10. CASE ConfirmDead
  BY <1>10, HearUpdate DEF ConfirmDead, Conclude, Heard
<1>11. CASE Timeout BY <1>11 DEF Timeout
<1>12. CASE StatusUnresolved
  BY <1>12, HearUpdate DEF StatusUnresolved, Conclude, Heard
<1>13. CASE Escalate BY <1>13 DEF Escalate, Return, deriveProtectionState
<1>14. CASE Finish BY <1>14 DEF Finish, Return
<1>15. CASE Retry
  BY <1>15 DEF Retry, decideLegFailureAction, Pass
<1>16. CASE StartUnwind BY <1>16 DEF StartUnwind, Filled
<1>17. CASE EndUnwind BY <1>17 DEF EndUnwind, Return
<1>18. CASE UNCHANGED vars BY <1>18 DEF vars
<1> QED
  BY <1>1, <1>2, <1>3, <1>4, <1>5, <1>6, <1>7, <1>8, <1>9, <1>10, <1>11, <1>12,
     <1>13, <1>14, <1>15, <1>16, <1>17, <1>18 DEF Next, Step, Broker

\* TypeOK holds of every behaviour of the specification.
THEOREM TypeCorrect == Spec => []TypeOK
<1>1. Init => TypeOK
  BY Bounds DEF Init, TypeOK, Pass, Leg, LegStatus, NoOrder, Order, OrderStatus, Heard
<1>2. TypeOK /\ [Next]_vars => TypeOK' BY TypeStep
<1> QED BY <1>1, <1>2, PTL DEF Spec

-----------------------------------------------------------------------------
(* The inductive invariant, one lemma per kind of step *)

LEMMA InitIInv == Init => IInv
<1> SUFFICES ASSUME Init PROVE IInv OBVIOUS
<1> USE Bounds DEF Init
<1>1. TypeOK BY DEF TypeOK, Pass, Leg, LegStatus, NoOrder, Order, OrderStatus, Heard
<1>2. /\ \A l \in Leg : close[l] = NoOrder /\ fills[l] = 0 /\ legState[l] = "PENDING"
      /\ \A l \in Leg, k \in Pass : entry[l][k] = NoOrder
  OBVIOUS
<1>3. OrderConsistent(NoOrder) /\ ~ Sent(NoOrder) BY DEF OrderConsistent, NoOrder, Sent
<1>4. OrdersInv BY <1>2, <1>3 DEF OrdersInv
<1>5. HeardInv BY <1>2 DEF HeardInv, NoOrder, Pass
<1>6. PassInv BY <1>2, <1>3 DEF PassInv
<1>7. ResultInv BY <1>2, <1>3 DEF ResultInv, Ambiguous
<1>8. HedgeInv BY <1>2, <1>3 DEF HedgeInv, Sell
<1> QED BY <1>1, <1>4, <1>5, <1>6, <1>7, <1>8 DEF IInv

\* The broker changes what an order is, never what was heard of it.
LEMMA BrokerStep ==
  ASSUME IInv, TypeOK', UNCHANGED process,
         \A l \in Leg : close'[l].heard = close[l].heard /\ OrderConsistent(close'[l]),
         \A l \in Leg, k \in Pass : /\ entry'[l][k].heard = entry[l][k].heard
                                    /\ OrderConsistent(entry'[l][k])
  PROVE  IInv'
<1> USE DEF process
<1>1. /\ \A l \in Leg : Sent(close[l])' <=> Sent(close[l])
      /\ \A l \in Leg, k \in Pass : Sent(entry[l][k])' <=> Sent(entry[l][k])
  BY DEF Sent
<1>2. OrdersInv' BY ZenonT(60), <1>1 DEF IInv, OrdersInv, OrderConsistent
<1>3. HeardInv' BY DEF IInv, HeardInv
<1>4. PassInv' BY <1>1 DEF IInv, TypeOK, PassInv
<1>5. ResultInv' BY <1>1 DEF IInv, ResultInv, Ambiguous
<1>6. HedgeInv' BY <1>1 DEF IInv, HedgeInv, Sell
<1> QED BY <1>2, <1>3, <1>4, <1>5, <1>6 DEF IInv

\* The process learns something about the leg in hand and is done with it.
LEMMA ConcludeStep ==
  ASSUME IInv, TypeOK', pc \in {"await", "query"},
         NEW w \in {"filled", "no price", "rejected", "cancelled", "unresolved"},
         NEW st \in {"FILLED", "REJECTED", "CANCELLED", "AMBIGUOUS"},
         Hear(cur, w), Conclude(cur, st),
         fills' = IF w = "filled" THEN [fills EXCEPT ![cur] = pass] ELSE fills,
         st = "FILLED" <=> w = "filled",
         w = "unresolved" => st = "AMBIGUOUS",
         w \in {"filled", "no price"} => entry[cur][pass].status = "COMPLETE",
         w = "rejected" => entry[cur][pass].status = "REJECTED",
         w = "cancelled" => entry[cur][pass].status = "CANCELLED",
         UNCHANGED <<pass, todo, unwind, result, protection, close>>
  PROVE  IInv'
<1>1. /\ cur \in Leg /\ pass \in Pass
      /\ entry \in [Leg -> [Pass -> Order]]
      /\ fills \in [Leg -> Pass \cup {0}] /\ legState \in [Leg -> LegStatus]
  BY DEF IInv, TypeOK
<1>2. w \in Heard BY DEF Heard
<1>3. /\ entry'[cur][pass].heard = w
      /\ entry'[cur][pass].status = entry[cur][pass].status
      /\ entry'[cur][pass].filled = entry[cur][pass].filled
      /\ \A m \in Leg, j \in Pass : m # cur \/ j # pass => entry'[m][j] = entry[m][j]
  BY <1>1, <1>2, HearUpdate
<1>4. entry[cur][pass].heard = "accepted" /\ legState[cur] = "PENDING" /\ cur \notin todo
  BY DEF IInv, PassInv
<1>5. \A l \in Leg, k \in Pass : Sent(entry[l][k])' <=> Sent(entry[l][k])
  BY <1>3, <1>4 DEF Sent
<1>6. /\ fills'[cur] = IF w = "filled" THEN pass ELSE fills[cur]
      /\ \A m \in Leg : m # cur => fills'[m] = fills[m]
      /\ legState'[cur] = st
      /\ \A m \in Leg : m # cur => legState'[m] = legState[m]
  BY <1>1 DEF Conclude
<1>7. 0 \notin Pass BY PassPositive
<1>8. result = "none" /\ ~ Ambiguous /\ fills[cur] = 0
  <2>1. result = "none" /\ ~ Ambiguous BY DEF IInv, ResultInv
  <2>2. legState[cur] = "FILLED" <=> fills[cur] # 0
    BY <1>1, <2>1 DEF IInv, ResultInv
  <2> QED BY <1>4, <2>1, <2>2
<1>9. OrdersInv'
  <2>1. OrderConsistent(entry[cur][pass]) BY <1>1 DEF IInv, OrdersInv
  <2>2. OrderConsistent(entry'[cur][pass]) BY <1>3, <2>1 DEF OrderConsistent
  <2>3. \A m \in Leg, j \in Pass : OrderConsistent(entry'[m][j])
    BY <1>3, <2>2 DEF IInv, OrdersInv
  <2> QED BY <2>3, <1>5 DEF IInv, OrdersInv, OrderConsistent
<1>10. HeardInv'
  <2> SUFFICES ASSUME NEW m \in Leg, NEW j \in Pass
      PROVE  /\ entry'[m][j].heard = "accepted" =>
                  pc' \in {"await", "query"} /\ cur' = m /\ j = pass'
             /\ entry'[m][j].heard = "unresolved" => legState'[m] = "AMBIGUOUS"
             /\ entry'[m][j].heard = "filled" <=> fills'[m] = j
    BY DEF HeardInv
  <2>1. CASE m = cur /\ j = pass
    BY <1>1, <1>3, <1>6, <1>7, <1>8, <2>1
  <2>2. CASE m # cur \/ j # pass
    <3>1. entry'[m][j] = entry[m][j] BY <1>3, <2>2
    <3>2. fills'[m] = j <=> fills[m] = j BY <1>1, <1>6, <1>7, <1>8, <2>2
    <3>3. /\ entry[m][j].heard # "accepted"
          /\ entry[m][j].heard # "unresolved"
          /\ entry[m][j].heard = "filled" <=> fills[m] = j
      BY <1>8, <2>2 DEF IInv, HeardInv, Ambiguous
    <3> QED BY <3>1, <3>2, <3>3
  <2> QED BY <2>1, <2>2
<1>11. PassInv'
  <2>1. pc' \in {"leg", "decide"} /\ (pc' = "leg" => todo # {} /\ w = "filled")
    BY DEF Conclude
  <2>2. \A m \in Leg : m \notin todo => m = cur \/ fills[m] # 0
    BY DEF IInv, PassInv
  <2>3. \A m \in todo \cap Leg : m # cur /\ legState[m] = "PENDING" /\ ~ Sent(entry[m][pass])
    BY <1>4 DEF IInv, PassInv
  <2>4. pc' = "leg" => \A m \in Leg : m \notin todo => fills'[m] # 0
    BY <1>1, <1>6, <1>7, <2>1, <2>2
  <2>5. \A m \in todo \cap Leg : legState'[m] = "PENDING" /\ ~ Sent(entry'[m][pass])
    BY <1>1, <1>5, <1>6, <2>3 DEF Sent
  <2> QED BY <2>1, <2>4, <2>5 DEF PassInv, Sent
<1>12. ResultInv'
  BY <1>1, <1>4, <1>6, <1>7, <1>8 DEF IInv, ResultInv, Conclude, Ambiguous
<1>13. HedgeInv'
  <2> SUFFICES ASSUME NEW s \in Sell, NEW k \in Pass, Sent(entry[s][k])'
      PROVE  \A b \in Buy : fills'[b] # 0
    BY DEF HedgeInv
  <2>1. Sent(entry[s][k]) BY <1>5 DEF Sell
  <2>2. \A b \in Buy : fills[b] # 0 BY <2>1 DEF IInv, HedgeInv
  <2> QED BY <1>6, <1>8, <2>2 DEF Buy
<1> QED BY <1>9, <1>10, <1>11, <1>12, <1>13 DEF IInv

LEMMA PlaceStep ==
  ASSUME IInv, TypeOK', NEW l \in Leg, PlaceOrder(l) PROVE IInv'
<1>1. PICK o \in Requested :
        /\ entry' = [entry EXCEPT ![l][pass] = o]
        /\ IF o.heard = "accepted"
             THEN pc' = "await" /\ cur' = l /\ UNCHANGED legState
             ELSE pc' = "decide" /\ legState' = [legState EXCEPT ![l] = "REJECTED"]
                                 /\ UNCHANGED cur
  BY DEF PlaceOrder
<1>2. /\ o \in Order /\ OrderConsistent(o) /\ Sent(o)
      /\ o.heard \in {"accepted", "request error"}
  BY RequestedIsOrder DEF Sent
<1>3. /\ pass \in Pass
      /\ entry \in [Leg -> [Pass -> Order]]
      /\ legState \in [Leg -> LegStatus]
  BY DEF IInv, TypeOK
<1>4. /\ entry'[l][pass] = o
      /\ \A m \in Leg, j \in Pass : m # l \/ j # pass => entry'[m][j] = entry[m][j]
  BY ZenonT(60), <1>1, <1>2, <1>3, EntryUpdate
<1>5. /\ pc = "leg" /\ l \in todo /\ todo' = todo \ {l}
      /\ UNCHANGED <<pass, fills, unwind, result, protection, close>>
  BY DEF PlaceOrder, IsNext
<1>6. /\ legState[l] = "PENDING" /\ fills[l] = 0 /\ result = "none" /\ ~ Ambiguous
      /\ ~ Sent(entry[l][pass])
  BY <1>1, <1>5 DEF IInv, PassInv, ResultInv
<1>7. \A m \in Leg : m # l => legState'[m] = legState[m]
  BY <1>1, <1>3
<1>8. legState'[l] \in {"PENDING", "REJECTED"} BY <1>1, <1>3, <1>6
<1>9. OrdersInv'
  <2>1. \A m \in Leg, j \in Pass : OrderConsistent(entry'[m][j])
    BY <1>2, <1>4 DEF IInv, OrdersInv
  <2>2. \A m \in Leg, j \in Pass : j > pass => ~ Sent(entry'[m][j])
    BY <1>3, <1>4 DEF IInv, OrdersInv, Pass
  <2> QED BY <1>5, <2>1, <2>2 DEF IInv, OrdersInv, OrderConsistent, Sent
<1>10. HeardInv'
  <2> SUFFICES ASSUME NEW m \in Leg, NEW j \in Pass
      PROVE  /\ entry'[m][j].heard = "accepted" =>
                  pc' \in {"await", "query"} /\ cur' = m /\ j = pass'
             /\ entry'[m][j].heard = "unresolved" => legState'[m] = "AMBIGUOUS"
             /\ entry'[m][j].heard = "filled" <=> fills'[m] = j
    BY DEF HeardInv
  <2>1. CASE m = l /\ j = pass
    BY <1>1, <1>2, <1>3, <1>4, <1>5, <1>6, <2>1, PassPositive
  <2>2. CASE m # l \/ j # pass
    <3>1. entry'[m][j] = entry[m][j] BY <1>4, <2>2
    <3> QED BY <1>5, <1>6, <3>1 DEF IInv, HeardInv, Ambiguous
  <2> QED BY <2>1, <2>2
<1>11. PassInv'
  BY <1>1, <1>2, <1>3, <1>4, <1>5, <1>6, <1>7 DEF IInv, PassInv
<1>12. ResultInv'
  BY <1>1, <1>5, <1>6, <1>7, <1>8 DEF IInv, ResultInv, Ambiguous
<1>13. HedgeInv'
  <2>1. CASE l \in Sell
    <3>1. \A b \in Buy : b \notin todo
      BY <2>1 DEF PlaceOrder, IsNext, Before, Buy, Sell
    <3>2. \A b \in Buy : fills[b] # 0 BY <1>5, <3>1 DEF IInv, PassInv, Buy
    <3> QED BY <1>5, <3>2 DEF HedgeInv, Buy
  <2>2. CASE l \notin Sell
    <3>1. \A s \in Sell, k \in Pass : entry'[s][k] = entry[s][k]
      BY <1>4, <2>2 DEF Sell
    <3> QED BY <1>5, <3>1 DEF IInv, HedgeInv, Sent
  <2> QED BY <2>1, <2>2
<1> QED BY <1>9, <1>10, <1>11, <1>12, <1>13 DEF IInv

\* The steps that send no entry order leave the table of them alone.
LEMMA CloseStep ==
  ASSUME IInv, TypeOK', NEW l \in Leg, CloseLeg(l) PROVE IInv'
<1>1. PICK o \in Requested : close' = [close EXCEPT ![l] = o]
  BY DEF CloseLeg
<1>2. OrderConsistent(o) /\ Sent(o) BY RequestedIsOrder DEF Sent
<1>3. /\ close'[l] = o
      /\ \A m \in Leg : m # l => close'[m] = close[m]
  BY <1>1 DEF IInv, TypeOK
<1>4. /\ pc = "unwind" /\ unwind' = unwind \ {l}
      /\ UNCHANGED <<pc, pass, todo, cur, legState, fills, result, protection, entry>>
  BY DEF CloseLeg
<1>5. OrdersInv'
  <2>1. \A m \in Leg : OrderConsistent(close'[m])
    BY <1>2, <1>3 DEF IInv, OrdersInv
  <2>2. /\ \A m \in Leg, k \in Pass : OrderConsistent(entry'[m][k])
        /\ \A m \in Leg, k \in Pass : k > pass' => ~ Sent(entry'[m][k])
    BY <1>4 DEF IInv, OrdersInv
  <2> QED BY <2>1, <2>2 DEF OrdersInv, OrderConsistent, Sent
<1>6. HeardInv' BY <1>4 DEF IInv, HeardInv
<1>7. PassInv' BY <1>4 DEF IInv, PassInv, Sent
<1>8. ResultInv' BY <1>2, <1>3, <1>4 DEF IInv, ResultInv, Ambiguous, Sent
<1>9. HedgeInv' BY <1>4 DEF IInv, HedgeInv, Sent
<1> QED BY <1>5, <1>6, <1>7, <1>8, <1>9 DEF IInv

LEMMA NoOrderStep ==
  ASSUME IInv, TypeOK', UNCHANGED <<fills, entry, close>>,
         \/ FailValidation \/ PassValidation \/ Timeout \/ StartUnwind \/ EndUnwind
         \/ Escalate \/ Finish \/ Retry \/ \E l \in Leg : SkipLeg(l)
  PROVE  IInv'
<1>1. /\ \A l \in Leg : Sent(close[l])' <=> Sent(close[l])
      /\ \A l \in Leg, k \in Pass : Sent(entry[l][k])' <=> Sent(entry[l][k])
  BY DEF Sent
<1>2. HedgeInv' BY <1>1 DEF IInv, HedgeInv
<1>3. legState \in [Leg -> LegStatus] /\ fills \in [Leg -> Pass \cup {0}]
  BY DEF IInv, TypeOK
<1>4. ASSUME pc \notin {"await", "query"}, pass' \in {pass, pass + 1},
             ~ Ambiguous \/ UNCHANGED legState
      PROVE  OrdersInv' /\ HeardInv'
  <2>1. pass \in Nat BY PassPositive DEF IInv, TypeOK
  <2>2. /\ \A l \in Leg : OrderConsistent(close'[l])
        /\ \A l \in Leg, k \in Pass : OrderConsistent(entry'[l][k])
    BY DEF IInv, OrdersInv
  <2>3. ASSUME NEW l \in Leg, NEW k \in Pass, k > pass' PROVE ~ Sent(entry'[l][k])
    <3>1. k > pass BY <1>4, <2>1, <2>3, PassPositive
    <3> QED BY <3>1 DEF IInv, OrdersInv
  <2>4. OrdersInv' BY <2>2, <2>3 DEF OrdersInv, OrderConsistent, Sent
  <2>5. HeardInv' BY <1>4 DEF IInv, HeardInv, Ambiguous
  <2> QED BY <2>4, <2>5
<1>5. CASE FailValidation
  <2>1. pc = "validate" /\ pc' = "done" /\ result' = "FAILED" /\ pass' = pass
        /\ \A l \in Leg : legState'[l] = "REJECTED"
    BY <1>5 DEF FailValidation
  <2>2. ~ Ambiguous BY <2>1 DEF IInv, ResultInv
  <2>3. OrdersInv' /\ HeardInv' BY <1>4, <2>1, <2>2
  <2>4. PassInv' BY <2>1 DEF PassInv
  <2>5. ResultInv' BY <2>1 DEF IInv, ResultInv, Ambiguous
  <2> QED BY <1>2, <2>3, <2>4, <2>5 DEF IInv
<1>6. CASE PassValidation
  <2>1. pc = "validate" /\ pc' = "leg" /\ todo' = Leg /\ UNCHANGED <<pass, legState, result>>
    BY <1>6 DEF PassValidation
  <2>2. OrdersInv' /\ HeardInv' BY <1>4, <2>1
  <2>3. Leg # {} BY Bounds DEF Leg
  <2>4. PassInv' BY <1>1, <2>1, <2>3 DEF IInv, TypeOK, PassInv, ResultInv, Sent
  <2>5. ResultInv' BY <1>1, <2>1 DEF IInv, ResultInv, Ambiguous
  <2> QED BY <1>2, <2>2, <2>4, <2>5 DEF IInv
<1>7. CASE Timeout
  <2>1. pc = "await" /\ pc' = "query" /\ UNCHANGED <<pass, todo, cur, legState, result>>
    BY <1>7 DEF Timeout
  <2>2. OrdersInv' BY ZenonT(60), <1>1, <2>1 DEF IInv, OrdersInv, OrderConsistent
  <2>3. HeardInv' BY <2>1 DEF IInv, HeardInv
  <2>4. PassInv' BY <1>1, <2>1 DEF IInv, PassInv, Sent
  <2>5. ResultInv' BY <1>1, <2>1 DEF IInv, ResultInv, Ambiguous
  <2> QED BY <1>2, <2>2, <2>3, <2>4, <2>5 DEF IInv
<1>8. CASE StartUnwind
  <2>1. /\ pc = "decide" /\ pc' = "unwind" /\ unwind' = Filled
        /\ ~ Ambiguous /\ UNCHANGED <<pass, todo, cur, legState, result>>
    BY <1>8 DEF StartUnwind
  <2>2. OrdersInv' /\ HeardInv' BY <1>4, <2>1
  <2>3. PassInv' BY <2>1 DEF PassInv
  <2>4. result = "none" BY <2>1 DEF IInv, ResultInv
  <2>5. \A l \in Leg : fills[l] # 0 => l \in unwind'
    BY <2>1, <2>4 DEF IInv, ResultInv, Filled
  <2>6. ResultInv' BY <1>1, <2>1, <2>4, <2>5 DEF IInv, ResultInv, Ambiguous
  <2> QED BY <1>2, <2>2, <2>3, <2>6 DEF IInv
<1>9. CASE EndUnwind
  <2>1. /\ pc = "unwind" /\ unwind = {} /\ pc' = "done" /\ result' = "FAILED"
        /\ pass' = pass
        /\ \A l \in Leg : legState'[l] = IF fills[l] # 0 THEN "CANCELLED" ELSE "REJECTED"
    BY <1>9 DEF EndUnwind, Return
  <2>2. ~ Ambiguous BY <2>1 DEF IInv, ResultInv
  <2>3. OrdersInv' /\ HeardInv' BY <1>4, <2>1, <2>2
  <2>4. PassInv' BY <2>1 DEF PassInv
  <2>5. \A l \in Leg : fills[l] # 0 => Sent(close[l])
    BY <2>1 DEF IInv, ResultInv
  <2>6. ResultInv' BY <1>1, <2>1, <2>5 DEF ResultInv, Ambiguous
  <2> QED BY <1>2, <2>3, <2>4, <2>6 DEF IInv
<1>10. CASE Escalate
  <2>1. /\ pc = "decide" /\ pc' = "done" /\ result' = "RECONCILIATION_REQUIRED"
        /\ UNCHANGED <<pass, legState>>
    BY <1>10 DEF Escalate, Return
  <2>2. OrdersInv' /\ HeardInv' BY <1>4, <2>1
  <2>3. PassInv' BY <2>1 DEF PassInv
  <2>4. result = "none" BY <2>1 DEF IInv, ResultInv
  <2>5. ResultInv' BY <1>1, <2>1, <2>4 DEF IInv, ResultInv, Ambiguous
  <2> QED BY <1>2, <2>2, <2>3, <2>5 DEF IInv
<1>11. CASE Finish
  <2>1. pc = "decide" /\ pc' = "done" /\ ~ Ambiguous /\ pass' = pass
    BY <1>11 DEF Finish, Return
  <2>2. OrdersInv' /\ HeardInv' BY <1>4, <2>1
  <2>3. PassInv' BY <2>1 DEF PassInv
  <2>4. result = "none" BY <2>1 DEF IInv, ResultInv
  <2>5. \A l \in Leg : l \in Filled <=> fills[l] # 0
    BY <2>4 DEF IInv, ResultInv, Filled
  <2>6. CASE deriveProtectionState(Filled) = "FULL"
    <3>1. Filled = Leg /\ result' = "ACTIVE" /\ UNCHANGED legState
      BY <1>11, <2>6 DEF Finish, Return, deriveProtectionState
    <3>2. ResultInv' BY <1>1, <2>1, <2>4, <2>5, <3>1 DEF IInv, ResultInv, Ambiguous
    <3> QED BY <1>2, <2>2, <2>3, <3>2 DEF IInv
  <2>7. CASE deriveProtectionState(Filled) # "FULL"
    <3>1. /\ Filled # Leg /\ result' = "FAILED"
          /\ \A l \in Leg : legState'[l] = "REJECTED"
      <4>1. result' = "FAILED" /\ \A l \in Leg : legState'[l] = "REJECTED"
        BY <1>11, <2>7 DEF Finish, Return
      <4>2. Leg # {} BY Bounds DEF Leg
      <4> QED BY <2>7, <4>1, <4>2 DEF deriveProtectionState
    <3>2. Filled = {}
      BY <1>11, <3>1 DEF Finish, decideLegFailureAction
    <3>3. ResultInv' BY <1>1, <2>1, <2>4, <2>5, <3>1, <3>2 DEF ResultInv, Ambiguous
    <3> QED BY <1>2, <2>2, <2>3, <3>3 DEF IInv
  <2> QED BY <2>6, <2>7
<1>12. CASE Retry
  <2>1. /\ pc = "decide" /\ pc' = "leg" /\ ~ Ambiguous /\ pass' = pass + 1
        /\ todo' = Leg \ Filled /\ UNCHANGED result
        /\ \A l \in Leg : legState'[l] = IF l \in Filled THEN "FILLED" ELSE "PENDING"
    BY <1>12 DEF Retry
  <2>2. Filled # Leg BY <1>12 DEF Retry, decideLegFailureAction
  <2>3. OrdersInv' /\ HeardInv' BY <1>4, <2>1
  <2>4. result = "none" BY <2>1 DEF IInv, ResultInv
  <2>5. \A l \in Leg : l \in Filled <=> fills[l] # 0
    BY <2>4 DEF IInv, ResultInv, Filled
  <2>6. pass \in Nat /\ pass' \in Pass
    BY PassPositive, <2>1 DEF IInv, TypeOK
  <2>7. \A l \in Leg : ~ Sent(entry[l][pass'])
    BY <2>1, <2>6 DEF IInv, OrdersInv
  <2>8. Leg \ Filled # {} BY <2>2 DEF Filled
  <2>9. PassInv' BY <2>1, <2>5, <2>7, <2>8 DEF PassInv, Sent
  <2>10. ResultInv' BY <1>1, <2>1, <2>4, <2>5 DEF IInv, ResultInv, Ambiguous
  <2> QED BY <1>2, <2>3, <2>9, <2>10 DEF IInv
<1>13. ASSUME NEW l \in Leg, SkipLeg(l) PROVE IInv'
  <2>1. /\ pc = "leg" /\ pc' = "decide" /\ l \in todo
        /\ UNCHANGED <<pass, result>>
        /\ legState' = [legState EXCEPT ![l] = "REJECTED"]
    BY <1>13 DEF SkipLeg, IsNext
  <2>2. ~ Ambiguous /\ result = "none" BY <2>1 DEF IInv, ResultInv
  <2>3. OrdersInv' /\ HeardInv' BY <1>4, <2>1, <2>2
  <2>4. PassInv' BY <2>1 DEF PassInv
  <2>5. legState[l] = "PENDING" BY <2>1 DEF IInv, PassInv
  <2>6. /\ legState'[l] = "REJECTED"
        /\ \A m \in Leg : m # l => legState'[m] = legState[m]
    BY <1>3, <2>1
  <2>7. ResultInv' BY <1>1, <2>1, <2>2, <2>5, <2>6 DEF IInv, ResultInv, Ambiguous
  <2> QED BY <1>2, <2>3, <2>4, <2>7 DEF IInv
<1> QED BY <1>5, <1>6, <1>7, <1>8, <1>9, <1>10, <1>11, <1>12, <1>13

\* IInv holds of every behaviour of the specification.
THEOREM Inductive == Spec => []IInv
<1>1. ASSUME IInv, [Next]_vars PROVE IInv'
  <2>1. TypeOK' BY <1>1, TypeStep DEF IInv
  <2>2. ASSUME NEW l \in Leg, NEW k \in Pass, BrokerEndsEntry(l, k) PROVE IInv'
    <3>1. PICK o \in Ends(entry[l][k]) : entry' = [entry EXCEPT ![l][k] = o]
      BY <2>2 DEF BrokerEndsEntry
    <3>2. entry[l][k] \in Order /\ OrderConsistent(entry[l][k]) /\ Working(entry[l][k])
      BY <1>1, <2>2 DEF IInv, TypeOK, OrdersInv, BrokerEndsEntry
    <3>3. o \in Order /\ o.heard = entry[l][k].heard /\ OrderConsistent(o)
      BY <3>2, OrderEnds
    <3>4. /\ entry'[l][k] = o
          /\ \A m \in Leg, j \in Pass : m # l \/ j # k => entry'[m][j] = entry[m][j]
      BY <1>1, <3>1, <3>3, EntryUpdate DEF IInv, TypeOK
    <3>5. UNCHANGED process /\ UNCHANGED close BY <2>2 DEF BrokerEndsEntry
    <3>6. \A m \in Leg, j \in Pass : /\ entry'[m][j].heard = entry[m][j].heard
                                     /\ OrderConsistent(entry'[m][j])
      BY <1>1, <3>3, <3>4 DEF IInv, OrdersInv
    <3>7. \A m \in Leg : close'[m].heard = close[m].heard /\ OrderConsistent(close'[m])
      BY <1>1, <3>5 DEF IInv, OrdersInv
    <3> QED BY <1>1, <2>1, <3>5, <3>6, <3>7, BrokerStep
  <2>3. ASSUME NEW l \in Leg, BrokerEndsClose(l) PROVE IInv'
    <3>1. PICK o \in Ends(close[l]) : close' = [close EXCEPT ![l] = o]
      BY <2>3 DEF BrokerEndsClose
    <3>2. close[l] \in Order /\ OrderConsistent(close[l]) /\ Working(close[l])
      BY <1>1, <2>3 DEF IInv, TypeOK, OrdersInv, BrokerEndsClose
    <3>3. o.heard = close[l].heard /\ OrderConsistent(o)
      BY <3>2, OrderEnds
    <3>4. close'[l] = o /\ \A m \in Leg : m # l => close'[m] = close[m]
      BY <1>1, <3>1 DEF IInv, TypeOK
    <3>5. UNCHANGED process /\ UNCHANGED entry BY <2>3 DEF BrokerEndsClose
    <3>6. \A m \in Leg : close'[m].heard = close[m].heard /\ OrderConsistent(close'[m])
      BY <1>1, <3>3, <3>4 DEF IInv, OrdersInv
    <3>7. \A m \in Leg, j \in Pass : /\ entry'[m][j].heard = entry[m][j].heard
                                     /\ OrderConsistent(entry'[m][j])
      BY <1>1, <3>5 DEF IInv, OrdersInv
    <3> QED BY <1>1, <2>1, <3>5, <3>6, <3>7, BrokerStep
  <2>4. ASSUME NEW l \in Leg, PlaceOrder(l) PROVE IInv'
    BY <1>1, <2>1, <2>4, PlaceStep
  <2>5. ASSUME NEW l \in Leg, CloseLeg(l) PROVE IInv'
    BY <1>1, <2>1, <2>5, CloseStep
  <2>6. CASE ConfirmFill
    BY <1>1, <2>1, <2>6, ConcludeStep DEF ConfirmFill
  <2>7. CASE CompleteWithoutPrice
    BY <1>1, <2>1, <2>7, ConcludeStep DEF CompleteWithoutPrice
  <2>8. CASE ConfirmDead
    BY <1>1, <2>1, <2>8, ConcludeStep DEF ConfirmDead
  <2>9. CASE StatusUnresolved
    BY <1>1, <2>1, <2>9, ConcludeStep DEF StatusUnresolved
  <2>10. CASE \/ FailValidation \/ PassValidation \/ Timeout \/ StartUnwind \/ EndUnwind
              \/ Escalate \/ Finish \/ Retry \/ \E l \in Leg : SkipLeg(l)
    <3>1. UNCHANGED <<fills, entry, close>>
      BY <2>10 DEF FailValidation, PassValidation, Timeout, StartUnwind, EndUnwind,
                   Escalate, Finish, Retry, SkipLeg
    <3> QED BY <1>1, <2>1, <2>10, <3>1, NoOrderStep
  <2>11. CASE UNCHANGED vars
    <3>1. UNCHANGED process /\ UNCHANGED <<entry, close>> BY <2>11 DEF vars, process
    <3> QED BY <1>1, <2>1, <3>1, BrokerStep DEF IInv, OrdersInv
  <2> QED
    BY <1>1, <2>2, <2>3, <2>4, <2>5, <2>6, <2>7, <2>8, <2>9, <2>10, <2>11
    DEF Next, Step, Broker
<1> QED BY <1>1, InitIInv, PTL DEF Spec

-----------------------------------------------------------------------------
(* What follows from it *)

\* Whatever the plan, no order for a short is sent, on any pass, before every
\* hedge is complete at the broker.
THEOREM HedgedBeforeShortHolds == Spec => []HedgedBeforeShort
<1>1. IInv => HedgedBeforeShort
  <2> SUFFICES ASSUME IInv, NEW s \in Sell, NEW k \in Pass, Sent(entry[s][k]),
                      NEW b \in Buy
      PROVE  fills[b] # 0 /\ entry[b][fills[b]].status = "COMPLETE"
    BY DEF HedgedBeforeShort
  <2>1. fills[b] # 0 BY DEF IInv, HedgeInv
  <2>2. b \in Leg /\ fills[b] \in Pass BY <2>1 DEF IInv, TypeOK, Buy
  <2>3. entry[b][fills[b]].heard = "filled" BY <2>2 DEF IInv, HeardInv
  <2> QED BY <2>1, <2>2, <2>3 DEF IInv, OrdersInv, OrderConsistent
<1> QED BY <1>1, Inductive, PTL

\* For a plan that hedges each short, the legs believed filled never include an
\* unprotected one.
THEOREM NoNakedShortHolds == Spec => []NoNakedShort
<1>1. IInv => NoNakedShort
  <2> SUFFICES ASSUME IInv, NEW s \in Filled \cap Sell
      PROVE  \E b \in Filled : Protects(b, s)
    BY DEF NoNakedShort, findNakedShorts
  <2>1. s \in Leg /\ legState[s] = "FILLED" /\ result # "FAILED"
    BY DEF Filled, IInv, ResultInv
  <2>2. fills[s] \in Pass BY <2>1 DEF IInv, TypeOK, ResultInv
  <2>3. Sent(entry[s][fills[s]]) BY <2>1, <2>2 DEF IInv, HeardInv, Sent
  <2>4. \A b \in Buy : fills[b] # 0 BY <2>2, <2>3 DEF IInv, HedgeInv
  <2>5. PICK b \in Buy : Protects(b, s) BY DefinedRisk
  <2>6. b \in Filled BY <2>1, <2>4, <2>5 DEF IInv, ResultInv, Filled, Buy
  <2> QED BY <2>5, <2>6
<1> QED BY <1>1, Inductive, PTL

\* ACTIVE is returned only for a structure held whole, with nothing closed.
THEOREM ActiveIsHeldHolds == Spec => []ActiveIsHeld
<1>1. IInv => ActiveIsHeld
  <2> SUFFICES ASSUME IInv, result = "ACTIVE", NEW l \in Leg
      PROVE  fills[l] # 0 /\ entry[l][fills[l]].filled = Qty /\ ~ Sent(close[l])
    BY DEF ActiveIsHeld
  <2>1. fills[l] # 0 /\ pc = "done" BY DEF IInv, ResultInv
  <2>2. fills[l] \in Pass BY <2>1 DEF IInv, TypeOK
  <2>3. entry[l][fills[l]].heard = "filled" BY <2>2 DEF IInv, HeardInv
  <2>4. entry[l][fills[l]].filled = Qty
    BY <2>2, <2>3 DEF IInv, OrdersInv, OrderConsistent
  <2>5. ~ Sent(close[l]) BY <2>1 DEF IInv, ResultInv
  <2> QED BY <2>1, <2>4, <2>5
<1> QED BY <1>1, Inductive, PTL

\* Every fill behind a FAILED was asked to be closed, or went unseen for one of
\* the three causes Overlooked names.
THEOREM FailureExplainedHolds == Spec => []FailureExplained
<1>1. IInv => FailureExplained
  <2> SUFFICES ASSUME IInv, result = "FAILED", NEW l \in Leg, NEW k \in Pass,
                      entry[l][k].filled > 0
      PROVE  IF k = fills[l] THEN Sent(close[l]) ELSE Overlooked(entry[l][k])
    BY DEF FailureExplained
  <2>1. pc = "done" /\ legState[l] # "AMBIGUOUS" BY DEF IInv, ResultInv
  <2>2. entry[l][k] \in Order BY DEF IInv, TypeOK
  <2>3. CASE k = fills[l]
    <3>1. fills[l] # 0 BY <2>3, PassPositive
    <3> QED BY <2>3, <3>1 DEF IInv, ResultInv
  <2>4. CASE k # fills[l]
    <3>1. entry[l][k].heard \notin {"accepted", "unresolved", "filled"}
      BY <2>1, <2>4 DEF IInv, HeardInv
    <3>2. entry[l][k].status \notin {"NONE", "OPEN", "REJECTED"}
      <4>1. OrderConsistent(entry[l][k]) BY DEF IInv, OrdersInv
      <4>2. entry[l][k].filled # 0 OBVIOUS
      <4> QED BY <4>1, <4>2 DEF OrderConsistent
    <3>3. entry[l][k].heard \in {"request error", "no price", "cancelled"}
      BY <2>2, <3>1, <3>2 DEF IInv, OrdersInv, OrderConsistent, Order, Heard
    <3>4. entry[l][k].heard = "cancelled" => entry[l][k].filled < Qty
      BY DEF IInv, OrdersInv, OrderConsistent
    <3> QED BY <2>4, <3>3, <3>4 DEF Overlooked
  <2> QED BY <2>3, <2>4
<1> QED BY <1>1, Inductive, PTL

\* Once the fate of an order is unresolved the process sends no order, neither entry nor close.
THEOREM QuietAfterAmbiguityHolds == Spec => QuietAfterAmbiguity
<1> DEFINE Quietly == Unresolved =>
      /\ \A l \in Leg, k \in Pass : Sent(entry[l][k]') => Sent(entry[l][k])
      /\ close' = close
<1>1. ASSUME IInv, [Next]_vars, Unresolved
      PROVE  /\ \A l \in Leg, k \in Pass : Sent(entry[l][k]') => Sent(entry[l][k])
             /\ close' = close
  <2>1. pc \in {"decide", "done"} /\ result # "FAILED"
    <3>1. Ambiguous BY <1>1 DEF IInv, HeardInv, Unresolved, Ambiguous
    <3> QED BY <1>1, <3>1 DEF IInv, ResultInv, Ambiguous
  <2>2. \A l \in Leg : close[l].status = "NONE"
    BY <1>1, <2>1 DEF IInv, ResultInv, OrdersInv, OrderConsistent, Sent
  <2>3. ASSUME NEW m \in Leg, NEW j \in Pass, BrokerEndsEntry(m, j)
        PROVE  /\ \A l \in Leg, k \in Pass : Sent(entry[l][k]') => Sent(entry[l][k])
               /\ close' = close
    <3>1. PICK o \in Ends(entry[m][j]) : entry' = [entry EXCEPT ![m][j] = o]
      BY <2>3 DEF BrokerEndsEntry
    <3>2. entry[m][j] \in Order BY <1>1 DEF IInv, TypeOK
    <3>3. o \in Order /\ o.heard = entry[m][j].heard BY <3>2, OrderEnds
    <3>4. /\ entry'[m][j] = o
          /\ \A l \in Leg, k \in Pass : l # m \/ k # j => entry'[l][k] = entry[l][k]
      BY <1>1, <3>1, <3>3, EntryUpdate DEF IInv, TypeOK
    <3>5. close' = close BY <2>3 DEF BrokerEndsEntry
    <3> QED BY <3>3, <3>4, <3>5 DEF Sent
  <2>4. ASSUME NEW m \in Leg, BrokerEndsClose(m) PROVE FALSE
    BY <2>2, <2>4 DEF BrokerEndsClose, Working
  <2>5. CASE Step
    <3>1. UNCHANGED <<entry, close>>
      BY <1>1, <2>1, <2>5 DEF Step, FailValidation, PassValidation, SkipLeg, PlaceOrder,
         CloseLeg, ConfirmFill, CompleteWithoutPrice, ConfirmDead, Timeout,
         StatusUnresolved, Escalate, Finish, Retry, StartUnwind, EndUnwind
    <3> QED BY <3>1
  <2>6. CASE UNCHANGED vars BY <2>6 DEF vars
  <2> QED BY <1>1, <2>3, <2>4, <2>5, <2>6 DEF Next, Broker
<1>2. IInv /\ [Next]_vars => [Quietly]_vars BY <1>1
<1> QED BY <1>2, Inductive, PTL DEF Spec, QuietAfterAmbiguity
=============================================================================
