-------------------------- MODULE SwingTradeProofs --------------------------
(***************************************************************************)
(* The swing auto-trader, for any number of symbols, slots, ticks and      *)
(* exits: the slots are kept, no lot is bought twice and no lot is sold    *)
(* twice, each unless one of the mishaps that its property names happened. *)
(*                                                                         *)
(* Slots.  A tick counts its free slots once and then buys from memory:    *)
(* what has to be carried along is that the rows it does not know of are   *)
(* none, and that the open rows and the slots it still takes for free are  *)
(* no more than all slots.                                                 *)
(*                                                                         *)
(* Lots.  Of each symbol at least as many lots are held as orders may yet  *)
(* sell one (SoldInv): every step that adds such an order adds a lot or    *)
(* takes the place of another.  And at most as many are held as are on     *)
(* sale, and one more if the program knows of a lot (HeldInv): a tick that *)
(* is alone buys only what neither a row nor itself knows of.              *)
(***************************************************************************)
EXTENDS SwingTrade, FiniteSetTheorems, SequenceTheorems, TLAPS

Row == [sym : Symbol, status : {"OPEN", "CLOSED"}, protection : {"GTT", "SL_ONLY", "NONE"},
        guard : Nat \cup {None}]

State == {"active", "selling", "sold", "lapsed", "deleted"}
Guard == [sym : Symbol, kind : {"GTT", "SL_ONLY"}, state : State]

Buying == {"pick", "protect", "record"}

\* What a tick remembers, by its stage.
Memory(t) ==
  /\ tick[t].pc = "pick" => tick[t] \in [pc : {"pick"}, free : Nat, skip : SUBSET Symbol]
  /\ tick[t].pc = "protect" =>
       tick[t] \in [pc : {"protect"}, free : Nat \ {0}, skip : SUBSET Symbol, sym : Symbol]
  /\ tick[t].pc = "record" =>
       /\ tick[t] \in [pc : {"record"}, free : Nat \ {0}, skip : SUBSET Symbol, sym : Symbol, row : Row]
       /\ tick[t].row.sym = tick[t].sym /\ tick[t].row.status = "OPEN"

Types ==
  /\ rows \in Seq(Row) /\ guards \in Seq(Guard)
  /\ tick = [t \in Tick |-> tick[t]] /\ DOMAIN tick = Tick
  /\ \A t \in Tick : Memory(t)

OneTick == \A t, u \in Tick : tick[t] # Idle /\ tick[u] # Idle => t = u
OneRowEach == \A i, k \in Open : rows[i].sym = rows[k].sym => i = k

\* What a tick still may buy is neither held nor too much.
Room(t) ==
  /\ tick[t].pc \in Buying => /\ OpenSymbols \subseteq tick[t].skip
                              /\ Cardinality(Open) + tick[t].free <= MaxPositions
  /\ tick[t].pc \in {"protect", "record"} => tick[t].sym \notin OpenSymbols /\ tick[t].sym \in tick[t].skip

Slots == OneTick /\ OneRowEach /\ Cardinality(Open) <= MaxPositions /\ \A t \in Tick : Room(t)

SlotsUnsafe == {"overlap", "blind"}

IInv == Types /\ (mishap \cap SlotsUnsafe = {} => Slots)

\* Rows and guards are updated in place.
LEMMA Updated ==
  ASSUME NEW S, NEW s \in Seq(S), NEW r, r = [i \in DOMAIN s |-> r[i]], \A i \in DOMAIN s : r[i] \in S
  PROVE  r \in Seq(S)
<1>1. DOMAIN s = 1 .. Len(s) /\ Len(s) \in Nat
  OBVIOUS
<1>2. r \in [1 .. Len(s) -> S]
  BY <1>1
<1> QED
  BY <1>1, <1>2, SeqDef

LEMMA GuardSet ==
  ASSUME guards \in Seq(Guard), NEW g, NEW x \in State, NEW r, r = [guards EXCEPT ![g].state = x]
  PROVE  r \in Seq(Guard)
<1>1. \A i \in DOMAIN guards : guards[i] \in Guard
  OBVIOUS
<1>2. r = [i \in DOMAIN guards |-> r[i]]
  OBVIOUS
<1>3. \A i \in DOMAIN guards : r[i] \in Guard
  BY <1>1 DEF Guard
<1> QED
  BY <1>2, <1>3, Updated

\* A step that leaves the rows, or closes some of them.
Kept(R) ==
  /\ R = [i \in DOMAIN rows |-> R[i]]
  /\ \A i \in DOMAIN rows : /\ R[i] \in Row /\ R[i].sym = rows[i].sym
                            /\ R[i].status = "OPEN" => rows[i].status = "OPEN"

LEMMA RowClosed ==
  ASSUME rows \in Seq(Row), NEW i, NEW R, R = [rows EXCEPT ![i].status = "CLOSED", ![i].protection = "NONE"]
  PROVE  Kept(R)
<1>1. \A k \in DOMAIN rows : rows[k] \in Row
  OBVIOUS
<1> QED
  BY <1>1 DEF Row, Kept

LEMMA RowBare ==
  ASSUME rows \in Seq(Row), NEW i, NEW R, R = [rows EXCEPT ![i].protection = "NONE"]
  PROVE  Kept(R)
<1>1. \A k \in DOMAIN rows : rows[k] \in Row
  OBVIOUS
<1> QED
  BY <1>1 DEF Row, Kept

LEMMA OpenFinite ==
  ASSUME rows \in Seq(Row) PROVE IsFiniteSet(Open) /\ Cardinality(Open) \in Nat /\ Open \subseteq DOMAIN rows
<1>1. DOMAIN rows = 1 .. Len(rows) /\ Len(rows) \in Nat
  OBVIOUS
<1>2. IsFiniteSet(1 .. Len(rows))
  BY <1>1, FS_Interval
<1> QED
  BY <1>1, <1>2, FS_Subset, FS_CardinalityType DEF Open

LEMMA SymbolsFinite ==
  ASSUME rows \in Seq(Row)
  PROVE  IsFiniteSet(OpenSymbols) /\ Cardinality(OpenSymbols) \in Nat /\ OpenSymbols \subseteq Symbol
<1> DEFINE f == [i \in Open |-> rows[i].sym]
<1>1. f \in Surjection(Open, OpenSymbols)
  <2>1. f \in [Open -> OpenSymbols]
    BY DEF OpenSymbols
  <2>2. \A s \in OpenSymbols : \E i \in Open : f[i] = s
    BY DEF OpenSymbols
  <2> QED
    BY <2>1, <2>2 DEF Surjection
<1>2. \A i \in DOMAIN rows : rows[i] \in Row
  OBVIOUS
<1>3. OpenSymbols \subseteq Symbol
  BY <1>2 DEF OpenSymbols, Open, Row
<1> QED
  BY <1>1, <1>3, OpenFinite, FS_Surjection, FS_CardinalityType

\* With one row per symbol there are as many symbols as rows.
LEMMA AsManySymbols ==
  ASSUME rows \in Seq(Row), OneRowEach
  PROVE  Cardinality(OpenSymbols) = Cardinality(Open) /\ OpenSymbols \subseteq Symbol
<1> DEFINE f == [i \in Open |-> rows[i].sym]
<1>1. f \in Surjection(Open, OpenSymbols) /\ f \in Injection(Open, OpenSymbols)
  <2>1. f \in [Open -> OpenSymbols]
    BY DEF OpenSymbols
  <2>2. \A s \in OpenSymbols : \E i \in Open : f[i] = s
    BY DEF OpenSymbols
  <2>3. \A i, k \in Open : f[i] = f[k] => i = k
    BY DEF OneRowEach
  <2> QED
    BY <2>1, <2>2, <2>3 DEF Surjection, Injection, IsInjective
<1>2. Cardinality(OpenSymbols) = Cardinality(Open)
  BY <1>1, OpenFinite, FS_Surjection
<1>3. OpenSymbols \subseteq Symbol
  BY SymbolsFinite
<1> QED
  BY <1>2, <1>3

LEMMA Initial == Init => IInv
<1> SUFFICES ASSUME Init PROVE IInv
  OBVIOUS
<1>1. Open = {} /\ OpenSymbols = {}
  BY DEF Init, Open, OpenSymbols
<1>2. Cardinality(Open) = 0
  BY <1>1, FS_EmptySet
<1> QED
  BY <1>1, <1>2, SwingAssumption
  DEF Init, IInv, Types, Slots, OneTick, OneRowEach, Room, Memory, Idle, Buying

\* A step that opens no row and begins nothing keeps the slots.
LEMMA Shrinks ==
  ASSUME IInv, Types', Open' \subseteq Open, \A i \in Open' : rows'[i].sym = rows[i].sym,
         mishap \subseteq mishap',
         \A t \in Tick : tick'[t] = tick[t] \/ (tick[t] # Idle /\ tick'[t].pc \notin Buying)
  PROVE  IInv'
<1> SUFFICES ASSUME mishap' \cap SlotsUnsafe = {} PROVE Slots'
  BY DEF IInv
<1>1. Slots
  BY DEF IInv
<1>2. Cardinality(Open') <= Cardinality(Open) /\ Cardinality(Open') \in Nat /\ Cardinality(Open) \in Nat
  BY OpenFinite, FS_Subset, FS_CardinalityType DEF IInv, Types
<1>3. OpenSymbols' \subseteq OpenSymbols
  BY DEF OpenSymbols
<1>4. OneTick'
  BY <1>1 DEF Slots, OneTick
<1>5. OneRowEach'
  BY <1>1 DEF Slots, OneRowEach
<1>6. ASSUME NEW t \in Tick PROVE Room(t)'
  <2>1. CASE tick'[t] = tick[t] /\ tick[t].pc \in Buying
    <3>1. tick[t].free \in Nat /\ Room(t)
      BY <1>1, <2>1 DEF IInv, Types, Memory, Slots, Buying
    <3> QED
      BY <1>2, <1>3, <2>1, <3>1, SwingAssumption DEF Room, Buying
  <2>2. CASE tick'[t].pc \notin Buying
    BY <2>2 DEF Room, Buying
  <2> QED
    BY <2>1, <2>2
<1> QED
  BY <1>1, <1>2, <1>4, <1>5, <1>6, SwingAssumption DEF Slots

LEMMA KeptRows ==
  ASSUME rows \in Seq(Row), Kept(rows')
  PROVE  /\ Open' \subseteq Open /\ \A i \in Open' : rows'[i].sym = rows[i].sym
         /\ rows' \in Seq(Row)
<1>1. DOMAIN rows' = DOMAIN rows
  BY DEF Kept
<1> QED
  BY <1>1, Updated DEF Kept, Open

\* Guards are added at the end, all for one symbol.
Longer(G, H, s) ==
  /\ H \in Seq(Guard) /\ DOMAIN G \subseteq DOMAIN H /\ \A g \in DOMAIN G : H[g] = G[g]
  /\ \A g \in DOMAIN H \ DOMAIN G : H[g].sym = s /\ H[g].state = "active"

LEMMA LongerByOne ==
  ASSUME NEW G \in Seq(Guard), NEW s \in Symbol, NEW k \in {"GTT", "SL_ONLY"}
  PROVE  /\ Longer(G, Append(G, NewGuard(s, k)), s) /\ G \o <<NewGuard(s, k)>> = Append(G, NewGuard(s, k))
         /\ Len(G) + 1 \notin DOMAIN G /\ DOMAIN Append(G, NewGuard(s, k)) = DOMAIN G \cup {Len(G) + 1}
<1> DEFINE x == NewGuard(s, k)
<1>1. x \in Guard /\ x.sym = s /\ x.state = "active"
  BY DEF NewGuard, Guard, State
<1> HIDE DEF x
<1>2. /\ Append(G, x) \in Seq(Guard) /\ Len(Append(G, x)) = Len(G) + 1
      /\ \A g \in 1 .. Len(G) : Append(G, x)[g] = G[g]
      /\ Append(G, x)[Len(G) + 1] = x
  BY <1>1, AppendProperties
<1>3. DOMAIN G = 1 .. Len(G) /\ DOMAIN Append(G, x) = 1 .. Len(G) + 1 /\ Len(G) \in Nat
  BY <1>2
<1>4. G \o <<x>> = Append(G, x)
  BY <1>1, AppendIsConcat
<1> QED
  BY <1>1, <1>2, <1>3, <1>4 DEF Longer, x

LEMMA OrphansFollow ==
  ASSUME guards \in Seq(Guard), NEW s \in Symbol, NEW kinds
  PROVE  Longer(guards, WithOrphans(s, kinds), s) /\ (kinds = {} => WithOrphans(s, kinds) = guards)
<1> DEFINE G == guards \o (IF "GTT" \in kinds THEN <<NewGuard(s, "GTT")>> ELSE <<>>)
           H == G \o (IF "SL_ONLY" \in kinds THEN <<NewGuard(s, "SL_ONLY")>> ELSE <<>>)
<1>1. Longer(guards, G, s) /\ ("GTT" \notin kinds => G = guards)
  <2>1. CASE "GTT" \in kinds
    BY <2>1, LongerByOne
  <2>2. CASE "GTT" \notin kinds
    BY <2>2, ConcatEmptySeq DEF Longer
  <2> QED
    BY <2>1, <2>2
<1>2. G \in Seq(Guard)
  BY <1>1 DEF Longer
<1> HIDE DEF G
<1>3. Longer(G, H, s) /\ ("SL_ONLY" \notin kinds => H = G)
  <2>1. CASE "SL_ONLY" \in kinds
    BY <1>2, <2>1, LongerByOne
  <2>2. CASE "SL_ONLY" \notin kinds
    BY <1>2, <2>2, ConcatEmptySeq DEF Longer
  <2> QED
    BY <2>1, <2>2
<1> HIDE DEF H
<1>4. Longer(guards, H, s)
  BY <1>1, <1>3 DEF Longer
<1>5. WithOrphans(s, kinds) = H
  BY DEF WithOrphans, G, H
<1> QED
  BY <1>1, <1>3, <1>4, <1>5

\* A lot gets the protection p by the guard g; without orphans no other guard is added.
Protected(t, p, g) ==
  /\ tick'[t] = [pc |-> "record", free |-> tick[t].free, skip |-> tick[t].skip, sym |-> tick[t].sym,
                 row |-> [sym |-> tick[t].sym, status |-> "OPEN", protection |-> p, guard |-> g]]
  /\ \A u \in Tick : u # t => tick'[u] = tick[u]
  /\ tick' = [u \in Tick |-> tick'[u]] /\ DOMAIN tick' = Tick
  /\ Longer(guards, guards', tick[t].sym)
  /\ IF p = "NONE" THEN g = None ELSE g \in DOMAIN guards' \ DOMAIN guards
  /\ "orphan" \notin mishap' => DOMAIN guards' = DOMAIN guards \cup (IF p = "NONE" THEN {} ELSE {g})

LEMMA Protects ==
  ASSUME Types, NEW t \in Tick, Protect(t)
  PROVE  /\ UNCHANGED <<rows, held, exiting, halting>> /\ mishap \subseteq mishap' /\ tick[t].pc = "protect"
         /\ tick[t].sym \in Symbol
         /\ \E p \in {"GTT", "SL_ONLY", "NONE"}, g \in Nat \cup {None} : Protected(t, p, g)
<1>1. /\ UNCHANGED <<rows, held, exiting, halting>> /\ mishap \subseteq mishap' /\ tick[t].pc = "protect"
  BY DEF Protect, Happen
<1>2. tick[t].sym \in Symbol /\ guards \in Seq(Guard) /\ DOMAIN tick = Tick
  BY <1>1 DEF Types, Memory
<1>3. PICK p \in {"GTT", "SL_ONLY", "NONE"}, orphans \in SUBSET {"GTT", "SL_ONLY"} :
       /\ guards' = IF p = "NONE" THEN WithOrphans(tick[t].sym, orphans)
                    ELSE Append(WithOrphans(tick[t].sym, orphans), NewGuard(tick[t].sym, p))
       /\ tick' = [tick EXCEPT ![t] = [pc |-> "record", free |-> @.free, skip |-> @.skip, sym |-> @.sym,
                                       row |-> [sym |-> @.sym, status |-> "OPEN", protection |-> p,
                                                guard |-> IF p = "NONE" THEN None
                                                          ELSE Len(WithOrphans(tick[t].sym, orphans)) + 1]]]
       /\ mishap' = mishap \cup (IF orphans = {} THEN {} ELSE {"orphan"})
  BY DEF Protect, MayBeOrphan, Happen
<1> DEFINE G == WithOrphans(tick[t].sym, orphans)
           g == IF p = "NONE" THEN None ELSE Len(G) + 1
<1>4. Longer(guards, G, tick[t].sym) /\ (orphans = {} => G = guards)
  BY <1>2, OrphansFollow
<1>5. G \in Seq(Guard) /\ Len(G) \in Nat
  BY <1>4 DEF Longer
<1>6. guards' = IF p = "NONE" THEN G ELSE Append(G, NewGuard(tick[t].sym, p))
  BY <1>3
<1> HIDE DEF G
<1>7. p # "NONE" => /\ Longer(G, guards', tick[t].sym)
                    /\ Len(G) + 1 \notin DOMAIN G /\ DOMAIN guards' = DOMAIN G \cup {Len(G) + 1}
  BY <1>2, <1>5, <1>6, LongerByOne
<1>8. Longer(guards, guards', tick[t].sym)
  BY <1>4, <1>6, <1>7 DEF Longer
<1>9. IF p = "NONE" THEN g = None ELSE g \in DOMAIN guards' \ DOMAIN guards
  BY <1>4, <1>7 DEF Longer
<1>10. "orphan" \notin mishap' => DOMAIN guards' = DOMAIN guards \cup (IF p = "NONE" THEN {} ELSE {g})
  BY <1>3, <1>4, <1>6, <1>7
<1>11. /\ tick' = [tick EXCEPT ![t] = [pc |-> "record", free |-> @.free, skip |-> @.skip, sym |-> @.sym,
                          row |-> [sym |-> @.sym, status |-> "OPEN", protection |-> p, guard |-> g]]]
       /\ g \in Nat \cup {None}
  BY <1>3, <1>5 DEF G
<1> HIDE DEF g
<1>12. /\ tick'[t] = [pc |-> "record", free |-> tick[t].free, skip |-> tick[t].skip, sym |-> tick[t].sym,
                      row |-> [sym |-> tick[t].sym, status |-> "OPEN", protection |-> p, guard |-> g]]
       /\ \A u \in Tick : u # t => tick'[u] = tick[u]
       /\ tick' = [u \in Tick |-> tick'[u]] /\ DOMAIN tick' = Tick
  BY <1>2, <1>11
<1>13. Protected(t, p, g)
  BY <1>8, <1>9, <1>10, <1>12 DEF Protected
<1> QED
  BY <1>1, <1>2, <1>11, <1>13

\* A tick closes rows that have fired, and says so when one of their triggers was deleted.
LEMMA Reconciles ==
  ASSUME Types, NEW t \in Tick, Reconcile(t)
  PROVE  /\ UNCHANGED <<guards, held, exiting, halting>> /\ mishap \subseteq mishap'
         /\ tick[t].pc = "reconcile" /\ tick' = [tick EXCEPT ![t] = [pc |-> "slots"]]
         /\ DOMAIN rows' = DOMAIN rows /\ rows' = [i \in DOMAIN rows |-> rows'[i]]
         /\ \A i \in DOMAIN rows :
              \/ rows'[i] = rows[i]
              \/ /\ Fired(t, i) /\ rows'[i] = [rows[i] EXCEPT !.status = "CLOSED"]
                 /\ "deleted" \notin mishap' => guards[rows[i].guard].state # "deleted"
<1>1. PICK left \in SUBSET DOMAIN rows :
        LET closed == {i \in DOMAIN rows \ left : Fired(t, i)}
        IN  /\ rows' = [i \in DOMAIN rows |-> IF i \in closed THEN [rows[i] EXCEPT !.status = "CLOSED"]
                                              ELSE rows[i]]
            /\ Happen(IF \E i \in closed : guards[rows[i].guard].state = "deleted" THEN {"deleted"} ELSE {})
  BY DEF Reconcile
<1> DEFINE closed == {i \in DOMAIN rows \ left : Fired(t, i)}
<1>2. rows' = [i \in DOMAIN rows |-> IF i \in closed THEN [rows[i] EXCEPT !.status = "CLOSED"] ELSE rows[i]]
  BY <1>1
<1>3. mishap' = mishap \cup (IF \E i \in closed : guards[rows[i].guard].state = "deleted" THEN {"deleted"} ELSE {})
  BY <1>1 DEF Happen
<1>4. \A i \in closed : Fired(t, i)
  OBVIOUS
<1> HIDE DEF closed
<1> QED
  BY <1>2, <1>3, <1>4 DEF Reconcile

LEMMA Step == IInv /\ [Next]_vars => IInv'
<1> SUFFICES ASSUME IInv, [Next]_vars PROVE IInv'
  OBVIOUS
<1>1. ASSUME NEW t \in Tick, StartTick(t) PROVE IInv'
  <2>1. UNCHANGED <<rows, guards>> /\ mishap \subseteq mishap' /\ Open' = Open /\ OpenSymbols' = OpenSymbols
    BY <1>1 DEF StartTick, Happen, Open, OpenSymbols
  <2>2. PICK seen : tick' = [tick EXCEPT ![t] = [pc |-> "reconcile", seen |-> seen]]
    BY <1>1 DEF StartTick
  <2>3. \A u \in Tick : tick'[u] = IF u = t THEN [pc |-> "reconcile", seen |-> seen] ELSE tick[u]
    BY <2>2 DEF IInv, Types
  <2>4. Types'
    BY <2>1, <2>2, <2>3 DEF IInv, Types, Memory
  <2>5. ASSUME mishap' \cap SlotsUnsafe = {} PROVE Slots'
    <3>1. Slots /\ \A u \in Tick : tick[u] = Idle
      BY <1>1, <2>1, <2>5 DEF StartTick, Happen, IInv, SlotsUnsafe
    <3>2. OneTick'
      BY <2>3, <3>1 DEF OneTick
    <3>3. \A u \in Tick : Room(u)'
      BY <2>3, <3>1 DEF Room, Idle, Buying
    <3> QED
      BY <2>1, <3>1, <3>2, <3>3 DEF Slots, OneRowEach
  <2> QED
    BY <2>4, <2>5 DEF IInv
<1>2. ASSUME NEW t \in Tick, Reconcile(t) PROVE IInv'
  <2>1. /\ tick' = [tick EXCEPT ![t] = [pc |-> "slots"]] /\ guards' = guards /\ mishap \subseteq mishap'
        /\ tick[t].pc = "reconcile" /\ rows' = [i \in DOMAIN rows |-> rows'[i]]
        /\ \A i \in DOMAIN rows : rows'[i] = rows[i] \/ rows'[i] = [rows[i] EXCEPT !.status = "CLOSED"]
    BY <1>2, Reconciles DEF IInv
  <2>2. \A i \in DOMAIN rows : rows[i] \in Row
    BY DEF IInv, Types
  <2>3. \A i \in DOMAIN rows : /\ [rows[i] EXCEPT !.status = "CLOSED"] \in Row
                               /\ [rows[i] EXCEPT !.status = "CLOSED"].sym = rows[i].sym
                               /\ [rows[i] EXCEPT !.status = "CLOSED"].status = "CLOSED"
    BY <2>2 DEF Row
  <2>4. Kept(rows')
    BY <2>1, <2>2, <2>3 DEF Kept
  <2>5. rows' \in Seq(Row)
    BY <2>4, KeptRows DEF IInv, Types
  <2>6. \A u \in Tick : tick'[u] = IF u = t THEN [pc |-> "slots"] ELSE tick[u]
    BY <2>1 DEF IInv, Types
  <2>7. Types'
    BY <2>1, <2>5, <2>6 DEF IInv, Types, Memory
  <2>8. tick[t] # Idle
    BY <2>1 DEF Idle
  <2> QED
    BY <2>1, <2>4, <2>5, <2>6, <2>7, <2>8, KeptRows, Shrinks DEF IInv, Types, Buying
<1>3. ASSUME NEW t \in Tick, ReadSlots(t) PROVE IInv'
  <2>1. /\ UNCHANGED <<rows, guards>> /\ mishap \subseteq mishap' /\ Open' = Open /\ OpenSymbols' = OpenSymbols
    BY <1>3 DEF ReadSlots, Happen, Open, OpenSymbols
  <2>2. PICK seen \in {OpenSymbols, {}} :
          /\ tick' = [tick EXCEPT ![t] =
                        IF MaxPositions > Cardinality(seen)
                        THEN [pc |-> "pick", free |-> MaxPositions - Cardinality(seen), skip |-> seen]
                        ELSE Idle]
          /\ mishap' = mishap \cup (IF seen = OpenSymbols THEN {} ELSE {"blind"})
    BY <1>3 DEF ReadSlots, Happen
  <2> DEFINE m == IF MaxPositions > Cardinality(seen)
                  THEN [pc |-> "pick", free |-> MaxPositions - Cardinality(seen), skip |-> seen]
                  ELSE Idle
  <2>3. \A u \in Tick : tick'[u] = IF u = t THEN m ELSE tick[u]
    BY <2>2 DEF IInv, Types
  <2>4. /\ OpenSymbols \subseteq Symbol /\ Cardinality(OpenSymbols) \in Nat
        /\ seen \subseteq Symbol /\ Cardinality(seen) \in Nat
    <3>1. OpenSymbols \subseteq Symbol /\ Cardinality(OpenSymbols) \in Nat
      BY SymbolsFinite DEF IInv, Types
    <3>2. Cardinality({}) = 0
      BY FS_EmptySet
    <3> QED
      BY <2>2, <3>1, <3>2
  <2>5. Types'
    <3>1. m.pc \in {"pick", "idle"} /\ (m.pc = "pick" => m \in [pc : {"pick"}, free : Nat, skip : SUBSET Symbol])
      BY <2>4, SwingAssumption DEF Idle
    <3>2. \A u \in Tick : Memory(u)'
      BY <2>1, <2>3, <3>1 DEF IInv, Types, Memory
    <3>3. tick' = [u \in Tick |-> tick'[u]] /\ DOMAIN tick' = Tick
      BY <1>3 DEF ReadSlots, IInv, Types
    <3> QED
      BY <2>1, <3>2, <3>3 DEF IInv, Types
  <2>6. ASSUME mishap' \cap SlotsUnsafe = {} PROVE Slots'
    <3>1. Slots /\ tick[t] # Idle
      BY <1>3, <2>1, <2>6 DEF ReadSlots, Idle, IInv
    <3>2. Cardinality(Open) = Cardinality(OpenSymbols) /\ seen = OpenSymbols
      BY <2>2, <2>6, <3>1, AsManySymbols DEF Slots, IInv, Types, SlotsUnsafe
    <3>3. ASSUME NEW u \in Tick PROVE Room(u)'
      <4>1. CASE u # t
        BY <2>1, <2>3, <3>1, <4>1 DEF Slots, Room
      <4>2. CASE u = t
        BY <2>1, <2>3, <2>4, <3>2, <4>2, SwingAssumption DEF Room, Idle, Buying
      <4> QED
        BY <4>1, <4>2
    <3>4. OneTick'
      BY <2>3, <3>1 DEF Slots, OneTick
    <3> QED
      BY <2>1, <3>1, <3>3, <3>4 DEF Slots, OneRowEach
  <2> QED
    BY <2>5, <2>6 DEF IInv
<1>4. ASSUME NEW t \in Tick, EndTick(t) \/ KillTick(t) PROVE IInv'
  <2>1. tick' = [tick EXCEPT ![t] = Idle] /\ UNCHANGED <<rows, guards>> /\ mishap \subseteq mishap' /\ tick[t] # Idle
    BY <1>4 DEF EndTick, KillTick, Note, Happen, Idle
  <2>2. \A u \in Tick : tick'[u] = IF u = t THEN Idle ELSE tick[u]
    BY <2>1 DEF IInv, Types
  <2>3. Types' /\ Open' = Open
    BY <2>1, <2>2 DEF IInv, Types, Memory, Open, Idle
  <2> QED
    BY <2>1, <2>2, <2>3, Shrinks DEF Idle, Buying
<1>5. ASSUME NEW t \in Tick, Buy(t) PROVE IInv'
  <2>1. UNCHANGED <<rows, guards>> /\ mishap \subseteq mishap' /\ Open' = Open /\ OpenSymbols' = OpenSymbols
    BY <1>5 DEF Buy, Happen, Open, OpenSymbols
  <2>2. PICK s \in Symbol \ tick[t].skip, accepted \in BOOLEAN :
          tick' = [tick EXCEPT ![t] =
                     IF accepted THEN [pc |-> "protect", free |-> @.free, skip |-> @.skip \cup {s}, sym |-> s]
                     ELSE [pc |-> "pick", free |-> @.free, skip |-> @.skip \cup {s}]]
    BY <1>5 DEF Buy, Ranked
  <2>3. tick[t].pc = "pick" /\ tick[t] \in [pc : {"pick"}, free : Nat, skip : SUBSET Symbol] /\ tick[t].free > 0
    BY <1>5 DEF Buy, IInv, Types, Memory
  <2>4. /\ \A u \in Tick : u # t => tick'[u] = tick[u]
        /\ tick'[t] = IF accepted THEN [pc |-> "protect", free |-> tick[t].free, skip |-> tick[t].skip \cup {s}, sym |-> s]
                      ELSE [pc |-> "pick", free |-> tick[t].free, skip |-> tick[t].skip \cup {s}]
        /\ tick' = [u \in Tick |-> tick'[u]] /\ DOMAIN tick' = Tick
    BY <2>2 DEF IInv, Types
  <2>5. Types'
    <3>1. Memory(t)'
      BY <2>3, <2>4 DEF Memory
    <3>2. \A u \in Tick : u # t => Memory(u)'
      BY <2>4 DEF IInv, Types, Memory
    <3> QED
      BY <2>1, <2>4, <3>1, <3>2 DEF IInv, Types
  <2>6. ASSUME mishap' \cap SlotsUnsafe = {} PROVE Slots'
    <3>1. Slots /\ tick[t] # Idle
      BY <2>1, <2>3, <2>6 DEF Idle, IInv
    <3>2. Room(t)'
      BY <2>1, <2>3, <2>4, <3>1 DEF Slots, Room, Buying
    <3>3. \A u \in Tick : u # t => Room(u)'
      BY <2>1, <2>4, <3>1 DEF Slots, Room
    <3>4. OneTick'
      BY <2>4, <3>1 DEF Slots, OneTick
    <3> QED
      BY <2>1, <3>1, <3>2, <3>3, <3>4 DEF Slots, OneRowEach
  <2> QED
    BY <2>5, <2>6 DEF IInv
<1>6. ASSUME NEW t \in Tick, Protect(t) PROVE IInv'
  <2>1. /\ rows' = rows /\ mishap \subseteq mishap' /\ Open' = Open /\ OpenSymbols' = OpenSymbols
    BY <1>6, Protects DEF IInv, Open, OpenSymbols
  <2>2. PICK p \in {"GTT", "SL_ONLY", "NONE"}, g \in Nat \cup {None} : Protected(t, p, g)
    BY <1>6, Protects DEF IInv
  <2>3. tick[t].pc = "protect"
        /\ tick[t] \in [pc : {"protect"}, free : Nat \ {0}, skip : SUBSET Symbol, sym : Symbol]
    BY <1>6 DEF Protect, IInv, Types, Memory
  <2>4. guards' \in Seq(Guard)
    BY <2>2 DEF Protected, Longer
  <2> DEFINE row == [sym |-> tick[t].sym, status |-> "OPEN", protection |-> p, guard |-> g]
  <2>5. row \in Row
    BY <2>3 DEF Row
  <2>6. row.sym = tick[t].sym /\ row.status = "OPEN"
    OBVIOUS
  <2>7. /\ \A u \in Tick : u # t => tick'[u] = tick[u]
        /\ tick'[t] = [pc |-> "record", free |-> tick[t].free, skip |-> tick[t].skip, sym |-> tick[t].sym, row |-> row]
        /\ tick' = [u \in Tick |-> tick'[u]] /\ DOMAIN tick' = Tick
    BY <2>2 DEF Protected
  <2> HIDE DEF row
  <2>8. Types'
    <3>1. Memory(t)'
      BY <2>3, <2>5, <2>6, <2>7 DEF Memory
    <3>2. \A u \in Tick : u # t => Memory(u)'
      BY <2>7 DEF IInv, Types, Memory
    <3> QED
      BY <2>1, <2>4, <2>7, <3>1, <3>2 DEF IInv, Types
  <2>9. ASSUME mishap' \cap SlotsUnsafe = {} PROVE Slots'
    <3>1. Slots /\ tick[t] # Idle
      BY <2>1, <2>3, <2>9 DEF Idle, IInv
    <3>2. Room(t)'
      BY <2>1, <2>3, <2>7, <3>1 DEF Slots, Room, Buying
    <3>3. \A u \in Tick : u # t => Room(u)'
      BY <2>1, <2>7, <3>1 DEF Slots, Room
    <3>4. OneTick'
      BY <2>7, <3>1 DEF Slots, OneTick
    <3> QED
      BY <2>1, <3>1, <3>2, <3>3, <3>4 DEF Slots, OneRowEach
  <2> QED
    BY <2>8, <2>9 DEF IInv
<1>7. ASSUME NEW t \in Tick, Record(t) PROVE IInv'
  <2>1. tick' = [tick EXCEPT ![t] = [pc |-> "pick", free |-> @.free - 1, skip |-> @.skip]]
        /\ guards' = guards /\ mishap \subseteq mishap' /\ (rows' = Append(rows, tick[t].row) \/ rows' = rows)
    BY <1>7 DEF Record, Note, Happen
  <2>2. /\ tick[t].pc = "record" /\ tick[t].row.sym = tick[t].sym /\ tick[t].row.status = "OPEN"
        /\ tick[t] \in [pc : {"record"}, free : Nat \ {0}, skip : SUBSET Symbol, sym : Symbol, row : Row]
    BY <1>7 DEF Record, IInv, Types, Memory
  <2>3. /\ \A u \in Tick : u # t => tick'[u] = tick[u]
        /\ tick'[t] = [pc |-> "pick", free |-> tick[t].free - 1, skip |-> tick[t].skip]
        /\ tick' = [u \in Tick |-> tick'[u]] /\ DOMAIN tick' = Tick
    BY <2>1 DEF IInv, Types
  <2>4. rows \in Seq(Row)
    BY DEF IInv, Types
  <2>5. Types'
    <3>1. Memory(t)'
      BY <2>2, <2>3 DEF Memory
    <3>2. \A u \in Tick : u # t => Memory(u)'
      BY <2>3 DEF IInv, Types, Memory
    <3>3. rows' \in Seq(Row)
      BY <2>1, <2>2, <2>4, AppendProperties
    <3> QED
      BY <2>1, <2>3, <3>1, <3>2, <3>3 DEF IInv, Types
  <2>6. ASSUME mishap' \cap SlotsUnsafe = {} PROVE Slots'
    <3>1. Slots /\ tick[t] # Idle /\ Room(t)
      BY <2>1, <2>2, <2>6 DEF Idle, IInv, Slots
    <3>2. OpenSymbols \subseteq tick[t].skip /\ tick[t].sym \in tick[t].skip /\ tick[t].sym \notin OpenSymbols
          /\ Cardinality(Open) + tick[t].free <= MaxPositions
      BY <2>2, <3>1 DEF Room, Buying
    <3>3. IsFiniteSet(Open) /\ Cardinality(Open) \in Nat /\ Open \subseteq DOMAIN rows
      BY <2>4, OpenFinite
    <3>4. /\ OpenSymbols' \subseteq tick[t].skip /\ OneRowEach'
          /\ Cardinality(Open') <= Cardinality(Open) + 1 /\ Cardinality(Open') \in Nat
      <4>1. CASE rows' = rows
        BY <3>1, <3>2, <3>3, <4>1 DEF Open, OpenSymbols, OneRowEach, Slots
      <4>2. CASE rows' = Append(rows, tick[t].row)
        <5> DEFINE n == Len(rows) + 1
        <5>1. /\ DOMAIN rows = 1 .. Len(rows) /\ Len(rows) \in Nat
              /\ DOMAIN rows' = DOMAIN rows \cup {n} /\ n \notin DOMAIN rows
              /\ \A i \in DOMAIN rows : rows'[i] = rows[i]
              /\ rows'[n] = tick[t].row
          BY <2>2, <2>4, <4>2, AppendProperties
        <5> HIDE DEF n
        <5>2. Open' = Open \cup {n} /\ n \notin Open
          BY <2>2, <3>3, <5>1 DEF Open
        <5>3. OpenSymbols' \subseteq tick[t].skip
          BY <2>2, <3>2, <3>3, <5>1, <5>2 DEF OpenSymbols
        <5>4. OneRowEach'
          BY <2>2, <3>1, <3>2, <3>3, <5>1, <5>2 DEF OneRowEach, OpenSymbols, Slots
        <5>5. Cardinality(Open') = Cardinality(Open) + 1
          BY <3>3, <5>2, FS_AddElement
        <5> QED
          BY <3>3, <5>3, <5>4, <5>5
      <4> QED
        BY <2>1, <4>1, <4>2
    <3>5. Cardinality(Open') + tick'[t].free <= MaxPositions /\ tick'[t].free \in Nat
      BY <2>2, <2>3, <3>2, <3>3, <3>4, SwingAssumption
    <3>6. Room(t)'
      BY <2>3, <3>4, <3>5 DEF Room, Buying
    <3>7. \A u \in Tick : u # t => tick'[u] = Idle
      BY <2>3, <3>1 DEF Slots, OneTick
    <3>8. \A u \in Tick : u # t => Room(u)'
      BY <3>7 DEF Room, Idle, Buying
    <3>9. OneTick'
      BY <3>7 DEF OneTick
    <3> QED
      BY <3>4, <3>5, <3>6, <3>8, <3>9, SwingAssumption DEF Slots
  <2> QED
    BY <2>5, <2>6 DEF IInv
<1>8. ASSUME NEW e \in Exit, StartExit(e) \/ ExitCancel(e) \/ ExitSell(e) \/ KillExit(e) PROVE IInv'
  <2>1. UNCHANGED <<rows, tick>> /\ mishap \subseteq mishap'
    BY <1>8 DEF StartExit, ExitCancel, cancelProtection, ExitSell, KillExit, Note, Happen
  <2>2. guards' = guards \/ \E g : guards' = [guards EXCEPT ![g].state = "deleted"]
    BY <1>8 DEF StartExit, ExitCancel, cancelProtection, Delete, ExitSell, KillExit
  <2>3. guards' \in Seq(Guard)
    <3>1. guards \in Seq(Guard) /\ "deleted" \in State
      BY DEF IInv, Types, State
    <3> QED
      BY <2>2, <3>1, GuardSet, Zenon
  <2>4. Types'
    BY <2>1, <2>3 DEF IInv, Types, Memory
  <2> QED
    BY <2>1, <2>4, Shrinks DEF Open
<1>9. ASSUME NEW e \in Exit, ExitClose(e) PROVE IInv'
  <2>1. UNCHANGED <<tick, guards>> /\ mishap \subseteq mishap'
    BY <1>9 DEF ExitClose, Note, Happen
  <2>2. Kept(rows')
    <3>1. rows \in Seq(Row) /\ \A k \in DOMAIN rows : rows[k] \in Row
      BY DEF IInv, Types
    <3>2. \/ rows' = rows
          \/ \E i : rows' = [rows EXCEPT ![i].status = "CLOSED", ![i].protection = "NONE"]
      BY <1>9 DEF ExitClose
    <3>3. CASE rows' = rows
      BY <3>1, <3>3 DEF Kept
    <3>4. ASSUME NEW i, rows' = [rows EXCEPT ![i].status = "CLOSED", ![i].protection = "NONE"] PROVE Kept(rows')
      BY <3>1, <3>4, RowClosed, Zenon
    <3> QED
      BY <3>2, <3>3, <3>4
  <2>3. Types'
    BY <2>1, <2>2, KeptRows DEF IInv, Types, Memory
  <2> QED
    BY <2>1, <2>2, <2>3, KeptRows, Shrinks DEF IInv, Types
<1>10. CASE PanicHalt \/ SaveSettings \/ UNCHANGED vars
  <2>1. UNCHANGED <<rows, guards, tick, mishap>>
    BY <1>10 DEF PanicHalt, SaveSettings, vars, program
  <2>2. Types'
    BY <2>1 DEF IInv, Types, Memory
  <2> QED
    BY <2>1, <2>2, Shrinks DEF Open
<1>11. CASE HaltRow
  <2>1. UNCHANGED tick /\ mishap \subseteq mishap'
    BY <1>11 DEF HaltRow, Note, Happen
  <2>2. Kept(rows')
    <3>1. rows \in Seq(Row) /\ \A k \in DOMAIN rows : rows[k] \in Row
      BY DEF IInv, Types
    <3>2. rows' = rows \/ \E i : rows' = [rows EXCEPT ![i].protection = "NONE"]
      BY <1>11 DEF HaltRow
    <3>3. CASE rows' = rows
      BY <3>1, <3>3 DEF Kept
    <3>4. ASSUME NEW i, rows' = [rows EXCEPT ![i].protection = "NONE"] PROVE Kept(rows')
      BY <3>1, <3>4, RowBare, Zenon
    <3> QED
      BY <3>2, <3>3, <3>4
  <2>3. guards' = guards \/ \E g : guards' = [guards EXCEPT ![g].state = "deleted"]
    BY <1>11 DEF HaltRow, Delete
  <2>4. guards' \in Seq(Guard)
    <3>1. guards \in Seq(Guard) /\ "deleted" \in State
      BY DEF IInv, Types, State
    <3> QED
      BY <2>3, <3>1, GuardSet, Zenon
  <2>5. Types'
    BY <2>1, <2>2, <2>4, KeptRows DEF IInv, Types, Memory
  <2> QED
    BY <2>1, <2>2, <2>5, KeptRows, Shrinks DEF IInv, Types
<1>12. ASSUME NEW g \in DOMAIN guards, GuardFires(g) \/ LimitEnds(g) \/ GuardEnds(g) PROVE IInv'
  <2>1. UNCHANGED <<rows, tick>> /\ mishap \subseteq mishap'
    BY <1>12 DEF GuardFires, LimitEnds, GuardEnds, program, Note, Happen
  <2>2. \E x \in State : guards' = [guards EXCEPT ![g].state = x]
    <3>1. CASE GuardFires(g)
      <4> DEFINE x == IF guards[g].state = "active" /\ guards[g].kind = "GTT" THEN "selling" ELSE "sold"
      <4>1. guards' = [guards EXCEPT ![g].state = x]
        BY <3>1 DEF GuardFires
      <4>2. x \in State
        BY DEF State
      <4> QED
        BY <4>1, <4>2, Zenon
    <3>2. CASE LimitEnds(g)
      BY <3>2 DEF LimitEnds, State
    <3>3. CASE GuardEnds(g)
      BY <3>3 DEF GuardEnds, State
    <3> QED
      BY <1>12, <3>1, <3>2, <3>3
  <2>3. guards' \in Seq(Guard)
    <3>1. guards \in Seq(Guard)
      BY DEF IInv, Types
    <3> QED
      BY <2>2, <3>1, GuardSet, Zenon
  <2>4. Types'
    BY <2>1, <2>3 DEF IInv, Types, Memory
  <2> QED
    BY <2>1, <2>4, Shrinks DEF Open
<1> QED
  BY <1>1, <1>2, <1>3, <1>4, <1>5, <1>6, <1>7, <1>8, <1>9, <1>10, <1>11, <1>12 DEF Next

\* There are never more open positions than slots, unless two ticks ran at once or the read
\* of the open positions failed.
THEOREM SlotsKeptHolds == Spec => []SlotsKept
<1>1. IInv => SlotsKept
  BY DEF IInv, Slots, SlotsKept, SlotsUnsafe
<1> QED
  BY Initial, Step, <1>1, PTL DEF Spec

-----------------------------------------------------------------------------
(* What the broker holds against what the program knows of *)

\* A row names its guard, which is for its own symbol, or is bare.
Linked(G, r) ==
  IF r.guard = None THEN r.protection = "NONE" ELSE r.guard \in DOMAIN G /\ G[r.guard].sym = r.sym

\* What was read of an ended guard, and what a row was closed for, stays so.
Links ==
  /\ held \in [Symbol -> Int]
  /\ exiting \in [Exit -> {Idle} \cup [pc : {"cancel", "sell", "close"}, row : DOMAIN rows]]
  /\ halting \subseteq DOMAIN rows
  /\ \A i \in DOMAIN rows :
       /\ Linked(guards, rows[i])
       /\ rows[i].status = "CLOSED" /\ rows[i].protection # "NONE" => guards[rows[i].guard].state # "active"
  /\ \A t \in Tick :
       /\ tick[t].pc = "record" => Linked(guards, tick[t].row)
       /\ tick[t].pc = "reconcile" =>
            \A g \in tick[t].seen : g \in DOMAIN guards /\ guards[g].state # "active"

\* The orders that may yet sell a lot of s: guards that have not ended; rows that are
\* being sold by an exit, or have no guard and no exit that sold them; and what a tick
\* has bought that has neither.
Selling(i) == \E e \in Exit : exiting[e].pc = "sell" /\ exiting[e].row = i
Gone(i) == \E e \in Exit : exiting[e].pc = "close" /\ exiting[e].row = i

Live(s) == {g \in DOMAIN guards : guards[g].sym = s /\ guards[g].state \in {"active", "selling"}}
Owed(s) ==
  {i \in DOMAIN rows : rows[i].sym = s /\
     (Selling(i) \/ (rows[i].status = "OPEN" /\ rows[i].protection = "NONE" /\ ~ Gone(i)))}
Fresh(s) ==
  {t \in Tick : \/ tick[t].pc = "protect" /\ tick[t].sym = s
                \/ tick[t].pc = "record" /\ tick[t].sym = s /\ tick[t].row.protection = "NONE"}

SellsUnsafe == {"orphan", "cancel", "twice", "killed", "lost", "failed", "unbought"}

Covered(s) ==
  /\ IsFiniteSet(Fresh(s))
  /\ held[s] >= Cardinality(Live(s)) + Cardinality(Owed(s)) + Cardinality(Fresh(s))

OneExit ==
  \A e, f \in Exit : exiting[e] # Idle /\ exiting[f] # Idle /\ exiting[e].row = exiting[f].row => e = f
CancelsOpen ==
  \A e \in Exit : exiting[e].pc = "cancel" /\ rows[exiting[e].row].protection = "NONE" =>
    rows[exiting[e].row].status = "OPEN"

SoldInv ==
  mishap \cap SellsUnsafe = {} => OneExit /\ CancelsOpen /\ \A s \in Symbol : Covered(s)

\* The lot of s that the program knows of: an open row that was not sold yet, or what a
\* tick has just bought.
Taken(G, r) == r.guard # None /\ G[r.guard].state \in {"selling", "sold"}
Known(s) ==
  \/ \E i \in Open : rows[i].sym = s /\ ~ Taken(guards, rows[i]) /\ ~ Gone(i)
  \/ \E t \in Tick : \/ tick[t].pc = "protect" /\ tick[t].sym = s
                     \/ tick[t].pc = "record" /\ tick[t].sym = s /\ ~ Taken(guards, tick[t].row)

BuysUnsafe == {"overlap", "blind", "killed", "lost", "lapsed", "deleted", "unsold"}

HeldInv ==
  mishap \cap BuysUnsafe = {} =>
    /\ \A g \in DOMAIN guards : guards[g].state # "lapsed"
    /\ \A s \in Symbol : held[s] <= Cardinality(OnSale(s)) + (IF Known(s) THEN 1 ELSE 0)

LotInv == Links /\ SoldInv /\ HeldInv
-----------------------------------------------------------------------------
(* The links between rows, guards and requests *)

\* Guards are added and end; none becomes active again.
GuardsMove ==
  /\ DOMAIN guards \subseteq DOMAIN guards'
  /\ \A g \in DOMAIN guards :
       /\ guards'[g].sym = guards[g].sym
       /\ guards[g].state # "active" => guards'[g].state # "active"

LEMMA StillLinked ==
  ASSUME GuardsMove, NEW r, NEW q, Linked(guards, r), q.guard = r.guard, q.sym = r.sym,
         q.protection \in {r.protection, "NONE"}
  PROVE  Linked(guards', q)
BY DEF GuardsMove, Linked

\* The next state of one guard.
GuardGoes(g, x) ==
  /\ g \in DOMAIN guards /\ guards' = [guards EXCEPT ![g].state = x]
  /\ \/ guards[g].state = "active" /\ x # "active"
     \/ guards[g].state = "selling" /\ x \in {"sold", "lapsed"}

LEMMA OneGuard ==
  ASSUME guards \in Seq(Guard), NEW g, NEW x, GuardGoes(g, x)
  PROVE  /\ GuardsMove /\ DOMAIN guards' = DOMAIN guards
         /\ guards'[g].state = x /\ guards'[g].sym = guards[g].sym
         /\ \A h \in DOMAIN guards : h # g => guards'[h] = guards[h]
<1>1. \A h \in DOMAIN guards : guards[h] \in Guard
  OBVIOUS
<1>2. /\ DOMAIN guards' = DOMAIN guards /\ guards'[g].state = x /\ guards'[g].sym = guards[g].sym
      /\ \A h \in DOMAIN guards : h # g => guards'[h] = guards[h]
  BY <1>1 DEF GuardGoes, Guard
<1> QED
  BY <1>2 DEF GuardGoes, GuardsMove

\* A step that adds no row and keeps what the requests know of rows and guards.
LEMMA LinksKept ==
  ASSUME Links, GuardsMove, DOMAIN rows' = DOMAIN rows, halting' \subseteq DOMAIN rows,
         held' \in [Symbol -> Int],
         exiting' \in [Exit -> {Idle} \cup [pc : {"cancel", "sell", "close"}, row : DOMAIN rows]],
         \A i \in DOMAIN rows :
           /\ rows'[i].sym = rows[i].sym /\ rows'[i].guard = rows[i].guard
           /\ rows'[i].protection \in {rows[i].protection, "NONE"}
           /\ rows'[i].status = "CLOSED" /\ rows'[i].protection # "NONE" =>
                \/ rows[i].status = "CLOSED" \/ guards[rows[i].guard].state # "active",
         \A t \in Tick : tick'[t] = tick[t] \/ tick'[t].pc \notin {"record", "reconcile"}
  PROVE  Links'
<1>1. ASSUME NEW i \in DOMAIN rows
      PROVE  /\ Linked(guards', rows'[i])
             /\ rows'[i].status = "CLOSED" /\ rows'[i].protection # "NONE" => guards'[rows'[i].guard].state # "active"
  <2>1. Linked(guards, rows[i])
    BY DEF Links
  <2>2. Linked(guards', rows'[i])
    BY <2>1, StillLinked
  <2>3. ASSUME rows'[i].status = "CLOSED", rows'[i].protection # "NONE"
        PROVE  guards'[rows'[i].guard].state # "active"
    <3>1. rows[i].protection # "NONE" /\ rows'[i].guard = rows[i].guard
      BY <2>3
    <3>2. rows[i].guard \in DOMAIN guards
      BY <2>1, <3>1 DEF Linked
    <3>3. guards[rows[i].guard].state # "active"
      BY <2>3, <3>1 DEF Links
    <3> QED
      BY <3>1, <3>2, <3>3 DEF GuardsMove
  <2> QED
    BY <2>2, <2>3
<1>2. ASSUME NEW t \in Tick
      PROVE  /\ tick'[t].pc = "record" => Linked(guards', tick'[t].row)
             /\ tick'[t].pc = "reconcile" =>
                  \A g \in tick'[t].seen : g \in DOMAIN guards' /\ guards'[g].state # "active"
  <2>1. CASE tick'[t] = tick[t] /\ tick[t].pc = "record"
    <3>1. Linked(guards, tick[t].row)
      BY <2>1 DEF Links
    <3>2. Linked(guards', tick[t].row)
      BY <3>1, StillLinked
    <3> QED
      BY <2>1, <3>2
  <2>2. CASE tick'[t] = tick[t] /\ tick[t].pc = "reconcile"
    BY <2>2 DEF Links, GuardsMove
  <2> QED
    BY <2>1, <2>2
<1> QED
  BY <1>1, <1>2 DEF Links

LEMMA LinksInitial == Init => Links
BY DEF Init, Links, Idle

LEMMA LinksStep == Types /\ Links /\ [Next]_vars => Links'
<1> SUFFICES ASSUME Types, Links, [Next]_vars PROVE Links'
  OBVIOUS
<1> USE DEF program
<1>a. /\ \A i \in DOMAIN rows : rows[i] \in Row
      /\ \A g \in DOMAIN guards : guards[g] \in Guard
      /\ held \in [Symbol -> Int] /\ halting \subseteq DOMAIN rows
      /\ exiting \in [Exit -> {Idle} \cup [pc : {"cancel", "sell", "close"}, row : DOMAIN rows]]
      /\ DOMAIN tick = Tick
  BY DEF Types, Links
<1>b. UNCHANGED guards => GuardsMove
  BY DEF GuardsMove
<1>1. ASSUME NEW t \in Tick, StartTick(t) PROVE Links'
  <2>1. UNCHANGED <<rows, guards, held, exiting, halting>>
    BY <1>1 DEF StartTick
  <2>2. PICK seen \in {Ended, {}} : tick' = [tick EXCEPT ![t] = [pc |-> "reconcile", seen |-> seen]]
    BY <1>1 DEF StartTick
  <2>3. \A g \in seen : g \in DOMAIN guards /\ guards[g].state # "active"
    BY DEF Ended
  <2>4. \A u \in Tick : tick'[u] = IF u = t THEN [pc |-> "reconcile", seen |-> seen] ELSE tick[u]
    BY <1>a, <2>2
  <2> QED
    BY <2>1, <2>3, <2>4 DEF Links
<1>2. ASSUME NEW t \in Tick, ReadSlots(t) \/ EndTick(t) \/ Buy(t) \/ KillTick(t) PROVE Links'
  <2>1. UNCHANGED <<rows, guards, exiting, halting>>
    BY <1>2 DEF ReadSlots, EndTick, Buy, KillTick
  <2>2. held' \in [Symbol -> Int]
    BY <1>2, <1>a DEF ReadSlots, EndTick, Buy, KillTick, Ranked
  <2>3. \A u \in Tick : tick'[u] = tick[u] \/ tick'[u].pc \notin {"record", "reconcile"}
    BY <1>2, <1>a DEF ReadSlots, EndTick, Buy, KillTick, Idle
  <2> QED
    BY <1>a, <1>b, <2>1, <2>2, <2>3, LinksKept
<1>3. ASSUME NEW t \in Tick, Reconcile(t) PROVE Links'
  <2>1. /\ UNCHANGED <<guards, held, exiting, halting>> /\ tick[t].pc = "reconcile"
        /\ tick' = [tick EXCEPT ![t] = [pc |-> "slots"]]
    BY <1>3, Reconciles
  <2>2. /\ DOMAIN rows' = DOMAIN rows
        /\ \A i \in DOMAIN rows :
             rows'[i] = rows[i] \/ (Fired(t, i) /\ rows'[i] = [rows[i] EXCEPT !.status = "CLOSED"])
    BY <1>3, Reconciles
  <2>3. \A i \in DOMAIN rows : Fired(t, i) => guards[rows[i].guard].state # "active"
    BY <2>1 DEF Fired, Links
  <2>4. DOMAIN rows' = DOMAIN rows
    BY <2>2
  <2>5. ASSUME NEW i \in DOMAIN rows
        PROVE  /\ rows'[i].sym = rows[i].sym /\ rows'[i].guard = rows[i].guard
               /\ rows'[i].protection \in {rows[i].protection, "NONE"}
               /\ rows'[i].status = "CLOSED" /\ rows'[i].protection # "NONE" =>
                    \/ rows[i].status = "CLOSED" \/ guards[rows[i].guard].state # "active"
    BY <1>a, <2>2, <2>3 DEF Row
  <2>6. \A u \in Tick : tick'[u] = tick[u] \/ tick'[u].pc \notin {"record", "reconcile"}
    BY <1>a, <2>1
  <2> QED
    BY <1>a, <1>b, <2>1, <2>4, <2>5, <2>6, LinksKept
<1>4. ASSUME NEW t \in Tick, Protect(t) PROVE Links'
  <2>1. UNCHANGED <<rows, held, exiting, halting>> /\ tick[t].pc = "protect"
    BY <1>4, Protects
  <2>2. PICK p \in {"GTT", "SL_ONLY", "NONE"}, g \in Nat \cup {None} : Protected(t, p, g)
    BY <1>4, Protects
  <2>3. Longer(guards, guards', tick[t].sym) /\ IF p = "NONE" THEN g = None ELSE g \in DOMAIN guards' \ DOMAIN guards
    BY <2>2 DEF Protected
  <2>4. guards' \in Seq(Guard) /\ DOMAIN guards' \subseteq Nat
    BY <2>3 DEF Longer
  <2>5. GuardsMove
    BY <2>3 DEF GuardsMove, Longer
  <2> DEFINE row == [sym |-> tick[t].sym, status |-> "OPEN", protection |-> p, guard |-> g]
  <2>6. Linked(guards', row)
    <3>1. CASE p = "NONE"
      BY <2>3, <3>1 DEF Linked
    <3>2. CASE p # "NONE"
      <4>1. g \in DOMAIN guards' \ DOMAIN guards /\ g # None
        BY <2>3, <2>4, <3>2, SwingAssumption
      <4>2. guards'[g].sym = tick[t].sym
        BY <2>3, <4>1 DEF Longer
      <4> QED
        BY <4>1, <4>2 DEF Linked
    <3> QED
      BY <3>1, <3>2
  <2>7. tick'[t].pc = "record" /\ tick'[t].row = row /\ \A u \in Tick : u # t => tick'[u] = tick[u]
    BY <2>2 DEF Protected
  <2> HIDE DEF row
  <2>8. \A i \in DOMAIN rows : Linked(guards', rows[i])
    BY <2>5, StillLinked DEF Links
  <2>9. \A i \in DOMAIN rows : rows[i].status = "CLOSED" /\ rows[i].protection # "NONE" =>
          guards'[rows[i].guard].state # "active"
    BY <2>5 DEF Links, Linked, GuardsMove
  <2>10. ASSUME NEW u \in Tick
         PROVE  /\ tick'[u].pc = "record" => Linked(guards', tick'[u].row)
                /\ tick'[u].pc = "reconcile" =>
                     \A h \in tick'[u].seen : h \in DOMAIN guards' /\ guards'[h].state # "active"
    <3>1. CASE u = t
      BY <2>6, <2>7, <3>1
    <3>2. CASE u # t /\ tick[u].pc = "record"
      <4>1. tick'[u] = tick[u] /\ Linked(guards, tick[u].row)
        BY <2>7, <3>2 DEF Links
      <4>2. Linked(guards', tick[u].row)
        BY <2>5, <4>1, StillLinked
      <4> QED
        BY <3>2, <4>1, <4>2
    <3>3. CASE u # t /\ tick[u].pc # "record"
      BY <2>5, <2>7, <3>3 DEF Links, GuardsMove
    <3> QED
      BY <3>1, <3>2, <3>3
  <2> QED
    BY <1>a, <2>1, <2>8, <2>9, <2>10 DEF Links
<1>5. ASSUME NEW t \in Tick, Record(t) PROVE Links'
  <2>1. /\ UNCHANGED <<guards, held, exiting, halting>> /\ tick[t].pc = "record"
        /\ rows' = Append(rows, tick[t].row) \/ rows' = rows
        /\ tick' = [tick EXCEPT ![t] = [pc |-> "pick", free |-> @.free - 1, skip |-> @.skip]]
    BY <1>5 DEF Record
  <2>2. \A u \in Tick : tick'[u] = tick[u] \/ tick'[u].pc \notin {"record", "reconcile"}
    BY <1>a, <2>1
  <2>3. CASE rows' = rows
    BY <1>a, <1>b, <2>1, <2>2, <2>3, LinksKept
  <2>4. CASE rows' = Append(rows, tick[t].row)
    <3>1. tick[t].row \in Row /\ tick[t].row.status = "OPEN" /\ Linked(guards, tick[t].row) /\ rows \in Seq(Row)
      BY <2>1 DEF Types, Memory, Links
    <3>2. /\ DOMAIN rows \subseteq DOMAIN rows' /\ \A i \in DOMAIN rows : rows'[i] = rows[i]
          /\ \A i \in DOMAIN rows' : i \notin DOMAIN rows => rows'[i] = tick[t].row
      BY <2>4, <3>1, AppendProperties
    <3>3. exiting' \in [Exit -> {Idle} \cup [pc : {"cancel", "sell", "close"}, row : DOMAIN rows']]
      <4>1. [pc : {"cancel", "sell", "close"}, row : DOMAIN rows] \subseteq
              [pc : {"cancel", "sell", "close"}, row : DOMAIN rows']
        BY <3>2
      <4> QED
        BY <1>a, <2>1, <4>1
    <3>4. ASSUME NEW i \in DOMAIN rows'
          PROVE  /\ Linked(guards', rows'[i])
                 /\ rows'[i].status = "CLOSED" /\ rows'[i].protection # "NONE" => guards'[rows'[i].guard].state # "active"
      BY <2>1, <3>1, <3>2 DEF Links
    <3>5. ASSUME NEW u \in Tick
          PROVE  /\ tick'[u].pc = "record" => Linked(guards', tick'[u].row)
                 /\ tick'[u].pc = "reconcile" =>
                      \A g \in tick'[u].seen : g \in DOMAIN guards' /\ guards'[g].state # "active"
      BY <2>1, <2>2 DEF Links
    <3> QED
      BY <1>a, <2>1, <3>2, <3>3, <3>4, <3>5 DEF Links
  <2> QED
    BY <2>1, <2>3, <2>4
<1>6. ASSUME NEW e \in Exit, StartExit(e) \/ ExitCancel(e) \/ ExitSell(e) \/ KillExit(e) PROVE Links'
  <2>1. UNCHANGED <<rows, tick, halting>>
    BY <1>6 DEF StartExit, ExitCancel, ExitSell, KillExit
  <2>2. GuardsMove
    <3>1. guards' = guards \/ \E g : GuardGoes(g, "deleted")
      <4>1. CASE ExitCancel(e)
        <5>1. \/ guards' = guards
              \/ /\ guards[rows[exiting[e].row].guard].state = "active"
                 /\ guards' = [guards EXCEPT ![rows[exiting[e].row].guard].state = "deleted"]
                 /\ rows[exiting[e].row].guard # None
          BY <4>1 DEF ExitCancel, cancelProtection, Delete
        <5>2. exiting[e].row \in DOMAIN rows
          BY <1>a, <4>1 DEF ExitCancel, Idle
        <5>3. rows[exiting[e].row].guard # None => rows[exiting[e].row].guard \in DOMAIN guards
          BY <5>2 DEF Links, Linked
        <5> DEFINE h == rows[exiting[e].row].guard
        <5>4. guards' = guards \/ (guards[h].state = "active" /\ guards' = [guards EXCEPT ![h].state = "deleted"]
                                    /\ h \in DOMAIN guards)
          BY <5>1, <5>3
        <5> HIDE DEF h
        <5>5. guards' = guards \/ GuardGoes(h, "deleted")
          BY <5>4 DEF GuardGoes
        <5> QED
          BY <5>5
      <4>2. CASE ~ ExitCancel(e)
        BY <1>6, <4>2 DEF StartExit, ExitSell, KillExit
      <4> QED
        BY <4>1, <4>2
    <3> QED
      BY <1>b, <3>1, OneGuard DEF Types
  <2>3. exiting' \in [Exit -> {Idle} \cup [pc : {"cancel", "sell", "close"}, row : DOMAIN rows]]
    <3>1. CASE StartExit(e)
      BY <1>a, <3>1 DEF StartExit, Open
    <3>2. CASE ExitCancel(e)
      BY <1>a, <3>2 DEF ExitCancel, Idle
    <3>3. CASE ExitSell(e)
      BY <1>a, <3>3 DEF ExitSell, Idle
    <3>4. CASE KillExit(e)
      BY <1>a, <3>4 DEF KillExit
    <3> QED
      BY <1>6, <3>1, <3>2, <3>3, <3>4
  <2>4. held' \in [Symbol -> Int]
    BY <1>6, <1>a DEF StartExit, ExitCancel, ExitSell, KillExit
  <2> QED
    BY <1>a, <2>1, <2>2, <2>3, <2>4, LinksKept
<1>7. ASSUME NEW e \in Exit, ExitClose(e) PROVE Links'
  <2>1. UNCHANGED <<guards, held, tick, halting>> /\ exiting' = [exiting EXCEPT ![e] = Idle]
    BY <1>7 DEF ExitClose
  <2>2. /\ DOMAIN rows' = DOMAIN rows
        /\ \A i \in DOMAIN rows :
             \/ rows'[i] = rows[i]
             \/ /\ rows'[i].sym = rows[i].sym /\ rows'[i].guard = rows[i].guard /\ rows'[i].protection = "NONE"
    BY <1>a, <1>7 DEF ExitClose, Row
  <2>3. exiting' \in [Exit -> {Idle} \cup [pc : {"cancel", "sell", "close"}, row : DOMAIN rows]]
    BY <1>a, <2>1
  <2> QED
    BY <1>a, <1>b, <2>1, <2>2, <2>3, LinksKept
<1>8. CASE PanicHalt \/ SaveSettings \/ UNCHANGED vars
  <2>1. UNCHANGED <<rows, guards, held, tick, exiting>> /\ halting' \subseteq DOMAIN rows
    BY <1>8, <1>a DEF PanicHalt, SaveSettings, vars, Open
  <2> QED
    BY <1>a, <1>b, <2>1, LinksKept
<1>9. CASE HaltRow
  <2>1. PICK i \in halting :
          /\ halting' = halting \ {i}
          /\ \/ /\ rows[i].guard # None /\ guards[rows[i].guard].state = "active" /\ Delete(rows[i].guard)
                /\ rows' = [rows EXCEPT ![i].protection = "NONE"] \/ rows' = rows
             \/ UNCHANGED <<rows, guards>>
    BY <1>9 DEF HaltRow
  <2>2. UNCHANGED <<held, tick, exiting>>
    BY <1>9 DEF HaltRow
  <2>3. guards' = guards \/ GuardGoes(rows[i].guard, "deleted")
    <3>1. rows[i].guard # None => rows[i].guard \in DOMAIN guards
      BY <1>a, <2>1 DEF Links, Linked
    <3> DEFINE h == rows[i].guard
    <3>2. guards' = guards \/ (guards[h].state = "active" /\ guards' = [guards EXCEPT ![h].state = "deleted"]
                                /\ h \in DOMAIN guards)
      BY <2>1, <3>1 DEF Delete
    <3> HIDE DEF h
    <3>3. guards' = guards \/ GuardGoes(h, "deleted")
      BY <3>2 DEF GuardGoes
    <3> QED
      BY <3>3 DEF h
  <2>4. GuardsMove
    BY <1>b, <2>3, OneGuard DEF Types
  <2>5. /\ DOMAIN rows' = DOMAIN rows
        /\ \A k \in DOMAIN rows :
             \/ rows'[k] = rows[k]
             \/ /\ rows'[k].sym = rows[k].sym /\ rows'[k].guard = rows[k].guard /\ rows'[k].protection = "NONE"
    BY <1>a, <2>1 DEF Row
  <2> QED
    BY <1>a, <2>1, <2>2, <2>4, <2>5, LinksKept
<1>10. ASSUME NEW g \in DOMAIN guards, GuardFires(g) \/ LimitEnds(g) \/ GuardEnds(g) PROVE Links'
  <2>1. UNCHANGED <<rows, tick, exiting, halting>>
    BY <1>10 DEF GuardFires, LimitEnds, GuardEnds
  <2>2. \E x : GuardGoes(g, x)
    <3>1. CASE GuardFires(g)
      <4> DEFINE x == IF guards[g].state = "active" /\ guards[g].kind = "GTT" THEN "selling" ELSE "sold"
      <4>1. guards' = [guards EXCEPT ![g].state = x] /\ guards[g].state = "active" /\ x # "active"
        BY <3>1 DEF GuardFires
      <4> HIDE DEF x
      <4> QED
        BY <4>1 DEF GuardGoes
    <3>2. CASE LimitEnds(g)
      BY <3>2 DEF LimitEnds, GuardGoes
    <3>3. CASE GuardEnds(g)
      <4>1. GuardGoes(g, "lapsed")
        BY <3>3 DEF GuardEnds, GuardGoes
      <4> QED
        BY <4>1
    <3> QED
      BY <1>10, <3>1, <3>2, <3>3
  <2>3. GuardsMove
    BY <2>2, OneGuard DEF Types
  <2>4. held' \in [Symbol -> Int]
    <3>1. guards[g].sym \in Symbol
      BY <1>a DEF Guard
    <3> QED
      BY <1>10, <1>a, <3>1 DEF GuardFires, LimitEnds, GuardEnds, Trade
  <2> QED
    BY <1>a, <2>1, <2>3, <2>4, LinksKept
<1> QED
  BY <1>1, <1>2, <1>3, <1>4, <1>5, <1>6, <1>7, <1>8, <1>9, <1>10 DEF Next

-----------------------------------------------------------------------------
(* No lot is sold twice *)

\* S loses what n counts, or gains it.
Changed(S, T, n) ==
  \/ n = 0 /\ T \subseteq S
  \/ n = 1 /\ \E x : T \subseteq S \cup {x}
  \/ n = -1 /\ \E x \in S : T \subseteq S \ {x}

LEMMA ChangedCount ==
  ASSUME NEW S, NEW T, NEW n, IsFiniteSet(S), Changed(S, T, n)
  PROVE  IsFiniteSet(T) /\ Cardinality(T) <= Cardinality(S) + n
<1>1. Cardinality(S) \in Nat
  BY FS_CardinalityType
<1>2. CASE n = 0 /\ T \subseteq S
  BY <1>1, <1>2, FS_Subset, FS_CardinalityType
<1>3. ASSUME NEW x, n = 1, T \subseteq S \cup {x} PROVE IsFiniteSet(T) /\ Cardinality(T) <= Cardinality(S) + n
  <2>1. IsFiniteSet(S \cup {x}) /\ Cardinality(S \cup {x}) <= Cardinality(S) + 1 /\ Cardinality(S \cup {x}) \in Nat
    BY <1>1, FS_AddElement, FS_CardinalityType
  <2>2. IsFiniteSet(T) /\ Cardinality(T) <= Cardinality(S \cup {x}) /\ Cardinality(T) \in Nat
    BY <1>3, <2>1, FS_Subset, FS_CardinalityType
  <2> QED
    BY <1>1, <1>3, <2>1, <2>2
<1>4. ASSUME NEW x \in S, n = -1, T \subseteq S \ {x} PROVE IsFiniteSet(T) /\ Cardinality(T) <= Cardinality(S) + n
  <2>1. IsFiniteSet(S \ {x}) /\ Cardinality(S \ {x}) = Cardinality(S) - 1
    BY FS_RemoveElement
  <2>2. IsFiniteSet(T) /\ Cardinality(T) <= Cardinality(S \ {x}) /\ Cardinality(T) \in Nat
    BY <1>4, <2>1, FS_Subset, FS_CardinalityType
  <2> QED
    BY <1>1, <1>4, <2>1, <2>2
<1> QED
  BY <1>2, <1>3, <1>4 DEF Changed

LEMMA PartsFinite ==
  ASSUME Types, NEW s
  PROVE  IsFiniteSet(Live(s)) /\ IsFiniteSet(Owed(s)) /\ IsFiniteSet(OnSale(s))
<1>1. /\ DOMAIN rows = 1 .. Len(rows) /\ Len(rows) \in Nat
      /\ DOMAIN guards = 1 .. Len(guards) /\ Len(guards) \in Nat
  BY DEF Types
<1>2. IsFiniteSet(DOMAIN rows) /\ IsFiniteSet(DOMAIN guards)
  BY <1>1, FS_Interval
<1> QED
  BY <1>2, FS_Subset DEF Live, Owed, OnSale

\* The books of one symbol: what is held moves at least as the claims on it.
LEMMA Balance ==
  ASSUME Types, Types', Links, Links', NEW s \in Symbol, Covered(s), NEW a, NEW b, NEW c,
         Changed(Live(s), Live(s)', a), Changed(Owed(s), Owed(s)', b), Changed(Fresh(s), Fresh(s)', c),
         held'[s] >= held[s] + a + b + c
  PROVE  Covered(s)'
<1>1. {a, b, c} \subseteq Int /\ held[s] \in Int /\ held'[s] \in Int
  BY DEF Changed, Links
<1>2. /\ IsFiniteSet(Live(s)) /\ IsFiniteSet(Owed(s)) /\ IsFiniteSet(Fresh(s))
      /\ IsFiniteSet(Live(s)') /\ IsFiniteSet(Owed(s)') /\ IsFiniteSet(Fresh(s)')
      /\ Cardinality(Live(s)') <= Cardinality(Live(s)) + a
      /\ Cardinality(Owed(s)') <= Cardinality(Owed(s)) + b
      /\ Cardinality(Fresh(s)') <= Cardinality(Fresh(s)) + c
  <2>1. IsFiniteSet(Live(s)) /\ IsFiniteSet(Owed(s)) /\ IsFiniteSet(Fresh(s))
    BY PartsFinite DEF Covered
  <2> QED
    BY <2>1, ChangedCount
<1>3. /\ Cardinality(Live(s)) \in Nat /\ Cardinality(Owed(s)) \in Nat /\ Cardinality(Fresh(s)) \in Nat
      /\ Cardinality(Live(s)') \in Nat /\ Cardinality(Owed(s)') \in Nat /\ Cardinality(Fresh(s)') \in Nat
  BY <1>2, FS_CardinalityType
<1>4. held[s] >= Cardinality(Live(s)) + Cardinality(Owed(s)) + Cardinality(Fresh(s))
  BY DEF Covered
<1>5. held'[s] >= Cardinality(Live(s)') + Cardinality(Owed(s)') + Cardinality(Fresh(s)')
  BY <1>1, <1>2, <1>3, <1>4
<1> QED
  BY <1>2, <1>5 DEF Covered

\* The exits stand still, and no row loses its protection.
LEMMA ExitsStand ==
  ASSUME OneExit, CancelsOpen, Links, UNCHANGED exiting, DOMAIN rows' = DOMAIN rows,
         \A i \in DOMAIN rows :
           \/ rows'[i] = rows[i]
           \/ /\ rows[i].protection # "NONE" /\ rows'[i].protection = rows[i].protection
              /\ rows'[i].sym = rows[i].sym
  PROVE  OneExit' /\ CancelsOpen' /\ \A s : Changed(Owed(s), Owed(s)', 0)
<1>1. OneExit'
  BY DEF OneExit
<1>2. CancelsOpen'
  <2> SUFFICES ASSUME NEW e \in Exit, exiting[e].pc = "cancel", rows'[exiting[e].row].protection = "NONE"
               PROVE  rows'[exiting[e].row].status = "OPEN"
    BY DEF CancelsOpen
  <2>1. exiting[e].row \in DOMAIN rows
    BY DEF Links, Idle
  <2>2. rows'[exiting[e].row] = rows[exiting[e].row]
    BY <2>1
  <2> QED
    BY <2>2 DEF CancelsOpen
<1>3. ASSUME NEW s PROVE Owed(s)' \subseteq Owed(s)
  BY DEF Owed, Selling, Gone
<1> QED
  BY <1>1, <1>2, <1>3 DEF Changed

LEMMA LiveMoves ==
  ASSUME Types, NEW g, NEW x, GuardGoes(g, x)
  PROVE  /\ \A s : Changed(Live(s), Live(s)', 0)
         /\ \A s : guards[g].sym = s /\ x # "selling" => Changed(Live(s), Live(s)', -1)
<1>1. /\ DOMAIN guards' = DOMAIN guards /\ guards'[g].state = x /\ guards'[g].sym = guards[g].sym
      /\ \A h \in DOMAIN guards : h # g => guards'[h] = guards[h]
  BY OneGuard DEF Types
<1>2. ASSUME NEW s PROVE Live(s)' \subseteq Live(s)
  BY <1>1 DEF Live, GuardGoes
<1>3. \A s : guards[g].sym = s /\ x # "selling" => g \in Live(s) /\ Live(s)' \subseteq Live(s) \ {g}
  BY <1>1 DEF Live, GuardGoes
<1> QED
  BY <1>2, <1>3 DEF Changed

LEMMA MishapsStay == [Next]_vars => mishap \subseteq mishap'
<1> SUFFICES ASSUME [Next]_vars PROVE mishap \subseteq mishap'
  OBVIOUS
<1> USE DEF program, Note, Happen
<1>1. ASSUME NEW t \in Tick, StartTick(t) \/ Reconcile(t) \/ ReadSlots(t) \/ EndTick(t) PROVE mishap \subseteq mishap'
  BY <1>1 DEF StartTick, Reconcile, ReadSlots, EndTick
<1>2. ASSUME NEW t \in Tick, Buy(t) \/ Protect(t) \/ Record(t) \/ KillTick(t) PROVE mishap \subseteq mishap'
  BY <1>2 DEF Buy, Protect, Record, KillTick
<1>3. ASSUME NEW e \in Exit, StartExit(e) \/ ExitCancel(e) \/ ExitSell(e) \/ ExitClose(e) \/ KillExit(e)
      PROVE  mishap \subseteq mishap'
  BY <1>3 DEF StartExit, ExitCancel, cancelProtection, ExitSell, ExitClose, KillExit
<1>4. CASE PanicHalt \/ HaltRow \/ SaveSettings \/ UNCHANGED vars
  BY <1>4 DEF PanicHalt, HaltRow, SaveSettings, vars
<1>5. ASSUME NEW g \in DOMAIN guards, GuardFires(g) \/ LimitEnds(g) \/ GuardEnds(g) PROVE mishap \subseteq mishap'
  BY <1>5 DEF GuardFires, LimitEnds, GuardEnds
<1> QED
  BY <1>1, <1>2, <1>3, <1>4, <1>5 DEF Next

LEMMA SoldInitial == Init => SoldInv
<1> SUFFICES ASSUME Init PROVE SoldInv
  OBVIOUS
<1>1. OneExit /\ CancelsOpen
  BY DEF Init, OneExit, CancelsOpen, Idle
<1>2. ASSUME NEW s \in Symbol PROVE Covered(s)
  <2>1. Live(s) = {} /\ Owed(s) = {} /\ Fresh(s) = {} /\ held[s] = 0
    BY DEF Init, Live, Owed, Fresh, Idle
  <2> QED
    BY <2>1, FS_EmptySet DEF Covered
<1> QED
  BY <1>1, <1>2 DEF SoldInv

LEMMA SoldStep == Types /\ Types' /\ Links /\ Links' /\ SoldInv /\ [Next]_vars => SoldInv'
<1> SUFFICES ASSUME Types, Types', Links, Links', SoldInv, [Next]_vars, mishap' \cap SellsUnsafe = {}
             PROVE  OneExit' /\ CancelsOpen' /\ \A s \in Symbol : Covered(s)'
  BY DEF SoldInv
<1> USE DEF program
<1>a. mishap \subseteq mishap' /\ OneExit /\ CancelsOpen /\ \A s \in Symbol : Covered(s)
  BY MishapsStay DEF SoldInv
<1>b. /\ \A i \in DOMAIN rows : rows[i] \in Row
      /\ \A g \in DOMAIN guards : guards[g] \in Guard
      /\ held \in [Symbol -> Int]
      /\ exiting \in [Exit -> {Idle} \cup [pc : {"cancel", "sell", "close"}, row : DOMAIN rows]]
      /\ DOMAIN tick = Tick
  BY DEF Types, Links
<1>c. ASSUME UNCHANGED guards PROVE \A s : Changed(Live(s), Live(s)', 0)
  BY <1>c DEF Live, Changed
<1>d. ASSUME UNCHANGED tick PROVE \A s : Changed(Fresh(s), Fresh(s)', 0)
  BY <1>d DEF Fresh, Changed
<1>e. ASSUME \A s : Changed(Live(s), Live(s)', 0), \A s : Changed(Owed(s), Owed(s)', 0),
             \A s : Changed(Fresh(s), Fresh(s)', 0), UNCHANGED held
      PROVE  \A s \in Symbol : Covered(s)'
  <2> SUFFICES ASSUME NEW s \in Symbol PROVE Covered(s)'
    OBVIOUS
  <2>1. held'[s] >= held[s] + 0 + 0 + 0
    BY <1>b, <1>e
  <2> QED
    BY <1>a, <1>e, <2>1, Balance
<1>1. ASSUME NEW t \in Tick, StartTick(t) \/ ReadSlots(t) \/ EndTick(t) \/ KillTick(t)
      PROVE  OneExit' /\ CancelsOpen' /\ \A s \in Symbol : Covered(s)'
  <2>1. UNCHANGED <<rows, guards, held, exiting>>
    BY <1>1 DEF StartTick, ReadSlots, EndTick, KillTick
  <2>2. \A u \in Tick : tick'[u] = tick[u] \/ tick'[u].pc \notin {"protect", "record"}
    BY <1>1, <1>b DEF StartTick, ReadSlots, EndTick, KillTick, Idle
  <2>3. \A s : Changed(Fresh(s), Fresh(s)', 0)
    BY <2>2 DEF Fresh, Changed
  <2> QED
    BY <1>a, <1>c, <1>e, <2>1, <2>3, ExitsStand
<1>2. ASSUME NEW t \in Tick, Reconcile(t)
      PROVE  OneExit' /\ CancelsOpen' /\ \A s \in Symbol : Covered(s)'
  <2>1. UNCHANGED <<guards, held, exiting>> /\ tick' = [tick EXCEPT ![t] = [pc |-> "slots"]]
    BY <1>2, Reconciles
  <2>2. /\ DOMAIN rows' = DOMAIN rows
        /\ \A i \in DOMAIN rows :
             rows'[i] = rows[i] \/ (Fired(t, i) /\ rows'[i] = [rows[i] EXCEPT !.status = "CLOSED"])
    BY <1>2, Reconciles
  <2>3. \A i \in DOMAIN rows : Fired(t, i) => rows[i].protection # "NONE"
    BY DEF Fired
  <2>4. DOMAIN rows' = DOMAIN rows
    BY <2>2
  <2>5. ASSUME NEW i \in DOMAIN rows
        PROVE  \/ rows'[i] = rows[i]
               \/ /\ rows[i].protection # "NONE" /\ rows'[i].protection = rows[i].protection
                  /\ rows'[i].sym = rows[i].sym
    BY <1>b, <2>2, <2>3 DEF Row
  <2>6. \A s : Changed(Fresh(s), Fresh(s)', 0)
    BY <1>b, <2>1 DEF Fresh, Changed
  <2> QED
    BY <1>a, <1>c, <1>e, <2>1, <2>4, <2>5, <2>6, ExitsStand
<1>3. ASSUME NEW t \in Tick, Buy(t)
      PROVE  OneExit' /\ CancelsOpen' /\ \A s \in Symbol : Covered(s)'
  <2>1. UNCHANGED <<rows, guards, exiting>> /\ tick[t].pc = "pick"
    BY <1>3 DEF Buy
  <2>2. OneExit' /\ CancelsOpen' /\ (\A s : Changed(Owed(s), Owed(s)', 0)) /\ \A s : Changed(Live(s), Live(s)', 0)
    BY <1>a, <1>c, <2>1, ExitsStand
  <2>3. PICK b \in Symbol, accepted \in BOOLEAN, filled \in BOOLEAN :
       /\ held' = IF filled THEN [held EXCEPT ![b] = @ + 1] ELSE held
       /\ tick' = [tick EXCEPT ![t] =
                     IF accepted THEN [pc |-> "protect", free |-> @.free, skip |-> @.skip \cup {b}, sym |-> b]
                     ELSE [pc |-> "pick", free |-> @.free, skip |-> @.skip \cup {b}]]
       /\ Happen(CASE accepted /\ ~ filled -> {"unbought"} [] ~ accepted /\ filled -> {"lost"} [] OTHER -> {})
    BY <1>3 DEF Buy, Ranked
  <2>4. accepted <=> filled
    BY <2>3 DEF Happen, SellsUnsafe
  <2>5. ASSUME NEW s \in Symbol PROVE Covered(s)'
    <3>1. \A u \in Tick : u # t => tick'[u] = tick[u]
      BY <1>b, <2>3
    <3>2. accepted => tick'[t].pc = "protect" /\ tick'[t].sym = b
      BY <1>b, <2>3
    <3>3. ~ accepted => tick'[t].pc = "pick"
      BY <1>b, <2>3
    <3>4. CASE accepted /\ s = b
      <4>1. Fresh(s)' \subseteq Fresh(s) \cup {t}
        BY <3>1 DEF Fresh
      <4>2. Changed(Fresh(s), Fresh(s)', 1)
        BY <4>1 DEF Changed
      <4>3. held'[s] >= held[s] + 0 + 0 + 1
        BY <1>b, <2>3, <2>4, <3>4
      <4> QED
        BY <1>a, <2>2, <4>2, <4>3, Balance
    <3>5. CASE ~ (accepted /\ s = b)
      <4>1. Changed(Fresh(s), Fresh(s)', 0)
        BY <3>1, <3>2, <3>3, <3>5 DEF Fresh, Changed
      <4>2. held'[s] >= held[s] + 0 + 0 + 0
        BY <1>b, <2>3, <2>4, <3>5
      <4> QED
        BY <1>a, <2>2, <4>1, <4>2, Balance
    <3> QED
      BY <3>4, <3>5
  <2> QED
    BY <2>2, <2>5
<1>4. ASSUME NEW t \in Tick, Protect(t)
      PROVE  OneExit' /\ CancelsOpen' /\ \A s \in Symbol : Covered(s)'
  <2>1. UNCHANGED <<rows, held, exiting>> /\ tick[t].pc = "protect"
    BY <1>4, Protects
  <2>2. PICK p \in {"GTT", "SL_ONLY", "NONE"}, n \in Nat \cup {None} : Protected(t, p, n)
    BY <1>4, Protects
  <2>3. OneExit' /\ CancelsOpen' /\ \A s : Changed(Owed(s), Owed(s)', 0)
    BY <1>a, <2>1, ExitsStand
  <2>4. /\ tick'[t].pc = "record" /\ tick'[t].sym = tick[t].sym /\ tick'[t].row.protection = p
        /\ \A u \in Tick : u # t => tick'[u] = tick[u]
    BY <2>2 DEF Protected
  <2>5. /\ \A g \in DOMAIN guards : guards'[g] = guards[g]
        /\ \A g \in DOMAIN guards' \ DOMAIN guards : guards'[g].sym = tick[t].sym
        /\ DOMAIN guards \subseteq DOMAIN guards'
    BY <2>2 DEF Protected, Longer
  <2>6. DOMAIN guards' = DOMAIN guards \cup (IF p = "NONE" THEN {} ELSE {n})
    BY <2>2 DEF Protected, SellsUnsafe
  <2>7. ASSUME NEW s \in Symbol PROVE Covered(s)'
    <3>1. CASE p = "NONE" \/ s # tick[t].sym
      <4>1. Changed(Live(s), Live(s)', 0)
        <5>1. CASE p = "NONE"
          BY <2>5, <2>6, <5>1 DEF Live, Changed
        <5>2. CASE p # "NONE" /\ s # tick[t].sym
          BY <2>5, <2>6, <5>2 DEF Live, Changed
        <5> QED
          BY <3>1, <5>1, <5>2
      <4>2. Changed(Fresh(s), Fresh(s)', 0)
        BY <2>1, <2>4 DEF Fresh, Changed
      <4>3. held'[s] >= held[s] + 0 + 0 + 0
        BY <1>b, <2>1
      <4> QED
        BY <1>a, <2>3, <4>1, <4>2, <4>3, Balance
    <3>2. CASE p # "NONE" /\ s = tick[t].sym
      <4>1. Live(s)' \subseteq Live(s) \cup {n}
        BY <2>5, <2>6, <3>2 DEF Live
      <4>2. t \in Fresh(s) /\ Fresh(s)' \subseteq Fresh(s) \ {t}
        BY <2>1, <2>4, <3>2 DEF Fresh
      <4>3. Changed(Live(s), Live(s)', 1) /\ Changed(Fresh(s), Fresh(s)', -1)
        BY <4>1, <4>2 DEF Changed
      <4>4. held'[s] >= held[s] + 1 + 0 + (-1)
        BY <1>b, <2>1
      <4> QED
        BY <1>a, <2>3, <4>3, <4>4, Balance
    <3> QED
      BY <3>1, <3>2
  <2> QED
    BY <2>3, <2>7
<1>5. ASSUME NEW t \in Tick, Record(t)
      PROVE  OneExit' /\ CancelsOpen' /\ \A s \in Symbol : Covered(s)'
  <2>1. /\ UNCHANGED <<guards, held, exiting>> /\ tick[t].pc = "record"
        /\ rows' = Append(rows, tick[t].row)
        /\ tick' = [tick EXCEPT ![t] = [pc |-> "pick", free |-> @.free - 1, skip |-> @.skip]]
    BY <1>5 DEF Record, Note, Happen, SellsUnsafe
  <2>2. /\ tick[t].row \in Row /\ tick[t].row.status = "OPEN" /\ tick[t].row.sym = tick[t].sym
        /\ rows \in Seq(Row)
    BY <2>1 DEF Types, Memory
  <2> DEFINE n == Len(rows) + 1
  <2>3. /\ DOMAIN rows' = DOMAIN rows \cup {n} /\ n \notin DOMAIN rows
        /\ \A i \in DOMAIN rows : rows'[i] = rows[i]
        /\ rows'[n] = tick[t].row
    BY <2>1, <2>2, AppendProperties
  <2> HIDE DEF n
  <2>4. OneExit'
    BY <1>a, <2>1 DEF OneExit
  <2>5. CancelsOpen'
    <3>1. \A e \in Exit : exiting[e].pc = "cancel" => rows'[exiting[e].row] = rows[exiting[e].row]
      BY <1>b, <2>3 DEF Idle
    <3> QED
      BY <1>a, <2>1, <3>1 DEF CancelsOpen
  <2>6. tick'[t].pc = "pick" /\ \A u \in Tick : u # t => tick'[u] = tick[u]
    BY <1>b, <2>1
  <2>7. \A i : (Selling(i)' => i \in DOMAIN rows) /\ (Selling(i)' <=> Selling(i)) /\ (Gone(i)' <=> Gone(i))
    <3>1. \A i : (Selling(i)' <=> Selling(i)) /\ (Gone(i)' <=> Gone(i))
      BY <2>1 DEF Selling, Gone
    <3>2. \A e \in Exit : exiting[e].pc = "sell" => exiting[e].row \in DOMAIN rows
      BY <1>b DEF Idle
    <3>3. \A i : Selling(i) => i \in DOMAIN rows
      BY <3>2 DEF Selling
    <3> QED
      BY <3>1, <3>3
  <2>8. ASSUME NEW s \in Symbol PROVE Covered(s)'
    <3>1. Changed(Live(s), Live(s)', 0)
      BY <1>c, <2>1
    <3>2. CASE tick[t].row.protection = "NONE" /\ s = tick[t].sym
      <4>1. t \in Fresh(s) /\ Fresh(s)' \subseteq Fresh(s) \ {t}
        BY <2>1, <2>6, <3>2 DEF Fresh
      <4>2. Owed(s)' \subseteq Owed(s) \cup {n}
        BY <2>3, <2>7 DEF Owed
      <4>3. Changed(Owed(s), Owed(s)', 1) /\ Changed(Fresh(s), Fresh(s)', -1)
        BY <4>1, <4>2 DEF Changed
      <4>4. held'[s] >= held[s] + 0 + 1 + (-1)
        BY <1>b, <2>1
      <4> QED
        BY <1>a, <3>1, <4>3, <4>4, Balance
    <3>3. CASE tick[t].row.protection # "NONE" \/ s # tick[t].sym
      <4>1. Changed(Fresh(s), Fresh(s)', 0)
        BY <2>6 DEF Fresh, Changed
      <4>2. Owed(s)' \subseteq Owed(s)
        <5> SUFFICES ASSUME NEW i \in Owed(s)' PROVE i \in Owed(s)
          OBVIOUS
        <5>1. i # n
          BY <2>2, <2>3, <2>7, <3>3 DEF Owed
        <5> QED
          BY <2>3, <2>7, <5>1 DEF Owed
      <4>3. Changed(Owed(s), Owed(s)', 0)
        BY <4>2 DEF Changed
      <4>4. held'[s] >= held[s] + 0 + 0 + 0
        BY <1>b, <2>1
      <4> QED
        BY <1>a, <3>1, <4>1, <4>3, <4>4, Balance
    <3> QED
      BY <3>2, <3>3
  <2> QED
    BY <2>4, <2>5, <2>8
<1>6. ASSUME NEW e \in Exit, StartExit(e)
      PROVE  OneExit' /\ CancelsOpen' /\ \A s \in Symbol : Covered(s)'
  <2>1. UNCHANGED <<rows, guards, held, tick>>
    BY <1>6 DEF StartExit
  <2>2. PICK i \in Open :
       /\ exiting' = [exiting EXCEPT ![e] = [pc |-> "cancel", row |-> i]]
       /\ Happen(IF \E o \in Exit : exiting[o] # Idle /\ exiting[o].row = i THEN {"twice"} ELSE {})
    BY <1>6 DEF StartExit
  <2>3. \A o \in Exit : exiting[o] # Idle => exiting[o].row # i
    BY <2>2 DEF Happen, SellsUnsafe
  <2>4. exiting[e] = Idle /\ \A o \in Exit : exiting'[o] = IF o = e THEN [pc |-> "cancel", row |-> i] ELSE exiting[o]
    BY <1>6, <1>b, <2>2 DEF StartExit
  <2>5. OneExit'
    BY <1>a, <2>3, <2>4 DEF OneExit
  <2>6. CancelsOpen'
    BY <1>a, <2>1, <2>4 DEF CancelsOpen, Open
  <2>7. \A k : (Selling(k)' <=> Selling(k)) /\ (Gone(k)' <=> Gone(k))
    BY <2>4 DEF Selling, Gone, Idle
  <2>8. \A s : Changed(Owed(s), Owed(s)', 0)
    BY <2>1, <2>7 DEF Owed, Changed
  <2> QED
    BY <1>c, <1>d, <1>e, <2>1, <2>5, <2>6, <2>8
<1>7. ASSUME NEW e \in Exit, ExitCancel(e)
      PROVE  OneExit' /\ CancelsOpen' /\ \A s \in Symbol : Covered(s)'
  <2> DEFINE i == exiting[e].row
             g == rows[i].guard
  <2>1. /\ UNCHANGED <<rows, held, tick>> /\ exiting[e].pc = "cancel"
        /\ exiting' = [exiting EXCEPT ![e].pc = "sell"]
    BY <1>7 DEF ExitCancel
  <2>2. i \in DOMAIN rows
    BY <1>b, <2>1 DEF Idle
  <2>3. \/ (g = None \/ rows[i].protection = "NONE") /\ UNCHANGED guards
        \/ /\ ~ (g = None \/ rows[i].protection = "NONE")
           /\ guards[g].state = "active" /\ guards' = [guards EXCEPT ![g].state = "deleted"]
    BY <1>7 DEF ExitCancel, cancelProtection, Delete, Note, Happen, SellsUnsafe
  <2>4. Linked(guards, rows[i])
    BY <2>2 DEF Links
  <2>5. /\ \A o \in Exit : o # e => exiting'[o] = exiting[o]
        /\ exiting'[e].pc = "sell" /\ exiting'[e].row = i
    BY <1>b, <2>1 DEF Idle
  <2>6. OneExit' /\ CancelsOpen'
    <3>1. exiting[e] # Idle
      BY <2>1 DEF Idle
    <3>2. OneExit'
      BY <1>a, <2>5, <3>1 DEF OneExit
    <3>3. CancelsOpen'
      BY <1>a, <2>1, <2>5 DEF CancelsOpen
    <3> QED
      BY <3>2, <3>3
  <2>7. \A k : (Gone(k)' <=> Gone(k)) /\ (Selling(k)' <=> Selling(k) \/ k = i)
    BY <2>1, <2>5 DEF Selling, Gone
  <2>8. ~ Gone(i)
    <3>1. \A o \in Exit : exiting[o].pc = "close" => exiting[o] # Idle /\ exiting[e] # Idle /\ o # e
      BY <2>1 DEF Idle
    <3> QED
      BY <1>a, <3>1 DEF Gone, OneExit
  <2>9. ASSUME NEW s \in Symbol PROVE Covered(s)'
    <3>1. Changed(Fresh(s), Fresh(s)', 0)
      BY <1>d, <2>1
    <3>2. CASE (g = None \/ rows[i].protection = "NONE") /\ UNCHANGED guards
      <4>1. rows[i].protection = "NONE" /\ rows[i].status = "OPEN"
        BY <1>a, <2>1, <2>4, <3>2 DEF Linked, CancelsOpen
      <4>2. Changed(Owed(s), Owed(s)', 0)
        BY <2>1, <2>7, <2>8, <4>1 DEF Owed, Changed
      <4>3. held'[s] >= held[s] + 0 + 0 + 0
        BY <1>b, <2>1
      <4> QED
        BY <1>a, <1>c, <3>1, <3>2, <4>2, <4>3, Balance
    <3>3. CASE ~ (g = None \/ rows[i].protection = "NONE") /\ GuardGoes(g, "deleted")
      <4>1. guards[g].sym = rows[i].sym
        BY <2>4, <3>3 DEF Linked
      <4>2. CASE s = rows[i].sym
        <5>1. Changed(Live(s), Live(s)', -1)
          BY <3>3, <4>1, <4>2, LiveMoves
        <5>2. Owed(s)' \subseteq Owed(s) \cup {i}
          BY <2>1, <2>7 DEF Owed
        <5>3. Changed(Owed(s), Owed(s)', 1)
          BY <5>2 DEF Changed
        <5>4. held'[s] >= held[s] + (-1) + 1 + 0
          BY <1>b, <2>1
        <5> QED
          BY <1>a, <3>1, <5>1, <5>3, <5>4, Balance
      <4>3. CASE s # rows[i].sym
        <5>1. Changed(Live(s), Live(s)', 0)
          BY <3>3, LiveMoves
        <5>2. Changed(Owed(s), Owed(s)', 0)
          BY <2>1, <2>7, <4>3 DEF Owed, Changed
        <5>3. held'[s] >= held[s] + 0 + 0 + 0
          BY <1>b, <2>1
        <5> QED
          BY <1>a, <3>1, <5>1, <5>2, <5>3, Balance
      <4> QED
        BY <4>2, <4>3
    <3>4. guards[g].state = "active" /\ guards' = [guards EXCEPT ![g].state = "deleted"]
            /\ ~ (g = None \/ rows[i].protection = "NONE") => GuardGoes(g, "deleted")
      BY <2>4 DEF Linked, GuardGoes
    <3> QED
      BY <2>3, <3>2, <3>3, <3>4
  <2> QED
    BY <2>6, <2>9
<1>8. ASSUME NEW e \in Exit, ExitSell(e)
      PROVE  OneExit' /\ CancelsOpen' /\ \A s \in Symbol : Covered(s)'
  <2> DEFINE i == exiting[e].row
  <2>1. UNCHANGED <<rows, guards, tick>> /\ exiting[e].pc = "sell"
    BY <1>8 DEF ExitSell
  <2>2. PICK answered \in BOOLEAN, filled \in BOOLEAN :
       /\ held' = IF filled THEN [held EXCEPT ![rows[i].sym] = @ - 1] ELSE held
       /\ exiting' = [exiting EXCEPT ![e] = IF answered THEN [@ EXCEPT !.pc = "close"] ELSE Idle]
       /\ Happen(CASE filled /\ ~ answered -> {"failed"} [] answered /\ ~ filled -> {"unsold"} [] OTHER -> {})
    BY <1>8 DEF ExitSell
  <2>3. filled => answered
    BY <2>2 DEF Happen, SellsUnsafe
  <2>4. i \in DOMAIN rows /\ rows[i].sym \in Symbol /\ exiting[e] # Idle
    BY <1>b, <2>1 DEF Idle, Row
  <2>5. /\ \A o \in Exit : o # e => exiting'[o] = exiting[o]
        /\ answered => exiting'[e].pc = "close" /\ exiting'[e].row = i
        /\ ~ answered => exiting'[e] = Idle
    BY <1>b, <2>1, <2>2 DEF Idle
  <2>6. OneExit' /\ CancelsOpen'
    <3>1. OneExit'
      BY <1>a, <2>4, <2>5 DEF OneExit
    <3>2. CancelsOpen'
      BY <1>a, <2>1, <2>5 DEF CancelsOpen, Idle
    <3> QED
      BY <3>1, <3>2
  <2>7. /\ \A k : Selling(k)' => Selling(k) /\ k # i
        /\ \A k : Gone(k)' <=> Gone(k) \/ (answered /\ k = i)
    <3>1. \A o \in Exit : o # e /\ exiting[o] # Idle => exiting[o].row # i
      BY <1>a, <2>4 DEF OneExit
    <3>2. \A o \in Exit : exiting[o].pc = "sell" => exiting[o] # Idle
      BY DEF Idle
    <3>3. \A k : Selling(k)' => Selling(k) /\ k # i
      BY <2>1, <2>5, <3>1, <3>2 DEF Selling, Idle
    <3>4. \A k : Gone(k)' <=> Gone(k) \/ (answered /\ k = i)
      BY <2>1, <2>5 DEF Gone, Idle
    <3> QED
      BY <3>3, <3>4
  <2>8. Selling(i)
    BY <2>1 DEF Selling
  <2> HIDE DEF i
  <2>9. ASSUME NEW s \in Symbol PROVE Covered(s)'
    <3>1. Changed(Fresh(s), Fresh(s)', 0) /\ Changed(Live(s), Live(s)', 0)
      BY <1>c, <1>d, <2>1
    <3>2. CASE answered /\ s = rows[i].sym
      <4>1. i \in Owed(s) /\ Owed(s)' \subseteq Owed(s) \ {i}
        BY <2>1, <2>4, <2>7, <2>8, <3>2 DEF Owed
      <4>2. Changed(Owed(s), Owed(s)', -1)
        BY <4>1 DEF Changed
      <4>3. held'[s] >= held[s] + 0 + (-1) + 0
        BY <1>b, <2>2, <2>4, <3>2
      <4> QED
        BY <1>a, <3>1, <4>2, <4>3, Balance
    <3>3. CASE ~ (answered /\ s = rows[i].sym)
      <4>1. Changed(Owed(s), Owed(s)', 0)
        BY <2>1, <2>4, <2>7, <2>8, <3>3 DEF Owed, Changed
      <4>2. held'[s] >= held[s] + 0 + 0 + 0
        BY <1>b, <2>2, <2>3, <2>4, <3>3
      <4> QED
        BY <1>a, <3>1, <4>1, <4>2, Balance
    <3> QED
      BY <3>2, <3>3
  <2> QED
    BY <2>6, <2>9
<1>9. ASSUME NEW e \in Exit, ExitClose(e)
      PROVE  OneExit' /\ CancelsOpen' /\ \A s \in Symbol : Covered(s)'
  <2> DEFINE i == exiting[e].row
  <2>1. /\ UNCHANGED <<guards, held, tick>> /\ exiting[e].pc = "close"
        /\ rows' = [rows EXCEPT ![i].status = "CLOSED", ![i].protection = "NONE"]
        /\ exiting' = [exiting EXCEPT ![e] = Idle]
    BY <1>9 DEF ExitClose, Note, Happen, SellsUnsafe
  <2>2. i \in DOMAIN rows /\ exiting[e] # Idle
    BY <1>b, <2>1 DEF Idle
  <2>3. \A o \in Exit : exiting'[o] = IF o = e THEN Idle ELSE exiting[o]
    BY <1>b, <2>1
  <2>4. \A o \in Exit : o # e /\ exiting[o] # Idle => exiting[o].row # i
    BY <1>a, <2>2 DEF OneExit
  <2>5. /\ DOMAIN rows' = DOMAIN rows /\ \A k \in DOMAIN rows : k # i => rows'[k] = rows[k]
        /\ rows'[i].status = "CLOSED"
    BY <1>b, <2>1, <2>2 DEF Row
  <2> HIDE DEF i
  <2>6. OneExit'
    BY <1>a, <2>3 DEF OneExit
  <2>7. CancelsOpen'
    <3>1. ASSUME NEW o \in Exit, exiting'[o].pc = "cancel" PROVE rows'[exiting'[o].row] = rows[exiting[o].row] /\ exiting'[o] = exiting[o]
      <4>1. o # e /\ exiting'[o] = exiting[o] /\ exiting[o] # Idle
        BY <2>3, <3>1 DEF Idle
      <4>2. exiting[o].row \in DOMAIN rows
        BY <1>b, <4>1
      <4> QED
        BY <2>4, <2>5, <4>1, <4>2
    <3> QED
      BY <1>a, <3>1 DEF CancelsOpen
  <2>8. (\A k : Selling(k)' => Selling(k) /\ k # i) /\ \A k : k # i => (Gone(k)' <=> Gone(k))
    <3>1. \A k : Selling(k)' => Selling(k)
      BY <2>3 DEF Selling, Idle
    <3>2. \A k : k # i => (Gone(k)' <=> Gone(k))
      BY <2>3 DEF Gone, Idle, i
    <3>3. \A k : Selling(k)' => k # i
      <4>1. \A o \in Exit : exiting'[o].pc = "sell" => o # e /\ exiting'[o] = exiting[o] /\ exiting[o] # Idle
        BY <2>3 DEF Idle
      <4> QED
        BY <2>4, <4>1 DEF Selling
    <3> QED
      BY <3>1, <3>2, <3>3
  <2>9. \A s : Changed(Owed(s), Owed(s)', 0)
    BY <2>5, <2>8 DEF Owed, Changed
  <2> QED
    BY <1>c, <1>d, <1>e, <2>1, <2>6, <2>7, <2>9
<1>10. ASSUME NEW e \in Exit, KillExit(e)
       PROVE  OneExit' /\ CancelsOpen' /\ \A s \in Symbol : Covered(s)'
  BY <1>10 DEF KillExit, Note, Happen, SellsUnsafe
<1>11. CASE PanicHalt \/ SaveSettings \/ UNCHANGED vars
  <2>1. UNCHANGED <<rows, guards, held, tick, exiting>>
    BY <1>11 DEF PanicHalt, SaveSettings, vars
  <2> QED
    BY <1>a, <1>c, <1>d, <1>e, <2>1, ExitsStand
<1>12. CASE HaltRow
  <2>1. UNCHANGED <<held, tick, exiting>>
    BY <1>12 DEF HaltRow
  <2>2. PICK i \in halting :
          \/ /\ rows[i].guard # None /\ guards[rows[i].guard].state = "active" /\ Delete(rows[i].guard)
             /\ rows' = [rows EXCEPT ![i].protection = "NONE"]
          \/ UNCHANGED <<rows, guards>>
    <3>1. ~ Note("lost")
      BY DEF Note, Happen, SellsUnsafe
    <3> QED
      BY <1>12, <3>1 DEF HaltRow
  <2>3. i \in DOMAIN rows /\ Linked(guards, rows[i])
    BY DEF Links
  <2>4. CASE UNCHANGED <<rows, guards>>
    BY <1>a, <1>c, <1>d, <1>e, <2>1, <2>4, ExitsStand
  <2>5. CASE /\ rows[i].guard # None /\ guards[rows[i].guard].state = "active" /\ Delete(rows[i].guard)
             /\ rows' = [rows EXCEPT ![i].protection = "NONE"]
    <3>1. GuardGoes(rows[i].guard, "deleted") /\ guards[rows[i].guard].sym = rows[i].sym
      BY <2>3, <2>5 DEF Linked, Delete, GuardGoes
    <3>2. /\ DOMAIN rows' = DOMAIN rows /\ \A k \in DOMAIN rows : k # i => rows'[k] = rows[k]
          /\ rows'[i].status = rows[i].status /\ rows'[i].sym = rows[i].sym
      BY <1>b, <2>3, <2>5 DEF Row
    <3>3. rows[i].protection # "NONE" => rows[i].status = "OPEN"
      BY <1>b, <2>3, <2>5 DEF Links, Row
    <3>4. OneExit'
      BY <1>a, <2>1 DEF OneExit
    <3>5. CancelsOpen'
      <4>1. \A o \in Exit : exiting[o].pc = "cancel" => exiting[o].row \in DOMAIN rows
        BY <1>b DEF Idle
      <4> QED
        BY <1>a, <2>1, <3>2, <3>3, <4>1 DEF CancelsOpen
    <3>6. \A k : (Selling(k)' <=> Selling(k)) /\ (Gone(k)' <=> Gone(k))
      BY <2>1 DEF Selling, Gone
    <3>7. ASSUME NEW s \in Symbol PROVE Covered(s)'
      <4>1. Changed(Fresh(s), Fresh(s)', 0)
        BY <1>d, <2>1
      <4>2. CASE s = rows[i].sym
        <5>1. Changed(Live(s), Live(s)', -1)
          BY <3>1, <4>2, LiveMoves
        <5>2. Owed(s)' \subseteq Owed(s) \cup {i}
          BY <3>2, <3>6 DEF Owed
        <5>3. Changed(Owed(s), Owed(s)', 1)
          BY <5>2 DEF Changed
        <5>4. held'[s] >= held[s] + (-1) + 1 + 0
          BY <1>b, <2>1
        <5> QED
          BY <1>a, <4>1, <5>1, <5>3, <5>4, Balance
      <4>3. CASE s # rows[i].sym
        <5>1. Changed(Live(s), Live(s)', 0)
          BY <3>1, LiveMoves
        <5>2. Changed(Owed(s), Owed(s)', 0)
          BY <3>2, <3>6, <4>3 DEF Owed, Changed
        <5>3. held'[s] >= held[s] + 0 + 0 + 0
          BY <1>b, <2>1
        <5> QED
          BY <1>a, <4>1, <5>1, <5>2, <5>3, Balance
      <4> QED
        BY <4>2, <4>3
    <3> QED
      BY <3>4, <3>5, <3>7
  <2> QED
    BY <2>2, <2>4, <2>5
<1>13. ASSUME NEW g \in DOMAIN guards, GuardFires(g) \/ LimitEnds(g) \/ GuardEnds(g)
       PROVE  OneExit' /\ CancelsOpen' /\ \A s \in Symbol : Covered(s)'
  <2>1. UNCHANGED <<rows, tick, exiting>>
    BY <1>13 DEF GuardFires, LimitEnds, GuardEnds
  <2>2. OneExit' /\ CancelsOpen' /\ \A s : Changed(Owed(s), Owed(s)', 0)
    BY <1>a, <2>1, ExitsStand
  <2>3. guards[g].sym \in Symbol
    BY <1>b DEF Guard
  <2>4. \E x : /\ GuardGoes(g, x)
               /\ \/ UNCHANGED held
                  \/ x # "selling" /\ held' = [held EXCEPT ![guards[g].sym] = @ - 1]
    <3>1. CASE GuardFires(g) /\ guards[g].kind = "GTT"
      <4>1. GuardGoes(g, "selling") /\ UNCHANGED held
        BY <3>1 DEF GuardFires, GuardGoes
      <4> QED
        BY <4>1
    <3>2. CASE GuardFires(g) /\ guards[g].kind # "GTT"
      <4>1. GuardGoes(g, "sold") /\ held' = [held EXCEPT ![guards[g].sym] = @ - 1]
        BY <1>b, <2>3, <3>2 DEF GuardFires, GuardGoes, Trade
      <4> QED
        BY <4>1
    <3>3. CASE LimitEnds(g)
      <4>1. CASE guards' = [guards EXCEPT ![g].state = "sold"] /\ Trade(guards[g].sym, -1)
        <5>1. GuardGoes(g, "sold") /\ held' = [held EXCEPT ![guards[g].sym] = @ - 1]
          BY <1>b, <2>3, <3>3, <4>1 DEF LimitEnds, GuardGoes, Trade
        <5> QED
          BY <5>1
      <4>2. CASE guards' = [guards EXCEPT ![g].state = "lapsed"] /\ UNCHANGED held
        <5>1. GuardGoes(g, "lapsed")
          BY <3>3, <4>2 DEF LimitEnds, GuardGoes
        <5> QED
          BY <4>2, <5>1
      <4> QED
        BY <3>3, <4>1, <4>2 DEF LimitEnds
    <3>4. CASE GuardEnds(g)
      <4>1. GuardGoes(g, "lapsed") /\ UNCHANGED held
        BY <3>4 DEF GuardEnds, GuardGoes
      <4> QED
        BY <4>1
    <3> QED
      BY <1>13, <3>1, <3>2, <3>3, <3>4
  <2>5. ASSUME NEW s \in Symbol PROVE Covered(s)'
    <3>1. Changed(Fresh(s), Fresh(s)', 0)
      BY <1>d, <2>1
    <3>2. PICK x : /\ GuardGoes(g, x)
                   /\ \/ UNCHANGED held
                      \/ x # "selling" /\ held' = [held EXCEPT ![guards[g].sym] = @ - 1]
      BY <2>4
    <3>3. CASE held' = held \/ s # guards[g].sym
      <4>1. Changed(Live(s), Live(s)', 0)
        BY <3>2, LiveMoves
      <4>2. held'[s] >= held[s] + 0 + 0 + 0
        BY <1>b, <2>3, <3>2, <3>3
      <4> QED
        BY <1>a, <2>2, <3>1, <4>1, <4>2, Balance
    <3>4. CASE held' # held /\ s = guards[g].sym
      <4>1. Changed(Live(s), Live(s)', -1)
        BY <3>2, <3>4, LiveMoves
      <4>2. held'[s] >= held[s] + (-1) + 0 + 0
        BY <1>b, <2>3, <3>2, <3>4
      <4> QED
        BY <1>a, <2>2, <3>1, <4>1, <4>2, Balance
    <3> QED
      BY <3>3, <3>4
  <2> QED
    BY <2>2, <2>5
<1> QED
  BY <1>1, <1>2, <1>3, <1>4, <1>5, <1>6, <1>7, <1>8, <1>9, <1>10, <1>11, <1>12, <1>13 DEF Next

-----------------------------------------------------------------------------
(* No lot is bought twice *)

\* What is held moves at most as what is on sale and what is known.
LEMMA Books ==
  ASSUME Types, Types', Links, Links', NEW s \in Symbol, NEW a,
         held[s] <= Cardinality(OnSale(s)) + (IF Known(s) THEN 1 ELSE 0),
         Changed(OnSale(s)', OnSale(s), a),
         \/ held'[s] <= held[s] - a /\ (Known(s) => Known(s)')
         \/ held'[s] <= held[s] - a - 1
         \/ held'[s] <= held[s] - a + 1 /\ ~ Known(s) /\ Known(s)'
  PROVE  held'[s] <= Cardinality(OnSale(s)') + (IF Known(s)' THEN 1 ELSE 0)
<1>1. a \in Int /\ held[s] \in Int /\ held'[s] \in Int
  BY DEF Changed, Links
<1>2. IsFiniteSet(OnSale(s)) /\ IsFiniteSet(OnSale(s)')
  <2>1. DOMAIN guards' = 1 .. Len(guards') /\ Len(guards') \in Nat
    BY DEF Types
  <2>2. IsFiniteSet(DOMAIN guards')
    BY <2>1, FS_Interval
  <2>3. IsFiniteSet(OnSale(s)')
    BY <2>2, FS_Subset DEF OnSale
  <2> QED
    BY <2>3, PartsFinite
<1>3. /\ Cardinality(OnSale(s)) <= Cardinality(OnSale(s)') + a
      /\ Cardinality(OnSale(s)) \in Nat /\ Cardinality(OnSale(s)') \in Nat
  BY <1>2, ChangedCount, FS_CardinalityType
<1> DEFINE k == IF Known(s) THEN 1 ELSE 0
           l == IF Known(s)' THEN 1 ELSE 0
<1>4. k \in {0, 1} /\ l \in {0, 1} /\ (Known(s) <=> k = 1) /\ (Known(s)' <=> l = 1)
  OBVIOUS
<1>5. held[s] <= Cardinality(OnSale(s)) + k
  OBVIOUS
<1>6. \/ held'[s] <= held[s] - a /\ (k = 1 => l = 1)
      \/ held'[s] <= held[s] - a - 1
      \/ held'[s] <= held[s] - a + 1 /\ k = 0 /\ l = 1
  BY <1>4
<1> HIDE DEF k, l
<1>7. held'[s] <= Cardinality(OnSale(s)') + l
  BY <1>1, <1>3, <1>4, <1>5, <1>6
<1> QED
  BY <1>7 DEF l

\* A lot stays known as long as its row is open and its tick goes on.
LEMMA StillKnown ==
  ASSUME NEW s, Known(s),
         \A i \in Open : rows[i].sym = s /\ ~ Taken(guards, rows[i]) /\ ~ Gone(i) =>
           i \in Open' /\ rows'[i].sym = s /\ ~ Taken(guards', rows'[i]) /\ ~ Gone(i)',
         \A t \in Tick : tick'[t] = tick[t] \/ tick[t].pc \notin {"protect", "record"},
         \A t \in Tick : tick[t].pc = "record" /\ tick[t].sym = s /\ ~ Taken(guards, tick[t].row) =>
           ~ Taken(guards', tick[t].row)
  PROVE  Known(s)'
<1>1. ASSUME NEW i \in Open, rows[i].sym = s, ~ Taken(guards, rows[i]), ~ Gone(i) PROVE Known(s)'
  BY <1>1 DEF Known
<1>2. ASSUME NEW t \in Tick, tick[t].pc = "protect", tick[t].sym = s PROVE Known(s)'
  <2>1. tick'[t] = tick[t]
    BY <1>2
  <2> QED
    BY <1>2, <2>1 DEF Known
<1>3. ASSUME NEW t \in Tick, tick[t].pc = "record", tick[t].sym = s, ~ Taken(guards, tick[t].row) PROVE Known(s)'
  <2>1. tick'[t] = tick[t] /\ ~ Taken(guards', tick[t].row)
    BY <1>3
  <2> QED
    BY <1>3, <2>1 DEF Known
<1> QED
  BY <1>1, <1>2, <1>3 DEF Known

\* The lots on sale when no guard fires and none ends.
Waiting ==
  /\ DOMAIN guards \subseteq DOMAIN guards'
  /\ \A g \in DOMAIN guards :
       /\ guards'[g].sym = guards[g].sym
       /\ guards'[g].state = guards[g].state \/ (guards[g].state = "active" /\ guards'[g].state = "deleted")

LEMMA DeletedWaits ==
  ASSUME guards \in Seq(Guard), NEW g, GuardGoes(g, "deleted")
  PROVE  Waiting /\ DOMAIN guards' = DOMAIN guards
<1>1. /\ DOMAIN guards' = DOMAIN guards
      /\ guards'[g].state = "deleted" /\ guards'[g].sym = guards[g].sym
      /\ \A h \in DOMAIN guards : h # g => guards'[h] = guards[h]
  BY OneGuard
<1>2. guards[g].state = "active"
  BY DEF GuardGoes
<1> QED
  BY <1>1, <1>2 DEF Waiting

LEMMA WaitingKeeps ==
  ASSUME Waiting
  PROVE  /\ \A s : Changed(OnSale(s)', OnSale(s), 0)
         /\ \A r : Linked(guards, r) /\ ~ Taken(guards, r) => ~ Taken(guards', r)
<1>1. ASSUME NEW s PROVE OnSale(s) \subseteq OnSale(s)'
  BY DEF Waiting, OnSale
<1>2. ASSUME NEW r, Linked(guards, r), ~ Taken(guards, r) PROVE ~ Taken(guards', r)
  <2>1. CASE r.guard = None
    BY <2>1 DEF Taken
  <2>2. CASE r.guard # None
    <3>1. r.guard \in DOMAIN guards /\ guards[r.guard].state \notin {"selling", "sold"}
      BY <1>2, <2>2 DEF Linked, Taken
    <3>2. guards'[r.guard].state \notin {"selling", "sold"}
      BY <3>1 DEF Waiting
    <3> QED
      BY <3>2 DEF Taken
  <2> QED
    BY <2>1, <2>2
<1> QED
  BY <1>1, <1>2 DEF Changed

LEMMA HeldInitial == Init => HeldInv
<1> SUFFICES ASSUME Init PROVE HeldInv
  OBVIOUS
<1>1. \A g \in DOMAIN guards : guards[g].state # "lapsed"
  BY DEF Init
<1>2. ASSUME NEW s \in Symbol PROVE held[s] <= Cardinality(OnSale(s)) + (IF Known(s) THEN 1 ELSE 0)
  <2>1. OnSale(s) = {} /\ held[s] = 0 /\ ~ Known(s)
    BY DEF Init, OnSale, Known, Open, Idle
  <2> QED
    BY <2>1, FS_EmptySet
<1> QED
  BY <1>1, <1>2 DEF HeldInv

LEMMA HeldStep ==
  IInv /\ Types' /\ Links /\ Links' /\ HeldInv /\ [Next]_vars => HeldInv'
<1> SUFFICES ASSUME IInv, Types', Links, Links', HeldInv, [Next]_vars, mishap' \cap BuysUnsafe = {}
             PROVE  /\ \A g \in DOMAIN guards' : guards'[g].state # "lapsed"
                    /\ \A s \in Symbol : held'[s] <= Cardinality(OnSale(s)') + (IF Known(s)' THEN 1 ELSE 0)
  BY DEF HeldInv
<1> USE DEF program
<1>a. /\ mishap \subseteq mishap' /\ Types /\ Slots
      /\ \A g \in DOMAIN guards : guards[g].state # "lapsed"
      /\ \A s \in Symbol : held[s] <= Cardinality(OnSale(s)) + (IF Known(s) THEN 1 ELSE 0)
  BY MishapsStay DEF HeldInv, IInv, BuysUnsafe, SlotsUnsafe
<1>b. /\ \A i \in DOMAIN rows : rows[i] \in Row
      /\ \A g \in DOMAIN guards : guards[g] \in Guard
      /\ held \in [Symbol -> Int]
      /\ exiting \in [Exit -> {Idle} \cup [pc : {"cancel", "sell", "close"}, row : DOMAIN rows]]
      /\ DOMAIN tick = Tick
  BY <1>a DEF Types, Links
\* A step that sells nothing and forgets nothing.
<1>c. ASSUME Waiting, UNCHANGED held, NEW s \in Symbol, Known(s) => Known(s)'
      PROVE  held'[s] <= Cardinality(OnSale(s)') + (IF Known(s)' THEN 1 ELSE 0)
  <2>1. Changed(OnSale(s)', OnSale(s), 0)
    BY <1>c, WaitingKeeps
  <2>2. held'[s] <= held[s] - 0
    BY <1>b, <1>c
  <2> QED
    BY <1>a, <1>c, <2>1, <2>2, Books
<1>d. ASSUME Waiting, DOMAIN guards' = DOMAIN guards PROVE \A g \in DOMAIN guards' : guards'[g].state # "lapsed"
  BY <1>a, <1>d DEF Waiting
<1>e. UNCHANGED guards => Waiting
  BY DEF Waiting
<1>f. /\ \A i \in DOMAIN rows : Linked(guards, rows[i])
      /\ \A t \in Tick : tick[t].pc = "record" => Linked(guards, tick[t].row)
  BY DEF Links
<1>1. ASSUME NEW t \in Tick, StartTick(t) \/ ReadSlots(t) \/ EndTick(t)
      PROVE  /\ \A g \in DOMAIN guards' : guards'[g].state # "lapsed"
             /\ \A s \in Symbol : held'[s] <= Cardinality(OnSale(s)') + (IF Known(s)' THEN 1 ELSE 0)
  <2>1. UNCHANGED <<rows, guards, held, exiting>>
    BY <1>1 DEF StartTick, ReadSlots, EndTick
  <2>2. \A u \in Tick : tick'[u] = tick[u] \/ tick[u].pc \notin {"protect", "record"}
    BY <1>1, <1>b DEF StartTick, ReadSlots, EndTick, Idle
  <2>3. ASSUME NEW s \in Symbol, Known(s) PROVE Known(s)'
    BY <2>1, <2>2, <2>3, StillKnown DEF Gone, Open
  <2> QED
    BY <1>c, <1>d, <1>e, <2>1, <2>3
<1>2. ASSUME NEW t \in Tick, Reconcile(t)
      PROVE  /\ \A g \in DOMAIN guards' : guards'[g].state # "lapsed"
             /\ \A s \in Symbol : held'[s] <= Cardinality(OnSale(s)') + (IF Known(s)' THEN 1 ELSE 0)
  <2>1. /\ UNCHANGED <<guards, held, exiting>> /\ tick' = [tick EXCEPT ![t] = [pc |-> "slots"]]
        /\ tick[t].pc = "reconcile"
    BY <1>2, <1>a, Reconciles
  <2>2. /\ DOMAIN rows' = DOMAIN rows
        /\ \A i \in DOMAIN rows :
             rows'[i] = rows[i] \/ (Fired(t, i) /\ guards[rows[i].guard].state # "deleted")
    BY <1>2, <1>a, Reconciles DEF BuysUnsafe
  <2>3. ASSUME NEW i \in DOMAIN rows, Fired(t, i), guards[rows[i].guard].state # "deleted"
        PROVE  Taken(guards, rows[i])
    <3>1. rows[i].guard # None /\ rows[i].guard \in DOMAIN guards
      BY <1>f, <2>3 DEF Fired, Linked
    <3>2. CASE rows[i].guard \in tick[t].seen
      <4>1. guards[rows[i].guard].state \notin {"active", "deleted", "lapsed"}
        BY <1>a, <2>1, <2>3, <3>1, <3>2 DEF Links
      <4>2. guards[rows[i].guard].state \in State
        BY <1>b, <3>1 DEF Guard
      <4> QED
        BY <3>1, <4>1, <4>2 DEF Taken, State
    <3>3. CASE guards[rows[i].guard].state = "sold"
      BY <3>1, <3>3 DEF Taken
    <3> QED
      BY <2>3, <3>2, <3>3 DEF Fired
  <2>4. DOMAIN rows' = DOMAIN rows /\ \A i \in DOMAIN rows : ~ Taken(guards, rows[i]) => rows'[i] = rows[i]
    BY <2>2, <2>3
  <2>5. \A u \in Tick : tick'[u] = tick[u] \/ tick[u].pc \notin {"protect", "record"}
    BY <1>b, <2>1
  <2>6. ASSUME NEW s \in Symbol, Known(s) PROVE Known(s)'
    BY <2>1, <2>4, <2>5, <2>6, StillKnown DEF Gone, Open
  <2> QED
    BY <1>c, <1>d, <1>e, <2>1, <2>6
<1>3. ASSUME NEW t \in Tick, Buy(t)
      PROVE  /\ \A g \in DOMAIN guards' : guards'[g].state # "lapsed"
             /\ \A s \in Symbol : held'[s] <= Cardinality(OnSale(s)') + (IF Known(s)' THEN 1 ELSE 0)
  <2>1. UNCHANGED <<rows, guards, exiting>> /\ tick[t].pc = "pick"
    BY <1>3 DEF Buy
  <2>2. PICK b \in Symbol \ tick[t].skip, accepted \in BOOLEAN, filled \in BOOLEAN :
       /\ held' = IF filled THEN [held EXCEPT ![b] = @ + 1] ELSE held
       /\ tick' = [tick EXCEPT ![t] =
                     IF accepted THEN [pc |-> "protect", free |-> @.free, skip |-> @.skip \cup {b}, sym |-> b]
                     ELSE [pc |-> "pick", free |-> @.free, skip |-> @.skip \cup {b}]]
       /\ Happen(CASE accepted /\ ~ filled -> {"unbought"} [] ~ accepted /\ filled -> {"lost"} [] OTHER -> {})
    BY <1>3 DEF Buy, Ranked
  <2>3. filled => accepted
    BY <2>2 DEF Happen, BuysUnsafe
  <2>4. /\ \A u \in Tick : u # t => tick'[u] = tick[u]
        /\ accepted => tick'[t].pc = "protect" /\ tick'[t].sym = b
    BY <1>b, <2>2
  <2>5. ASSUME NEW s \in Symbol, Known(s) PROVE Known(s)'
    <3>1. \A u \in Tick : tick'[u] = tick[u] \/ tick[u].pc \notin {"protect", "record"}
      BY <2>1, <2>4
    <3> QED
      BY <2>1, <2>5, <3>1, StillKnown DEF Gone, Open
  <2>6. ~ Known(b)
    <3>1. b \notin OpenSymbols
      BY <1>a, <2>1, <2>2 DEF Slots, Room, Buying
    <3>2. \A u \in Tick : u # t => tick[u] = Idle
      BY <1>a, <2>1 DEF Slots, OneTick, Idle
    <3> QED
      BY <2>1, <3>1, <3>2 DEF Known, OpenSymbols, Idle
  <2>7. ASSUME NEW s \in Symbol
        PROVE  held'[s] <= Cardinality(OnSale(s)') + (IF Known(s)' THEN 1 ELSE 0)
    <3>1. Changed(OnSale(s)', OnSale(s), 0)
      BY <1>e, <2>1, WaitingKeeps
    <3>2. CASE filled /\ s = b
      <4>1. Known(s)'
        BY <2>3, <2>4, <3>2 DEF Known
      <4>2. held'[s] <= held[s] - 0 + 1
        BY <1>b, <2>2, <3>2
      <4> QED
        BY <1>a, <2>6, <3>1, <3>2, <4>1, <4>2, Books
    <3>3. CASE ~ (filled /\ s = b)
      <4>1. held'[s] <= held[s] - 0
        BY <1>b, <2>2, <3>3
      <4> QED
        BY <1>a, <2>5, <3>1, <4>1, Books
    <3> QED
      BY <3>2, <3>3
  <2> QED
    BY <1>d, <1>e, <2>1, <2>7
<1>4. ASSUME NEW t \in Tick, Protect(t)
      PROVE  /\ \A g \in DOMAIN guards' : guards'[g].state # "lapsed"
             /\ \A s \in Symbol : held'[s] <= Cardinality(OnSale(s)') + (IF Known(s)' THEN 1 ELSE 0)
  <2>1. UNCHANGED <<rows, held, exiting>> /\ tick[t].pc = "protect"
    BY <1>4, <1>a, Protects
  <2>2. PICK p \in {"GTT", "SL_ONLY", "NONE"}, n \in Nat \cup {None} : Protected(t, p, n)
    BY <1>4, <1>a, Protects
  <2>3. /\ tick'[t].pc = "record" /\ tick'[t].sym = tick[t].sym /\ tick'[t].row.guard = n
        /\ \A u \in Tick : u # t => tick'[u] = tick[u]
    BY <2>2 DEF Protected
  <2>4. IF p = "NONE" THEN n = None ELSE n \in DOMAIN guards' \ DOMAIN guards
    BY <2>2 DEF Protected
  <2>5. /\ DOMAIN guards \subseteq DOMAIN guards' /\ \A g \in DOMAIN guards : guards'[g] = guards[g]
        /\ \A g \in DOMAIN guards' \ DOMAIN guards : guards'[g].state = "active"
    BY <2>2 DEF Protected, Longer
  <2>6. Waiting /\ \A g \in DOMAIN guards' : guards'[g].state # "lapsed"
    BY <1>a, <2>5 DEF Waiting
  <2>7. ~ Taken(guards', tick'[t].row)
    BY <2>3, <2>4, <2>5 DEF Taken
  <2>8. ASSUME NEW s \in Symbol, Known(s) PROVE Known(s)'
    <3>1. CASE tick[t].sym = s
      BY <2>3, <2>7, <3>1 DEF Known
    <3>2. CASE tick[t].sym # s
      <4>1. ASSUME NEW i \in Open, rows[i].sym = s, ~ Taken(guards, rows[i]), ~ Gone(i) PROVE Known(s)'
        <5>1. ~ Taken(guards', rows[i])
          BY <1>f, <2>6, <4>1, WaitingKeeps DEF Open
        <5>2. i \in Open' /\ ~ Gone(i)'
          BY <2>1, <4>1 DEF Open, Gone
        <5> QED
          BY <2>1, <4>1, <5>1, <5>2 DEF Known
      <4>2. ASSUME NEW u \in Tick, u # t, tick[u].pc = "protect", tick[u].sym = s PROVE Known(s)'
        BY <2>3, <4>2 DEF Known
      <4>3. ASSUME NEW u \in Tick, u # t, tick[u].pc = "record", tick[u].sym = s, ~ Taken(guards, tick[u].row)
            PROVE  Known(s)'
        <5>1. ~ Taken(guards', tick[u].row)
          BY <1>f, <2>6, <4>3, WaitingKeeps
        <5> QED
          BY <2>3, <4>3, <5>1 DEF Known
      <4> QED
        BY <2>8, <3>2, <2>1, <4>1, <4>2, <4>3 DEF Known
    <3> QED
      BY <3>1, <3>2
  <2> QED
    BY <1>c, <2>1, <2>6, <2>8
<1>5. ASSUME NEW t \in Tick, Record(t)
      PROVE  /\ \A g \in DOMAIN guards' : guards'[g].state # "lapsed"
             /\ \A s \in Symbol : held'[s] <= Cardinality(OnSale(s)') + (IF Known(s)' THEN 1 ELSE 0)
  <2>1. /\ UNCHANGED <<guards, held, exiting>> /\ tick[t].pc = "record"
        /\ rows' = Append(rows, tick[t].row)
        /\ tick' = [tick EXCEPT ![t] = [pc |-> "pick", free |-> @.free - 1, skip |-> @.skip]]
    BY <1>5 DEF Record, Note, Happen, BuysUnsafe
  <2>2. /\ tick[t].row \in Row /\ tick[t].row.status = "OPEN" /\ tick[t].row.sym = tick[t].sym
        /\ rows \in Seq(Row)
    BY <1>a, <2>1 DEF Types, Memory
  <2>3. PICK n : /\ DOMAIN rows' = DOMAIN rows \cup {n} /\ n \notin DOMAIN rows
                 /\ \A i \in DOMAIN rows : rows'[i] = rows[i]
                 /\ rows'[n] = tick[t].row
    <3>1. /\ DOMAIN rows' = DOMAIN rows \cup {Len(rows) + 1} /\ Len(rows) + 1 \notin DOMAIN rows
          /\ \A i \in DOMAIN rows : rows'[i] = rows[i]
          /\ rows'[Len(rows) + 1] = tick[t].row
      BY <2>1, <2>2, AppendProperties
    <3> QED
      BY <3>1
  <2>4. \A i : (Gone(i)' <=> Gone(i)) /\ (Gone(i) => i \in DOMAIN rows)
    <3>1. \A e \in Exit : exiting[e].pc = "close" => exiting[e].row \in DOMAIN rows
      BY <1>b DEF Idle
    <3> QED
      BY <2>1, <3>1 DEF Gone
  <2>5. \A u \in Tick : u # t => tick'[u] = tick[u]
    BY <1>b, <2>1
  <2>6. ASSUME NEW s \in Symbol, Known(s) PROVE Known(s)'
    <3>1. ASSUME NEW i \in Open, rows[i].sym = s, ~ Taken(guards, rows[i]), ~ Gone(i) PROVE Known(s)'
      <4>1. i \in Open' /\ rows'[i] = rows[i] /\ ~ Gone(i)'
        BY <2>3, <2>4, <3>1 DEF Open
      <4> QED
        BY <2>1, <3>1, <4>1 DEF Known
    <3>2. ASSUME NEW u \in Tick, u # t, \/ tick[u].pc = "protect" /\ tick[u].sym = s
                                        \/ tick[u].pc = "record" /\ tick[u].sym = s /\ ~ Taken(guards, tick[u].row)
          PROVE  Known(s)'
      BY <2>1, <2>5, <3>2 DEF Known
    <3>3. ASSUME tick[t].sym = s, ~ Taken(guards, tick[t].row) PROVE Known(s)'
      <4>1. n \in Open' /\ rows'[n].sym = s /\ ~ Gone(n)' /\ ~ Taken(guards', rows'[n])
        BY <2>1, <2>2, <2>3, <2>4, <3>3 DEF Open
      <4> QED
        BY <4>1 DEF Known
    <3> QED
      BY <2>1, <2>6, <3>1, <3>2, <3>3 DEF Known
  <2> QED
    BY <1>c, <1>d, <1>e, <2>1, <2>6
<1>6. ASSUME NEW t \in Tick, KillTick(t)
      PROVE  /\ \A g \in DOMAIN guards' : guards'[g].state # "lapsed"
             /\ \A s \in Symbol : held'[s] <= Cardinality(OnSale(s)') + (IF Known(s)' THEN 1 ELSE 0)
  BY <1>6 DEF KillTick, Note, Happen, BuysUnsafe
<1>7. ASSUME NEW e \in Exit, KillExit(e)
      PROVE  /\ \A g \in DOMAIN guards' : guards'[g].state # "lapsed"
             /\ \A s \in Symbol : held'[s] <= Cardinality(OnSale(s)') + (IF Known(s)' THEN 1 ELSE 0)
  BY <1>7 DEF KillExit, Note, Happen, BuysUnsafe
\* A step that leaves the rows and the ticks, and has no exit sell.
<1>g. ASSUME Waiting, UNCHANGED <<rows, tick>>, \A i : Gone(i)' => Gone(i), NEW s \in Symbol, Known(s)
      PROVE  Known(s)'
  <2>1. \A i \in Open : ~ Taken(guards, rows[i]) => ~ Taken(guards', rows[i])
    BY <1>f, <1>g, WaitingKeeps DEF Open
  <2>2. \A u \in Tick : tick[u].pc = "record" /\ ~ Taken(guards, tick[u].row) => ~ Taken(guards', tick[u].row)
    BY <1>f, <1>g, WaitingKeeps
  <2>3. Open' = Open
    BY <1>g DEF Open
  <2> QED
    BY <1>g, <2>1, <2>2, <2>3, StillKnown
<1>8. ASSUME NEW e \in Exit, StartExit(e) \/ ExitCancel(e)
      PROVE  /\ \A g \in DOMAIN guards' : guards'[g].state # "lapsed"
             /\ \A s \in Symbol : held'[s] <= Cardinality(OnSale(s)') + (IF Known(s)' THEN 1 ELSE 0)
  <2>1. UNCHANGED <<rows, held, tick>>
    BY <1>8 DEF StartExit, ExitCancel
  <2>2. Waiting /\ DOMAIN guards' = DOMAIN guards
    <3>1. CASE StartExit(e)
      BY <3>1, <1>e DEF StartExit
    <3>2. CASE ExitCancel(e)
      <4>1. exiting[e].row \in DOMAIN rows
        BY <1>b, <3>2 DEF ExitCancel, Idle
      <4> DEFINE g == rows[exiting[e].row].guard
      <4>2. \/ UNCHANGED guards
            \/ /\ g # None /\ guards[g].state = "active" /\ guards' = [guards EXCEPT ![g].state = "deleted"]
        BY <3>2 DEF ExitCancel, cancelProtection, Delete
      <4>3. g # None => g \in DOMAIN guards
        BY <1>f, <4>1 DEF Linked
      <4> HIDE DEF g
      <4>4. CASE g # None /\ guards[g].state = "active" /\ guards' = [guards EXCEPT ![g].state = "deleted"]
        <5>1. GuardGoes(g, "deleted")
          BY <4>3, <4>4 DEF GuardGoes
        <5> QED
          BY <1>a, <5>1, DeletedWaits DEF Types
      <4> QED
        BY <1>e, <4>2, <4>4
    <3> QED
      BY <1>8, <3>1, <3>2
  <2>3. \A i : Gone(i)' => Gone(i)
    <3>1. \A o \in Exit : exiting'[o].pc = "close" => exiting'[o] = exiting[o]
      BY <1>8, <1>b DEF StartExit, ExitCancel, Idle
    <3> QED
      BY <3>1 DEF Gone
  <2> QED
    BY <1>c, <1>d, <1>g, <2>1, <2>2, <2>3
<1>9. ASSUME NEW e \in Exit, ExitSell(e)
      PROVE  /\ \A g \in DOMAIN guards' : guards'[g].state # "lapsed"
             /\ \A s \in Symbol : held'[s] <= Cardinality(OnSale(s)') + (IF Known(s)' THEN 1 ELSE 0)
  <2> DEFINE i == exiting[e].row
  <2>1. UNCHANGED <<rows, guards, tick>> /\ exiting[e].pc = "sell"
    BY <1>9 DEF ExitSell
  <2>2. PICK answered \in BOOLEAN, filled \in BOOLEAN :
       /\ held' = IF filled THEN [held EXCEPT ![rows[i].sym] = @ - 1] ELSE held
       /\ exiting' = [exiting EXCEPT ![e] = IF answered THEN [@ EXCEPT !.pc = "close"] ELSE Idle]
       /\ Happen(CASE filled /\ ~ answered -> {"failed"} [] answered /\ ~ filled -> {"unsold"} [] OTHER -> {})
    BY <1>9 DEF ExitSell
  <2>3. answered => filled
    BY <2>2 DEF Happen, BuysUnsafe
  <2>4. i \in DOMAIN rows /\ rows[i].sym \in Symbol
    BY <1>b, <2>1 DEF Idle, Row
  <2>5. \A k : Gone(k)' => Gone(k) \/ (answered /\ k = i)
    <3>1. \A o \in Exit : o # e => exiting'[o] = exiting[o]
      BY <1>b, <2>2
    <3>2. exiting'[e].pc = "close" => answered /\ exiting'[e].row = i
      BY <1>b, <2>1, <2>2 DEF Idle
    <3> QED
      BY <3>1, <3>2 DEF Gone
  <2> HIDE DEF i
  <2>6. ASSUME NEW s \in Symbol
        PROVE  held'[s] <= Cardinality(OnSale(s)') + (IF Known(s)' THEN 1 ELSE 0)
    <3>1. Changed(OnSale(s)', OnSale(s), 0)
      BY <1>e, <2>1, WaitingKeeps
    <3>2. CASE filled /\ s = rows[i].sym
      <4>1. held'[s] <= held[s] - 0 - 1
        BY <1>b, <2>2, <2>4, <3>2
      <4> QED
        BY <1>a, <3>1, <4>1, Books
    <3>3. CASE ~ (filled /\ s = rows[i].sym)
      <4>1. ASSUME Known(s) PROVE Known(s)'
        <5>1. Open' = Open
          BY <2>1 DEF Open
        <5>2. \A k \in Open : rows[k].sym = s /\ ~ Gone(k) => ~ Gone(k)'
          BY <2>3, <2>5, <3>3
        <5> QED
          BY <2>1, <4>1, <5>1, <5>2, StillKnown
      <4>2. held'[s] <= held[s] - 0
        BY <1>b, <2>2, <2>4, <3>3
      <4> QED
        BY <1>a, <3>1, <4>1, <4>2, Books
    <3> QED
      BY <3>2, <3>3
  <2> QED
    BY <1>d, <1>e, <2>1, <2>6
<1>10. ASSUME NEW e \in Exit, ExitClose(e)
       PROVE  /\ \A g \in DOMAIN guards' : guards'[g].state # "lapsed"
              /\ \A s \in Symbol : held'[s] <= Cardinality(OnSale(s)') + (IF Known(s)' THEN 1 ELSE 0)
  <2> DEFINE i == exiting[e].row
  <2>1. /\ UNCHANGED <<guards, held, tick>> /\ exiting[e].pc = "close"
        /\ rows' = [rows EXCEPT ![i].status = "CLOSED", ![i].protection = "NONE"]
        /\ exiting' = [exiting EXCEPT ![e] = Idle]
    BY <1>10 DEF ExitClose, Note, Happen, BuysUnsafe
  <2>2. i \in DOMAIN rows
    BY <1>b, <2>1 DEF Idle
  <2>3. Gone(i)
    BY <2>1 DEF Gone
  <2> HIDE DEF i
  <2>4. DOMAIN rows' = DOMAIN rows /\ \A k \in DOMAIN rows : k # i => rows'[k] = rows[k]
    BY <2>1
  <2>5. \A k : Gone(k)' => Gone(k)
    <3>1. \A o \in Exit : exiting'[o].pc = "close" => exiting'[o] = exiting[o]
      BY <1>b, <2>1 DEF Idle
    <3> QED
      BY <3>1 DEF Gone
  <2>6. ASSUME NEW s \in Symbol, Known(s) PROVE Known(s)'
    <3>1. \A k \in Open : ~ Gone(k) => k \in Open' /\ rows'[k] = rows[k] /\ ~ Gone(k)'
      BY <2>3, <2>4, <2>5 DEF Open
    <3> QED
      BY <2>1, <2>6, <3>1, StillKnown
  <2> QED
    BY <1>c, <1>d, <1>e, <2>1, <2>6
<1>11. CASE PanicHalt \/ SaveSettings \/ UNCHANGED vars
  <2>1. UNCHANGED <<rows, guards, held, tick, exiting>>
    BY <1>11 DEF PanicHalt, SaveSettings, vars
  <2>2. \A i : Gone(i)' => Gone(i)
    BY <2>1 DEF Gone
  <2> QED
    BY <1>c, <1>d, <1>e, <1>g, <2>1, <2>2
<1>12. CASE HaltRow
  <2>1. UNCHANGED <<held, tick, exiting>>
    BY <1>12 DEF HaltRow
  <2>2. PICK i \in halting :
          \/ /\ rows[i].guard # None /\ guards[rows[i].guard].state = "active" /\ Delete(rows[i].guard)
             /\ rows' = [rows EXCEPT ![i].protection = "NONE"]
          \/ UNCHANGED <<rows, guards>>
    <3>1. ~ Note("lost")
      BY DEF Note, Happen, BuysUnsafe
    <3> QED
      BY <1>12, <3>1 DEF HaltRow
  <2>3. i \in DOMAIN rows /\ Linked(guards, rows[i])
    BY DEF Links
  <2>4. /\ DOMAIN rows' = DOMAIN rows
        /\ \A k \in DOMAIN rows : /\ rows'[k].sym = rows[k].sym /\ rows'[k].status = rows[k].status
                                  /\ rows'[k].guard = rows[k].guard
    BY <1>b, <2>2, <2>3 DEF Row
  <2>5. Waiting /\ DOMAIN guards' = DOMAIN guards
    <3>1. CASE rows[i].guard # None /\ guards[rows[i].guard].state = "active" /\ Delete(rows[i].guard)
      <4>1. GuardGoes(rows[i].guard, "deleted")
        BY <2>3, <3>1 DEF Linked, Delete, GuardGoes
      <4> QED
        BY <1>a, <4>1, DeletedWaits DEF Types
    <3> QED
      BY <1>e, <2>2, <3>1
  <2>6. ASSUME NEW s \in Symbol, Known(s) PROVE Known(s)'
    <3>1. ASSUME NEW k \in Open, rows[k].sym = s, ~ Taken(guards, rows[k]), ~ Gone(k)
          PROVE  k \in Open' /\ rows'[k].sym = s /\ ~ Taken(guards', rows'[k]) /\ ~ Gone(k)'
      <4>1. ~ Taken(guards', rows[k])
        BY <1>f, <2>5, <3>1, WaitingKeeps DEF Open
      <4> QED
        BY <2>1, <2>4, <3>1, <4>1 DEF Open, Gone, Taken
    <3>2. \A u \in Tick : tick[u].pc = "record" /\ ~ Taken(guards, tick[u].row) => ~ Taken(guards', tick[u].row)
      BY <1>f, <2>5, WaitingKeeps
    <3> QED
      BY <2>1, <2>6, <3>1, <3>2, StillKnown
  <2> QED
    BY <1>c, <1>d, <2>1, <2>5, <2>6
<1>13. ASSUME NEW g \in DOMAIN guards, GuardFires(g) \/ LimitEnds(g) \/ GuardEnds(g)
       PROVE  /\ \A h \in DOMAIN guards' : guards'[h].state # "lapsed"
              /\ \A s \in Symbol : held'[s] <= Cardinality(OnSale(s)') + (IF Known(s)' THEN 1 ELSE 0)
  <2>1. UNCHANGED <<rows, tick, exiting>>
    BY <1>13 DEF GuardFires, LimitEnds, GuardEnds
  <2>2. guards[g].sym \in Symbol
    BY <1>b DEF Guard
  <2>3. PICK x : /\ GuardGoes(g, x) /\ x # "lapsed"
                 /\ \/ guards[g].state = "active" /\ x = "selling" /\ UNCHANGED held
                    \/ guards[g].state = "active" /\ x = "sold" /\ held' = [held EXCEPT ![guards[g].sym] = @ - 1]
                    \/ guards[g].state = "selling" /\ x = "sold" /\ held' = [held EXCEPT ![guards[g].sym] = @ - 1]
    <3>1. CASE GuardFires(g) /\ guards[g].kind = "GTT"
      <4>1. GuardGoes(g, "selling") /\ UNCHANGED held /\ guards[g].state = "active"
        BY <3>1 DEF GuardFires, GuardGoes
      <4> QED
        BY <4>1
    <3>2. CASE GuardFires(g) /\ guards[g].kind # "GTT"
      <4>1. GuardGoes(g, "sold") /\ held' = [held EXCEPT ![guards[g].sym] = @ - 1] /\ guards[g].state = "active"
        BY <1>b, <2>2, <3>2 DEF GuardFires, GuardGoes, Trade
      <4> QED
        BY <4>1
    <3>3. CASE LimitEnds(g)
      <4>1. guards' = [guards EXCEPT ![g].state = "sold"] /\ Trade(guards[g].sym, -1)
        BY <3>3 DEF LimitEnds, Note, Happen, BuysUnsafe
      <4>2. GuardGoes(g, "sold") /\ held' = [held EXCEPT ![guards[g].sym] = @ - 1] /\ guards[g].state = "selling"
        BY <1>b, <2>2, <3>3, <4>1 DEF LimitEnds, GuardGoes, Trade
      <4> QED
        BY <4>2
    <3>4. CASE GuardEnds(g)
      BY <3>4 DEF GuardEnds, Note, Happen, BuysUnsafe
    <3> QED
      BY <1>13, <3>1, <3>2, <3>3, <3>4
  <2>4. /\ DOMAIN guards' = DOMAIN guards
        /\ guards'[g].state = x /\ guards'[g].sym = guards[g].sym
        /\ \A h \in DOMAIN guards : h # g => guards'[h] = guards[h]
    BY <1>a, <2>3, OneGuard DEF Types
  <2>5. \A h \in DOMAIN guards' : guards'[h].state # "lapsed"
    BY <1>a, <2>3, <2>4
  <2>6. ASSUME NEW r, Linked(guards, r), ~ Taken(guards, r),
               r.sym # guards[g].sym \/ guards[g].state = "selling"
        PROVE  ~ Taken(guards', r)
    <3>1. CASE r.guard = None
      BY <3>1 DEF Taken
    <3>2. CASE r.guard # None
      <4>1. r.guard \in DOMAIN guards /\ guards[r.guard].sym = r.sym
        BY <2>6, <3>2 DEF Linked
      <4>2. r.guard # g
        BY <2>6, <3>2, <4>1 DEF Taken
      <4> QED
        BY <2>4, <2>6, <4>1, <4>2 DEF Taken
    <3> QED
      BY <3>1, <3>2
  <2>7. ASSUME NEW s \in Symbol, Known(s), s # guards[g].sym \/ guards[g].state = "selling" PROVE Known(s)'
    <3>1. \A k \in Open : rows[k].sym = s /\ ~ Taken(guards, rows[k]) => ~ Taken(guards', rows[k])
      BY <1>f, <2>6, <2>7 DEF Open
    <3>2. \A u \in Tick : tick[u].pc = "record" /\ tick[u].sym = s /\ ~ Taken(guards, tick[u].row) =>
            ~ Taken(guards', tick[u].row)
      <4>1. \A u \in Tick : tick[u].pc = "record" => tick[u].row.sym = tick[u].sym
        BY <1>a DEF Types, Memory
      <4> QED
        BY <1>f, <2>6, <2>7, <4>1
    <3> QED
      BY <2>1, <2>7, <3>1, <3>2, StillKnown DEF Open, Gone
  <2>8. ASSUME NEW s \in Symbol
        PROVE  held'[s] <= Cardinality(OnSale(s)') + (IF Known(s)' THEN 1 ELSE 0)
    <3>1. CASE s # guards[g].sym
      <4>1. Changed(OnSale(s)', OnSale(s), 0)
        BY <2>4, <3>1 DEF OnSale, Changed
      <4>2. held'[s] <= held[s] - 0
        BY <1>b, <2>2, <2>3, <3>1
      <4> QED
        BY <1>a, <2>7, <3>1, <4>1, <4>2, Books
    <3>2. CASE s = guards[g].sym /\ guards[g].state = "active" /\ x = "selling"
      <4>1. g \in OnSale(s)' /\ OnSale(s) \subseteq OnSale(s)' \ {g}
        BY <2>4, <3>2 DEF OnSale
      <4>2. Changed(OnSale(s)', OnSale(s), -1)
        BY <4>1 DEF Changed
      <4>3. held'[s] <= held[s] - (-1) - 1
        BY <1>b, <2>3, <3>2
      <4> QED
        BY <1>a, <4>2, <4>3, Books
    <3>3. CASE s = guards[g].sym /\ guards[g].state = "active" /\ x = "sold"
      <4>1. Changed(OnSale(s)', OnSale(s), 0)
        BY <2>4, <3>3 DEF OnSale, Changed
      <4>2. held'[s] <= held[s] - 0 - 1
        BY <1>b, <2>2, <2>3, <3>3
      <4> QED
        BY <1>a, <4>1, <4>2, Books
    <3>4. CASE s = guards[g].sym /\ guards[g].state = "selling" /\ x = "sold"
      <4>1. OnSale(s) \subseteq OnSale(s)' \cup {g}
        BY <2>4 DEF OnSale
      <4>2. Changed(OnSale(s)', OnSale(s), 1)
        BY <4>1 DEF Changed
      <4>3. held'[s] <= held[s] - 1
        BY <1>b, <2>2, <2>3, <3>4
      <4> QED
        BY <1>a, <2>7, <3>4, <4>2, <4>3, Books
    <3> QED
      BY <2>3, <3>1, <3>2, <3>3, <3>4
  <2> QED
    BY <2>5, <2>8
<1> QED
  BY <1>1, <1>2, <1>3, <1>4, <1>5, <1>6, <1>7, <1>8, <1>9, <1>10, <1>11, <1>12, <1>13 DEF Next

LEMMA LotsStep == IInv /\ LotInv /\ [Next]_vars => LotInv'
<1> SUFFICES ASSUME IInv, LotInv, [Next]_vars PROVE LotInv'
  OBVIOUS
<1>1. Types /\ Types'
  BY Step DEF IInv
<1>2. Links /\ Links'
  BY <1>1, LinksStep DEF LotInv
<1> QED
  BY <1>1, <1>2, SoldStep, HeldStep DEF LotInv

\* A stock is not bought while a lot of it is held that is not on sale already, whatever
\* guards are left behind by lost answers, unless the program no longer knew of that lot.
THEOREM HeldOnceHolds == Spec => []HeldOnce
<1>1. IInv /\ LotInv => HeldOnce
  <2> SUFFICES ASSUME IInv, LotInv, mishap \cap BuysUnsafe = {}, NEW s \in Symbol
               PROVE  held[s] - Cardinality(OnSale(s)) <= 1
    BY DEF HeldOnce, BuysUnsafe
  <2>1. held[s] <= Cardinality(OnSale(s)) + (IF Known(s) THEN 1 ELSE 0) /\ held[s] \in Int
    BY DEF LotInv, HeldInv, Links
  <2>2. Cardinality(OnSale(s)) \in Nat
    BY PartsFinite, FS_CardinalityType DEF IInv
  <2> QED
    BY <2>1, <2>2
<1>2. Init => IInv /\ LotInv
  BY Initial, LinksInitial, SoldInitial, HeldInitial DEF LotInv
<1> QED
  BY <1>1, <1>2, Step, LotsStep, PTL DEF Spec

\* No lot is sold twice, by its protection, by the exit from the UI or by both, unless the
\* answer of a protection was lost, the protection could not be cancelled, the exit was asked
\* for twice, was cut off or said it had failed, or the lot was never bought.
THEOREM SoldOnceHolds == Spec => []SoldOnce
<1>1. IInv /\ LotInv => SoldOnce
  <2> SUFFICES ASSUME IInv, LotInv, mishap \cap SellsUnsafe = {}, NEW s \in Symbol
               PROVE  held[s] >= 0
    BY DEF SoldOnce, SellsUnsafe
  <2>1. Covered(s) /\ held[s] \in Int
    BY DEF LotInv, SoldInv, Links
  <2>2. Cardinality(Live(s)) \in Nat /\ Cardinality(Owed(s)) \in Nat /\ Cardinality(Fresh(s)) \in Nat
    BY <2>1, PartsFinite, FS_CardinalityType DEF IInv, Covered
  <2> QED
    BY <2>1, <2>2 DEF Covered
<1>2. Init => IInv /\ LotInv
  BY Initial, LinksInitial, SoldInitial, HeldInitial DEF LotInv
<1> QED
  BY <1>1, <1>2, Step, LotsStep, PTL DEF Spec
=============================================================================
