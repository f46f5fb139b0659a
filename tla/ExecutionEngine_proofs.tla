------------------------- MODULE ExecutionEngine_proofs -------------------------
(***************************************************************************)
(* Theorems about ExecutionEngine, for every set of orders, every quantity  *)
(* and every bound, in three parts: the shares of an order are counted once; *)
(* the counts implement Booking; an order is FILLED only when the broker     *)
(* filled it, and never falls back.                                         *)
(***************************************************************************)
EXTENDS ExecutionEngine, FiniteSetTheorems, TLAPS

(* What the adapters and the OrderManager build is well-formed. *)
LEMMA SnapshotType ==
  ASSUME NEW b \in BrokerOrder
  PROVE  alpaca_order_to_domain(b) \in OrderRecord
BY DEF alpaca_order_to_domain, BrokerOrder, OrderRecord, order_status_from_alpaca,
       OrderStatus, OPEN_ORDER_STATUSES, TERMINAL_STATUSES

LEMMA MarkFilledType ==
  ASSUME NEW order \in OrderRecord, NEW f \in FillEvent
  PROVE  MarkFilled(order, f) \in OrderRecord
BY DEF MarkFilled, OrderRecord, FillEvent, NoQuantity,
       OrderStatus, OPEN_ORDER_STATUSES, TERMINAL_STATUSES

LEMMA FilledAtType ==
  ASSUME NEW b \in BrokerOrder
  PROVE  /\ FilledAt(b) \in Nat
         /\ FilledAt(b) \in {b.filled_at, b.updated_at}
BY DEF FilledAt, BrokerOrder

LEMMA FillDeltaType ==
  ASSUME TypeOK, NEW a \in Adapters, NEW o \in Orders
  PROVE  alpaca_order_to_fill_delta(o, broker[o], seen[a][o]) \subseteq FillEvent
<1>1. broker[o] \in BrokerOrder /\ seen[a][o] \in Nat
  BY DEF TypeOK
<1>2. broker[o].filled \in Nat /\ FilledAt(broker[o]) \in Nat
  BY <1>1, FilledAtType DEF BrokerOrder
<1>3. CASE broker[o].filled > seen[a][o]
  BY <1>1, <1>2, <1>3 DEF alpaca_order_to_fill_delta, FillEvent
<1>4. CASE ~(broker[o].filled > seen[a][o])
  BY <1>4 DEF alpaca_order_to_fill_delta
<1>5. QED
  BY <1>3, <1>4

(* A broker step keeps clock and broker well-formed and never turns time back. *)
LEMMA BrokerSetsType ==
  ASSUME TypeOK, NEW o \in Orders, NEW changed \in BrokerOrder, BrokerSets(o, changed)
  PROVE  /\ clock' \in Nat /\ clock <= clock'
         /\ broker' \in [Orders -> BrokerOrder]
         /\ broker'[o] = [changed EXCEPT !.updated_at = clock']
         /\ \A p \in Orders : p # o => broker'[p] = broker[p]
<1>1. clock \in Nat /\ clock' \in {clock, clock + 1}
  BY DEF TypeOK, BrokerSets
<1>2. clock' \in Nat /\ clock <= clock'
  BY <1>1
<1>3. [changed EXCEPT !.updated_at = clock'] \in BrokerOrder
  BY <1>2 DEF BrokerOrder
<1>4. QED
  BY <1>2, <1>3 DEF BrokerSets, TypeOK

(* What a broker may turn one of its orders into: it has executed no fewer
   shares, and dates new ones now or not at all; it is no longer unplaced. *)
BrokerMoves(o, changed) ==
  /\ changed \in BrokerOrder
  /\ broker[o].status \notin Closed
  /\ changed.status # "none"
  /\ broker[o].filled <= changed.filled
  /\ \/ /\ changed.filled = broker[o].filled
        /\ changed.filled_at = broker[o].filled_at
     \/ changed.filled_at \in {0, clock}
  /\ BrokerSets(o, changed)
  /\ UNCHANGED wireVars

(* What an acceptance and an execution write into the broker's order. *)
LEMMA AcceptsSets ==
  ASSUME NEW o \in Orders, NEW quantity, BrokerAccepts(o, quantity)
  PROVE  \E older \in Nat :
           BrokerSets(o, [broker[o] EXCEPT !.status = "accepted", !.quantity = quantity,
                                           !.older = older])
BY BrokerAssumption DEF BrokerAccepts

Executed(b, filled, status, filled_at) ==
  [b EXCEPT !.status = status, !.filled = filled, !.filled_at = filled_at]

Executes(o, filled, status, filled_at) ==
  BrokerSets(o, Executed(broker[o], filled, status, filled_at))

LEMMA ExecutedType ==
  ASSUME NEW b, NEW filled, NEW status, NEW filled_at,
         b \in BrokerOrder, filled \in Nat, status \in BrokerStatus, filled_at \in Nat
  PROVE  /\ Executed(b, filled, status, filled_at) \in BrokerOrder
         /\ Executed(b, filled, status, filled_at).status = status
         /\ Executed(b, filled, status, filled_at).filled = filled
         /\ Executed(b, filled, status, filled_at).filled_at = filled_at
         /\ Executed(b, filled, status, filled_at).quantity = b.quantity
<1> DEFINE c == [b EXCEPT !.status = status, !.filled = filled]
<1>1. c \in BrokerOrder /\ c.status = status /\ c.filled = filled /\ c.quantity = b.quantity
  BY DEF BrokerOrder
<1>2. Executed(b, filled, status, filled_at) = [c EXCEPT !.filled_at = filled_at]
  BY DEF Executed
<1> HIDE DEF c
<1>3. QED
  BY <1>1, <1>2 DEF BrokerOrder

LEMMA FillsSets ==
  ASSUME NEW o \in Orders, NEW n, BrokerFills(o, n)
  PROVE  \E status \in {"filled", "partially_filled", "pending_cancel"},
            filled_at \in {0, clock} :
           /\ Executes(o, broker[o].filled + n, status, filled_at)
           /\ status = "pending_cancel" => broker[o].status = "pending_cancel"
           /\ status = "filled" \/ broker[o].filled + n < Fillable(o)
<1>1. PICK filled_at \in {0, clock} :
        \/ BrokerSets(o, [broker[o] EXCEPT !.status = "filled",
                                           !.filled = broker[o].filled + n,
                                           !.filled_at = filled_at])
        \/ /\ broker[o].filled + n < Fillable(o)
           /\ BrokerSets(o, [broker[o] EXCEPT
                !.status = IF broker[o].status = "pending_cancel"
                           THEN "pending_cancel" ELSE "partially_filled",
                !.filled = broker[o].filled + n,
                !.filled_at = filled_at])
  BY DEF BrokerFills
<1>2. QED
  BY <1>1 DEF Executes, Executed

LEMMA SubmitMoves ==
  ASSUME TypeOK, NEW o \in Orders, NEW quantity \in Quantities, Submit(o, quantity)
  PROVE  \E changed : BrokerMoves(o, changed) /\ changed.filled = broker[o].filled
<1>0. PICK older \in Nat :
        BrokerSets(o, [broker[o] EXCEPT !.status = "accepted", !.quantity = quantity,
                                        !.older = older])
  BY AcceptsSets DEF Submit
<1> DEFINE changed == [broker[o] EXCEPT !.status = "accepted", !.quantity = quantity,
                                        !.older = older]
<1>1. broker[o] \in BrokerOrder /\ quantity \in Nat
  BY QuantityAssumption DEF TypeOK
<1>2. /\ changed \in BrokerOrder /\ changed.filled = broker[o].filled
      /\ changed.filled_at = broker[o].filled_at
      /\ changed.status = "accepted" /\ broker[o].filled \in Nat
  BY <1>1 DEF BrokerOrder, BrokerStatus, Working
<1>3. broker[o].status \notin Closed /\ BrokerSets(o, changed) /\ UNCHANGED wireVars
  BY <1>0 DEF Submit, BrokerAccepts, Closed
<1> HIDE DEF changed
<1>4. QED
  BY <1>2, <1>3 DEF BrokerMoves

LEMMA CancelMoves ==
  ASSUME TypeOK, NEW o \in Orders, CancelOrder(o)
  PROVE  \E changed : /\ BrokerMoves(o, changed)
                      /\ ~AsyncCancel => changed.status = "canceled"
<1> DEFINE changed == [broker[o] EXCEPT !.status = IF AsyncCancel THEN "pending_cancel"
                                                   ELSE "canceled"]
<1>1. broker[o] \in BrokerOrder
  BY DEF TypeOK
<1>2. /\ changed \in BrokerOrder /\ changed.filled = broker[o].filled
      /\ changed.filled_at = broker[o].filled_at
      /\ changed.status = IF AsyncCancel THEN "pending_cancel" ELSE "canceled"
      /\ broker[o].filled \in Nat
  BY <1>1 DEF BrokerOrder, BrokerStatus, Working, Closed
<1>3. broker[o].status \notin Closed /\ BrokerSets(o, changed) /\ UNCHANGED wireVars
  BY DEF CancelOrder, BrokerCancels, Working, Closed
<1> HIDE DEF changed
<1>4. QED
  BY <1>2, <1>3 DEF BrokerMoves

LEMMA BrokerStepMoves ==
  ASSUME TypeOK, NEW o \in Orders, BrokerStep(o)
  PROVE  (\E changed : BrokerMoves(o, changed)) /\ UNCHANGED <<engineVars, restarts>>
<1>1. broker[o] \in BrokerOrder /\ broker[o].filled \in Nat
  BY DEF TypeOK, BrokerOrder
<1>2. CASE BrokerAcknowledges(o)
  <2> DEFINE changed == [broker[o] EXCEPT !.status = "new"]
  <2>1. /\ changed \in BrokerOrder /\ changed.filled = broker[o].filled
        /\ changed.filled_at = broker[o].filled_at /\ changed.status = "new"
    BY <1>1 DEF BrokerOrder, BrokerStatus, Working
  <2>2. /\ broker[o].status \notin Closed /\ BrokerSets(o, changed)
        /\ UNCHANGED <<wireVars, engineVars, restarts>>
    BY <1>2 DEF BrokerStep, BrokerAcknowledges, Closed
  <2> HIDE DEF changed
  <2>3. QED
    BY <1>1, <2>1, <2>2 DEF BrokerMoves
<1>3. ASSUME NEW n \in 1..Fillable(o), BrokerFills(o, n)
      PROVE  (\E changed : BrokerMoves(o, changed)) /\ UNCHANGED <<engineVars, restarts>>
  <2> DEFINE filled == broker[o].filled + n
  <2>1. filled \in Nat /\ broker[o].filled <= filled /\ clock \in Nat
    BY <1>1 DEF TypeOK
  <2>2. PICK status \in BrokerStatus \ {"none"}, filled_at \in {0, clock} :
          Executes(o, filled, status, filled_at)
    <3>1. \E status \in {"filled", "partially_filled", "pending_cancel"},
             filled_at \in {0, clock} : Executes(o, filled, status, filled_at)
      BY <1>3, FillsSets, Zenon
    <3>2. QED
      BY <3>1 DEF BrokerStatus, Working, Closed
  <2> DEFINE changed == Executed(broker[o], filled, status, filled_at)
  <2>3. /\ changed \in BrokerOrder /\ changed.filled = filled /\ changed.status = status
        /\ changed.filled_at = filled_at
    <3> HIDE DEF filled
    <3> QED BY <1>1, <2>1, ExecutedType
  <2>4. /\ broker[o].status \notin Closed
        /\ UNCHANGED <<wireVars, engineVars, restarts>>
    BY <1>3 DEF BrokerStep, BrokerFills, Working, Closed
  <2> HIDE DEF changed, filled
  <2>5. QED
    BY <2>1, <2>2, <2>3, <2>4 DEF BrokerMoves, changed, Executes
<1>4. ASSUME NEW status \in Closed \ {"filled"}, BrokerEnds(o, status)
      PROVE  (\E changed : BrokerMoves(o, changed)) /\ UNCHANGED <<engineVars, restarts>>
  <2> DEFINE changed == [broker[o] EXCEPT !.status = status]
  <2>1. /\ changed \in BrokerOrder /\ changed.filled = broker[o].filled
        /\ changed.filled_at = broker[o].filled_at /\ changed.status # "none"
    BY <1>1 DEF BrokerOrder, BrokerStatus, Closed
  <2>2. /\ broker[o].status \notin Closed /\ BrokerSets(o, changed)
        /\ UNCHANGED <<wireVars, engineVars, restarts>>
    BY <1>4 DEF BrokerStep, BrokerEnds, Working, Closed
  <2> HIDE DEF changed
  <2>3. QED
    BY <1>1, <2>1, <2>2 DEF BrokerMoves
<1>5. QED
  BY <1>2, <1>3, <1>4 DEF BrokerStep, BrokerActs

LEMMA TypePreserved ==
  ASSUME TypeOK, [Next]_vars
  PROVE  TypeOK'
<1>1. ASSUME NEW o \in Orders, NEW quantity \in Quantities, Submit(o, quantity)
      PROVE  TypeOK'
  <2>1. clock' \in Nat /\ broker' \in [Orders -> BrokerOrder]
    BY <1>1, SubmitMoves, BrokerSetsType DEF BrokerMoves
  <2>2. alpaca_order_to_domain(broker'[o]) \in OrderRecord
    BY <2>1, SnapshotType
  <2>3. QED
    BY <1>1, <2>1, <2>2 DEF Submit, TypeOK, wireVars
<1>2. ASSUME NEW o \in Orders, CancelOrder(o)
      PROVE  TypeOK'
  <2>1. clock' \in Nat /\ broker' \in [Orders -> BrokerOrder]
    BY <1>2, CancelMoves, BrokerSetsType DEF BrokerMoves
  <2>2. alpaca_order_to_domain(broker'[o]) \in OrderRecord
    BY <2>1, SnapshotType
  <2>3. QED
    BY <1>2, <2>1, <2>2 DEF CancelOrder, TypeOK, wireVars
<1>3. ASSUME NEW o \in Orders, BrokerStep(o)
      PROVE  TypeOK'
  <2>1. /\ clock' \in Nat /\ broker' \in [Orders -> BrokerOrder]
        /\ UNCHANGED <<wireVars, engineVars, restarts>>
    BY <1>3, BrokerStepMoves, BrokerSetsType DEF BrokerMoves
  <2>2. QED
    BY <2>1 DEF TypeOK, wireVars, engineVars
<1>4. ASSUME NEW a \in Adapters, NEW o \in Orders, Observe(a, o)
      PROVE  TypeOK'
  <2>1. broker[o] \in BrokerOrder
    BY DEF TypeOK
  <2>2. UpdateOf(o) \in UpdateEvent
    BY <2>1, SnapshotType DEF UpdateOf, UpdateEvent
  <2>3. alpaca_order_to_fill_delta(o, broker[o], seen[a][o]) \subseteq FillEvent
    BY FillDeltaType
  <2>4. seen' \in [Adapters -> [Orders -> Nat]]
    BY <1>4, <2>1 DEF Observe, TypeOK, BrokerOrder
  <2>5. QED
    BY <1>4, <2>2, <2>3, <2>4 DEF Observe, TypeOK, brokerVars, engineVars
<1>5. ASSUME NEW u \in updates, OnOrderUpdate(u)
      PROVE  TypeOK'
  <2>1. u \in UpdateEvent /\ u.order \in Orders /\ u.snapshot \in OrderRecord
    BY DEF TypeOK, UpdateEvent
  <2>2. orders' \in [Orders -> OrderRecord \cup {NoOrder}]
    BY <1>5, <2>1 DEF OnOrderUpdate, ApplyOrderUpdate, TypeOK
  <2>3. QED
    BY <1>5, <2>1, <2>2 DEF OnOrderUpdate, TypeOK, brokerVars, wireVars
<1>6. ASSUME NEW f \in fills, OnFill(f)
      PROVE  TypeOK'
  <2>1. f \in FillEvent /\ f.order \in Orders /\ FillId(f) \in Orders \X (Nat \ {0})
    BY DEF TypeOK, FillEvent, FillId
  <2>2. orders[f.order] \in OrderRecord
    BY <1>6, <2>1 DEF OnFill, TypeOK
  <2>3. MarkFilled(orders[f.order], f) \in OrderRecord
    BY <2>1, <2>2, MarkFilledType
  <2>4. QED
    BY <1>6, <2>1, <2>3 DEF OnFill, TypeOK, brokerVars, wireVars
<1>7. CASE Restart
  BY <1>7 DEF Restart, TypeOK, brokerVars
<1>8. CASE UNCHANGED vars
  BY <1>8 DEF vars, brokerVars, wireVars, engineVars, TypeOK
<1>9. QED
  BY <1>1, <1>2, <1>3, <1>4, <1>5, <1>6, <1>7, <1>8 DEF Next

LEMMA TypeInit == Init => TypeOK
<1>1. NotPlaced \in BrokerOrder
  BY DEF NotPlaced, NoQuantity, BrokerOrder, BrokerStatus
<1>2. QED
  BY <1>1, BoundsAssumption DEF Init, BrokerInit, TypeOK

(* Every variable keeps its type: in particular mark_filled, the staleness
   rules and the fill deltas never produce a malformed order or a fill of no
   shares. *)
THEOREM TypeCorrect == Spec => []TypeOK
<1>1. Init => TypeOK
  BY TypeInit
<1>2. TypeOK /\ [Next]_vars => TypeOK'
  BY TypePreserved
<1>3. QED
  BY <1>1, <1>2, PTL DEF Spec
-----------------------------------------------------------------------------
(***************************************************************************)
(* No share is counted twice.                                               *)
(***************************************************************************)

(* What every step does to the broker's view of an order: executed shares and
   times only grow, new shares are dated after all that was there before, and a
   closed order stays as it is. *)
BrokerProgress(o) ==
  /\ clock <= clock'
  /\ broker[o].filled <= broker'[o].filled
  /\ broker[o].updated_at <= broker'[o].updated_at
  /\ broker'[o].updated_at <= clock'
  /\ FilledAt(broker'[o]) <= broker'[o].updated_at
  /\ \/ /\ broker'[o].filled = broker[o].filled
        /\ FilledAt(broker[o]) <= FilledAt(broker'[o])
     \/ broker[o].updated_at <= FilledAt(broker'[o])
  /\ broker'[o].status = "none" => broker'[o].filled = 0
  /\ broker[o].status \in Closed => broker'[o] = broker[o]

LEMMA TypeFacts ==
  ASSUME TypeOK, NEW o \in Orders
  PROVE  /\ clock \in Nat
         /\ broker[o] \in BrokerOrder
         /\ broker[o].filled \in Nat /\ broker[o].updated_at \in Nat
         /\ FilledAt(broker[o]) \in Nat
         /\ \A a \in Adapters : seen[a][o] \in Nat
         /\ Tracked(o) => /\ orders[o] \in OrderRecord
                          /\ orders[o].filled_quantity \in Nat
                          /\ orders[o].updated_at \in Nat
BY FilledAtType DEF TypeOK, BrokerOrder, OrderRecord, Tracked

LEMMA FillFacts ==
  ASSUME TypeOK, NEW f \in fills
  PROVE  /\ f.order \in Orders
         /\ f.cumulative \in Nat \ {0} /\ f.quantity \in Nat \ {0} /\ f.timestamp \in Nat
BY DEF TypeOK, FillEvent

LEMMA UpdateFacts ==
  ASSUME TypeOK, NEW u \in updates
  PROVE  /\ u.order \in Orders /\ u.snapshot \in OrderRecord
         /\ u.snapshot.filled_quantity \in Nat /\ u.snapshot.updated_at \in Nat
BY DEF TypeOK, UpdateEvent, OrderRecord

LEMMA BrokerMovesProgress ==
  ASSUME TypeOK, WireInv, NEW o \in Orders, NEW changed, BrokerMoves(o, changed)
  PROVE  /\ \A p \in Orders : BrokerProgress(p)
         /\ UNCHANGED wireVars
<1>1. /\ clock' \in Nat /\ clock <= clock'
      /\ broker'[o] = [changed EXCEPT !.updated_at = clock']
      /\ \A p \in Orders : p # o => broker'[p] = broker[p]
  BY BrokerSetsType DEF BrokerMoves
<1>2. BrokerProgress(o)
  <2>1. broker[o].updated_at <= clock /\ FilledAt(broker[o]) <= broker[o].updated_at
    BY DEF WireInv
  <2>2. /\ changed \in BrokerOrder /\ broker[o].status \notin Closed
        /\ changed.status # "none" /\ broker[o].filled <= changed.filled
        /\ \/ /\ changed.filled = broker[o].filled
              /\ changed.filled_at = broker[o].filled_at
           \/ changed.filled_at \in {0, clock}
    BY DEF BrokerMoves
  <2>3. /\ broker'[o].status = changed.status /\ broker'[o].filled = changed.filled
        /\ broker'[o].updated_at = clock' /\ broker'[o].filled_at = changed.filled_at
    BY <1>1, <2>2 DEF BrokerOrder
  <2>4. FilledAt(broker'[o]) = IF changed.filled_at = 0 THEN clock' ELSE changed.filled_at
    BY <2>3 DEF FilledAt
  <2>5. /\ FilledAt(broker'[o]) <= clock'
        /\ \/ /\ changed.filled = broker[o].filled
              /\ FilledAt(broker[o]) <= FilledAt(broker'[o])
           \/ broker[o].updated_at <= FilledAt(broker'[o])
    <3>1. CASE changed.filled_at \in {0, clock}
      BY <1>1, <2>1, <2>4, <3>1, TypeFacts
    <3>2. CASE /\ changed.filled = broker[o].filled
               /\ changed.filled_at = broker[o].filled_at
      BY <1>1, <2>1, <2>4, <3>2, TypeFacts DEF FilledAt
    <3>3. QED
      BY <2>2, <3>1, <3>2
  <2>6. QED
    BY <1>1, <2>1, <2>2, <2>3, <2>5, TypeFacts DEF BrokerProgress
<1>3. ASSUME NEW p \in Orders, p # o
      PROVE  BrokerProgress(p)
  <2>1. /\ broker[p].updated_at <= clock /\ FilledAt(broker[p]) <= broker[p].updated_at
        /\ broker[p].status = "none" => broker[p].filled = 0
    BY DEF WireInv
  <2>2. QED
    BY <1>1, <1>3, <2>1, TypeFacts DEF BrokerProgress
<1>4. QED
  BY <1>2, <1>3 DEF BrokerMoves

LEMMA BrokerFrozenProgress ==
  ASSUME TypeOK, WireInv, UNCHANGED brokerVars
  PROVE  \A p \in Orders : BrokerProgress(p)
<1> TAKE p \in Orders
<1>1. /\ broker[p].updated_at <= clock /\ FilledAt(broker[p]) <= broker[p].updated_at
      /\ broker[p].status = "none" => broker[p].filled = 0
  BY DEF WireInv
<1>2. QED
  BY <1>1, TypeFacts DEF brokerVars, BrokerProgress

(* The three kinds of step in which the broker moves. *)
SubmitsAny(o) == \E quantity \in Quantities : Submit(o, quantity)

LEMMA BrokerStepProgress ==
  ASSUME TypeOK, WireInv, NEW o \in Orders, SubmitsAny(o) \/ CancelOrder(o) \/ BrokerStep(o)
  PROVE  /\ \A p \in Orders : BrokerProgress(p)
         /\ UNCHANGED wireVars
<1>1. \E changed : BrokerMoves(o, changed)
  BY SubmitMoves, CancelMoves, BrokerStepMoves DEF SubmitsAny
<1>2. QED
  BY <1>1, BrokerMovesProgress

-----------------------------------------------------------------------------
(* An adapter that looks again cuts a new piece, behind all those before. *)
LEMMA ObserveKeepsWire ==
  ASSUME NEW a, Adapters = {a}, TypeOK, WireInv, NEW o \in Orders, Observe(a, o)
  PROVE  WireInv'
<1> DEFINE delta == alpaca_order_to_fill_delta(o, broker[o], seen[a][o])
           new   == UpdateOf(o)
<1>1. /\ UNCHANGED brokerVars
      /\ updates' = updates \cup {new} /\ fills' = fills \cup delta
      /\ seen'[a][o] = broker[o].filled
      /\ \A p \in Orders : p # o => seen'[a][p] = seen[a][p]
  BY DEF Observe, TypeOK
<1>2. /\ seen[a][o] \in Nat /\ broker[o].filled \in Nat /\ broker[o].updated_at \in Nat
      /\ seen[a][o] <= broker[o].filled
      /\ FilledAt(broker[o]) \in Nat /\ FilledAt(broker[o]) <= broker[o].updated_at
  BY TypeFacts DEF WireInv
<1>3. ASSUME NEW f \in delta
      PROVE  /\ f.order = o /\ f.cumulative = broker[o].filled
             /\ f.quantity = broker[o].filled - seen[a][o] /\ seen[a][o] < broker[o].filled
             /\ f.timestamp = FilledAt(broker[o])
             /\ \A g \in delta : g = f
  BY DEF alpaca_order_to_fill_delta
<1>4. /\ new.order = o /\ new.snapshot.filled_quantity = broker[o].filled
      /\ new.snapshot.updated_at = broker[o].updated_at
  BY DEF UpdateOf, alpaca_order_to_domain
<1>5. ASSUME NEW f \in fills
      PROVE  /\ f.order \in Orders
             /\ f.cumulative \in Nat /\ f.quantity \in Nat /\ f.timestamp \in Nat
             /\ f.cumulative <= seen[a][f.order] /\ f.quantity <= f.cumulative
             /\ f.timestamp <= broker[f.order].updated_at
  BY FillFacts DEF WireInv
<1>6. ASSUME NEW u \in updates
      PROVE  /\ u.order \in Orders
             /\ u.snapshot.filled_quantity \in Nat /\ u.snapshot.updated_at \in Nat
             /\ u.snapshot.filled_quantity <= seen[a][u.order]
             /\ u.snapshot.updated_at <= broker[u.order].updated_at
             /\ u.snapshot.filled_quantity < broker[u.order].filled
                  => u.snapshot.updated_at <= FilledAt(broker[u.order])
  BY UpdateFacts DEF WireInv
<1> HIDE DEF delta, new
<1>7. \A p \in Orders : /\ FilledAt(broker'[p]) <= broker'[p].updated_at
                        /\ broker'[p].updated_at <= clock'
                        /\ broker'[p].status = "none" => broker'[p].filled = 0
  BY <1>1 DEF brokerVars, WireInv
<1>8. \A p \in Orders : seen'[a][p] <= broker'[p].filled
  BY <1>1, <1>2 DEF brokerVars, WireInv
<1>9. ASSUME NEW f \in fills'
      PROVE  /\ f.cumulative <= seen'[a][f.order]
             /\ f.quantity <= f.cumulative
             /\ f.timestamp <= broker'[f.order].updated_at
  <2>1. CASE f \in fills
    BY <1>1, <1>2, <1>5, <2>1, TypeFacts DEF brokerVars
  <2>2. CASE f \in delta
    BY <1>1, <1>2, <1>3, <2>2 DEF brokerVars
  <2>3. QED
    BY <1>1, <2>1, <2>2
<1>10. ASSUME NEW f \in fills', NEW g \in fills', f.order = g.order, f # g
       PROVE  \/ f.cumulative <= g.cumulative - g.quantity
              \/ g.cumulative <= f.cumulative - f.quantity
  <2>1. CASE f \in fills /\ g \in fills
    BY <1>10, <2>1 DEF WireInv
  <2>2. CASE f \in fills /\ g \in delta
    BY <1>10, <1>2, <1>3, <1>5, <2>2
  <2>3. CASE f \in delta /\ g \in fills
    BY <1>10, <1>2, <1>3, <1>5, <2>3
  <2>4. CASE f \in delta /\ g \in delta
    BY <1>10, <1>3, <2>4
  <2>5. QED
    BY <1>1, <2>1, <2>2, <2>3, <2>4
<1>11. ASSUME NEW u \in updates'
       PROVE  /\ u.snapshot.filled_quantity <= seen'[a][u.order]
              /\ u.snapshot.updated_at <= broker'[u.order].updated_at
              /\ u.snapshot.filled_quantity < broker'[u.order].filled
                   => u.snapshot.updated_at <= FilledAt(broker'[u.order])
  <2>1. CASE u \in updates
    BY <1>1, <1>2, <1>6, <2>1, TypeFacts DEF brokerVars
  <2>2. CASE u = new
    BY <1>1, <1>2, <1>4, <2>2 DEF brokerVars
  <2>3. QED
    BY <1>1, <2>1, <2>2
<1>12. ASSUME NEW u \in updates', NEW f \in fills', u.order = f.order
       PROVE  IF f.cumulative <= u.snapshot.filled_quantity
              THEN f.timestamp <= u.snapshot.updated_at
              ELSE /\ u.snapshot.filled_quantity <= f.cumulative - f.quantity
                   /\ u.snapshot.updated_at <= f.timestamp
  <2>1. CASE u \in updates /\ f \in fills
    BY <1>12, <2>1 DEF WireInv
  <2>2. CASE u \in updates /\ f \in delta
    BY <1>12, <1>2, <1>3, <1>6, <2>2
  <2>3. CASE u = new /\ f \in fills
    BY <1>12, <1>2, <1>4, <1>5, <2>3
  <2>4. CASE u = new /\ f \in delta
    BY <1>2, <1>3, <1>4, <2>4
  <2>5. QED
    BY <1>1, <2>1, <2>2, <2>3, <2>4
<1>13. QED
  BY <1>7, <1>8, <1>9, <1>10, <1>11, <1>12 DEF WireInv

LEMMA NextKeepsWire ==
  ASSUME NEW a, Adapters = {a}, TypeOK, WireInv, [Next]_vars
  PROVE  WireInv'
<1>1. ASSUME NEW o \in Orders, SubmitsAny(o) \/ CancelOrder(o) \/ BrokerStep(o)
      PROVE  WireInv'
  <2>1. (\A p \in Orders : BrokerProgress(p)) /\ UNCHANGED <<seen, updates, fills>>
    BY <1>1, BrokerStepProgress DEF wireVars
  <2>2. \A p \in Orders : /\ broker'[p].filled \in Nat /\ broker'[p].updated_at \in Nat
                          /\ broker[p].filled \in Nat /\ broker[p].updated_at \in Nat
                          /\ FilledAt(broker[p]) \in Nat /\ FilledAt(broker'[p]) \in Nat
    <3>1. TypeOK'
      BY TypePreserved
    <3>2. QED
      BY <3>1, FilledAtType DEF TypeOK, BrokerOrder
  <2>3. QED
    BY <2>1, <2>2, TypeFacts, FillFacts, UpdateFacts DEF WireInv, BrokerProgress
<1>2. ASSUME NEW o \in Orders, Observe(a, o)
      PROVE  WireInv'
  BY <1>2, ObserveKeepsWire
<1>3. CASE \/ \E u \in updates : OnOrderUpdate(u)
           \/ \E f \in fills : OnFill(f)
           \/ UNCHANGED vars
  <2>1. UNCHANGED <<clock, broker, seen, updates, fills>>
    BY <1>3 DEF OnOrderUpdate, OnFill, vars, brokerVars, wireVars
  <2>2. QED
    BY <2>1 DEF WireInv
<1>4. CASE Restart
  BY <1>4, TypeFacts DEF Restart, brokerVars, WireInv
<1>5. QED
  BY <1>1, <1>2, <1>3, <1>4 DEF Next, SubmitsAny
-----------------------------------------------------------------------------
LEMMA PrefixCardinality ==
  ASSUME NEW n \in Nat
  PROVE  IsFiniteSet(1..n) /\ Cardinality(1..n) = n
BY FS_Interval

(* A tracked order that is a snapshot taken between two pieces has counted the
   snapshot's shares and nothing else. *)
LEMMA SnapshotCounts ==
  ASSUME NEW a, Adapters = {a}, TypeOK', NEW o \in Orders,
         orders'[o] # NoOrder,
         NEW filled \in Nat, orders'[o].filled_quantity = filled,
         NEW taken \in 0..clock', orders'[o].updated_at = taken,
         filled <= broker'[o].filled,
         taken <= broker'[o].updated_at,
         filled < broker'[o].filled => taken <= FilledAt(broker'[o]),
         \A f \in fills' :
           f.order = o => IF f.cumulative <= filled
                          THEN f.timestamp <= taken
                          ELSE /\ filled <= f.cumulative - f.quantity
                               /\ taken <= f.timestamp,
         \/ filled <= seen'[a][o]
         \/ /\ broker'[o].status \in Closed
            /\ filled = broker'[o].filled
            /\ taken = broker'[o].updated_at
  PROVE  Counted(o)'
<1> DEFINE C == 1..filled
<1>1. broker'[o].filled \in Nat /\ seen'[a][o] \in Nat
  BY DEF TypeOK, BrokerOrder
<1>2. C \in SUBSET (1..broker'[o].filled) /\ filled \in 0..broker'[o].filled
  BY <1>1
<1>3. Cardinality(C) = orders'[o].filled_quantity
  BY PrefixCardinality
<1>4. ASSUME NEW f \in fills', f.order = o
      PROVE  /\ f.cumulative > filled => f.timestamp >= taken
             /\ Shares(f) \cap C = {} \/ (f.cumulative <= filled /\ f.timestamp <= taken)
  <2>1. f.cumulative \in Nat /\ f.quantity \in Nat /\ f.timestamp \in Nat
    BY DEF TypeOK, FillEvent
  <2>2. CASE f.cumulative <= filled
    BY <1>4, <2>1, <2>2
  <2>3. CASE ~(f.cumulative <= filled)
    BY <1>4, <2>1, <2>3 DEF Shares
  <2>4. QED
    BY <2>2, <2>3
<1>5. C \subseteq 1..seen'[a][o] \/ ~(filled <= seen'[a][o])
  BY <1>1
<1>6. Counts(o, C, filled, taken)'
  <2>1. taken <= orders'[o].updated_at /\ orders'[o].updated_at <= broker'[o].updated_at
    BY DEF TypeOK, BrokerOrder
  <2>2. \A b \in Adapters :
          \/ C \subseteq 1..seen'[b][o]
          \/ /\ broker'[o].status \in Closed
             /\ filled = broker'[o].filled
             /\ taken = broker'[o].updated_at
    BY <1>5
  <2> HIDE DEF C
  <2>3. 1..filled \subseteq C
    BY DEF C
  <2>4. QED
    BY <1>3, <1>4, <2>1, <2>2, <2>3 DEF Counts
<1>7. QED
  BY <1>2, <1>6 DEF Counted

(* A step that leaves the tracked order and its pending fills alone. *)
LEMMA CountedKept ==
  ASSUME NEW a, Adapters = {a}, TypeOK, TypeOK', NEW o \in Orders, Counted(o),
         BrokerProgress(o),
         orders'[o] = orders[o],
         processed_fill_ids \subseteq processed_fill_ids',
         \A f \in fills' : f.order = o => f \in fills,
         seen'[a][o] = seen[a][o]
  PROVE  Counted(o)'
<1> SUFFICES ASSUME orders[o] # NoOrder
             PROVE  \E C \in SUBSET (1..broker'[o].filled), base \in 0..broker'[o].filled,
                       taken \in 0..clock' : Counts(o, C, base, taken)'
  BY DEF Counted, Tracked
<1>1. PICK C \in SUBSET (1..broker[o].filled), base \in 0..broker[o].filled, taken \in 0..clock :
        Counts(o, C, base, taken)
  BY DEF Counted, Tracked
<1>2. /\ clock \in Nat /\ clock' \in Nat
      /\ broker[o].filled \in Nat /\ broker'[o].filled \in Nat
      /\ broker[o].updated_at \in Nat /\ broker'[o].updated_at \in Nat
      /\ FilledAt(broker[o]) \in Nat /\ FilledAt(broker'[o]) \in Nat
      /\ orders[o].updated_at \in Nat
  BY FilledAtType DEF TypeOK, BrokerOrder, OrderRecord
<1>3. /\ C \in SUBSET (1..broker'[o].filled)
      /\ base \in 0..broker'[o].filled
      /\ taken \in 0..clock'
  BY <1>2 DEF BrokerProgress
<1>4. Counts(o, C, base, taken)'
  <2>1. /\ Cardinality(C) = orders'[o].filled_quantity
        /\ 1..base \subseteq C
        /\ taken <= orders'[o].updated_at
    BY <1>1 DEF Counts
  <2>2. /\ orders'[o].updated_at <= broker'[o].updated_at
        /\ base < broker'[o].filled => taken <= FilledAt(broker'[o])
    BY <1>1, <1>2 DEF Counts, BrokerProgress
  <2>3. ASSUME NEW f \in fills', f.order = o
        PROVE  /\ f.cumulative > base => f.timestamp >= taken
               /\ FillId(f) \notin processed_fill_ids' =>
                    \/ Shares(f) \cap C = {}
                    \/ f.cumulative <= base /\ f.timestamp <= taken
    BY <1>1, <2>3 DEF Counts
  <2>4. ASSUME NEW b \in Adapters
        PROVE  \/ C \subseteq 1..seen'[b][o]
               \/ /\ broker'[o].status \in Closed
                  /\ base = broker'[o].filled
                  /\ taken = broker'[o].updated_at
    <3>1. b = a
      OBVIOUS
    <3>2. QED
      BY <1>1, <3>1 DEF Counts, BrokerProgress
  <2>5. QED
    BY <2>1, <2>2, <2>3, <2>4 DEF Counts
<1>5. QED
  BY <1>3, <1>4
-----------------------------------------------------------------------------
(* Adding a piece to a disjoint set of shares adds its size. *)
LEMMA AddPiece ==
  ASSUME NEW n \in Nat, NEW C \in SUBSET (1..n),
         NEW c \in Nat, NEW q \in Nat, q <= c,
         ((c - q + 1)..c) \cap C = {}
  PROVE  Cardinality(C \cup ((c - q + 1)..c)) = Cardinality(C) + q
<1> DEFINE D == (c - q + 1)..c
<1>1. IsFiniteSet(C)
  BY PrefixCardinality, FS_Subset
<1>2. IsFiniteSet(D) /\ Cardinality(D) = q
  BY FS_Interval
<1>3. /\ IsFiniteSet(C \cup D)
      /\ Cardinality(C \cup D) = Cardinality(C) + Cardinality(D) - Cardinality(C \cap D)
  <2> HIDE DEF D
  <2> QED BY <1>1, <1>2, FS_Union
<1>4. Cardinality(C \cap D) = 0
  BY FS_EmptySet
<1>5. Cardinality(C) \in Nat
  BY <1>1, FS_CardinalityType
<1>6. QED
  BY <1>2, <1>3, <1>4, <1>5

(* on_fill: the fill is skipped, or its shares are new. *)
LEMMA OnFillCounts ==
  ASSUME NEW a, Adapters = {a}, TypeOK, TypeOK', WireInv,
         NEW f \in fills, OnFill(f), Counted(f.order)
  PROVE  Counted(f.order)'
<1> DEFINE o == f.order
<1>1. /\ o \in Orders
      /\ f.cumulative \in Nat \ {0} /\ f.quantity \in Nat \ {0} /\ f.timestamp \in Nat
      /\ f.quantity <= f.cumulative /\ f.cumulative <= seen[a][o]
      /\ f.timestamp <= broker[o].updated_at
      /\ seen[a][o] <= broker[o].filled
  BY FillFacts DEF WireInv
<1>2. /\ orders[o] # NoOrder /\ FillId(f) \notin processed_fill_ids
      /\ orders' = [orders EXCEPT ![o] = MarkFilled(orders[o], f)]
      /\ processed_fill_ids' = processed_fill_ids \cup {FillId(f)}
      /\ UNCHANGED <<clock, broker, seen, updates, fills>>
  BY DEF OnFill, brokerVars, wireVars
<1>3. orders'[o] = MarkFilled(orders[o], f)
  BY <1>1, <1>2 DEF TypeOK
<1>4. /\ clock \in Nat /\ broker[o].filled \in Nat /\ broker[o].updated_at \in Nat
      /\ seen[a][o] \in Nat
      /\ orders[o].filled_quantity \in Nat /\ orders[o].updated_at \in Nat
  BY <1>1, <1>2, TypeFacts DEF Tracked
<1>5. PICK C \in SUBSET (1..broker[o].filled), base \in 0..broker[o].filled, taken \in 0..clock :
        Counts(o, C, base, taken)
  BY <1>2 DEF Counted, Tracked
<1> HIDE DEF o
<1>6. CASE FillAlreadyReflected(orders[o], f)
  <2>1. orders'[o] = orders[o]
    BY <1>3, <1>6 DEF MarkFilled
  <2>2. Counts(o, C, base, taken)'
    BY <1>2, <1>5, <2>1 DEF Counts
  <2>3. QED
    BY <1>2, <1>5, <2>2 DEF Counted, o
<1>7. CASE ~FillAlreadyReflected(orders[o], f)
  <2>1. /\ orders'[o].filled_quantity = orders[o].filled_quantity + f.quantity
        /\ orders'[o].updated_at = f.timestamp
    BY <1>3, <1>7 DEF MarkFilled
  <2>2. base <= orders[o].filled_quantity
    <3>1. IsFiniteSet(C)
      BY <1>4, PrefixCardinality, FS_Subset
    <3>2. IsFiniteSet(1..base) /\ Cardinality(1..base) = base
      BY PrefixCardinality
    <3>3. Cardinality(1..base) <= Cardinality(C)
      BY <1>5, <3>1, FS_Subset DEF Counts
    <3>4. QED
      BY <1>5, <3>2, <3>3 DEF Counts
  <2>3. ~(f.cumulative <= base /\ f.timestamp <= taken)
    BY <1>1, <1>4, <1>5, <1>7, <2>2 DEF Counts, FillAlreadyReflected
  <2>4. Shares(f) \cap C = {}
    BY <1>2, <1>5, <2>3 DEF Counts, o
  <2>5. f.cumulative > base
    <3>1. f.cumulative \in Shares(f)
      BY <1>1 DEF Shares
    <3>2. f.cumulative \notin 1..base
      BY <1>5, <2>4, <3>1 DEF Counts
    <3>3. QED
      BY <1>1, <1>4, <3>2
  <2>6. taken <= f.timestamp
    BY <1>1, <1>5, <2>5 DEF Counts, o
  <2>7. C \subseteq 1..seen[a][o]
    BY <1>1, <1>4, <1>5, <2>5 DEF Counts
  <2> DEFINE D == C \cup Shares(f)
  <2>8. D \subseteq 1..seen[a][o] /\ D \in SUBSET (1..broker[o].filled)
    <3>1. Shares(f) \subseteq 1..seen[a][o]
      BY <1>1, <1>4 DEF Shares
    <3>2. 1..seen[a][o] \subseteq 1..broker[o].filled
      BY <1>1, <1>4
    <3> HIDE DEF o
    <3>3. QED
      BY <2>7, <3>1, <3>2, Zenon
  <2>9. Cardinality(D) = orders'[o].filled_quantity
    <3>1. Cardinality(D) = Cardinality(C) + f.quantity
      BY <1>1, <1>4, <2>4, AddPiece DEF Shares
    <3>2. QED
      BY <1>5, <2>1, <3>1 DEF Counts
  <2>10. ASSUME NEW g \in fills, g.order = o, FillId(g) \notin processed_fill_ids'
         PROVE  \/ Shares(g) \cap D = {}
                \/ g.cumulative <= base /\ g.timestamp <= taken
    <3>1. g # f /\ FillId(g) \notin processed_fill_ids
      BY <1>2, <2>10
    <3>2. /\ g.cumulative \in Nat /\ g.quantity \in Nat /\ g.quantity <= g.cumulative
          /\ \/ f.cumulative <= g.cumulative - g.quantity
             \/ g.cumulative <= f.cumulative - f.quantity
      BY <2>10, <3>1, FillFacts DEF WireInv, o
    <3>3. Shares(g) \cap Shares(f) = {}
      BY <1>1, <3>2 DEF Shares
    <3>4. QED
      BY <1>5, <2>10, <3>1, <3>3 DEF Counts
  <2>11. ASSUME NEW g \in fills, g.order = o
         PROVE  g.cumulative > base => g.timestamp >= taken
    BY <1>5, <2>11 DEF Counts
  <2> HIDE DEF D
  <2>12. 1..base \subseteq D
    BY <1>5 DEF Counts, D
  <2>13. Counts(o, D, base, taken)'
    <3>1. base < broker'[o].filled => taken <= FilledAt(broker'[o])
      BY <1>2, <1>5 DEF Counts
    <3>2. QED
      BY <1>1, <1>2, <2>1, <2>6, <2>8, <2>9, <2>10, <2>11, <2>12, <3>1 DEF Counts
  <2>14. QED
    BY <1>2, <1>5, <2>8, <2>13 DEF Counted, o
<1>8. QED
  BY <1>6, <1>7
-----------------------------------------------------------------------------
(* A new piece is disjoint from what was counted, or repeats the snapshot of a
   closed order at that snapshot's own time. *)
LEMMA ObserveKeepsCounted ==
  ASSUME NEW a, Adapters = {a}, TypeOK, WireInv, NEW o \in Orders, Observe(a, o), Counted(o)
  PROVE  Counted(o)'
<1> DEFINE delta == alpaca_order_to_fill_delta(o, broker[o], seen[a][o])
<1>1. /\ UNCHANGED <<clock, broker, orders, processed_fill_ids>>
      /\ fills' = fills \cup delta
      /\ seen'[a][o] = broker[o].filled
  BY DEF Observe, brokerVars, engineVars, TypeOK
<1> SUFFICES ASSUME orders[o] # NoOrder
             PROVE  \E C \in SUBSET (1..broker[o].filled), base \in 0..broker[o].filled,
                       taken \in 0..clock : Counts(o, C, base, taken)'
  BY <1>1 DEF Counted, Tracked
<1>2. PICK C \in SUBSET (1..broker[o].filled), base \in 0..broker[o].filled, taken \in 0..clock :
        Counts(o, C, base, taken)
  BY DEF Counted, Tracked
<1>3. /\ clock \in Nat /\ broker[o].filled \in Nat /\ broker[o].updated_at \in Nat
      /\ seen[a][o] \in Nat /\ orders[o].updated_at \in Nat
      /\ seen[a][o] <= broker[o].filled
      /\ FilledAt(broker[o]) \in Nat /\ FilledAt(broker[o]) <= broker[o].updated_at
  BY TypeFacts DEF WireInv, Tracked
<1>4. ASSUME NEW f \in delta
      PROVE  /\ f.cumulative = broker[o].filled
             /\ f.quantity = broker[o].filled - seen[a][o]
             /\ f.timestamp = FilledAt(broker[o])
  BY DEF alpaca_order_to_fill_delta
<1> HIDE DEF delta
<1>5. ASSUME NEW f \in fills', f.order = o
      PROVE  /\ f.cumulative > base => f.timestamp >= taken
             /\ FillId(f) \notin processed_fill_ids =>
                  \/ Shares(f) \cap C = {}
                  \/ f.cumulative <= base /\ f.timestamp <= taken
  <2>1. CASE f \in fills
    BY <1>2, <1>5, <2>1 DEF Counts
  <2>2. CASE f \in delta
    <3>1. f.cumulative > base => f.timestamp >= taken
      BY <1>2, <1>3, <1>4, <2>2 DEF Counts
    <3>2. CASE C \subseteq 1..seen[a][o]
      <4>1. Shares(f) \cap (1..seen[a][o]) = {}
        BY <1>3, <1>4, <2>2 DEF Shares
      <4>2. QED
        BY <3>1, <3>2, <4>1
    <3>3. CASE base = broker[o].filled /\ taken = broker[o].updated_at
      BY <1>3, <1>4, <2>2, <3>1, <3>3
    <3>4. QED
      BY <1>2, <3>2, <3>3 DEF Counts
  <2>3. QED
    BY <1>1, <2>1, <2>2
<1>6. Counts(o, C, base, taken)'
  BY <1>1, <1>2, <1>5 DEF Counts
<1>7. QED
  BY <1>6

LEMMA NextKeepsCounted ==
  ASSUME NEW a, Adapters = {a}, ~AsyncCancel, TypeOK, TypeOK', WireInv, WireInv', CountedInv,
         [Next]_vars
  PROVE  CountedInv'
<1> SUFFICES ASSUME NEW p \in Orders
             PROVE  Counted(p)'
  BY DEF CountedInv
<1>1. Counted(p)
  BY DEF CountedInv
<1>2. ASSUME NEW o \in Orders, SubmitsAny(o) \/ CancelOrder(o) \/ BrokerStep(o)
      PROVE  Counted(p)'
  <2>1. BrokerProgress(p) /\ UNCHANGED <<seen, updates, fills>>
    BY <1>2, BrokerStepProgress DEF wireVars
  <2>2. processed_fill_ids' = processed_fill_ids
    BY <1>2 DEF SubmitsAny, Submit, CancelOrder, BrokerStep,
                engineVars
  <2>3. CASE orders'[p] = orders[p]
    BY <1>1, <2>1, <2>2, <2>3, CountedKept
  <2>4. CASE orders'[p] # orders[p]
    <3>1. p = o /\ orders'[o] = alpaca_order_to_domain(broker'[o])
      BY <1>2, <2>4 DEF SubmitsAny, Submit, CancelOrder, BrokerStep, engineVars, TypeOK
    <3>2. /\ orders'[o].filled_quantity = broker'[o].filled
          /\ orders'[o].updated_at = broker'[o].updated_at
      BY <3>1 DEF alpaca_order_to_domain
    <3>3. /\ broker'[o].filled \in Nat /\ broker'[o].updated_at \in Nat
          /\ clock' \in Nat /\ broker'[o].updated_at <= clock'
      BY <2>1, <3>1 DEF TypeOK, BrokerOrder, BrokerProgress
    <3>4. broker'[o].status \in Closed \/ broker'[o].filled = 0
      <4>1. CASE SubmitsAny(o)
        <5>1. PICK quantity \in Quantities : Submit(o, quantity)
          BY <4>1 DEF SubmitsAny
        <5>2. PICK changed : BrokerMoves(o, changed) /\ changed.filled = broker[o].filled
          BY <5>1, SubmitMoves
        <5>3. broker[o].filled = 0
          BY <5>1 DEF Submit, BrokerAccepts, WireInv
        <5>4. broker'[o].filled = changed.filled
          BY ZenonT(40), <5>2, BrokerSetsType DEF BrokerMoves, BrokerOrder
        <5>5. QED
          BY <5>2, <5>3, <5>4
      <4>2. CASE CancelOrder(o)
        <5>1. PICK changed : BrokerMoves(o, changed) /\ changed.status = "canceled"
          BY <4>2, CancelMoves
        <5>2. changed \in BrokerOrder /\ BrokerSets(o, changed)
          BY <5>1 DEF BrokerMoves
        <5>3. broker'[o] = [changed EXCEPT !.updated_at = clock']
          BY <5>2, BrokerSetsType
        <5>4. broker'[o].status = changed.status
          BY <5>2, <5>3 DEF BrokerOrder
        <5>5. QED
          BY <5>1, <5>4 DEF Closed
      <4>3. CASE BrokerStep(o)
        BY <2>4, <4>3 DEF BrokerStep, engineVars
      <4>4. QED
        BY <1>2, <4>1, <4>2, <4>3
    <3>5. orders'[o] # NoOrder
      <4>1. alpaca_order_to_domain(broker'[o]) \in OrderRecord
        BY SnapshotType DEF TypeOK
      <4>2. QED
        BY <3>1, <4>1, NoOrderAssumption
    <3>6. ASSUME NEW f \in fills', f.order = o
          PROVE  f.cumulative <= broker'[o].filled /\ f.timestamp <= broker'[o].updated_at
      <4>1. /\ f.cumulative <= seen'[a][o] /\ seen'[a][o] <= broker'[o].filled
            /\ f.timestamp <= broker'[o].updated_at
        BY <3>6 DEF WireInv
      <4>2. f.cumulative \in Nat /\ seen'[a][o] \in Nat
        BY DEF TypeOK, FillEvent
      <4>3. QED
        BY <3>3, <4>1, <4>2
    <3>7. broker'[o].status \in Closed \/ broker'[o].filled <= seen'[a][o]
      BY <3>4 DEF TypeOK
    <3>8. Counted(o)'
      BY <3>2, <3>3, <3>5, <3>6, <3>7, SnapshotCounts
    <3>9. QED
      BY <3>1, <3>8
  <2>5. QED
    BY <2>3, <2>4
<1>3. ASSUME NEW o \in Orders, Observe(a, o)
      PROVE  Counted(p)'
  <2>1. BrokerProgress(p) /\ UNCHANGED <<clock, broker, orders, processed_fill_ids>>
    BY <1>3, BrokerFrozenProgress DEF Observe, brokerVars, engineVars
  <2>2. CASE p # o
    <3>1. \A f \in fills' : f.order = p => f \in fills
      BY <1>3, <2>2 DEF Observe, alpaca_order_to_fill_delta
    <3>2. seen'[a][p] = seen[a][p]
      BY <1>3, <2>2 DEF Observe, TypeOK
    <3>3. QED
      BY <1>1, <2>1, <3>1, <3>2, CountedKept
  <2>3. CASE p = o
    BY <1>1, <1>3, <2>3, ObserveKeepsCounted
  <2>4. QED
    BY <2>2, <2>3
<1>4. ASSUME NEW u \in updates, OnOrderUpdate(u)
      PROVE  Counted(p)'
  <2>1. /\ u.order \in Orders /\ u.snapshot \in OrderRecord
        /\ u.snapshot.filled_quantity \in Nat /\ u.snapshot.updated_at \in Nat
        /\ u.snapshot.filled_quantity <= seen[a][u.order]
        /\ u.snapshot.updated_at <= broker[u.order].updated_at
    BY UpdateFacts DEF WireInv
  <2>2. /\ UNCHANGED <<clock, broker, seen, updates, fills, processed_fill_ids>>
        /\ BrokerProgress(p)
    BY <1>4, BrokerFrozenProgress DEF OnOrderUpdate, brokerVars, wireVars
  <2>3. CASE orders'[p] = orders[p]
    BY <1>1, <2>2, <2>3, CountedKept
  <2>4. CASE orders'[p] # orders[p]
    <3>1. p = u.order /\ orders'[p] = u.snapshot
      BY <1>4, <2>1, <2>4 DEF OnOrderUpdate, ApplyOrderUpdate, TypeOK
    <3>2. orders'[p] # NoOrder
      BY <2>1, <3>1, NoOrderAssumption
    <3>3. /\ broker[p].filled \in Nat /\ broker[p].updated_at \in Nat /\ clock \in Nat
          /\ seen[a][p] \in Nat /\ seen[a][p] <= broker[p].filled /\ broker[p].updated_at <= clock
      BY TypeFacts DEF WireInv
    <3>4. /\ u.snapshot.updated_at \in 0..clock'
          /\ u.snapshot.filled_quantity <= broker'[p].filled
          /\ u.snapshot.updated_at <= broker'[p].updated_at
          /\ u.snapshot.filled_quantity <= seen'[a][p]
          /\ u.snapshot.filled_quantity < broker'[p].filled
               => u.snapshot.updated_at <= FilledAt(broker'[p])
      BY <2>1, <2>2, <3>1, <3>3 DEF WireInv
    <3>5. \A f \in fills' :
            f.order = p => IF f.cumulative <= u.snapshot.filled_quantity
                           THEN f.timestamp <= u.snapshot.updated_at
                           ELSE /\ u.snapshot.filled_quantity <= f.cumulative - f.quantity
                                /\ u.snapshot.updated_at <= f.timestamp
      BY <2>2, <3>1 DEF WireInv
    <3>6. QED
      BY <2>1, <3>1, <3>2, <3>4, <3>5, SnapshotCounts
  <2>5. QED
    BY <2>3, <2>4
<1>5. ASSUME NEW f \in fills, OnFill(f)
      PROVE  Counted(p)'
  <2>1. CASE p = f.order
    BY <1>1, <1>5, <2>1, OnFillCounts
  <2>2. CASE p # f.order
    <3>1. /\ BrokerProgress(p) /\ UNCHANGED <<seen, fills>>
          /\ processed_fill_ids \subseteq processed_fill_ids'
      BY <1>5, BrokerFrozenProgress DEF OnFill, brokerVars, wireVars
    <3>2. orders'[p] = orders[p]
      BY <1>5, <2>2 DEF OnFill, TypeOK
    <3>3. QED
      BY <1>1, <3>1, <3>2, CountedKept
  <2>3. QED
    BY <2>1, <2>2
<1>6. CASE Restart
  BY <1>6 DEF Restart, Counted, Tracked
<1>7. CASE UNCHANGED vars
  <2>1. BrokerProgress(p)
    BY <1>7, BrokerFrozenProgress DEF vars
  <2>2. QED
    BY <1>1, <1>7, <2>1, CountedKept DEF vars, wireVars, engineVars
<1>8. QED
  BY <1>2, <1>3, <1>4, <1>5, <1>6, <1>7 DEF Next, SubmitsAny

(* The shares of the fills and snapshots on the wire, and those each tracked
   order has counted, stay as SharesInv describes them. *)
THEOREM SharesAreInvariant ==
  ASSUME NEW a, Adapters = {a}, ~AsyncCancel
  PROVE  Spec => []SharesInv
<1> DEFINE Inv == TypeOK /\ SharesInv
<1>1. Init => Inv
  <2> SUFFICES ASSUME Init
               PROVE  WireInv /\ CountedInv
    BY TypeInit DEF SharesInv
  <2>1. WireInv
    BY DEF Init, BrokerInit, NotPlaced, WireInv, FilledAt
  <2>2. CountedInv
    BY DEF Init, CountedInv, Counted, Tracked
  <2>3. QED
    BY <2>1, <2>2
<1>2. Inv /\ [Next]_vars => Inv'
  <2> SUFFICES ASSUME Inv, [Next]_vars
               PROVE  Inv'
    OBVIOUS
  <2>1. TypeOK'
    BY TypePreserved
  <2>2. WireInv'
    BY NextKeepsWire DEF SharesInv
  <2>3. CountedInv'
    BY <2>1, <2>2, NextKeepsCounted DEF SharesInv
  <2>4. QED
    BY <2>1, <2>2, <2>3 DEF SharesInv
<1>3. QED
  BY <1>1, <1>2, PTL DEF Spec

(* With one adapter, and a broker that cancels at once, no delivery order,
   redelivery or restart makes the OrderManager count a share twice: it never
   tracks more shares than the broker executed (mark_filled,
   apply_order_update, cancel_order). *)
THEOREM SharesCountedOnce ==
  ASSUME NEW a, Adapters = {a}, ~AsyncCancel
  PROVE  Spec => []NeverOvercounts
<1>1. TypeOK /\ SharesInv => NeverOvercounts
  <2> SUFFICES ASSUME TypeOK, SharesInv, NEW o \in Orders, Tracked(o)
               PROVE  orders[o].filled_quantity <= broker[o].filled
    BY DEF NeverOvercounts
  <2>1. PICK C \in SUBSET (1..broker[o].filled) : Cardinality(C) = orders[o].filled_quantity
    BY DEF SharesInv, CountedInv, Counted, Counts
  <2>2. broker[o].filled \in Nat
    BY TypeFacts
  <2>3. IsFiniteSet(1..broker[o].filled) /\ Cardinality(1..broker[o].filled) = broker[o].filled
    BY <2>2, PrefixCardinality
  <2>4. QED
    BY <2>1, <2>3, FS_Subset
<1>2. Spec => []SharesInv
  BY SharesAreInvariant
<1>3. QED
  BY <1>1, <1>2, TypeCorrect, PTL
-----------------------------------------------------------------------------
(* ExecutionEngine implements Booking: the OrderManager's counts of filled shares
   follow the broker's executions and never run ahead of them.  The proof rests on
   SharesCountedOnce, and so on its hypotheses. *)

ExecutedShares == [o \in Orders |-> broker[o].filled]

LEMMA BookedFacts ==
  ASSUME TypeOK, NeverOvercounts, NEW o \in Orders
  PROVE  /\ BookedShares[o] \in Nat /\ broker[o].filled \in Nat
         /\ BookedShares[o] <= broker[o].filled
BY TypeFacts DEF BookedShares, Tracked, NeverOvercounts

LEMMA FillBooks ==
  ASSUME TypeOK, NEW f \in fills, orders[f.order] # NoOrder
  PROVE  MarkFilled(orders[f.order], f).filled_quantity >= orders[f.order].filled_quantity
<1>1. /\ f.quantity \in Nat /\ f.order \in Orders
      /\ orders[f.order].filled_quantity \in Nat
  BY FillFacts, TypeFacts DEF Tracked
<1>2. QED
  BY <1>1 DEF MarkFilled

LEMMA UpdateBooks ==
  ASSUME NEW existing \in OrderRecord, NEW order \in OrderRecord
  PROVE  ApplyOrderUpdate(existing, order).filled_quantity >= existing.filled_quantity
<1>1. existing.filled_quantity \in Nat /\ order.filled_quantity \in Nat
  BY DEF OrderRecord
<1>2. QED
  BY <1>1 DEF ApplyOrderUpdate, UpdateIsStale

(* A step that executes nothing and lowers no count is a Book. *)
LEMMA CountingIsBooking ==
  ASSUME TypeOK, TypeOK', NeverOvercounts, NeverOvercounts', ExecutedShares' = ExecutedShares,
         NEW o \in Orders,
         \A p \in Orders : p # o => orders'[p] = orders[p],
         BookedShares[o] <= BookedShares'[o]
  PROVE  B!Book
<1>1. \A p \in Orders : BookedShares'[p] \in Nat /\ BookedShares'[p] <= broker'[p].filled
  <2> TAKE p \in Orders
  <2>1. /\ Tracked(p)' => orders'[p].filled_quantity <= broker'[p].filled
        /\ broker'[p].filled \in Nat
        /\ Tracked(p)' => orders'[p].filled_quantity \in Nat
    BY DEF NeverOvercounts, TypeOK, BrokerOrder, OrderRecord, Tracked
  <2>2. BookedShares'[p] = IF Tracked(p)' THEN orders'[p].filled_quantity ELSE 0
    BY DEF BookedShares
  <2>3. QED
    BY <2>1, <2>2
<1>2. \A p \in Orders : BookedShares[p] <= BookedShares'[p]
  <2> TAKE p \in Orders
  <2>1. CASE p = o
    BY <2>1
  <2>2. CASE p # o
    <3>1. BookedShares'[p] = BookedShares[p]
      BY <2>2 DEF BookedShares, Tracked
    <3>2. QED
      BY <3>1, BookedFacts
  <2>3. QED
    BY <2>1, <2>2
<1>3. \A p \in Orders : broker'[p].filled = broker[p].filled
  <2> TAKE p \in Orders
  <2>1. ExecutedShares'[p] = broker'[p].filled /\ ExecutedShares[p] = broker[p].filled
    BY DEF ExecutedShares
  <2>2. QED
    BY <2>1
<1>4. BookedShares' \in [Orders -> Nat]
  BY <1>1 DEF BookedShares
<1>5. QED
  BY <1>1, <1>2, <1>3, <1>4 DEF B!Book, ExecutedShares

(* A step in which only the broker moves is an Execute. *)
LEMMA MovingIsExecuting ==
  ASSUME TypeOK, TypeOK', UNCHANGED orders,
         \A p \in Orders : broker[p].filled <= broker'[p].filled
  PROVE  B!Execute
<1>1. \A p \in Orders : broker'[p].filled \in Nat
  <2> TAKE p \in Orders
  <2>1. QED
    BY DEF TypeOK, BrokerOrder
<1>2. UNCHANGED BookedShares
  BY DEF BookedShares, Tracked
<1>3. QED
  BY <1>1, <1>2 DEF B!Execute

(* The shares a step of the broker adds. *)
LEMMA BrokerMovesForward ==
  ASSUME TypeOK, NEW o \in Orders, NEW changed, BrokerMoves(o, changed)
  PROVE  /\ \A p \in Orders : broker[p].filled <= broker'[p].filled
         /\ broker'[o].filled = changed.filled
         /\ \A p \in Orders : p # o => broker'[p] = broker[p]
<1>1. /\ broker'[o] = [changed EXCEPT !.updated_at = clock']
      /\ \A p \in Orders : p # o => broker'[p] = broker[p]
  BY BrokerSetsType DEF BrokerMoves
<1>2. broker'[o].filled = changed.filled /\ broker[o].filled <= changed.filled
  BY <1>1 DEF BrokerMoves, BrokerOrder
<1>3. ASSUME NEW p \in Orders
      PROVE  broker[p].filled <= broker'[p].filled
  <2>1. CASE p = o
    BY <1>2, <2>1
  <2>2. CASE p # o
    <3>1. broker'[p] = broker[p] /\ broker[p].filled \in Nat
      BY <1>1, <2>2, TypeFacts
    <3>2. QED
      BY <3>1
  <2>3. QED
    BY <2>1, <2>2
<1>4. QED
  BY <1>1, <1>2, <1>3

(* A cancel executes nothing. *)
LEMMA CancelExecutesNothing ==
  ASSUME TypeOK, NEW o \in Orders, CancelOrder(o)
  PROVE  \A p \in Orders : broker'[p].filled = broker[p].filled
BY DEF CancelOrder, BrokerCancels, BrokerSets, TypeOK, BrokerOrder

LEMMA StepBooks ==
  ASSUME TypeOK, TypeOK', NeverOvercounts, NeverOvercounts', [Next]_vars
  PROVE  [B!Next]_(B!vars)
<1>1. ASSUME NEW o \in Orders, NEW quantity \in Quantities, Submit(o, quantity)
      PROVE  B!Next
  <2>1. PICK changed : BrokerMoves(o, changed) /\ changed.filled = broker[o].filled
    BY <1>1, SubmitMoves
  <2>2. ExecutedShares' = ExecutedShares
    <3>1. \A p \in Orders : broker'[p].filled = broker[p].filled
      BY <2>1, BrokerMovesForward
    <3>2. QED
      BY <3>1 DEF ExecutedShares
  <2>3. CASE UNCHANGED orders
    <3>1. B!Execute
      BY <2>1, <2>3, BrokerMovesForward, MovingIsExecuting
    <3>2. QED
      BY <3>1 DEF B!Next
  <2>4. CASE orders' = [orders EXCEPT ![o] = alpaca_order_to_domain(broker'[o])]
    <3>1. orders'[o] = alpaca_order_to_domain(broker'[o])
      BY <2>4 DEF TypeOK
    <3>2. orders'[o] # NoOrder
      <4>1. broker'[o] \in BrokerOrder
        BY DEF TypeOK
      <4>2. QED
        BY <3>1, <4>1, SnapshotType, NoOrderAssumption
    <3>3. BookedShares'[o] = broker[o].filled
      BY <2>1, <3>1, <3>2, BrokerMovesForward DEF BookedShares, Tracked, alpaca_order_to_domain
    <3>4. B!Book
      BY <2>2, <2>4, <3>3, BookedFacts, CountingIsBooking DEF TypeOK
    <3>5. QED
      BY <3>4 DEF B!Next
  <2>5. QED
    BY <1>1, <2>3, <2>4 DEF Submit
<1>2. ASSUME NEW o \in Orders, CancelOrder(o)
      PROVE  B!Next
  <2>1. PICK changed : BrokerMoves(o, changed)
    BY <1>2, CancelMoves
  <2>2. CASE UNCHANGED orders
    <3>1. B!Execute
      BY <2>1, <2>2, BrokerMovesForward, MovingIsExecuting
    <3>2. QED
      BY <3>1 DEF B!Next
  <2>3. CASE orders' = [orders EXCEPT ![o] = alpaca_order_to_domain(broker'[o])]
    <3>1. \A p \in Orders : broker'[p].filled = broker[p].filled
      BY <1>2, CancelExecutesNothing
    <3>2. ExecutedShares' = ExecutedShares
      BY <3>1 DEF ExecutedShares
    <3>3. orders'[o] = alpaca_order_to_domain(broker'[o])
      BY <2>3 DEF TypeOK
    <3>4. orders'[o] # NoOrder
      <4>1. broker'[o] \in BrokerOrder
        BY DEF TypeOK
      <4>2. QED
        BY <3>3, <4>1, SnapshotType, NoOrderAssumption
    <3>5. BookedShares'[o] = broker[o].filled
      BY <3>1, <3>3, <3>4 DEF BookedShares, Tracked, alpaca_order_to_domain
    <3>6. B!Book
      BY <2>3, <3>2, <3>5, BookedFacts, CountingIsBooking DEF TypeOK
    <3>7. QED
      BY <3>6 DEF B!Next
  <2>4. QED
    BY <1>2, <2>2, <2>3 DEF CancelOrder
<1>3. ASSUME NEW o \in Orders, BrokerStep(o)
      PROVE  B!Next
  <2>1. PICK changed : BrokerMoves(o, changed)
    BY <1>3, BrokerStepMoves
  <2>2. UNCHANGED orders
    BY <1>3 DEF BrokerStep, engineVars
  <2>3. B!Execute
    BY <2>1, <2>2, BrokerMovesForward, MovingIsExecuting
  <2>4. QED
    BY <2>3 DEF B!Next
<1>4. ASSUME NEW u \in updates, OnOrderUpdate(u)
      PROVE  B!Next
  <2> DEFINE o == u.order
  <2>1. o \in Orders /\ u.snapshot \in OrderRecord /\ u.snapshot.filled_quantity \in Nat
    BY UpdateFacts
  <2>2. /\ UNCHANGED brokerVars
        /\ orders' = [orders EXCEPT ![o] = IF orders[o] = NoOrder THEN u.snapshot
                                           ELSE ApplyOrderUpdate(orders[o], u.snapshot)]
    BY <1>4 DEF OnOrderUpdate
  <2>3. ExecutedShares' = ExecutedShares
    BY <2>2 DEF ExecutedShares, brokerVars
  <2>4. \A p \in Orders : p # o => orders'[p] = orders[p]
    BY <2>1, <2>2 DEF TypeOK
  <2>5. BookedShares[o] <= BookedShares'[o]
    <3>1. CASE orders[o] = NoOrder
      <4>1. orders'[o] = u.snapshot
        BY <2>1, <2>2, <3>1 DEF TypeOK
      <4>2. BookedShares[o] = 0 /\ BookedShares'[o] \in Nat
        BY <2>1, <3>1, <4>1 DEF BookedShares, Tracked
      <4>3. QED
        BY <4>2
    <3>2. CASE orders[o] # NoOrder
      <4>1. orders[o] \in OrderRecord
        BY <2>1, <3>2 DEF TypeOK
      <4>2. orders'[o] = ApplyOrderUpdate(orders[o], u.snapshot)
        BY <2>1, <2>2, <3>2 DEF TypeOK
      <4>3. orders'[o] # NoOrder
        BY <2>1, <4>1, <4>2, NoOrderAssumption DEF ApplyOrderUpdate
      <4>4. orders'[o].filled_quantity >= orders[o].filled_quantity
        BY <2>1, <4>1, <4>2, UpdateBooks
      <4>5. /\ BookedShares[o] = orders[o].filled_quantity
            /\ BookedShares'[o] = orders'[o].filled_quantity
        BY <2>1, <3>2, <4>3 DEF BookedShares, Tracked
      <4>6. QED
        BY <4>4, <4>5
    <3>3. QED
      BY <3>1, <3>2
  <2>6. B!Book
    BY <2>1, <2>3, <2>4, <2>5, CountingIsBooking
  <2>7. QED
    BY <2>6 DEF B!Next
<1>5. ASSUME NEW f \in fills, OnFill(f)
      PROVE  B!Next
  <2> DEFINE o == f.order
  <2>1. o \in Orders /\ orders[o] # NoOrder
    BY <1>5, FillFacts DEF OnFill
  <2>2. /\ UNCHANGED brokerVars
        /\ orders' = [orders EXCEPT ![o] = MarkFilled(orders[o], f)]
    BY <1>5 DEF OnFill
  <2>3. ExecutedShares' = ExecutedShares
    BY <2>2 DEF ExecutedShares, brokerVars
  <2>4. orders'[o] = MarkFilled(orders[o], f) /\ \A p \in Orders : p # o => orders'[p] = orders[p]
    BY <2>1, <2>2 DEF TypeOK
  <2>5. orders'[o] # NoOrder
    <3>1. orders[o] \in OrderRecord /\ f \in FillEvent
      BY <2>1 DEF TypeOK
    <3>2. QED
      BY <2>4, <3>1, MarkFilledType, NoOrderAssumption
  <2>6. BookedShares[o] <= BookedShares'[o]
    <3>1. orders'[o].filled_quantity >= orders[o].filled_quantity
      BY <2>1, <2>4, FillBooks
    <3>2. /\ BookedShares[o] = orders[o].filled_quantity
          /\ BookedShares'[o] = orders'[o].filled_quantity
      BY <2>1, <2>5 DEF BookedShares, Tracked
    <3>3. QED
      BY <3>1, <3>2
  <2>7. B!Book
    BY <2>1, <2>3, <2>4, <2>6, CountingIsBooking
  <2>8. QED
    BY <2>7 DEF B!Next
<1>6. CASE Restart
  <2>1. BookedShares' = B!Nothing
    BY <1>6 DEF Restart, BookedShares, Tracked, B!Nothing
  <2>2. B!StartOver
    BY <1>6, <2>1 DEF Restart, B!StartOver, brokerVars
  <2>3. QED
    BY <2>2 DEF B!Next
<1>7. ASSUME NEW a \in Adapters, NEW o \in Orders, Observe(a, o)
      PROVE  UNCHANGED B!vars
  BY <1>7 DEF Observe, brokerVars, engineVars, B!vars, BookedShares, Tracked
<1>8. CASE UNCHANGED vars
  BY <1>8 DEF vars, brokerVars, engineVars, B!vars, BookedShares, Tracked
<1>9. QED
  BY <1>1, <1>2, <1>3, <1>4, <1>5, <1>6, <1>7, <1>8 DEF Next

(* With one adapter, and a broker that cancels at once, the OrderManager keeps
   account of the broker's executions as Booking promises: no fill, update,
   cancel or lost answer takes booked shares back or books one twice. *)
THEOREM EngineImplementsBooking ==
  ASSUME NEW a, Adapters = {a}, ~AsyncCancel
  PROVE  Spec => ImplementsBooking
<1>1. Init => B!Init
  <2> SUFFICES ASSUME Init
               PROVE  B!Init
    OBVIOUS
  <2>1. \A o \in Orders : broker[o].filled = 0 /\ orders[o] = NoOrder
    BY DEF Init, BrokerInit, NotPlaced
  <2>2. QED
    BY <2>1 DEF B!Init, B!Nothing, BookedShares, Tracked
<1>2. TypeOK /\ TypeOK' /\ NeverOvercounts /\ NeverOvercounts' /\ [Next]_vars => [B!Next]_(B!vars)
  BY StepBooks
<1>3. Spec => []TypeOK
  BY TypeCorrect
<1>4. Spec => []NeverOvercounts
  BY SharesCountedOnce
<1>5. QED
  BY <1>1, <1>2, <1>3, <1>4, PTL DEF Spec, ImplementsBooking, B!Spec
-----------------------------------------------------------------------------
(* The lifecycle of a tracked order.  It rests on SharesCountedOnce, and so on its
   hypotheses. *)

(* The broker: no cancel is ever pending, and an order placed by quantity has
   all its shares exactly when it is filled. *)
BrokerShape(o) ==
  /\ broker[o].status # "pending_cancel"
  /\ broker[o].status = "none" => ByNotional(o)
  /\ ~ByNotional(o) => /\ broker[o].filled <= broker[o].quantity
                       /\ broker[o].filled = broker[o].quantity => broker[o].status = "filled"

(* A snapshot on the wire is of a placed order, and one that closes the order is
   what the broker has. *)
UpdateAgrees(u) ==
  /\ broker[u.order].status # "none"
  /\ u.snapshot.quantity = broker[u.order].quantity
  /\ u.snapshot.status \in TERMINAL_STATUSES =>
       /\ broker[u.order].status \in Closed
       /\ u.snapshot = alpaca_order_to_domain(broker[u.order])

(* A tracked order placed by quantity is closed only as the broker closed it,
   with all the shares the broker executed: only a FILLED one may be so by its
   fills, and carry their time.  A notional order has no shares left to fill. *)
OrderAgrees(o) ==
  Tracked(o) =>
    /\ broker[o].status # "none"
    /\ ByNotional(o) => orders[o].quantity <= orders[o].filled_quantity
    /\ ~ByNotional(o) =>
         /\ orders[o].quantity = broker[o].quantity
         /\ orders[o].status \in TERMINAL_STATUSES =>
              /\ broker[o].status \in Closed
              /\ orders[o].status = order_status_from_alpaca(broker[o].status)
              /\ orders[o].filled_quantity = broker[o].filled
              /\ orders[o].status # "FILLED" => orders[o].updated_at = broker[o].updated_at

LifecycleInv ==
  /\ \A o \in Orders : BrokerShape(o)
  /\ \A u \in updates : UpdateAgrees(u)
  /\ \A o \in Orders : OrderAgrees(o)

(* What the earlier theorems give. *)
Known == TypeOK /\ WireInv /\ NeverOvercounts
-----------------------------------------------------------------------------
(* The snapshot of a placed order closes it only when the broker has. *)
LEMMA SnapshotFacts ==
  ASSUME NEW b \in BrokerOrder, b.status # "none", b.status # "pending_cancel"
  PROVE  LET s == alpaca_order_to_domain(b)
         IN  /\ s \in OrderRecord
             /\ s.quantity = b.quantity /\ s.filled_quantity = b.filled
             /\ s.updated_at = b.updated_at
             /\ s.status = order_status_from_alpaca(b.status)
             /\ s.status \in TERMINAL_STATUSES => b.status \in Closed
BY SnapshotType DEF alpaca_order_to_domain, order_status_from_alpaca, BrokerOrder, BrokerStatus,
                    Working, Closed, TERMINAL_STATUSES

(* The ranks of the statuses: closed is the highest. *)
LEMMA RankFacts ==
  ASSUME NEW status \in OrderStatus
  PROVE  /\ StatusRank(status) \in 0..4
         /\ status \in TERMINAL_STATUSES <=> StatusRank(status) = 4
         /\ status \in {"PARTIALLY_FILLED", "FILLED"} => StatusRank(status) >= 3
BY DEF StatusRank, OrderStatus, OPEN_ORDER_STATUSES, TERMINAL_STATUSES

(* A step of the broker: an order that is closed stays, one that is placed keeps
   its quantity. *)
BrokerKeeps(o) ==
  /\ \A p \in Orders : p # o => broker'[p] = broker[p]
  /\ broker[o].status \notin Closed
  /\ broker'[o].status # "none"
  /\ broker[o].status # "none" => broker'[o].quantity = broker[o].quantity
  /\ BrokerShape(o)'

LEMMA SetsKeeps ==
  ASSUME TypeOK, NEW o \in Orders, NEW changed \in BrokerOrder, BrokerSets(o, changed),
         broker[o].status \notin Closed,
         changed.status \notin {"none", "pending_cancel"},
         broker[o].status # "none" => changed.quantity = broker[o].quantity,
         changed.quantity # NoQuantity =>
           /\ changed.filled <= changed.quantity
           /\ changed.filled = changed.quantity => changed.status = "filled"
  PROVE  BrokerKeeps(o)
<1>1. /\ broker'[o] = [changed EXCEPT !.updated_at = clock']
      /\ \A p \in Orders : p # o => broker'[p] = broker[p]
  BY BrokerSetsType
<1>2. /\ broker'[o].status = changed.status /\ broker'[o].quantity = changed.quantity
      /\ broker'[o].filled = changed.filled
  BY <1>1 DEF BrokerOrder
<1>3. QED
  BY <1>1, <1>2 DEF BrokerKeeps, BrokerShape, ByNotional

LEMMA SubmitKeeps ==
  ASSUME TypeOK, WireInv, NEW o \in Orders, NEW quantity \in Quantities, Submit(o, quantity)
  PROVE  BrokerKeeps(o)
<1>0. PICK older \in Nat :
        BrokerSets(o, [broker[o] EXCEPT !.status = "accepted", !.quantity = quantity,
                                        !.older = older])
  BY AcceptsSets DEF Submit
<1> DEFINE changed == [broker[o] EXCEPT !.status = "accepted", !.quantity = quantity,
                                        !.older = older]
<1>1. broker[o] \in BrokerOrder /\ quantity \in Nat /\ broker[o].filled \in Nat
  BY QuantityAssumption DEF TypeOK, BrokerOrder
<1>2. /\ broker[o].status = "none" /\ BrokerSets(o, changed)
      /\ broker[o].filled = 0
  BY <1>0 DEF Submit, BrokerAccepts, WireInv
<1>3. /\ changed \in BrokerOrder /\ changed.filled = 0
      /\ changed.status = "accepted" /\ changed.quantity = quantity
  BY <1>1, <1>2 DEF BrokerOrder, BrokerStatus, Working
<1> HIDE DEF changed
<1>4. QED
  BY <1>1, <1>2, <1>3, SetsKeeps DEF NoQuantity, Closed

LEMMA CancelKeeps ==
  ASSUME ~AsyncCancel, TypeOK, NEW o \in Orders, BrokerShape(o), CancelOrder(o)
  PROVE  BrokerKeeps(o) /\ broker'[o].status = "canceled"
<1> DEFINE changed == [broker[o] EXCEPT !.status = "canceled"]
<1>1. broker[o] \in BrokerOrder /\ broker[o].filled \in Nat
  BY DEF TypeOK, BrokerOrder
<1>2. broker[o].status \in Working /\ BrokerSets(o, changed)
  BY DEF CancelOrder, BrokerCancels
<1>3. /\ changed \in BrokerOrder /\ changed.filled = broker[o].filled
      /\ changed.status = "canceled" /\ changed.quantity = broker[o].quantity
  BY <1>1 DEF BrokerOrder, BrokerStatus, Closed
<1>4. broker[o].status \notin Closed /\ broker[o].status # "filled"
  BY <1>2 DEF Working, Closed
<1>5. broker'[o] = [changed EXCEPT !.updated_at = clock']
  BY <1>2, <1>3, BrokerSetsType
<1>6. broker'[o].status = "canceled"
  BY <1>3, <1>5 DEF BrokerOrder
<1> HIDE DEF changed
<1>7. QED
  BY <1>1, <1>2, <1>3, <1>4, <1>6, SetsKeeps DEF BrokerShape, ByNotional

LEMMA BrokerStepKeeps ==
  ASSUME TypeOK, NEW o \in Orders, BrokerShape(o), BrokerStep(o)
  PROVE  BrokerKeeps(o)
<1>1. broker[o] \in BrokerOrder /\ broker[o].filled \in Nat /\ broker[o].quantity \in Nat
  BY DEF TypeOK, BrokerOrder
<1>2. CASE BrokerAcknowledges(o)
  <2> DEFINE changed == [broker[o] EXCEPT !.status = "new"]
  <2>1. /\ changed \in BrokerOrder /\ changed.filled = broker[o].filled
        /\ changed.status = "new" /\ changed.quantity = broker[o].quantity
    BY <1>1 DEF BrokerOrder, BrokerStatus, Working
  <2>2. /\ broker[o].status \notin Closed /\ broker[o].status # "filled"
        /\ BrokerSets(o, changed)
    BY <1>2 DEF BrokerAcknowledges, Closed
  <2> HIDE DEF changed
  <2>3. QED
    BY <1>1, <2>1, <2>2, SetsKeeps DEF BrokerShape, ByNotional
<1>3. ASSUME NEW n \in 1..Fillable(o), BrokerFills(o, n)
      PROVE  BrokerKeeps(o)
  <2> DEFINE filled == broker[o].filled + n
  <2>1. filled \in Nat
    BY <1>1
  <2>2. PICK status \in BrokerStatus \ {"none", "pending_cancel"} :
          /\ \E filled_at \in {0, clock} :
               Executes(o, filled, status, filled_at)
          /\ filled <= Fillable(o)
          /\ \/ status = "filled"
             \/ filled < Fillable(o)
    <3>1. broker[o].status # "pending_cancel"
      BY DEF BrokerShape
    <3>2. filled <= Fillable(o)
      BY <1>3 DEF BrokerFills
    <3>3. \E status \in {"filled", "partially_filled", "pending_cancel"},
             filled_at \in {0, clock} :
            /\ Executes(o, filled, status, filled_at)
            /\ status = "pending_cancel" => broker[o].status = "pending_cancel"
            /\ status = "filled" \/ filled < Fillable(o)
      BY <1>3, FillsSets, Zenon
    <3>4. QED
      BY <3>1, <3>2, <3>3 DEF BrokerStatus, Working, Closed
  <2>a. PICK filled_at \in {0, clock} : Executes(o, filled, status, filled_at)
    BY <2>2
  <2>b. clock \in Nat
    BY DEF TypeOK
  <2> DEFINE changed == Executed(broker[o], filled, status, filled_at)
  <2>3. /\ changed \in BrokerOrder /\ changed.filled = filled
        /\ changed.status = status /\ changed.quantity = broker[o].quantity
    <3>1. filled_at \in Nat /\ status \in BrokerStatus
      BY <2>b
    <3> HIDE DEF filled
    <3>2. QED
      BY <1>1, <2>1, <3>1, ExecutedType
  <2>4. broker[o].status \notin Closed
    BY <1>3 DEF BrokerFills, Working, Closed
  <2>5. BrokerSets(o, changed)
    BY <2>a DEF Executes
  <2> HIDE DEF changed, filled
  <2>6. changed.quantity # NoQuantity =>
          /\ changed.filled <= changed.quantity
          /\ changed.filled = changed.quantity => changed.status = "filled"
    BY <1>1, <2>1, <2>2, <2>3 DEF Fillable, ByNotional
  <2>7. QED
    BY <2>2, <2>3, <2>4, <2>5, <2>6, SetsKeeps
<1>4. ASSUME NEW status \in Closed \ {"filled"}, BrokerEnds(o, status)
      PROVE  BrokerKeeps(o)
  <2> DEFINE changed == [broker[o] EXCEPT !.status = status]
  <2>1. /\ changed \in BrokerOrder /\ changed.filled = broker[o].filled
        /\ changed.status \notin {"none", "pending_cancel"}
        /\ changed.quantity = broker[o].quantity
    BY <1>1 DEF BrokerOrder, BrokerStatus, Closed
  <2>2. /\ broker[o].status \notin Closed /\ broker[o].status # "filled"
        /\ BrokerSets(o, changed)
    BY <1>4 DEF BrokerEnds, Working, Closed
  <2> HIDE DEF changed
  <2>3. QED
    BY <1>1, <2>1, <2>2, SetsKeeps DEF BrokerShape, ByNotional
<1>5. QED
  BY <1>2, <1>3, <1>4 DEF BrokerStep, BrokerActs
-----------------------------------------------------------------------------
(* What LifecycleNeverRegresses says of one order. *)
OrderMoves(o) ==
  Tracked(o) /\ Tracked(o)' =>
    /\ orders'[o].filled_quantity >= orders[o].filled_quantity
    /\ StatusRank(orders'[o].status) >= StatusRank(orders[o].status)
    /\ orders[o].status \in TERMINAL_STATUSES /\ ~ByNotional(o)
         => orders'[o].status = orders[o].status

LEMMA TrackedFacts ==
  ASSUME TypeOK, NEW o \in Orders, Tracked(o)
  PROVE  /\ orders[o] \in OrderRecord
         /\ orders[o].quantity \in Nat /\ orders[o].filled_quantity \in Nat
         /\ orders[o].updated_at \in Nat /\ orders[o].status \in OrderStatus
         /\ StatusRank(orders[o].status) \in 0..4
BY RankFacts DEF TypeOK, OrderRecord, Tracked

LEMMA UnmovedOrder ==
  ASSUME TypeOK, NEW o \in Orders, orders'[o] = orders[o]
  PROVE  OrderMoves(o)
<1>1. CASE Tracked(o)
  <2>1. orders[o].filled_quantity \in Nat /\ StatusRank(orders[o].status) \in 0..4
    BY <1>1, TrackedFacts
  <2>2. QED
    BY <2>1 DEF OrderMoves
<1>2. CASE ~Tracked(o)
  BY <1>2 DEF OrderMoves
<1>3. QED
  BY <1>1, <1>2

LEMMA UnmovedAgrees ==
  ASSUME NEW o \in Orders, OrderAgrees(o), orders'[o] = orders[o], broker'[o] = broker[o]
  PROVE  OrderAgrees(o)'
BY DEF OrderAgrees, Tracked, ByNotional

(* The broker moves; the engine may take its answer as the tracked order. *)
LEMMA BrokerLifecycle ==
  ASSUME Known, Known', LifecycleInv, NEW q \in Orders, BrokerKeeps(q),
         broker[q].filled <= broker'[q].filled,
         UNCHANGED updates,
         \/ UNCHANGED orders
         \/ /\ orders' = [orders EXCEPT ![q] = alpaca_order_to_domain(broker'[q])]
            /\ broker[q].status = "none" \/ broker'[q].status = "canceled"
  PROVE  LifecycleInv' /\ \A o \in Orders : OrderMoves(o)
<1>1. /\ broker[q].status \notin Closed /\ broker'[q].status # "none"
      /\ broker[q].status # "none" => broker'[q].quantity = broker[q].quantity
      /\ \A p \in Orders : p # q => broker'[p] = broker[p] /\ orders'[p] = orders[p]
      /\ BrokerShape(q)'
  BY DEF BrokerKeeps, Known, TypeOK
<1>2. /\ broker[q] \in BrokerOrder /\ broker'[q] \in BrokerOrder
      /\ broker[q].filled \in Nat /\ broker'[q].filled \in Nat
  BY DEF Known, TypeOK, BrokerOrder
<1>3. \A p \in Orders : BrokerShape(p)'
  BY <1>1 DEF LifecycleInv, BrokerShape, ByNotional
<1>4. ASSUME NEW u \in updates'
      PROVE  UpdateAgrees(u)'
  <2>1. UpdateAgrees(u) /\ u.order \in Orders
    BY <1>4, UpdateFacts DEF LifecycleInv, Known
  <2>2. CASE u.order = q
    BY <1>1, <2>1, <2>2 DEF UpdateAgrees
  <2>3. CASE u.order # q
    BY <1>1, <2>1, <2>3 DEF UpdateAgrees
  <2>4. QED
    BY <2>2, <2>3
<1>5. OrderAgrees(q)' /\ OrderMoves(q)
  <2>0. OrderAgrees(q)
    BY DEF LifecycleInv
  <2>1. CASE orders'[q] = orders[q]
    <3>1. OrderAgrees(q)'
      BY <1>1, <2>0, <2>1 DEF OrderAgrees, Tracked, ByNotional
    <3>2. QED
      BY <2>1, <3>1, UnmovedOrder DEF Known
  <2>2. CASE /\ orders'[q] = alpaca_order_to_domain(broker'[q])
             /\ broker[q].status = "none" \/ broker'[q].status = "canceled"
    <3>1. /\ orders'[q] \in OrderRecord
          /\ orders'[q].quantity = broker'[q].quantity
          /\ orders'[q].filled_quantity = broker'[q].filled
          /\ orders'[q].updated_at = broker'[q].updated_at
          /\ orders'[q].status = order_status_from_alpaca(broker'[q].status)
          /\ orders'[q].status \in TERMINAL_STATUSES => broker'[q].status \in Closed
      BY <1>1, <1>2, <2>2, SnapshotFacts DEF BrokerShape
    <3>2. OrderAgrees(q)'
      BY <1>1, <1>2, <3>1 DEF OrderAgrees, ByNotional, NoQuantity
    <3>3. OrderMoves(q)
      <4>1. SUFFICES ASSUME Tracked(q)
                     PROVE  /\ orders'[q].filled_quantity >= orders[q].filled_quantity
                            /\ StatusRank(orders'[q].status) >= StatusRank(orders[q].status)
                            /\ ~(orders[q].status \in TERMINAL_STATUSES /\ ~ByNotional(q))
        BY DEF OrderMoves
      <4>2. broker[q].status # "none" /\ broker'[q].status = "canceled"
        BY <2>0, <2>2, <4>1 DEF OrderAgrees
      <4>3. orders'[q].status = "CANCELED"
        BY <3>1, <4>2 DEF order_status_from_alpaca
      <4>4. StatusRank(orders'[q].status) = 4 /\ StatusRank(orders[q].status) \in 0..4
        BY <4>1, <4>3, TrackedFacts DEF StatusRank, Known
      <4>5. orders[q].filled_quantity <= broker[q].filled /\ orders[q].filled_quantity \in Nat
        BY <4>1, TrackedFacts DEF Known, NeverOvercounts
      <4>6. ~(orders[q].status \in TERMINAL_STATUSES /\ ~ByNotional(q))
        BY <1>1, <2>0, <4>1 DEF OrderAgrees
      <4>7. QED
        BY <1>2, <3>1, <4>4, <4>5, <4>6
    <3>4. QED
      BY <3>2, <3>3
  <2>3. QED
    BY <2>1, <2>2 DEF Known, TypeOK
<1>6. ASSUME NEW o \in Orders, o # q
      PROVE  OrderAgrees(o)' /\ OrderMoves(o)
  <2>1. OrderAgrees(o) /\ orders'[o] = orders[o] /\ broker'[o] = broker[o]
    BY <1>1, <1>6 DEF LifecycleInv
  <2>2. QED
    BY <2>1, UnmovedAgrees, UnmovedOrder DEF Known
<1>7. QED
  BY <1>3, <1>4, <1>5, <1>6 DEF LifecycleInv

(* An adapter looks at an order: the new snapshot is what the broker has. *)
LEMMA ObserveLifecycle ==
  ASSUME Known, LifecycleInv, NEW a \in Adapters, NEW o \in Orders, Observe(a, o)
  PROVE  LifecycleInv' /\ \A p \in Orders : OrderMoves(p)
<1>1. /\ UNCHANGED <<broker, orders>> /\ updates' = updates \cup {UpdateOf(o)}
      /\ broker[o].status # "none"
  BY DEF Observe, brokerVars, engineVars
<1>2. broker[o] \in BrokerOrder /\ broker[o].status # "pending_cancel"
  BY DEF Known, TypeOK, LifecycleInv, BrokerShape
<1>3. UpdateAgrees(UpdateOf(o))
  BY <1>1, <1>2, SnapshotFacts DEF UpdateAgrees, UpdateOf
<1>4. \A u \in updates' : UpdateAgrees(u)'
  BY <1>1, <1>3 DEF LifecycleInv, UpdateAgrees
<1>5. \A p \in Orders : BrokerShape(p)' /\ OrderAgrees(p)'
  BY <1>1 DEF LifecycleInv, BrokerShape, OrderAgrees, Tracked, ByNotional
<1>6. \A p \in Orders : OrderMoves(p)
  BY <1>1, UnmovedOrder DEF Known
<1>7. QED
  BY <1>4, <1>5, <1>6 DEF LifecycleInv

(* A step of the engine on one order. *)
LEMMA EngineLifecycle ==
  ASSUME Known, LifecycleInv, NEW o \in Orders, UNCHANGED <<broker, updates>>,
         \A p \in Orders : p # o => orders'[p] = orders[p],
         OrderAgrees(o)', OrderMoves(o)
  PROVE  LifecycleInv' /\ \A p \in Orders : OrderMoves(p)
<1>1. \A p \in Orders : BrokerShape(p)'
  BY DEF LifecycleInv, BrokerShape, ByNotional
<1>2. \A u \in updates' : UpdateAgrees(u)'
  BY DEF LifecycleInv, UpdateAgrees
<1>3. ASSUME NEW p \in Orders, p # o
      PROVE  OrderAgrees(p)' /\ OrderMoves(p)
  <2>1. OrderAgrees(p) /\ orders'[p] = orders[p] /\ broker'[p] = broker[p]
    BY <1>3 DEF LifecycleInv
  <2>2. QED
    BY <2>1, UnmovedAgrees, UnmovedOrder DEF Known
<1>4. QED
  BY <1>1, <1>2, <1>3 DEF LifecycleInv

(* An update that is taken is a snapshot the order moves forward to. *)
LEMMA UpdateLifecycle ==
  ASSUME Known, Known', LifecycleInv, NEW u \in updates, OnOrderUpdate(u)
  PROVE  LifecycleInv' /\ \A p \in Orders : OrderMoves(p)
<1> DEFINE o == u.order
<1>1. /\ o \in Orders /\ u.snapshot \in OrderRecord
      /\ u.snapshot.filled_quantity \in Nat /\ u.snapshot.status \in OrderStatus
  BY UpdateFacts DEF Known, OrderRecord
<1>2. /\ UNCHANGED <<broker, updates>>
      /\ orders' = [orders EXCEPT ![o] = IF orders[o] = NoOrder THEN u.snapshot
                                         ELSE ApplyOrderUpdate(orders[o], u.snapshot)]
  BY DEF OnOrderUpdate, brokerVars, wireVars
<1>3. /\ orders'[o] = IF orders[o] = NoOrder THEN u.snapshot
                      ELSE ApplyOrderUpdate(orders[o], u.snapshot)
      /\ \A p \in Orders : p # o => orders'[p] = orders[p]
  BY <1>1, <1>2 DEF Known, TypeOK
<1>4. UpdateAgrees(u) /\ OrderAgrees(o) /\ BrokerShape(o)
  BY <1>1 DEF LifecycleInv
<1>5. broker[o] \in BrokerOrder
  BY <1>1 DEF Known, TypeOK
<1>6. orders'[o] = u.snapshot => OrderAgrees(o)'
  <2>1. SUFFICES ASSUME orders'[o] = u.snapshot
                 PROVE  OrderAgrees(o)'
    OBVIOUS
  <2>2. /\ broker[o].status # "none" /\ broker[o].status # "pending_cancel"
        /\ u.snapshot.quantity = broker[o].quantity
    BY <1>4 DEF UpdateAgrees, BrokerShape
  <2>3. ByNotional(o) => u.snapshot.quantity <= u.snapshot.filled_quantity
    BY <1>1, <2>2 DEF ByNotional, NoQuantity
  <2>4. u.snapshot.status \in TERMINAL_STATUSES =>
          /\ broker[o].status \in Closed
          /\ u.snapshot.status = order_status_from_alpaca(broker[o].status)
          /\ u.snapshot.filled_quantity = broker[o].filled
          /\ u.snapshot.updated_at = broker[o].updated_at
    BY <1>4, <1>5, <2>2, SnapshotFacts DEF UpdateAgrees
  <2>5. QED
    BY <1>2, <2>1, <2>2, <2>3, <2>4 DEF OrderAgrees, ByNotional
<1>7. CASE orders[o] = NoOrder
  <2>1. OrderMoves(o)
    BY <1>7 DEF OrderMoves, Tracked
  <2>2. QED
    BY <1>1, <1>2, <1>3, <1>6, <1>7, <2>1, EngineLifecycle
<1>8. CASE orders[o] # NoOrder /\ UpdateIsStale(orders[o], u.snapshot)
  <2>1. orders'[o] = orders[o]
    BY <1>3, <1>8 DEF ApplyOrderUpdate
  <2>2. OrderAgrees(o)' /\ OrderMoves(o)
    BY <1>1, <1>2, <1>4, <2>1, UnmovedAgrees, UnmovedOrder DEF Known
  <2>3. QED
    BY <1>1, <1>2, <1>3, <2>2, EngineLifecycle
<1>9. CASE orders[o] # NoOrder /\ ~UpdateIsStale(orders[o], u.snapshot)
  <2>1. orders'[o] = u.snapshot
    BY <1>3, <1>9 DEF ApplyOrderUpdate
  <2>2. Tracked(o) /\ orders[o] \in OrderRecord /\ orders[o].status \in OrderStatus
        /\ orders[o].filled_quantity \in Nat
    BY <1>1, <1>9, TrackedFacts DEF Known, Tracked
  <2>3. /\ u.snapshot.filled_quantity >= orders[o].filled_quantity
        /\ StatusRank(u.snapshot.status) >= StatusRank(orders[o].status)
    BY <1>1, <1>9, <2>2, RankFacts DEF UpdateIsStale
  <2>4. OrderAgrees(o)'
    BY <1>6, <2>1
  <2>5. orders[o].status \in TERMINAL_STATUSES /\ ~ByNotional(o)
          => u.snapshot.status = orders[o].status
    <3>1. SUFFICES ASSUME orders[o].status \in TERMINAL_STATUSES, ~ByNotional(o)
                   PROVE  u.snapshot.status = orders[o].status
      OBVIOUS
    <3>2. u.snapshot.status \in TERMINAL_STATUSES
      BY <1>1, <2>2, <2>3, <3>1, RankFacts
    <3>3. u.snapshot.status = order_status_from_alpaca(broker[o].status)
      BY <1>4, <1>5, <3>2, SnapshotFacts DEF UpdateAgrees, BrokerShape
    <3>4. QED
      BY <1>4, <2>2, <3>1, <3>3 DEF OrderAgrees
  <2>6. OrderMoves(o)
    BY <2>1, <2>3, <2>5 DEF OrderMoves
  <2>7. QED
    BY <1>1, <1>2, <1>3, <2>4, <2>6, EngineLifecycle
<1>10. QED
  BY <1>7, <1>8, <1>9

(* A fill that counts finds the order open; it completes the order only with the
   last share the broker executes for it. *)
LEMMA FillLifecycle ==
  ASSUME Known, Known', LifecycleInv, NEW f \in fills, OnFill(f)
  PROVE  LifecycleInv' /\ \A p \in Orders : OrderMoves(p)
<1> DEFINE o == f.order
<1>1. /\ o \in Orders /\ f.quantity \in Nat \ {0}
      /\ Tracked(o)
  BY FillFacts DEF Known, OnFill, Tracked
<1>2. /\ UNCHANGED <<broker, updates>>
      /\ orders' = [orders EXCEPT ![o] = MarkFilled(orders[o], f)]
  BY DEF OnFill, brokerVars, wireVars
<1>3. /\ orders'[o] = MarkFilled(orders[o], f)
      /\ \A p \in Orders : p # o => orders'[p] = orders[p]
  BY <1>1, <1>2 DEF Known, TypeOK
<1>4. /\ orders[o].quantity \in Nat /\ orders[o].filled_quantity \in Nat
      /\ orders[o].status \in OrderStatus /\ StatusRank(orders[o].status) \in 0..4
      /\ broker[o].filled \in Nat /\ broker[o].quantity \in Nat
  BY <1>1, TrackedFacts DEF Known, TypeOK, BrokerOrder
<1>5. OrderAgrees(o) /\ BrokerShape(o)
  BY <1>1 DEF LifecycleInv
<1>6. CASE FillAlreadyReflected(orders[o], f)
  <2>1. orders'[o] = orders[o]
    BY <1>3, <1>6 DEF MarkFilled
  <2>2. OrderAgrees(o)' /\ OrderMoves(o)
    BY <1>1, <1>2, <1>5, <2>1, UnmovedAgrees, UnmovedOrder DEF Known
  <2>3. QED
    BY <1>1, <1>2, <1>3, <2>2, EngineLifecycle
<1>7. CASE ~FillAlreadyReflected(orders[o], f)
  <2> DEFINE filled == orders[o].filled_quantity + f.quantity
             target == IF orders[o].quantity = NoQuantity THEN filled ELSE orders[o].quantity
  <2>1. /\ orders'[o].quantity = target
        /\ orders'[o].filled_quantity = filled
        /\ orders'[o].status = IF filled >= target THEN "FILLED" ELSE "PARTIALLY_FILLED"
    BY <1>3, <1>7 DEF MarkFilled
  <2>2. filled \in Nat /\ filled > orders[o].filled_quantity /\ target \in Nat
    BY <1>1, <1>4 DEF NoQuantity
  <2>3. filled <= broker[o].filled
    <3>1. Tracked(o)'
      <4>1. orders[o] \in OrderRecord /\ f \in FillEvent
        BY <1>1, TrackedFacts DEF Known, TypeOK
      <4>2. QED
        BY <1>3, <4>1, MarkFilledType, NoOrderAssumption DEF Tracked
    <3>2. orders'[o].filled_quantity <= broker'[o].filled
      BY <1>1, <3>1 DEF Known, NeverOvercounts
    <3>3. QED
      BY <1>2, <2>1, <3>2
  <2>4. broker[o].status # "none"
    BY <1>1, <1>5 DEF OrderAgrees
  <2>5. orders'[o].status \in {"FILLED", "PARTIALLY_FILLED"}
    BY <2>1
  <2>6. CASE ByNotional(o)
    <3>1. target <= filled /\ orders'[o].status = "FILLED"
      BY <1>1, <1>4, <1>5, <2>1, <2>2, <2>6 DEF OrderAgrees
    <3>2. OrderAgrees(o)'
      BY <1>2, <2>1, <2>4, <2>6, <3>1 DEF OrderAgrees, ByNotional
    <3>3. StatusRank(orders'[o].status) = 4
      BY <3>1 DEF StatusRank
    <3>4. OrderMoves(o)
      BY <1>4, <2>1, <2>2, <2>6, <3>3 DEF OrderMoves
    <3>5. QED
      BY <1>1, <1>2, <1>3, <3>2, <3>4, EngineLifecycle
  <2>7. CASE ~ByNotional(o)
    <3>1. target = broker[o].quantity /\ orders[o].quantity = broker[o].quantity
      BY <1>1, <1>5, <2>7 DEF OrderAgrees, ByNotional
    <3>2. orders[o].status \notin TERMINAL_STATUSES
      BY <1>1, <1>4, <1>5, <2>2, <2>3, <2>7 DEF OrderAgrees
    <3>3. orders'[o].status \in TERMINAL_STATUSES =>
            /\ orders'[o].status = "FILLED" /\ filled = broker[o].filled
            /\ broker[o].status = "filled"
      <4>1. /\ broker[o].filled <= broker[o].quantity
            /\ broker[o].filled = broker[o].quantity => broker[o].status = "filled"
        BY <1>5, <2>7 DEF BrokerShape
      <4>2. "PARTIALLY_FILLED" \notin TERMINAL_STATUSES
        BY DEF TERMINAL_STATUSES
      <4> HIDE DEF filled, target
      <4>3. QED
        BY <1>4, <2>1, <2>2, <2>3, <3>1, <4>1, <4>2
    <3>4. OrderAgrees(o)'
      <4>1. broker[o].status = "filled" =>
              broker[o].status \in Closed /\ order_status_from_alpaca(broker[o].status) = "FILLED"
        BY DEF Closed, order_status_from_alpaca
      <4> HIDE DEF filled, target
      <4>2. QED
        BY <1>2, <2>1, <2>4, <2>7, <3>1, <3>3, <4>1 DEF OrderAgrees, ByNotional
    <3>5. StatusRank(orders'[o].status) >= StatusRank(orders[o].status)
      <4>1. orders'[o].status \in OrderStatus
        BY <2>5 DEF OrderStatus, OPEN_ORDER_STATUSES, TERMINAL_STATUSES
      <4>2. StatusRank(orders'[o].status) >= 3 /\ StatusRank(orders'[o].status) \in 0..4
        BY <2>5, <4>1, RankFacts
      <4>3. StatusRank(orders[o].status) # 4
        BY <1>4, <3>2, RankFacts
      <4>4. QED
        BY <1>4, <4>2, <4>3
    <3>6. OrderMoves(o)
      BY <1>4, <2>1, <2>2, <3>2, <3>5 DEF OrderMoves
    <3>7. QED
      BY <1>1, <1>2, <1>3, <3>4, <3>6, EngineLifecycle
  <2>8. QED
    BY <2>6, <2>7
<1>8. QED
  BY <1>6, <1>7

LEMMA NextLifecycle ==
  ASSUME ~AsyncCancel, Known, Known', LifecycleInv, [Next]_vars
  PROVE  LifecycleInv' /\ \A p \in Orders : OrderMoves(p)
<1>1. ASSUME NEW o \in Orders, NEW quantity \in Quantities, Submit(o, quantity)
      PROVE  LifecycleInv' /\ \A p \in Orders : OrderMoves(p)
  <2>1. BrokerKeeps(o)
    BY <1>1, SubmitKeeps DEF Known
  <2>2. PICK changed : BrokerMoves(o, changed)
    BY <1>1, SubmitMoves DEF Known
  <2>3. broker[o].filled <= broker'[o].filled /\ UNCHANGED updates
    BY <2>2, BrokerMovesForward DEF Known, BrokerMoves, wireVars
  <2>4. \/ UNCHANGED orders
        \/ /\ orders' = [orders EXCEPT ![o] = alpaca_order_to_domain(broker'[o])]
           /\ broker[o].status = "none"
    BY <1>1 DEF Submit, BrokerAccepts
  <2>5. QED
    BY <2>1, <2>3, <2>4, BrokerLifecycle
<1>2. ASSUME NEW o \in Orders, CancelOrder(o)
      PROVE  LifecycleInv' /\ \A p \in Orders : OrderMoves(p)
  <2>1. BrokerKeeps(o) /\ broker'[o].status = "canceled"
    BY <1>2, CancelKeeps DEF Known, LifecycleInv
  <2>2. PICK changed : BrokerMoves(o, changed)
    BY <1>2, CancelMoves DEF Known
  <2>3. broker[o].filled <= broker'[o].filled /\ UNCHANGED updates
    BY <2>2, BrokerMovesForward DEF Known, BrokerMoves, wireVars
  <2>4. \/ UNCHANGED orders
        \/ orders' = [orders EXCEPT ![o] = alpaca_order_to_domain(broker'[o])]
    BY <1>2 DEF CancelOrder
  <2>5. QED
    BY <2>1, <2>3, <2>4, BrokerLifecycle
<1>3. ASSUME NEW o \in Orders, BrokerStep(o)
      PROVE  LifecycleInv' /\ \A p \in Orders : OrderMoves(p)
  <2>1. BrokerKeeps(o)
    BY <1>3, BrokerStepKeeps DEF Known, LifecycleInv
  <2>2. PICK changed : BrokerMoves(o, changed)
    BY <1>3, BrokerStepMoves DEF Known
  <2>3. /\ broker[o].filled <= broker'[o].filled /\ UNCHANGED updates
        /\ UNCHANGED orders
    BY <1>3, <2>2, BrokerMovesForward DEF Known, BrokerMoves, wireVars, BrokerStep, engineVars
  <2>4. QED
    BY <2>1, <2>3, BrokerLifecycle
<1>4. ASSUME NEW a \in Adapters, NEW o \in Orders, Observe(a, o)
      PROVE  LifecycleInv' /\ \A p \in Orders : OrderMoves(p)
  BY <1>4, ObserveLifecycle
<1>5. ASSUME NEW u \in updates, OnOrderUpdate(u)
      PROVE  LifecycleInv' /\ \A p \in Orders : OrderMoves(p)
  BY <1>5, UpdateLifecycle
<1>6. ASSUME NEW f \in fills, OnFill(f)
      PROVE  LifecycleInv' /\ \A p \in Orders : OrderMoves(p)
  BY <1>6, FillLifecycle
<1>7. CASE Restart
  <2>1. UNCHANGED broker /\ updates' = {} /\ \A o \in Orders : ~Tracked(o)'
    BY <1>7 DEF Restart, brokerVars, Tracked
  <2>2. LifecycleInv'
    BY <2>1 DEF LifecycleInv, BrokerShape, ByNotional, OrderAgrees
  <2>3. \A p \in Orders : OrderMoves(p)
    BY <2>1 DEF OrderMoves
  <2>4. QED
    BY <2>2, <2>3
<1>8. CASE UNCHANGED vars
  <2>1. UNCHANGED <<broker, updates, orders>>
    BY <1>8 DEF vars, brokerVars, wireVars, engineVars
  <2>2. LifecycleInv'
    BY <2>1 DEF LifecycleInv, BrokerShape, ByNotional, OrderAgrees, UpdateAgrees, Tracked
  <2>3. \A p \in Orders : OrderMoves(p)
    BY <2>1, UnmovedOrder DEF Known
  <2>4. QED
    BY <2>2, <2>3
<1>9. QED
  BY <1>1, <1>2, <1>3, <1>4, <1>5, <1>6, <1>7, <1>8 DEF Next
-----------------------------------------------------------------------------
LEMMA LifecycleInvariant ==
  ASSUME NEW a, Adapters = {a}, ~AsyncCancel
  PROVE  Spec => [](Known /\ LifecycleInv)
<1>1. Init => LifecycleInv
  <2> SUFFICES ASSUME Init
               PROVE  LifecycleInv
    OBVIOUS
  <2>1. /\ updates = {} /\ \A o \in Orders : broker[o] = NotPlaced /\ ~Tracked(o)
    BY DEF Init, BrokerInit, Tracked
  <2>2. QED
    BY <2>1 DEF LifecycleInv, BrokerShape, OrderAgrees, NotPlaced, ByNotional
<1>2. Known /\ Known' /\ LifecycleInv /\ [Next]_vars => LifecycleInv'
  BY NextLifecycle
<1>3. TypeOK /\ SharesInv /\ NeverOvercounts => Known
  BY DEF Known, SharesInv
<1>4. Spec => []TypeOK
  BY TypeCorrect
<1>5. Spec => []SharesInv
  BY SharesAreInvariant
<1>6. Spec => []NeverOvercounts
  BY SharesCountedOnce
<1>7. QED
  BY <1>1, <1>2, <1>3, <1>4, <1>5, <1>6, PTL DEF Spec

(* With one adapter, and a broker that cancels at once, an order placed by
   quantity is tracked FILLED only when the broker filled it, although
   mark_filled completes it from the fills alone. *)
THEOREM FilledIsFilled ==
  ASSUME NEW a, Adapters = {a}, ~AsyncCancel
  PROVE  Spec => []FilledMeansFilled
<1>1. Known /\ LifecycleInv => FilledMeansFilled
  <2>1. SUFFICES ASSUME Known, LifecycleInv, NEW o \in Orders,
                        Tracked(o), ~ByNotional(o), orders[o].status = "FILLED"
                 PROVE  broker[o].status = "filled"
    BY DEF FilledMeansFilled
  <2>2. broker[o].status \in Closed /\ order_status_from_alpaca(broker[o].status) = "FILLED"
    BY <2>1 DEF LifecycleInv, OrderAgrees, TERMINAL_STATUSES
  <2>3. QED
    BY <2>2 DEF Closed, order_status_from_alpaca
<1>2. QED
  BY <1>1, LifecycleInvariant, PTL

(* Under the same hypotheses a tracked order never loses shares, never falls
   back in rank, and once closed keeps its status (apply_order_update,
   mark_filled and cancel_order). *)
THEOREM LifecycleIsMonotonic ==
  ASSUME NEW a, Adapters = {a}, ~AsyncCancel
  PROVE  Spec => LifecycleNeverRegresses
<1>1. /\ Known /\ LifecycleInv /\ Known' /\ [Next]_vars
      => [\A o \in Orders :
            Tracked(o) /\ Tracked(o)' =>
              /\ orders'[o].filled_quantity >= orders[o].filled_quantity
              /\ StatusRank(orders'[o].status) >= StatusRank(orders[o].status)
              /\ orders[o].status \in TERMINAL_STATUSES /\ ~ByNotional(o)
                   => orders'[o].status = orders[o].status]_vars
  BY NextLifecycle DEF OrderMoves
<1>2. QED
  BY <1>1, LifecycleInvariant, PTL DEF Spec, LifecycleNeverRegresses
-----------------------------------------------------------------------------
(***************************************************************************)
(* The freshest snapshot wins.                                              *)
(***************************************************************************)

(* The rank of what an adapter reads of a broker order. *)
BrokerRank(b) == StatusRank(order_status_from_alpaca(b.status))

(* No snapshot and no tracked order is ahead of the broker in rank, and what the
   broker executed shows in its rank. *)
RankInv ==
  /\ processed_update_ids \subseteq updates
  /\ \A o \in Orders :
       broker[o].status # "none" /\ broker[o].filled > 0 => BrokerRank(broker[o]) >= 3
  /\ \A u \in updates : StatusRank(u.snapshot.status) <= BrokerRank(broker[u.order])
  /\ \A o \in Orders :
       Tracked(o) /\ ~ByNotional(o) => StatusRank(orders[o].status) <= BrokerRank(broker[o])

(* No snapshot, fill or tracked order is ahead of the broker in time or shares. *)
Behind ==
  /\ \A f \in fills : /\ f.quantity <= broker[f.order].filled
                      /\ f.timestamp <= broker[f.order].updated_at
  /\ \A u \in updates : /\ u.snapshot.filled_quantity <= broker[u.order].filled
                        /\ u.snapshot.updated_at <= broker[u.order].updated_at
  /\ \A o \in Orders : Tracked(o) => orders[o].updated_at <= broker[o].updated_at

LEMMA BehindFacts ==
  ASSUME NEW a, Adapters = {a}, TypeOK, SharesInv
  PROVE  Behind
<1>1. ASSUME NEW u \in updates
      PROVE  /\ u.snapshot.filled_quantity <= broker[u.order].filled
             /\ u.snapshot.updated_at <= broker[u.order].updated_at
  <2>1. /\ u.order \in Orders /\ u.snapshot.filled_quantity \in Nat
        /\ seen[a][u.order] \in Nat /\ broker[u.order].filled \in Nat
    BY UpdateFacts, TypeFacts
  <2>2. /\ u.snapshot.filled_quantity <= seen[a][u.order]
        /\ seen[a][u.order] <= broker[u.order].filled
        /\ u.snapshot.updated_at <= broker[u.order].updated_at
    BY <2>1 DEF SharesInv, WireInv
  <2>3. QED
    BY <2>1, <2>2
<1>2. \A o \in Orders : Tracked(o) => orders[o].updated_at <= broker[o].updated_at
  BY DEF SharesInv, CountedInv, Counted, Counts
<1>3. ASSUME NEW f \in fills
      PROVE  /\ f.quantity <= broker[f.order].filled
             /\ f.timestamp <= broker[f.order].updated_at
  <2>1. /\ f.order \in Orders /\ f.cumulative \in Nat /\ f.quantity \in Nat
        /\ seen[a][f.order] \in Nat /\ broker[f.order].filled \in Nat
    BY FillFacts, TypeFacts
  <2>2. /\ f.cumulative <= seen[a][f.order] /\ f.quantity <= f.cumulative
        /\ seen[a][f.order] <= broker[f.order].filled
        /\ f.timestamp <= broker[f.order].updated_at
    BY <2>1 DEF SharesInv, WireInv
  <2>3. QED
    BY <2>1, <2>2
<1>4. QED
  BY <1>1, <1>2, <1>3 DEF Behind

LEMMA BrokerRankFacts ==
  ASSUME NEW b \in BrokerOrder, b.status \notin {"none", "pending_cancel"}
  PROVE  /\ BrokerRank(b) \in 1..4
         /\ b.status = "accepted" => BrokerRank(b) = 1
         /\ b.status = "new" => BrokerRank(b) = 2
         /\ b.status = "partially_filled" => BrokerRank(b) = 3
         /\ b.status \in Closed <=> BrokerRank(b) = 4
BY DEF BrokerRank, StatusRank, order_status_from_alpaca, BrokerOrder, BrokerStatus, Working, Closed

(* Every step of the broker shows: in the rank or in the shares of the order. *)
BrokerAdvances(o) ==
  /\ broker[o].status # "none" =>
       /\ BrokerRank(broker'[o]) >= BrokerRank(broker[o])
       /\ broker'[o].filled >= broker[o].filled
       /\ \/ BrokerRank(broker'[o]) > BrokerRank(broker[o])
          \/ broker'[o].filled > broker[o].filled
  /\ broker'[o].filled > 0 => BrokerRank(broker'[o]) >= 3

LEMMA SetsAdvances ==
  ASSUME TypeOK, NEW o \in Orders, NEW changed \in BrokerOrder, BrokerSets(o, changed)
  PROVE  /\ BrokerRank(broker'[o]) = BrokerRank(changed)
         /\ broker'[o].filled = changed.filled
<1>1. broker'[o] = [changed EXCEPT !.updated_at = clock']
  BY BrokerSetsType
<1>2. broker'[o].status = changed.status /\ broker'[o].filled = changed.filled
  BY <1>1 DEF BrokerOrder
<1>3. QED
  BY <1>2 DEF BrokerRank

LEMMA SubmitAdvances ==
  ASSUME TypeOK, WireInv, NEW o \in Orders, NEW quantity \in Quantities, Submit(o, quantity)
  PROVE  BrokerAdvances(o) /\ broker[o].status = "none"
<1>0. PICK older \in Nat :
        BrokerSets(o, [broker[o] EXCEPT !.status = "accepted", !.quantity = quantity,
                                        !.older = older])
  BY AcceptsSets DEF Submit
<1> DEFINE changed == [broker[o] EXCEPT !.status = "accepted", !.quantity = quantity,
                                        !.older = older]
<1>1. broker[o] \in BrokerOrder /\ quantity \in Nat
  BY QuantityAssumption DEF TypeOK
<1>2. broker[o].status = "none" /\ broker[o].filled = 0 /\ BrokerSets(o, changed)
  BY <1>0 DEF Submit, BrokerAccepts, WireInv
<1>3. changed \in BrokerOrder /\ changed.filled = 0
  BY <1>1, <1>2 DEF BrokerOrder, BrokerStatus, Working
<1> HIDE DEF changed
<1>4. broker'[o].filled = 0
  BY <1>2, <1>3, SetsAdvances
<1>5. QED
  BY <1>2, <1>4 DEF BrokerAdvances

LEMMA MovesAdvances ==
  ASSUME ~AsyncCancel, TypeOK, RankInv, NEW o \in Orders, BrokerShape(o),
         CancelOrder(o) \/ BrokerStep(o)
  PROVE  BrokerAdvances(o) /\ broker[o].status # "none"
<1>1. broker[o] \in BrokerOrder /\ broker[o].filled \in Nat
  BY DEF TypeOK, BrokerOrder
<1>2. CASE CancelOrder(o) \/ \E status \in Closed \ {"filled"} : BrokerEnds(o, status)
  <2>1. PICK status \in Closed :
          /\ broker[o].status \in Working
          /\ BrokerSets(o, [broker[o] EXCEPT !.status = status])
    BY <1>2 DEF CancelOrder, BrokerCancels, BrokerEnds, Working, Closed
  <2> DEFINE changed == [broker[o] EXCEPT !.status = status]
  <2>2. /\ changed \in BrokerOrder /\ changed.filled = broker[o].filled
        /\ changed.status = status
    BY <1>1, <2>1 DEF BrokerOrder, BrokerStatus
  <2>3. broker[o].status \notin {"none", "pending_cancel"} /\ broker[o].status \notin Closed
    BY <2>1 DEF BrokerShape, Working, Closed
  <2>4. BrokerRank(broker[o]) < 4
    BY <1>1, <2>3, BrokerRankFacts
  <2> HIDE DEF changed
  <2>5. BrokerRank(changed) = 4
    BY <2>2, BrokerRankFacts DEF Closed
  <2>6. BrokerRank(broker'[o]) = 4 /\ broker'[o].filled = broker[o].filled
    BY <2>1, <2>2, <2>5, SetsAdvances DEF changed
  <2>7. QED
    BY <1>1, <2>3, <2>4, <2>6, BrokerRankFacts DEF BrokerAdvances
<1>3. CASE BrokerAcknowledges(o)
  <2> DEFINE changed == [broker[o] EXCEPT !.status = "new"]
  <2>1. broker[o].status = "accepted" /\ BrokerSets(o, changed)
    BY <1>3 DEF BrokerAcknowledges
  <2>2. changed \in BrokerOrder /\ changed.filled = broker[o].filled /\ changed.status = "new"
    BY <1>1 DEF BrokerOrder, BrokerStatus, Working
  <2> HIDE DEF changed
  <2>3. BrokerRank(changed) = 2 /\ BrokerRank(broker[o]) = 1
    BY <1>1, <2>1, <2>2, BrokerRankFacts
  <2>4. BrokerRank(broker'[o]) = 2 /\ broker'[o].filled = broker[o].filled
    BY <2>1, <2>2, <2>3, SetsAdvances
  <2>5. ~(broker[o].filled > 0)
    BY <2>1, <2>3 DEF RankInv
  <2>6. QED
    BY <1>1, <2>1, <2>3, <2>4, <2>5 DEF BrokerAdvances
<1>4. ASSUME NEW n \in 1..Fillable(o), BrokerFills(o, n)
      PROVE  BrokerAdvances(o) /\ broker[o].status # "none"
  <2> DEFINE filled == broker[o].filled + n
  <2>1. filled \in Nat /\ filled > broker[o].filled /\ clock \in Nat
    BY <1>1 DEF TypeOK
  <2>2. PICK status \in {"filled", "partially_filled"}, filled_at \in {0, clock} :
          Executes(o, filled, status, filled_at)
    <3>1. broker[o].status # "pending_cancel"
      BY DEF BrokerShape
    <3>2. \E status \in {"filled", "partially_filled", "pending_cancel"},
             filled_at \in {0, clock} :
            /\ Executes(o, filled, status, filled_at)
            /\ status = "pending_cancel" => broker[o].status = "pending_cancel"
      BY <1>4, FillsSets, Zenon
    <3>3. QED
      BY <3>1, <3>2
  <2> DEFINE changed == Executed(broker[o], filled, status, filled_at)
  <2>3. changed \in BrokerOrder /\ changed.filled = filled /\ changed.status = status
    <3>1. status \in BrokerStatus /\ filled_at \in Nat
      BY <2>1 DEF BrokerStatus, Working, Closed
    <3> HIDE DEF filled
    <3>2. QED
      BY <1>1, <2>1, <3>1, ExecutedType
  <2>4. broker[o].status \notin {"none", "pending_cancel"} /\ broker[o].status \notin Closed
    BY <1>4 DEF BrokerFills, BrokerShape, Working, Closed
  <2>5. BrokerRank(broker[o]) \in 1..3
    BY <1>1, <2>4, BrokerRankFacts
  <2>6. BrokerSets(o, changed)
    BY <2>2 DEF Executes
  <2> HIDE DEF changed, filled
  <2>7. BrokerRank(changed) \in 3..4
    BY <2>2, <2>3, BrokerRankFacts DEF Closed
  <2>8. BrokerRank(broker'[o]) \in 3..4 /\ broker'[o].filled = filled
    BY <2>3, <2>6, <2>7, SetsAdvances
  <2>9. QED
    BY <1>1, <2>1, <2>4, <2>5, <2>8 DEF BrokerAdvances
<1>5. QED
  BY <1>2, <1>3, <1>4 DEF BrokerStep, BrokerActs

LEMMA SnapshotRank ==
  ASSUME NEW o \in Orders
  PROVE  /\ UpdateOf(o).order = o
         /\ UpdateOf(o).snapshot = alpaca_order_to_domain(broker[o])
         /\ UpdateOf(o).snapshot.filled_quantity = broker[o].filled
         /\ UpdateOf(o).snapshot.updated_at = broker[o].updated_at
         /\ UpdateOf(o).snapshot.quantity = broker[o].quantity
         /\ StatusRank(UpdateOf(o).snapshot.status) = BrokerRank(broker[o])
BY DEF UpdateOf, alpaca_order_to_domain, BrokerRank

(* When the broker moves, what it has now was never seen before. *)
LEMMA FreshBroker ==
  ASSUME Known, Known', LifecycleInv, Behind, RankInv, FreshSnapshotIsTracked,
         NEW q \in Orders, BrokerKeeps(q), BrokerAdvances(q),
         UNCHANGED <<updates, processed_update_ids>>,
         UNCHANGED orders \/ orders' = [orders EXCEPT ![q] = alpaca_order_to_domain(broker'[q])]
  PROVE  RankInv' /\ FreshSnapshotIsTracked'
<1>1. /\ \A p \in Orders : p # q => broker'[p] = broker[p] /\ orders'[p] = orders[p]
      /\ broker'[q].status # "none" /\ broker'[q].status # "pending_cancel"
      /\ broker[q].status # "none" => broker'[q].quantity = broker[q].quantity
  BY DEF BrokerKeeps, BrokerShape, Known, TypeOK
<1>2. /\ broker[q] \in BrokerOrder /\ broker'[q] \in BrokerOrder
      /\ broker[q].filled \in Nat /\ broker'[q].filled \in Nat
      /\ broker[q].status # "pending_cancel"
  BY DEF Known, TypeOK, BrokerOrder, LifecycleInv, BrokerShape
<1>3. BrokerRank(broker'[q]) \in 1..4 /\ (broker[q].status # "none" => BrokerRank(broker[q]) \in 1..4)
  BY <1>1, <1>2, BrokerRankFacts
<1>4. ASSUME NEW u \in updates
      PROVE  StatusRank(u.snapshot.status) <= BrokerRank(broker'[u.order])
  <2>1. /\ u.order \in Orders /\ broker[u.order].status # "none"
        /\ StatusRank(u.snapshot.status) <= BrokerRank(broker[u.order])
    BY UpdateFacts DEF Known, LifecycleInv, UpdateAgrees, RankInv
  <2>2. StatusRank(u.snapshot.status) \in 0..4
    BY UpdateFacts, RankFacts DEF Known, OrderRecord
  <2>3. CASE u.order = q
    BY <1>3, <2>1, <2>2, <2>3 DEF BrokerAdvances
  <2>4. CASE u.order # q
    BY <1>1, <2>1, <2>4
  <2>5. QED
    BY <2>3, <2>4
<1>5. ASSUME NEW o \in Orders, Tracked(o)', ~ByNotional(o)'
      PROVE  StatusRank(orders'[o].status) <= BrokerRank(broker'[o])
  <2>1. CASE o # q
    BY <1>1, <1>5, <2>1 DEF RankInv, Tracked, ByNotional
  <2>2. CASE o = q /\ orders'[q] = orders[q]
    <3>1. Tracked(q) /\ broker[q].status # "none"
      BY <1>5, <2>2 DEF LifecycleInv, OrderAgrees, Tracked
    <3>2. ~ByNotional(q)
      BY <1>1, <1>5, <2>2, <3>1 DEF ByNotional
    <3>3. StatusRank(orders[q].status) <= BrokerRank(broker[q])
      BY <3>1, <3>2 DEF RankInv
    <3>4. StatusRank(orders[q].status) \in 0..4
      BY <3>1, TrackedFacts DEF Known
    <3>5. QED
      BY <1>3, <2>2, <3>1, <3>3, <3>4 DEF BrokerAdvances
  <2>3. CASE o = q /\ orders'[q] = alpaca_order_to_domain(broker'[q])
    <3>1. StatusRank(orders'[q].status) = BrokerRank(broker'[q])
      BY <2>3 DEF alpaca_order_to_domain, BrokerRank
    <3>2. QED
      BY <1>3, <2>3, <3>1
  <2>4. QED
    BY <2>1, <2>2, <2>3 DEF Known, TypeOK
<1>6. ASSUME NEW o \in Orders, broker'[o].status # "none", broker'[o].filled > 0
      PROVE  BrokerRank(broker'[o]) >= 3
  <2>1. CASE o = q
    BY <1>6, <2>1 DEF BrokerAdvances
  <2>2. CASE o # q
    BY <1>1, <1>6, <2>2 DEF RankInv
  <2>3. QED
    BY <2>1, <2>2
<1>7. RankInv'
  BY <1>4, <1>5, <1>6 DEF RankInv
<1>8. UpdateOf(q)' \notin processed_update_ids'
  <2>1. SUFFICES ASSUME UpdateOf(q)' \in updates
                 PROVE  FALSE
    BY DEF RankInv
  <2> DEFINE u == UpdateOf(q)'
  <2>2. /\ u.order = q /\ u.snapshot.filled_quantity = broker'[q].filled
        /\ StatusRank(u.snapshot.status) = BrokerRank(broker'[q])
    BY DEF UpdateOf, alpaca_order_to_domain, BrokerRank
  <2> HIDE DEF u
  <2>3. /\ broker[q].status # "none"
        /\ broker'[q].filled <= broker[q].filled
        /\ BrokerRank(broker'[q]) <= BrokerRank(broker[q])
    BY <2>1, <2>2 DEF u, LifecycleInv, UpdateAgrees, Behind, RankInv
  <2>4. QED
    BY <1>2, <1>3, <2>3 DEF BrokerAdvances
<1>9. ASSUME NEW o \in Orders, ~ByNotional(o)', UpdateOf(o)' \in processed_update_ids'
      PROVE  orders'[o] = UpdateOf(o)'.snapshot
  <2>1. o # q
    BY <1>8, <1>9
  <2>2. broker'[o] = broker[o] /\ orders'[o] = orders[o] /\ UpdateOf(o)' = UpdateOf(o)
    BY <1>1, <2>1 DEF UpdateOf
  <2>3. QED
    BY <1>9, <2>2 DEF FreshSnapshotIsTracked, ByNotional
<1>10. QED
  BY <1>7, <1>9 DEF FreshSnapshotIsTracked

LEMMA FreshObserve ==
  ASSUME Known, LifecycleInv, RankInv, FreshSnapshotIsTracked,
         NEW a \in Adapters, NEW o \in Orders, Observe(a, o)
  PROVE  RankInv' /\ FreshSnapshotIsTracked'
<1>1. /\ UNCHANGED <<broker, orders, processed_update_ids>>
      /\ updates' = updates \cup {UpdateOf(o)} /\ broker[o].status # "none"
  BY DEF Observe, brokerVars, engineVars
<1>2. BrokerRank(broker[o]) \in 1..4
  BY <1>1, BrokerRankFacts DEF Known, TypeOK, LifecycleInv, BrokerShape
<1>3. \A u \in updates' : StatusRank(u.snapshot.status) <= BrokerRank(broker'[u.order])
  BY <1>1, <1>2, SnapshotRank DEF RankInv
<1>4. RankInv'
  BY <1>1, <1>3 DEF RankInv, Tracked, ByNotional
<1>5. FreshSnapshotIsTracked'
  BY <1>1 DEF FreshSnapshotIsTracked, UpdateOf, ByNotional
<1>6. QED
  BY <1>4, <1>5

(* Statuses short of closed are told apart by their rank. *)
LEMMA RankTellsStatus ==
  ASSUME NEW one \in OrderStatus, NEW other \in OrderStatus,
         StatusRank(one) = StatusRank(other), one \notin TERMINAL_STATUSES
  PROVE  one = other
BY DEF StatusRank, OrderStatus, OPEN_ORDER_STATUSES, TERMINAL_STATUSES

(* The snapshot of what the broker has is taken; after it an older one is not. *)
LEMMA FreshUpdate ==
  ASSUME Known, LifecycleInv, Behind, RankInv, FreshSnapshotIsTracked,
         NEW u \in updates, OnOrderUpdate(u)
  PROVE  RankInv' /\ FreshSnapshotIsTracked'
<1> DEFINE o == u.order
           now == UpdateOf(o).snapshot
<1>1. /\ o \in Orders /\ u.snapshot \in OrderRecord /\ u \in UpdateEvent
      /\ u.snapshot.filled_quantity \in Nat /\ u.snapshot.status \in OrderStatus
      /\ u.snapshot.updated_at \in Nat /\ StatusRank(u.snapshot.status) \in 0..4
  BY UpdateFacts, RankFacts DEF Known, OrderRecord, TypeOK
<1>2. /\ UNCHANGED <<broker, updates>>
      /\ processed_update_ids' = processed_update_ids \cup {u}
      /\ orders' = [orders EXCEPT ![o] = IF orders[o] = NoOrder THEN u.snapshot
                                         ELSE ApplyOrderUpdate(orders[o], u.snapshot)]
  BY DEF OnOrderUpdate, brokerVars, wireVars
<1>3. /\ orders'[o] = IF orders[o] = NoOrder THEN u.snapshot
                      ELSE ApplyOrderUpdate(orders[o], u.snapshot)
      /\ \A p \in Orders : p # o => orders'[p] = orders[p]
  BY <1>1, <1>2 DEF Known, TypeOK
<1>4. /\ UpdateAgrees(u) /\ broker[o] \in BrokerOrder
      /\ broker[o].filled \in Nat /\ broker[o].updated_at \in Nat
      /\ broker[o].status # "none" /\ broker[o].status # "pending_cancel"
  BY <1>1 DEF LifecycleInv, UpdateAgrees, BrokerShape, Known, TypeOK, BrokerOrder
<1>5. /\ u.snapshot.filled_quantity <= broker[o].filled
      /\ u.snapshot.updated_at <= broker[o].updated_at
      /\ StatusRank(u.snapshot.status) <= BrokerRank(broker[o])
      /\ BrokerRank(broker[o]) \in 1..4
  BY <1>4, BrokerRankFacts DEF Behind, RankInv
<1>6. orders'[o] = orders[o] \/ orders'[o] = u.snapshot
  BY <1>3 DEF ApplyOrderUpdate
<1>7. RankInv'
  <2>1. ASSUME NEW p \in Orders, Tracked(p)', ~ByNotional(p)'
        PROVE  StatusRank(orders'[p].status) <= BrokerRank(broker'[p])
    BY <1>2, <1>3, <1>5, <1>6, <2>1 DEF RankInv, Tracked, ByNotional
  <2>2. QED
    BY <1>2, <2>1 DEF RankInv
<1>8. /\ now.filled_quantity = broker[o].filled /\ now.updated_at = broker[o].updated_at
      /\ now.quantity = broker[o].quantity /\ StatusRank(now.status) = BrokerRank(broker[o])
      /\ now = alpaca_order_to_domain(broker[o]) /\ now \in OrderRecord
  BY <1>1, <1>4, SnapshotRank, SnapshotFacts
<1>9. ASSUME ~ByNotional(o), u.snapshot = now
      PROVE  orders'[o] = now
  <2>1. CASE orders[o] = NoOrder
    BY <1>3, <1>9, <2>1
  <2>2. CASE orders[o] # NoOrder
    <3>1. /\ Tracked(o) /\ orders[o].filled_quantity \in Nat /\ orders[o].updated_at \in Nat
          /\ StatusRank(orders[o].status) \in 0..4
      BY <1>1, <2>2, TrackedFacts DEF Known, Tracked
    <3>2. /\ orders[o].filled_quantity <= broker[o].filled
          /\ orders[o].updated_at <= broker[o].updated_at
          /\ StatusRank(orders[o].status) <= BrokerRank(broker[o])
      BY <1>1, <1>9, <3>1 DEF Known, NeverOvercounts, Behind, RankInv
    <3>3. ~UpdateIsStale(orders[o], u.snapshot)
      <4> HIDE DEF now
      <4>1. QED
        BY <1>4, <1>5, <1>8, <1>9, <3>1, <3>2 DEF UpdateIsStale
    <3>4. QED
      BY <1>3, <1>9, <2>2, <3>3 DEF ApplyOrderUpdate
  <2>3. QED
    BY <2>1, <2>2
<1>10. ASSUME orders[o] = now
       PROVE  orders'[o] = now
  <2>1. orders[o] # NoOrder
    BY <1>8, <1>10, NoOrderAssumption
  <2>2. CASE UpdateIsStale(orders[o], u.snapshot)
    BY <1>3, <1>10, <2>1, <2>2 DEF ApplyOrderUpdate
  <2>3. CASE ~UpdateIsStale(orders[o], u.snapshot)
    <3> HIDE DEF now
    <3>1. /\ u.snapshot.updated_at >= now.updated_at
          /\ u.snapshot.filled_quantity >= now.filled_quantity
          /\ StatusRank(u.snapshot.status) >= StatusRank(now.status)
      BY <1>1, <1>4, <1>5, <1>8, <1>10, <2>3 DEF UpdateIsStale
    <3>2. /\ u.snapshot.updated_at = now.updated_at
          /\ u.snapshot.filled_quantity = now.filled_quantity
          /\ StatusRank(u.snapshot.status) = StatusRank(now.status)
          /\ u.snapshot.quantity = now.quantity
      BY <1>1, <1>4, <1>5, <1>8, <3>1 DEF UpdateAgrees
    <3>3. CASE u.snapshot.status \in TERMINAL_STATUSES
      <4>1. u.snapshot = now
        BY <1>4, <1>8, <3>3 DEF UpdateAgrees
      <4>2. QED
        BY <1>6, <1>10, <4>1
    <3>4. CASE u.snapshot.status \notin TERMINAL_STATUSES
      <4>1. now.status \in OrderStatus
        BY <1>8 DEF OrderRecord
      <4>2. u.snapshot.status = now.status
        BY <1>1, <3>2, <3>4, <4>1, RankTellsStatus
      <4>3. u.snapshot = now
        BY <1>1, <1>8, <3>2, <4>2 DEF OrderRecord
      <4>4. QED
        BY <1>6, <1>10, <4>3
    <3>5. QED
      BY <3>3, <3>4
  <2>4. QED
    BY <2>2, <2>3
<1>11. ASSUME NEW p \in Orders, ~ByNotional(p)', UpdateOf(p)' \in processed_update_ids'
       PROVE  orders'[p] = UpdateOf(p)'.snapshot
  <2>1. UpdateOf(p)' = UpdateOf(p) /\ ~ByNotional(p) /\ UpdateOf(p).order = p
    BY <1>2, <1>11 DEF UpdateOf, ByNotional
  <2>2. CASE UpdateOf(p) = u
    BY <1>9, <2>1, <2>2
  <2>3. CASE UpdateOf(p) \in processed_update_ids
    <3>1. orders[p] = UpdateOf(p).snapshot
      BY <2>1, <2>3 DEF FreshSnapshotIsTracked
    <3>2. CASE p = o
      BY <1>10, <2>1, <3>1, <3>2
    <3>3. CASE p # o
      BY <1>3, <2>1, <3>1, <3>3
    <3>4. QED
      BY <3>2, <3>3
  <2>4. QED
    BY <1>2, <1>11, <2>1, <2>2, <2>3
<1>12. QED
  BY <1>7, <1>11 DEF FreshSnapshotIsTracked

(* A fill that the snapshot holds already is not counted again. *)
LEMMA FreshFill ==
  ASSUME Known, Known', LifecycleInv, LifecycleInv', Behind, RankInv, FreshSnapshotIsTracked,
         NEW f \in fills, OnFill(f)
  PROVE  RankInv' /\ FreshSnapshotIsTracked'
<1> DEFINE o == f.order
<1>1. /\ o \in Orders /\ f.quantity \in Nat \ {0} /\ f.timestamp \in Nat
      /\ Tracked(o)
  BY FillFacts DEF Known, OnFill, Tracked
<1>2. /\ UNCHANGED <<broker, updates, processed_update_ids>>
      /\ orders' = [orders EXCEPT ![o] = MarkFilled(orders[o], f)]
  BY DEF OnFill, brokerVars, wireVars
<1>3. /\ orders'[o] = MarkFilled(orders[o], f)
      /\ \A p \in Orders : p # o => orders'[p] = orders[p]
  BY <1>1, <1>2 DEF Known, TypeOK
<1>4. /\ orders[o].quantity \in Nat /\ orders[o].filled_quantity \in Nat
      /\ broker[o] \in BrokerOrder /\ broker[o].filled \in Nat /\ broker[o].updated_at \in Nat
  BY <1>1, TrackedFacts DEF Known, TypeOK, BrokerOrder
<1>5. ASSUME Tracked(o)', ~ByNotional(o)'
      PROVE  StatusRank(orders'[o].status) <= BrokerRank(broker'[o])
  <2>1. CASE FillAlreadyReflected(orders[o], f)
    <3>1. orders'[o] = orders[o]
      BY <1>3, <2>1 DEF MarkFilled
    <3>2. QED
      BY <1>1, <1>2, <1>5, <3>1 DEF RankInv, Tracked, ByNotional
  <2>2. CASE ~FillAlreadyReflected(orders[o], f)
    <3>1. /\ orders'[o].filled_quantity > 0
          /\ orders'[o].status \in {"FILLED", "PARTIALLY_FILLED"}
      BY <1>1, <1>3, <1>4, <2>2 DEF MarkFilled
    <3>2. /\ orders'[o].filled_quantity <= broker'[o].filled
          /\ orders'[o].filled_quantity \in Nat
          /\ broker'[o].status # "none"
      BY <1>1, <1>5 DEF Known, NeverOvercounts, LifecycleInv, OrderAgrees,
                        TypeOK, OrderRecord, Tracked
    <3>3. broker[o].filled > 0 /\ broker[o].status # "none" /\ broker[o].status # "pending_cancel"
      BY <1>1, <1>2, <1>4, <3>1, <3>2 DEF LifecycleInv, BrokerShape
    <3>4. BrokerRank(broker[o]) \in 3..4
      <4>1. BrokerRank(broker[o]) >= 3
        BY <1>1, <3>3 DEF RankInv
      <4>2. BrokerRank(broker[o]) \in 1..4
        BY <1>4, <3>3, BrokerRankFacts
      <4>3. QED
        BY <4>1, <4>2
    <3>5. CASE orders'[o].status = "FILLED"
      <4>1. broker'[o].status \in Closed
        BY <1>1, <1>5, <3>5 DEF LifecycleInv, OrderAgrees, TERMINAL_STATUSES
      <4>2. BrokerRank(broker[o]) = 4
        BY <1>2, <1>4, <3>3, <4>1, BrokerRankFacts
      <4>3. StatusRank(orders'[o].status) = 4
        BY <3>5 DEF StatusRank
      <4>4. QED
        BY <1>2, <4>2, <4>3
    <3>6. CASE orders'[o].status = "PARTIALLY_FILLED"
      <4>1. StatusRank(orders'[o].status) = 3
        BY <3>6 DEF StatusRank
      <4>2. QED
        BY <1>2, <3>4, <4>1
    <3>7. QED
      BY <3>1, <3>5, <3>6
  <2>3. QED
    BY <2>1, <2>2
<1>6. RankInv'
  <2>1. ASSUME NEW p \in Orders, Tracked(p)', ~ByNotional(p)'
        PROVE  StatusRank(orders'[p].status) <= BrokerRank(broker'[p])
    <3>1. CASE p = o
      BY <1>5, <2>1, <3>1
    <3>2. CASE p # o
      BY <1>2, <1>3, <2>1, <3>2 DEF RankInv, Tracked, ByNotional
    <3>3. QED
      BY <3>1, <3>2
  <2>2. QED
    BY <1>2, <2>1 DEF RankInv
<1>7. ASSUME NEW p \in Orders, ~ByNotional(p)', UpdateOf(p)' \in processed_update_ids'
      PROVE  orders'[p] = UpdateOf(p)'.snapshot
  <2>1. /\ UpdateOf(p)' = UpdateOf(p) /\ ~ByNotional(p)
        /\ UpdateOf(p) \in processed_update_ids
    BY <1>2, <1>7 DEF UpdateOf, ByNotional
  <2>2. orders[p] = UpdateOf(p).snapshot
    BY <2>1 DEF FreshSnapshotIsTracked
  <2>3. CASE p # o
    BY <1>3, <2>1, <2>2, <2>3
  <2>4. CASE p = o
    <3>1. orders[o].filled_quantity = broker[o].filled /\ orders[o].updated_at = broker[o].updated_at
      BY <1>1, <2>2, <2>4, SnapshotRank
    <3>2. f.quantity <= broker[o].filled /\ f.timestamp <= broker[o].updated_at
      BY DEF Behind
    <3>3. FillAlreadyReflected(orders[o], f)
      BY <1>1, <1>4, <3>1, <3>2 DEF FillAlreadyReflected
    <3>4. orders'[o] = orders[o]
      BY <1>3, <3>3 DEF MarkFilled
    <3>5. QED
      BY <2>1, <2>2, <2>4, <3>4
  <2>5. QED
    BY <2>3, <2>4
<1>8. QED
  BY <1>6, <1>7 DEF FreshSnapshotIsTracked

LEMMA NextFresh ==
  ASSUME ~AsyncCancel, Known, Known', LifecycleInv, LifecycleInv', Behind,
         RankInv, FreshSnapshotIsTracked, [Next]_vars
  PROVE  RankInv' /\ FreshSnapshotIsTracked'
<1>1. ASSUME NEW o \in Orders, NEW quantity \in Quantities, Submit(o, quantity)
      PROVE  RankInv' /\ FreshSnapshotIsTracked'
  <2>1. BrokerKeeps(o) /\ BrokerAdvances(o)
    BY <1>1, SubmitKeeps, SubmitAdvances DEF Known
  <2>2. /\ UNCHANGED <<updates, processed_update_ids>>
        /\ UNCHANGED orders \/ orders' = [orders EXCEPT ![o] = alpaca_order_to_domain(broker'[o])]
    BY <1>1 DEF Submit, wireVars
  <2>3. QED
    BY <2>1, <2>2, FreshBroker
<1>2. ASSUME NEW o \in Orders, CancelOrder(o)
      PROVE  RankInv' /\ FreshSnapshotIsTracked'
  <2>1. BrokerKeeps(o) /\ BrokerAdvances(o)
    BY <1>2, CancelKeeps, MovesAdvances DEF Known, LifecycleInv
  <2>2. /\ UNCHANGED <<updates, processed_update_ids>>
        /\ UNCHANGED orders \/ orders' = [orders EXCEPT ![o] = alpaca_order_to_domain(broker'[o])]
    BY <1>2 DEF CancelOrder, wireVars
  <2>3. QED
    BY <2>1, <2>2, FreshBroker
<1>3. ASSUME NEW o \in Orders, BrokerStep(o)
      PROVE  RankInv' /\ FreshSnapshotIsTracked'
  <2>1. BrokerKeeps(o) /\ BrokerAdvances(o)
    BY <1>3, BrokerStepKeeps, MovesAdvances DEF Known, LifecycleInv
  <2>2. UNCHANGED <<updates, processed_update_ids>> /\ UNCHANGED orders
    BY <1>3 DEF BrokerStep, wireVars, engineVars
  <2>3. QED
    BY <2>1, <2>2, FreshBroker
<1>4. ASSUME NEW a \in Adapters, NEW o \in Orders, Observe(a, o)
      PROVE  RankInv' /\ FreshSnapshotIsTracked'
  BY <1>4, FreshObserve
<1>5. ASSUME NEW u \in updates, OnOrderUpdate(u)
      PROVE  RankInv' /\ FreshSnapshotIsTracked'
  BY <1>5, FreshUpdate
<1>6. ASSUME NEW f \in fills, OnFill(f)
      PROVE  RankInv' /\ FreshSnapshotIsTracked'
  BY <1>6, FreshFill
<1>7. CASE Restart
  <2>1. /\ UNCHANGED broker /\ updates' = {} /\ processed_update_ids' = {}
        /\ \A o \in Orders : ~Tracked(o)'
    BY <1>7 DEF Restart, brokerVars, Tracked
  <2>2. QED
    BY <2>1 DEF RankInv, FreshSnapshotIsTracked
<1>8. CASE UNCHANGED vars
  <2>1. UNCHANGED <<broker, updates, orders, processed_update_ids>>
    BY <1>8 DEF vars, brokerVars, wireVars, engineVars
  <2>2. QED
    BY <2>1 DEF RankInv, FreshSnapshotIsTracked, Tracked, ByNotional, UpdateOf
<1>9. QED
  BY <1>1, <1>2, <1>3, <1>4, <1>5, <1>6, <1>7, <1>8 DEF Next

(* Under the same hypotheses no staleness rule refuses the snapshot of what the
   broker has now, and no late fill or older update moves the order away from it
   (apply_order_update, mark_filled). *)
THEOREM FreshestWins ==
  ASSUME NEW a, Adapters = {a}, ~AsyncCancel
  PROVE  Spec => []FreshSnapshotIsTracked
<1>1. Init => RankInv /\ FreshSnapshotIsTracked
  BY DEF Init, BrokerInit, NotPlaced, RankInv, FreshSnapshotIsTracked, Tracked
<1>2. TypeOK /\ SharesInv => Behind
  BY BehindFacts
<1>3. /\ Known /\ Known' /\ LifecycleInv /\ LifecycleInv' /\ Behind
      /\ RankInv /\ FreshSnapshotIsTracked /\ [Next]_vars
      => RankInv' /\ FreshSnapshotIsTracked'
  BY NextFresh
<1>4. Spec => [](Known /\ LifecycleInv)
  BY LifecycleInvariant
<1>5. Spec => []TypeOK
  BY TypeCorrect
<1>6. Spec => []SharesInv
  BY SharesAreInvariant
<1>7. QED
  BY <1>1, <1>2, <1>3, <1>4, <1>5, <1>6, PTL DEF Spec
=============================================================================
