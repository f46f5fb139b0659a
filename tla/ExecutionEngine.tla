---------------------------- MODULE ExecutionEngine ----------------------------
(***************************************************************************)
(* The ExecutionEngine and its OrderManager against an asynchronous broker. *)
(*                                                                         *)
(* The broker fills, cancels and expires orders whenever it likes.  The     *)
(* Alpaca adapters look at a broker order and emit an ORDER_UPDATE snapshot *)
(* and, when the order holds more shares than the adapter has seen, a FILL  *)
(* for the difference.  The emitted events reach the engine in any order,   *)
(* any number of times: polls repeat themselves, streams redeliver, and the *)
(* fill may come before or after the update of the same execution.          *)
(***************************************************************************)
EXTENDS AlpacaBroker

CONSTANTS
  NoOrder,       \* "the OrderManager does not know this order"
  Adapters,      \* objects that turn broker orders into events, one watermark each
  MaxRestarts    \* bound on process restarts

ASSUME NoOrderAssumption == NoOrder \notin OrderRecord
ASSUME BoundsAssumption  == MaxRestarts \in Nat

VARIABLES
  seen,                  \* seen[a][o]: adapter a's filled-quantity watermark
  updates,               \* ORDER_UPDATE events emitted in this process's life
  fills,                 \* FILL events emitted in this process's life
  orders,                \* OrderManager._orders
  processed_fill_ids,    \* ExecutionEngine._processed_fill_ids
  processed_update_ids,  \* the order-update ids of _processed_broker_event_ids
  restarts

wireVars   == <<seen, updates, fills>>
engineVars == <<orders, processed_fill_ids, processed_update_ids>>
vars       == <<brokerVars, wireVars, engineVars, restarts>>
-----------------------------------------------------------------------------
Init ==
  /\ BrokerInit
  /\ seen = [a \in Adapters |-> [o \in Orders |-> 0]]
  /\ updates = {}
  /\ fills = {}
  /\ orders = [o \in Orders |-> NoOrder]
  /\ processed_fill_ids = {}
  /\ processed_update_ids = {}
  /\ restarts = 0

(* submit: the broker takes the order, then the answer is registered.  When
   the answer is lost the call raises and the engine never learns the id. *)
Submit(o, quantity) ==
  /\ BrokerAccepts(o, quantity)
  /\ \/ orders' = [orders EXCEPT ![o] = alpaca_order_to_domain(broker'[o])]
     \/ UNCHANGED orders
  /\ UNCHANGED <<wireVars, processed_fill_ids, processed_update_ids, restarts>>

(* cancel_order: the broker's answer replaces the tracked order, whatever it
   was, unless the answer is lost. *)
CancelOrder(o) ==
  /\ BrokerCancels(o)
  /\ \/ orders' = [orders EXCEPT ![o] = alpaca_order_to_domain(broker'[o])]
     \/ UNCHANGED orders
  /\ UNCHANGED <<wireVars, processed_fill_ids, processed_update_ids, restarts>>

(* Adapter a looks at order o: a trade update arrives or a poll reads it. *)
Observe(a, o) ==
  /\ broker[o].status # "none"
  /\ updates' = updates \cup {UpdateOf(o)}
  /\ fills' = fills \cup alpaca_order_to_fill_delta(o, broker[o], seen[a][o])
  /\ seen' = [seen EXCEPT ![a][o] = broker[o].filled]
  /\ UNCHANGED <<brokerVars, engineVars, restarts>>

(* on_broker_event, ORDER_UPDATE: an unknown order is inserted. *)
OnOrderUpdate(u) ==
  /\ u \in updates
  /\ u \notin processed_update_ids
  /\ orders' = [orders EXCEPT ![u.order] =
                  IF @ = NoOrder THEN u.snapshot ELSE ApplyOrderUpdate(@, u.snapshot)]
  /\ processed_update_ids' = processed_update_ids \cup {u}
  /\ UNCHANGED <<brokerVars, wireVars, processed_fill_ids, restarts>>

(* on_broker_event, FILL.  For an unknown order the engine raises, or the poll
   skips the event; either way no state changes and the id is not recorded. *)
OnFill(f) ==
  /\ f \in fills
  /\ FillId(f) \notin processed_fill_ids
  /\ orders[f.order] # NoOrder
  /\ orders' = [orders EXCEPT ![f.order] = MarkFilled(@, f)]
  /\ processed_fill_ids' = processed_fill_ids \cup {FillId(f)}
  /\ UNCHANGED <<brokerVars, wireVars, processed_update_ids, restarts>>

(* A new process: nothing the engine or its adapters hold is persisted. *)
Restart ==
  /\ restarts < MaxRestarts
  /\ restarts' = restarts + 1
  /\ seen' = [a \in Adapters |-> [o \in Orders |-> 0]]
  /\ updates' = {}
  /\ fills' = {}
  /\ orders' = [o \in Orders |-> NoOrder]
  /\ processed_fill_ids' = {}
  /\ processed_update_ids' = {}
  /\ UNCHANGED brokerVars

BrokerStep(o) ==
  /\ BrokerActs(o)
  /\ UNCHANGED <<wireVars, engineVars, restarts>>

Next ==
  \/ \E o \in Orders, quantity \in Quantities : Submit(o, quantity)
  \/ \E o \in Orders : CancelOrder(o) \/ BrokerStep(o)
  \/ \E a \in Adapters, o \in Orders : Observe(a, o)
  \/ \E u \in updates : OnOrderUpdate(u)
  \/ \E f \in fills : OnFill(f)
  \/ Restart

Spec == Init /\ [][Next]_vars

(* The engine polls on every bar and handles every event it polled: looking
   at an order that the polls list and handling an event are fair; a trade
   update may show any order, but need not.  The broker is not fair: it may leave
   an order working for ever. *)
Fairness ==
  /\ \A a \in Adapters, o \in Orders : WF_vars(Listed(o) /\ Observe(a, o))
  /\ WF_vars(\E u \in updates : OnOrderUpdate(u))

FairSpec == Spec /\ Fairness
-----------------------------------------------------------------------------
TypeOK ==
  /\ clock \in Nat
  /\ broker \in [Orders -> BrokerOrder]
  /\ seen \in [Adapters -> [Orders -> Nat]]
  /\ updates \subseteq UpdateEvent
  /\ fills \subseteq FillEvent
  /\ orders \in [Orders -> OrderRecord \cup {NoOrder}]
  /\ processed_fill_ids \subseteq Orders \X (Nat \ {0})
  /\ processed_update_ids \subseteq UpdateEvent
  /\ restarts \in Nat

Tracked(o) == orders[o] # NoOrder

(* Whatever the order of fills and updates and however often they come, the
   OrderManager never counts more shares than the broker executed (mark_filled
   adds, apply_order_update replaces; they must not count one share twice). *)
NeverOvercounts ==
  \A o \in Orders : Tracked(o) => orders[o].filled_quantity <= broker[o].filled

(* An order placed by quantity is tracked FILLED only when the broker really
   completed it: mark_filled completes it from fills alone. *)
FilledMeansFilled ==
  \A o \in Orders :
    Tracked(o) /\ ~ByNotional(o) /\ orders[o].status = "FILLED"
      => broker[o].status = "filled"

(* Once the snapshot of what the broker holds now has been handled, the tracked
   order is that snapshot: no staleness rule refused it, and no late fill or
   older update has moved the order since.  (A notional order is excepted: its
   first fill completes it and an update to PARTIALLY_FILLED is then refused.) *)
FreshSnapshotIsTracked ==
  \A o \in Orders :
    ~ByNotional(o) /\ UpdateOf(o) \in processed_update_ids
      => orders[o] = UpdateOf(o).snapshot

(* Within one process a tracked order never loses shares, never falls back in
   rank, and once closed keeps its status: the staleness rules, mark_filled and
   cancel_order agree on one direction of the lifecycle. *)
LifecycleNeverRegresses ==
  [][\A o \in Orders :
       Tracked(o) /\ Tracked(o)' =>
         /\ orders'[o].filled_quantity >= orders[o].filled_quantity
         /\ StatusRank(orders'[o].status) >= StatusRank(orders[o].status)
         /\ orders[o].status \in TERMINAL_STATUSES /\ ~ByNotional(o)
              => orders'[o].status = orders[o].status]_vars

(* The OrderManager keeps account of the broker's executions as Booking
   promises: fills, updates, cancels and lost answers only ever book shares that
   were executed and are not yet booked, and only a new process takes any back. *)
BookedShares == [o \in Orders |-> IF Tracked(o) THEN orders[o].filled_quantity ELSE 0]

B == INSTANCE Booking WITH executed <- [o \in Orders |-> broker[o].filled],
                           booked   <- BookedShares

ImplementsBooking == B!Spec

(* The engine ends up agreeing with the broker on every closed order that its
   polls list, lost submit answers, restarts and fills for unknown orders
   included.  (An order that 100 others of the account precede is never listed,
   and no other poll would bring its updates.) *)
EventuallyAgrees ==
  <>[](\A o \in Orders :
         broker[o].status \in Closed /\ Listed(o) =>
           /\ Tracked(o)
           /\ orders[o].filled_quantity = broker[o].filled
           /\ orders[o].status = order_status_from_alpaca(broker[o].status))
-----------------------------------------------------------------------------
(***************************************************************************)
(* Why shares are counted once: the inductive strengthening of              *)
(* NeverOvercounts for a broker that cancels at once and a single adapter.  *)
(* Number the shares of an order 1, 2, ... in the order they are executed.  *)
(***************************************************************************)
Shares(f) == (f.cumulative - f.quantity + 1)..f.cumulative

(* Fills cut the executed shares into disjoint pieces, and every snapshot
   ends between two pieces, never inside one. *)
WireInv ==
  /\ \A o \in Orders : /\ FilledAt(broker[o]) <= broker[o].updated_at
                       /\ broker[o].updated_at <= clock
                       /\ broker[o].status = "none" => broker[o].filled = 0
  /\ \A a \in Adapters, o \in Orders : seen[a][o] <= broker[o].filled
  /\ \A a \in Adapters, f \in fills :
       /\ f.cumulative <= seen[a][f.order]
       /\ f.quantity <= f.cumulative
       /\ f.timestamp <= broker[f.order].updated_at
  /\ \A f, g \in fills :
       f.order = g.order /\ f # g =>
         \/ f.cumulative <= g.cumulative - g.quantity
         \/ g.cumulative <= f.cumulative - f.quantity
  /\ \A a \in Adapters, u \in updates :
       /\ u.snapshot.filled_quantity <= seen[a][u.order]
       /\ u.snapshot.updated_at <= broker[u.order].updated_at
  /\ \A u \in updates :
       u.snapshot.filled_quantity < broker[u.order].filled
         => u.snapshot.updated_at <= FilledAt(broker[u.order])
  /\ \A u \in updates, f \in fills :
       u.order = f.order =>
         IF f.cumulative <= u.snapshot.filled_quantity
         THEN f.timestamp <= u.snapshot.updated_at
         ELSE /\ u.snapshot.filled_quantity <= f.cumulative - f.quantity
              /\ u.snapshot.updated_at <= f.timestamp

(* C is a set of shares the tracked order has counted: those of the last
   snapshot it took (the first `base` shares, at time `taken`) and those of the
   fills added since.  A fill still to come is disjoint from C, or lies within
   the snapshot and is no newer than it, so that mark_filled skips it. *)
Counts(o, C, base, taken) ==
  /\ Cardinality(C) = orders[o].filled_quantity
  /\ 1..base \subseteq C
  /\ taken <= orders[o].updated_at
  /\ orders[o].updated_at <= broker[o].updated_at
  /\ base < broker[o].filled => taken <= FilledAt(broker[o])
  /\ \A f \in fills :
       f.order = o =>
         /\ f.cumulative > base => f.timestamp >= taken
         /\ FillId(f) \notin processed_fill_ids =>
              \/ Shares(f) \cap C = {}
              \/ f.cumulative <= base /\ f.timestamp <= taken
  /\ \A a \in Adapters :
       \/ C \subseteq 1..seen[a][o]
       \/ /\ broker[o].status \in Closed
          /\ base = broker[o].filled
          /\ taken = broker[o].updated_at

(* Every tracked order has counted some such set of executed shares. *)
Counted(o) ==
  Tracked(o) =>
    \E C \in SUBSET (1..broker[o].filled), base \in 0..broker[o].filled, taken \in 0..clock :
      Counts(o, C, base, taken)

CountedInv == \A o \in Orders : Counted(o)

(* The two together: the strengthening that the steps preserve. *)
SharesInv == WireInv /\ CountedInv
=============================================================================
