----------------------- MODULE PaperTradingEngine_proofs -----------------------
(***************************************************************************)
(* What the PaperTradingEngine promises of its books, for any number of      *)
(* orders, any quantities and bounds, and both vendors: fed by polls or by    *)
(* replays of the trade updates, it books executed shares once.              *)
(*                                                                         *)
(* A replay is a recursion over the log; that it goes right is shown by       *)
(* induction on the messages, over a set of numbers (see Accounting_proofs).  *)
(***************************************************************************)
EXTENDS PaperTradingEngine, SequenceTheorems, WellFoundedInduction, TLAPS

(* A log holds trade updates. *)
Message == [order: Orders, payload: BrokerOrder]

(* An order as far as its shares are concerned. *)
Stamped(order) == order.filled_quantity \in Nat /\ order.updated_at \in Nat

IsUpdate(event) ==
  /\ event.type = "ORDER_UPDATE" /\ event.order \in Orders /\ event.timestamp \in Nat
  /\ Stamped(event.snapshot) /\ event.snapshot.status # "FILL"

IsFill(event) ==
  /\ event.type = "FILL" /\ event.order \in Orders /\ event.timestamp \in Nat
  /\ event.quantity \in Nat /\ event.cumulative \in Nat
  /\ event.quantity <= event.cumulative /\ event.cumulative # 0

FillIdOf(o, cumulative) == [order |-> o, kind |-> "FILL", filled |-> cumulative, timestamp |-> 0]

IsEngine(e) ==
  /\ e = [orders                     |-> e.orders,
          processed_broker_event_ids |-> e.processed_broker_event_ids,
          processed_fill_ids         |-> e.processed_fill_ids,
          shares                     |-> e.shares,
          trade_ledger               |-> e.trade_ledger,
          processed_event_ids        |-> e.processed_event_ids,
          last_event_timestamp       |-> e.last_event_timestamp]
  /\ e.orders = [o \in Orders |-> e.orders[o]]
  /\ e.shares \in [Orders -> Nat]
  /\ \A o \in Orders : e.orders[o] # NoOrder => Stamped(e.orders[o])
-----------------------------------------------------------------------------
(* What the adapters make of a broker's order. *)
LEMMA FilledAtType ==
  ASSUME NEW b \in BrokerOrder
  PROVE  FilledAt(b) \in Nat /\ (b.filled_at = 0 \/ FilledAt(b) = b.filled_at)
BY DEF FilledAt, BrokerOrder

(* The time the adapters give a fill. *)
FillTime(b) == IF vendor = "ibkr" THEN b.updated_at ELSE FilledAt(b)

LEMMA UpdateFacts ==
  ASSUME NEW o \in Orders, NEW b \in BrokerOrder
  PROVE  LET event == UpdateEventOf(o, b)
         IN  /\ IsUpdate(event) /\ event.order = o
             /\ event.snapshot.filled_quantity = b.filled
             /\ event.snapshot.updated_at = b.updated_at
<1> DEFINE event == UpdateEventOf(o, b)
<1>1. /\ event.type = "ORDER_UPDATE" /\ event.order = o
      /\ event.snapshot = OrderToDomain(b) /\ event.timestamp = b.updated_at
  BY DEF UpdateEventOf
<1>2. b.filled \in Nat /\ b.updated_at \in Nat
  BY DEF BrokerOrder
<1>3. /\ OrderToDomain(b).filled_quantity = b.filled
      /\ OrderToDomain(b).updated_at = b.updated_at
  BY DEF OrderToDomain, ibkr_order_to_domain, alpaca_order_to_domain
<1>4. OrderToDomain(b).status # "FILL"
  <2>1. order_status_from_alpaca(b.status) # "FILL"
    BY DEF order_status_from_alpaca
  <2>2. order_status_from_ibkr(IbkrStatus(b.status)) # "FILL"
    BY DEF order_status_from_ibkr
  <2>3. QED
    BY <2>1, <2>2 DEF OrderToDomain, ibkr_order_to_domain, alpaca_order_to_domain
<1>5. QED
  BY <1>1, <1>2, <1>3, <1>4 DEF IsUpdate, Stamped

LEMMA FillFacts ==
  ASSUME NEW o \in Orders, NEW b \in BrokerOrder, NEW previous \in Nat,
         NEW f \in {FillOf(d) : d \in FillDelta(o, b, previous)}
  PROVE  /\ IsFill(f) /\ f.order = o
         /\ previous < b.filled
         /\ f.cumulative = b.filled /\ f.quantity = b.filled - previous
         /\ f.timestamp = FillTime(b)
         /\ EventId(f) = FillIdOf(o, b.filled)
<1>1. b.filled \in Nat /\ FillTime(b) \in Nat
  BY FilledAtType DEF BrokerOrder, FillTime
<1>2. PICK d \in FillDelta(o, b, previous) : f = FillOf(d)
  OBVIOUS
<1>3. /\ previous < b.filled
      /\ d = [order |-> o, cumulative |-> b.filled, quantity |-> b.filled - previous,
              timestamp |-> FillTime(b)]
  BY <1>1, <1>2 DEF FillDelta, ibkr_order_to_fill_delta, alpaca_order_to_fill_delta, FillTime
<1>4. f = [type |-> "FILL", order |-> o, quantity |-> b.filled - previous,
           cumulative |-> b.filled, timestamp |-> FillTime(b)]
  BY <1>2, <1>3 DEF FillOf
<1>5. b.filled - previous \in Nat /\ b.filled - previous <= b.filled /\ b.filled # 0
  BY <1>1, <1>3
<1>6. QED
  BY <1>1, <1>3, <1>4, <1>5 DEF IsFill, EventId, FillIdOf

LEMMA NoFillFacts ==
  ASSUME NEW o \in Orders, NEW b \in BrokerOrder, NEW previous \in Nat,
         {FillOf(d) : d \in FillDelta(o, b, previous)} = {}
  PROVE  b.filled <= previous
<1>1. b.filled \in Nat
  BY DEF BrokerOrder
<1>2. FillDelta(o, b, previous) = {}
  <2>1. ASSUME NEW d \in FillDelta(o, b, previous)
        PROVE  FALSE
    <3>1. FillOf(d) \in {FillOf(other) : other \in FillDelta(o, b, previous)}
      BY <2>1
    <3>2. QED
      BY <3>1
  <2>2. QED
    BY <2>1
<1>3. CASE b.filled > previous
  <2>1. ~(b.filled <= previous)
    BY <1>1, <1>3
  <2>2. [order |-> o, cumulative |-> b.filled, quantity |-> b.filled - previous,
         timestamp |-> FillTime(b)] \in FillDelta(o, b, previous)
    BY <1>3, <2>1, Zenon
    DEF FillDelta, ibkr_order_to_fill_delta, alpaca_order_to_fill_delta, FillTime
  <2>3. QED
    BY <1>2, <2>2
<1>4. QED
  BY <1>1, <1>3
-----------------------------------------------------------------------------
(* What the execution engine makes of an order when it hears of an event: the
   order it had, the snapshot of an update, or an order with the shares of a fill
   that it did not yet hold. *)
BecomesSnapshot(after, event) == event.type # "FILL" /\ after = event.snapshot

TakesFill(before, after, event) ==
  /\ event.type = "FILL" /\ before # NoOrder
  /\ ~FillAlreadyReflected(before, event)
  /\ Stamped(after)
  /\ after.filled_quantity = before.filled_quantity + event.quantity

OrderAfter(before, after, event) ==
  after = before \/ BecomesSnapshot(after, event) \/ TakesFill(before, after, event)

LEMMA AppliedFacts ==
  ASSUME NEW before, before # NoOrder => Stamped(before),
         NEW event, IsUpdate(event) \/ (IsFill(event) /\ before # NoOrder)
  PROVE  /\ OrderAfter(before, Applied(before, event), event)
         /\ Applied(before, event) # NoOrder => Stamped(Applied(before, event))
<1>1. CASE IsUpdate(event)
  <2>1. Applied(before, event) \in {before, event.snapshot}
    BY <1>1 DEF Applied, IsUpdate, ApplyOrderUpdate
  <2>2. QED
    BY <1>1, <2>1 DEF OrderAfter, BecomesSnapshot, IsUpdate
<1>2. CASE IsFill(event) /\ before # NoOrder
  <2>1. Applied(before, event) = MarkFilled(before, event)
    BY <1>2 DEF Applied, IsFill
  <2>2. CASE FillAlreadyReflected(before, event)
    BY <1>2, <2>1, <2>2 DEF MarkFilled, OrderAfter
  <2>3. CASE ~FillAlreadyReflected(before, event)
    <3>1. /\ MarkFilled(before, event).filled_quantity
               = before.filled_quantity + event.quantity
          /\ MarkFilled(before, event).updated_at = event.timestamp
      BY <2>3 DEF MarkFilled
    <3>2. /\ before.filled_quantity + event.quantity \in Nat /\ event.timestamp \in Nat
          /\ event.type = "FILL"
      BY <1>2 DEF IsFill, Stamped
    <3>3. QED
      BY <1>2, <2>1, <2>3, <3>1, <3>2 DEF OrderAfter, TakesFill, Stamped
  <2>4. QED
    BY <2>2, <2>3
<1>3. QED
  BY <1>1, <1>2

(* The parts of the engine on_broker_event leaves alone, and what it records. *)
SameBooks(e, t) ==
  /\ t.shares = e.shares
  /\ t.processed_fill_ids = e.processed_fill_ids
  /\ t.trade_ledger = e.trade_ledger
  /\ t.processed_event_ids = e.processed_event_ids
  /\ t.last_event_timestamp = e.last_event_timestamp

Tracks(e, t, event) ==
  /\ IsEngine(t)
  /\ SameBooks(e, t)
  /\ e.processed_broker_event_ids \subseteq t.processed_broker_event_ids
  /\ \A o \in Orders : o # event.order => t.orders[o] = e.orders[o]
  /\ OrderAfter(e.orders[event.order], t.orders[event.order], event)
  /\ EventId(event) \in e.processed_broker_event_ids
       => t.orders[event.order] = e.orders[event.order]

LEMMA TrackingFacts ==
  ASSUME NEW e, IsEngine(e), NEW event, IsUpdate(event) \/ IsFill(event)
  PROVE  /\ Tracks(e, OnBrokerEvent(e, event), event)
         /\ ~Raises(e, event)
              => EventId(event) \in OnBrokerEvent(e, event).processed_broker_event_ids
<1> DEFINE t  == OnBrokerEvent(e, event)
           o  == event.order
           id == EventId(event)
<1>1. o \in Orders /\ IsEngine(e)
  BY DEF IsUpdate, IsFill
<1>2. CASE id \in e.processed_broker_event_ids \/ Raises(e, event)
  <2>1. t = e
    BY <1>2 DEF OnBrokerEvent
  <2>2. QED
    BY <1>2, <2>1 DEF Tracks, SameBooks, OrderAfter
<1>3. CASE ~(id \in e.processed_broker_event_ids \/ Raises(e, event))
  <2> DEFINE after == Applied(e.orders[o], event)
  <2>1. t = [e EXCEPT !.orders[o] = after, !.processed_broker_event_ids = @ \cup {id}]
    BY <1>3 DEF OnBrokerEvent
  <2>2. /\ OrderAfter(e.orders[o], after, event)
        /\ after # NoOrder => Stamped(after)
    <3>1. e.orders[o] # NoOrder => Stamped(e.orders[o])
      BY <1>1 DEF IsEngine
    <3>2. IsUpdate(event) \/ (IsFill(event) /\ e.orders[o] # NoOrder)
      BY <1>3 DEF Raises, IsFill
    <3>3. QED
      BY <3>1, <3>2, AppliedFacts
  <2> HIDE DEF after
  <2>3. t = [orders                     |-> [e.orders EXCEPT ![o] = after],
             processed_broker_event_ids |-> e.processed_broker_event_ids \cup {id},
             processed_fill_ids         |-> e.processed_fill_ids,
             shares                     |-> e.shares,
             trade_ledger               |-> e.trade_ledger,
             processed_event_ids        |-> e.processed_event_ids,
             last_event_timestamp       |-> e.last_event_timestamp]
    BY <1>1, <2>1 DEF IsEngine
  <2> HIDE DEF t
  <2>4. /\ t.orders = [p \in Orders |-> IF p = o THEN after ELSE e.orders[p]]
        /\ t.orders[o] = after
        /\ \A p \in Orders : p # o => t.orders[p] = e.orders[p]
    BY <1>1, <2>3 DEF IsEngine
  <2>5. SameBooks(e, t) /\ t.processed_broker_event_ids = e.processed_broker_event_ids \cup {id}
    BY <2>3 DEF SameBooks
  <2>6. IsEngine(t)
    <3>1. t = [orders                     |-> t.orders,
               processed_broker_event_ids |-> t.processed_broker_event_ids,
               processed_fill_ids         |-> t.processed_fill_ids,
               shares                     |-> t.shares,
               trade_ledger               |-> t.trade_ledger,
               processed_event_ids        |-> t.processed_event_ids,
               last_event_timestamp       |-> t.last_event_timestamp]
      BY <2>3
    <3>2. t.orders = [p \in Orders |-> t.orders[p]]
      BY <2>4
    <3>3. t.shares \in [Orders -> Nat]
      BY <1>1, <2>5 DEF IsEngine, SameBooks
    <3>4. \A p \in Orders : t.orders[p] # NoOrder => Stamped(t.orders[p])
      BY <1>1, <2>2, <2>4 DEF IsEngine
    <3>5. QED
      BY <3>1, <3>2, <3>3, <3>4 DEF IsEngine
  <2>7. QED
    BY <1>3, <2>2, <2>4, <2>5, <2>6 DEF Tracks, t
<1>4. QED
  BY <1>2, <1>3
-----------------------------------------------------------------------------
(* The parts of the engine _apply_fill leaves alone. *)
SameTracking(e, t) ==
  /\ t.orders = e.orders
  /\ t.processed_broker_event_ids = e.processed_broker_event_ids
  /\ t.processed_event_ids = e.processed_event_ids
  /\ t.last_event_timestamp = e.last_event_timestamp

(* A fill id is recorded. *)
Records(e, t, fill) ==
  /\ IsEngine(t)
  /\ SameTracking(e, t)
  /\ t.processed_fill_ids = e.processed_fill_ids \cup {EventId(fill)}
  /\ t.shares = e.shares
  /\ t.trade_ledger = e.trade_ledger

LEMMA RecordingFacts ==
  ASSUME NEW e, IsEngine(e), NEW fill
  PROVE  Records(e, RecordFillId(e, fill), fill)
<1> DEFINE t == RecordFillId(e, fill)
<1>1. t = [orders                     |-> e.orders,
           processed_broker_event_ids |-> e.processed_broker_event_ids,
           processed_fill_ids         |-> e.processed_fill_ids \cup {EventId(fill)},
           shares                     |-> e.shares,
           trade_ledger               |-> e.trade_ledger,
           processed_event_ids        |-> e.processed_event_ids,
           last_event_timestamp       |-> e.last_event_timestamp]
  <2>1. t = [e EXCEPT !.processed_fill_ids = @ \cup {EventId(fill)}]
    BY DEF RecordFillId
  <2> HIDE DEF t
  <2>2. QED
    BY <2>1 DEF IsEngine
<1> HIDE DEF t
<1>2. /\ SameTracking(e, t) /\ t.shares = e.shares /\ t.trade_ledger = e.trade_ledger
      /\ t.processed_fill_ids = e.processed_fill_ids \cup {EventId(fill)}
  BY <1>1 DEF SameTracking
<1>3. t = [orders                     |-> t.orders,
           processed_broker_event_ids |-> t.processed_broker_event_ids,
           processed_fill_ids         |-> t.processed_fill_ids,
           shares                     |-> t.shares,
           trade_ledger               |-> t.trade_ledger,
           processed_event_ids        |-> t.processed_event_ids,
           last_event_timestamp       |-> t.last_event_timestamp]
  BY <1>1
<1>4. IsEngine(t)
  BY <1>2, <1>3 DEF IsEngine, SameTracking
<1>5. QED
  BY <1>2, <1>4 DEF Records, t

(* A fill is booked, unless its id was recorded before. *)
Books(e, t, fill) ==
  /\ IsEngine(t)
  /\ SameTracking(e, t)
  /\ t.processed_fill_ids = e.processed_fill_ids \cup {EventId(fill)}
  /\ e.trade_ledger \subseteq t.trade_ledger
  /\ \A o \in Orders : o # fill.order => t.shares[o] = e.shares[o]
  /\ \/ EventId(fill) \in e.processed_fill_ids /\ t.shares[fill.order] = e.shares[fill.order]
     \/ /\ EventId(fill) \in t.trade_ledger \ e.processed_fill_ids
        /\ t.shares[fill.order] = e.shares[fill.order] + fill.quantity

LEMMA BookingFacts ==
  ASSUME NEW e, IsEngine(e), NEW fill, IsFill(fill)
  PROVE  Books(e, ApplyFill(e, fill), fill)
<1> DEFINE t == ApplyFill(e, fill)
           o == fill.order
           id == EventId(fill)
<1>1. o \in Orders /\ fill.quantity \in Nat
  BY DEF IsFill
<1>2. CASE AlreadyApplied(e, fill)
  <2>1. t = e /\ id \in e.processed_fill_ids
    BY <1>2 DEF ApplyFill, AlreadyApplied
  <2>2. QED
    BY <2>1 DEF Books, SameTracking
<1>3. CASE ~AlreadyApplied(e, fill)
  <2> DEFINE r == RecordFillId(e, fill)
  <2>1. Records(e, r, fill)
    BY RecordingFacts
  <2>2. t = [r EXCEPT !.shares[o] = @ + fill.quantity, !.trade_ledger = @ \cup {id}]
    BY <1>3 DEF ApplyFill
  <2> HIDE DEF r
  <2>3. t = [orders                     |-> r.orders,
             processed_broker_event_ids |-> r.processed_broker_event_ids,
             processed_fill_ids         |-> r.processed_fill_ids,
             shares                     |-> [r.shares EXCEPT ![o] = @ + fill.quantity],
             trade_ledger               |-> r.trade_ledger \cup {id},
             processed_event_ids        |-> r.processed_event_ids,
             last_event_timestamp       |-> r.last_event_timestamp]
    BY <2>1, <2>2 DEF Records, IsEngine
  <2> HIDE DEF t
  <2>4. /\ t.orders = r.orders
        /\ SameTracking(e, t)
        /\ t.processed_fill_ids = e.processed_fill_ids \cup {id}
        /\ t.trade_ledger = e.trade_ledger \cup {id}
        /\ t.shares = [e.shares EXCEPT ![o] = @ + fill.quantity]
    BY <2>1, <2>3 DEF Records, SameTracking
  <2>5. e.shares \in [Orders -> Nat]
    BY DEF IsEngine
  <2>6. /\ t.shares \in [Orders -> Nat]
        /\ t.shares[o] = e.shares[o] + fill.quantity
        /\ \A p \in Orders : p # o => t.shares[p] = e.shares[p]
    BY <1>1, <2>4, <2>5
  <2>7. t = [orders                     |-> t.orders,
             processed_broker_event_ids |-> t.processed_broker_event_ids,
             processed_fill_ids         |-> t.processed_fill_ids,
             shares                     |-> t.shares,
             trade_ledger               |-> t.trade_ledger,
             processed_event_ids        |-> t.processed_event_ids,
             last_event_timestamp       |-> t.last_event_timestamp]
    BY <2>3
  <2>8. IsEngine(t)
    BY <2>4, <2>6, <2>7 DEF IsEngine, SameTracking
  <2>9. id \in t.trade_ledger \ e.processed_fill_ids
    BY <1>3, <2>4 DEF AlreadyApplied
  <2>10. QED
    BY <2>4, <2>6, <2>8, <2>9 DEF Books, t
<1>4. QED
  BY <1>2, <1>3
-----------------------------------------------------------------------------
(* All the events of one kind of a poll. *)
LEMMA TrackAllFacts ==
  ASSUME NEW e, IsEngine(e), NEW events, \A event \in events : IsUpdate(event) \/ IsFill(event)
  PROVE  LET t == TrackAll(e, events)
         IN  /\ IsEngine(t) /\ SameBooks(e, t)
             /\ \A o \in Orders :
                  \/ t.orders[o] = e.orders[o]
                  \/ \E event \in events :
                       event.order = o /\ OrderAfter(e.orders[o], t.orders[o], event)
<1> DEFINE own(o) == {event \in events : event.order = o}
           pick(o) == CHOOSE event \in own(o) : TRUE
           orders == [o \in Orders |-> IF own(o) = {} THEN e.orders[o]
                                       ELSE OnBrokerEvent(e, pick(o)).orders[o]]
           ids == e.processed_broker_event_ids
                    \cup UNION {OnBrokerEvent(e, event).processed_broker_event_ids :
                                  event \in events}
           t == TrackAll(e, events)
<1>1. t = [orders                     |-> orders,
           processed_broker_event_ids |-> ids,
           processed_fill_ids         |-> e.processed_fill_ids,
           shares                     |-> e.shares,
           trade_ledger               |-> e.trade_ledger,
           processed_event_ids        |-> e.processed_event_ids,
           last_event_timestamp       |-> e.last_event_timestamp]
  <2>1. t = [e EXCEPT !.orders = orders, !.processed_broker_event_ids = ids]
    BY DEF TrackAll
  <2> HIDE DEF orders, ids, t
  <2>2. QED
    BY <2>1 DEF IsEngine
<1>2. ASSUME NEW o \in Orders
      PROVE  /\ orders[o] # NoOrder => Stamped(orders[o])
             /\ \/ orders[o] = e.orders[o]
                \/ \E event \in events :
                     event.order = o /\ OrderAfter(e.orders[o], orders[o], event)
  <2>1. e.orders[o] # NoOrder => Stamped(e.orders[o])
    BY DEF IsEngine
  <2>2. CASE own(o) = {}
    BY <2>1, <2>2
  <2>3. CASE own(o) # {}
    <3>1. pick(o) \in events /\ pick(o).order = o
      BY <2>3
    <3> HIDE DEF own, pick
    <3>2. orders[o] = OnBrokerEvent(e, pick(o)).orders[o]
      BY <2>3
    <3>3. Tracks(e, OnBrokerEvent(e, pick(o)), pick(o))
      BY <3>1, TrackingFacts
    <3>4. QED
      BY <3>1, <3>2, <3>3 DEF Tracks, IsEngine
  <2>4. QED
    BY <2>2, <2>3
<1>3. orders = [o \in Orders |-> orders[o]]
  OBVIOUS
<1> HIDE DEF orders, ids, t
<1>4. t.orders = orders /\ SameBooks(e, t)
  BY <1>1 DEF SameBooks
<1>5. t = [orders                     |-> t.orders,
           processed_broker_event_ids |-> t.processed_broker_event_ids,
           processed_fill_ids         |-> t.processed_fill_ids,
           shares                     |-> t.shares,
           trade_ledger               |-> t.trade_ledger,
           processed_event_ids        |-> t.processed_event_ids,
           last_event_timestamp       |-> t.last_event_timestamp]
  BY <1>1
<1>6. t.shares \in [Orders -> Nat]
  BY <1>4 DEF IsEngine, SameBooks
<1>7. IsEngine(t)
  BY <1>2, <1>3, <1>4, <1>5, <1>6 DEF IsEngine
<1>8. QED
  BY <1>2, <1>4, <1>7 DEF t

(* All the fills of a poll. *)
LEMMA BookAllFacts ==
  ASSUME NEW e, IsEngine(e), NEW fills, \A fill \in fills : IsFill(fill)
  PROVE  LET t   == BookAll(e, fills)
             new == {EventId(fill) : fill \in {f \in fills : ~AlreadyApplied(e, f)}}
         IN  /\ IsEngine(t) /\ SameTracking(e, t)
             /\ t.processed_fill_ids = e.processed_fill_ids \cup new
             /\ t.trade_ledger = e.trade_ledger \cup new
             /\ \A o \in Orders :
                  \/ t.shares[o] = e.shares[o]
                  \/ \E fill \in fills :
                       fill.order = o /\ t.shares[o] = e.shares[o] + fill.quantity
<1> DEFINE own(o) == {fill \in {f \in fills : ~AlreadyApplied(e, f)} : fill.order = o}
           pick(o) == CHOOSE fill \in own(o) : TRUE
           shares == [o \in Orders |-> IF own(o) = {} THEN e.shares[o]
                                       ELSE e.shares[o] + pick(o).quantity]
           new == {EventId(fill) : fill \in {f \in fills : ~AlreadyApplied(e, f)}}
           t == BookAll(e, fills)
<1>1. t = [orders                     |-> e.orders,
           processed_broker_event_ids |-> e.processed_broker_event_ids,
           processed_fill_ids         |-> e.processed_fill_ids \cup new,
           shares                     |-> shares,
           trade_ledger               |-> e.trade_ledger \cup new,
           processed_event_ids        |-> e.processed_event_ids,
           last_event_timestamp       |-> e.last_event_timestamp]
  <2>1. t = [e EXCEPT !.shares = shares, !.processed_fill_ids = @ \cup new,
                      !.trade_ledger = @ \cup new]
    BY DEF BookAll
  <2> HIDE DEF shares, new, t
  <2>2. QED
    BY <2>1 DEF IsEngine
<1>2. ASSUME NEW o \in Orders
      PROVE  /\ shares[o] \in Nat
             /\ \/ shares[o] = e.shares[o]
                \/ \E fill \in fills : fill.order = o /\ shares[o] = e.shares[o] + fill.quantity
  <2>1. e.shares[o] \in Nat
    BY DEF IsEngine
  <2>2. CASE own(o) = {}
    BY <2>1, <2>2
  <2>3. CASE own(o) # {}
    <3>1. pick(o) \in fills /\ pick(o).order = o
      BY <2>3
    <3> HIDE DEF own, pick
    <3>2. shares[o] = e.shares[o] + pick(o).quantity
      BY <2>3
    <3>3. pick(o).quantity \in Nat
      BY <3>1 DEF IsFill
    <3>4. QED
      BY <2>1, <3>1, <3>2, <3>3
  <2>4. QED
    BY <2>2, <2>3
<1>3. shares = [o \in Orders |-> shares[o]]
  OBVIOUS
<1> HIDE DEF shares, new, t
<1>4. /\ t.shares = shares /\ SameTracking(e, t)
      /\ t.processed_fill_ids = e.processed_fill_ids \cup new
      /\ t.trade_ledger = e.trade_ledger \cup new
  BY <1>1 DEF SameTracking
<1>5. t = [orders                     |-> t.orders,
           processed_broker_event_ids |-> t.processed_broker_event_ids,
           processed_fill_ids         |-> t.processed_fill_ids,
           shares                     |-> t.shares,
           trade_ledger               |-> t.trade_ledger,
           processed_event_ids        |-> t.processed_event_ids,
           last_event_timestamp       |-> t.last_event_timestamp]
  BY <1>1
<1>6. t.shares \in [Orders -> Nat]
  BY <1>2, <1>3, <1>4
<1>7. IsEngine(t)
  BY <1>4, <1>5, <1>6 DEF IsEngine, SameTracking
<1>8. QED
  BY <1>2, <1>4, <1>7 DEF t, new
-----------------------------------------------------------------------------
(* An event went all the way through the loop. *)
Handled(e, t, event) ==
  /\ IsEngine(t)
  /\ e.processed_broker_event_ids \subseteq t.processed_broker_event_ids
  /\ e.processed_fill_ids \subseteq t.processed_fill_ids
  /\ e.trade_ledger \subseteq t.trade_ledger
  /\ t.processed_event_ids = e.processed_event_ids \cup {EventId(event)}
  /\ \A o \in Orders : o # event.order => t.orders[o] = e.orders[o] /\ t.shares[o] = e.shares[o]
  /\ OrderAfter(e.orders[event.order], t.orders[event.order], event)
  /\ EventId(event) \in e.processed_broker_event_ids
       => t.orders[event.order] = e.orders[event.order]

HandledUpdate(e, t, event) ==
  /\ t.processed_fill_ids = e.processed_fill_ids
  /\ t.shares = e.shares

HandledFill(e, t, event) ==
  /\ EventId(event) \in t.processed_broker_event_ids
  /\ t.processed_fill_ids = e.processed_fill_ids \cup {EventId(event)}
  /\ \/ /\ EventId(event) \in e.processed_fill_ids
        /\ t.shares[event.order] = e.shares[event.order]
     \/ /\ EventId(event) \in t.trade_ledger \ e.processed_fill_ids
        /\ t.shares[event.order] = e.shares[event.order] + event.quantity

LEMMA RememberFacts ==
  ASSUME NEW e, IsEngine(e), NEW event
  PROVE  LET t == Remember(e, event)
         IN  /\ IsEngine(t)
             /\ t.orders = e.orders /\ t.shares = e.shares /\ t.trade_ledger = e.trade_ledger
             /\ t.processed_broker_event_ids = e.processed_broker_event_ids
             /\ t.processed_fill_ids = e.processed_fill_ids
             /\ t.processed_event_ids = e.processed_event_ids \cup {EventId(event)}
<1> DEFINE last == IF event.timestamp > e.last_event_timestamp THEN event.timestamp
                   ELSE e.last_event_timestamp
           t == Remember(e, event)
<1>1. t = [orders                     |-> e.orders,
           processed_broker_event_ids |-> e.processed_broker_event_ids,
           processed_fill_ids         |-> e.processed_fill_ids,
           shares                     |-> e.shares,
           trade_ledger               |-> e.trade_ledger,
           processed_event_ids        |-> e.processed_event_ids \cup {EventId(event)},
           last_event_timestamp       |-> last]
  <2>1. t = [e EXCEPT !.processed_event_ids = @ \cup {EventId(event)},
                      !.last_event_timestamp = last]
    BY DEF Remember
  <2> HIDE DEF t, last
  <2>2. QED
    BY <2>1 DEF IsEngine
<1> HIDE DEF t, last
<1>2. /\ t.orders = e.orders /\ t.shares = e.shares /\ t.trade_ledger = e.trade_ledger
      /\ t.processed_broker_event_ids = e.processed_broker_event_ids
      /\ t.processed_fill_ids = e.processed_fill_ids
      /\ t.processed_event_ids = e.processed_event_ids \cup {EventId(event)}
  BY <1>1
<1>3. t = [orders                     |-> t.orders,
           processed_broker_event_ids |-> t.processed_broker_event_ids,
           processed_fill_ids         |-> t.processed_fill_ids,
           shares                     |-> t.shares,
           trade_ledger               |-> t.trade_ledger,
           processed_event_ids        |-> t.processed_event_ids,
           last_event_timestamp       |-> t.last_event_timestamp]
  BY <1>1
<1>4. IsEngine(t)
  BY <1>2, <1>3 DEF IsEngine
<1>5. QED
  BY <1>2, <1>4 DEF t

LEMMA HandlingFacts ==
  ASSUME NEW e, IsEngine(e), NEW event, IsUpdate(event) \/ (IsFill(event) /\ ~Raises(e, event))
  PROVE  LET t == Remember(Handle(e, event), event)
         IN  /\ Handled(e, t, event)
             /\ IsUpdate(event) => HandledUpdate(e, t, event)
             /\ IsFill(event) => HandledFill(e, t, event)
<1> DEFINE tracked == OnBrokerEvent(e, event)
           handled == Handle(e, event)
           t       == Remember(handled, event)
<1>1. Tracks(e, tracked, event) /\ IsEngine(tracked)
  BY TrackingFacts DEF Tracks
<1>2. CASE IsUpdate(event)
  <2>1. handled = tracked
    BY <1>2 DEF Handle, IsUpdate
  <2> HIDE DEF tracked, handled
  <2>2. /\ IsEngine(t) /\ t.orders = tracked.orders /\ t.shares = tracked.shares
        /\ t.trade_ledger = tracked.trade_ledger
        /\ t.processed_broker_event_ids = tracked.processed_broker_event_ids
        /\ t.processed_fill_ids = tracked.processed_fill_ids
        /\ t.processed_event_ids = tracked.processed_event_ids \cup {EventId(event)}
    BY <1>1, <2>1, RememberFacts
  <2> HIDE DEF t
  <2>3. Handled(e, t, event) /\ HandledUpdate(e, t, event)
    BY <1>1, <2>2 DEF Tracks, SameBooks, Handled, HandledUpdate
  <2>4. ~IsFill(event)
    BY <1>2 DEF IsUpdate, IsFill
  <2>5. QED
    BY <2>3, <2>4 DEF t, handled
<1>3. CASE IsFill(event) /\ ~Raises(e, event)
  <2>1. handled = ApplyFill(tracked, event)
    BY <1>3 DEF Handle, IsFill
  <2>2. EventId(event) \in tracked.processed_broker_event_ids
    BY <1>3, TrackingFacts
  <2> HIDE DEF tracked
  <2>3. Books(tracked, handled, event) /\ IsEngine(handled)
    BY <1>1, <1>3, <2>1, BookingFacts DEF Books
  <2> HIDE DEF handled
  <2>4. /\ IsEngine(t) /\ t.orders = handled.orders /\ t.shares = handled.shares
        /\ t.trade_ledger = handled.trade_ledger
        /\ t.processed_broker_event_ids = handled.processed_broker_event_ids
        /\ t.processed_fill_ids = handled.processed_fill_ids
        /\ t.processed_event_ids = handled.processed_event_ids \cup {EventId(event)}
    BY <2>3, RememberFacts
  <2> HIDE DEF t
  <2>5. Handled(e, t, event)
    BY <1>1, <2>3, <2>4 DEF Tracks, SameBooks, Books, SameTracking, Handled
  <2>6. HandledFill(e, t, event)
    BY <1>1, <2>2, <2>3, <2>4 DEF Tracks, SameBooks, Books, SameTracking, HandledFill
  <2>7. ~IsUpdate(event)
    BY <1>3 DEF IsUpdate, IsFill
  <2>8. QED
    BY <2>5, <2>6, <2>7 DEF t, handled
<1>4. QED
  BY <1>2, <1>3

IsLoop(loop) ==
  /\ loop = [engine |-> loop.engine, left |-> loop.left, running |-> loop.running,
             delivered |-> loop.delivered]
  /\ IsEngine(loop.engine)
  /\ loop.delivered \in [Orders -> Nat]

(* The loop skips an event or stops at it, or the event goes through. *)
LEMMA SyncEventFacts ==
  ASSUME NEW loop, IsLoop(loop), NEW event, IsUpdate(event) \/ IsFill(event)
  PROVE  LET after == SyncEvent(loop, event)
         IN  /\ IsLoop(after) /\ after.delivered = loop.delivered
             /\ after.running => loop.running
             /\ \/ /\ after.engine = loop.engine
                   /\ after.running => EventId(event) \in loop.engine.processed_event_ids
                \/ /\ loop.running
                   /\ Handled(loop.engine, after.engine, event)
                   /\ IsUpdate(event) => HandledUpdate(loop.engine, after.engine, event)
                   /\ IsFill(event) => HandledFill(loop.engine, after.engine, event)
<1> DEFINE after == SyncEvent(loop, event)
<1>1. CASE ~loop.running \/ IsDuplicate(loop.engine, event)
  <2>1. after = loop
    BY <1>1 DEF SyncEvent
  <2>2. QED
    BY <1>1, <2>1 DEF IsDuplicate
<1>2. CASE /\ loop.running /\ ~IsDuplicate(loop.engine, event)
           /\ IsOutOfOrder(loop.engine, event) \/ Raises(loop.engine, event)
  <2>1. after = [loop EXCEPT !.running = FALSE]
    BY <1>2 DEF SyncEvent
  <2> HIDE DEF after
  <2>2. after = [engine |-> loop.engine, left |-> loop.left, running |-> FALSE,
                 delivered |-> loop.delivered]
    BY <2>1 DEF IsLoop
  <2>3. QED
    BY <2>2 DEF IsLoop, after
<1>3. CASE /\ loop.running /\ ~IsDuplicate(loop.engine, event)
           /\ ~IsOutOfOrder(loop.engine, event) /\ ~Raises(loop.engine, event)
  <2> DEFINE t == Remember(Handle(loop.engine, event), event)
             left == loop.left - 1
             running == loop.left # 1
  <2>1. after = [loop EXCEPT !.engine = t, !.left = left, !.running = running]
    BY <1>3 DEF SyncEvent
  <2>2. IsEngine(loop.engine)
    BY DEF IsLoop
  <2>3. /\ Handled(loop.engine, t, event)
        /\ IsUpdate(event) => HandledUpdate(loop.engine, t, event)
        /\ IsFill(event) => HandledFill(loop.engine, t, event)
    BY <1>3, <2>2, HandlingFacts
  <2> HIDE DEF after, t, left, running
  <2>4. after = [engine |-> t, left |-> left, running |-> running, delivered |-> loop.delivered]
    BY <2>1 DEF IsLoop
  <2>5. IsEngine(t)
    BY <2>3 DEF Handled
  <2>6. after.engine = t /\ after.delivered = loop.delivered /\ IsLoop(after)
    BY <2>4, <2>5 DEF IsLoop
  <2>7. QED
    BY <1>3, <2>3, <2>6 DEF after
<1>4. QED
  BY <1>1, <1>2, <1>3
-----------------------------------------------------------------------------
(* An order's messages tell of ever more shares, and date no execution after they
   were sent. *)
LogOrdered ==
  /\ log \in Seq(Message)
  /\ \A j \in 1..Len(log) : FilledAt(log[j].payload) <= log[j].payload.updated_at
  /\ \A j, k \in 1..Len(log) :
       j < k /\ log[j].order = log[k].order => log[j].payload.filled <= log[k].payload.filled

(* At most the shares that the first p messages tell of. *)
Within(shares, o, p) ==
  shares = 0 \/ \E j \in 1..p : log[j].order = o /\ shares <= log[j].payload.filled

(* An order that took the snapshot of message p + 1, whose fill is still to come. *)
Ahead(order, o, p) ==
  /\ p + 1 <= Len(log) /\ log[p + 1].order = o
  /\ order.filled_quantity = log[p + 1].payload.filled
  /\ log[p + 1].payload.updated_at <= order.updated_at

(* The engine has been through the first p messages of the log: their fills will
   not count again, and nothing beyond them has counted yet. *)
Replayed(e, p) ==
  /\ \A j \in 1..p :
       log[j].payload.filled # 0 =>
         /\ FillIdOf(log[j].order, log[j].payload.filled) \in e.processed_fill_ids
         /\ FillIdOf(log[j].order, log[j].payload.filled) \in e.processed_broker_event_ids
  /\ \A o \in Orders : Within(e.shares[o], o, p)
  /\ \A o \in Orders :
       e.orders[o] # NoOrder =>
         Within(e.orders[o].filled_quantity, o, p) \/ Ahead(e.orders[o], o, p)

(* The checkpoint remembers no fill that the engine could count again. *)
Remembered(e) ==
  \A id \in e.processed_event_ids :
    id.kind = "FILL" => id \in e.processed_fill_ids /\ id \in e.processed_broker_event_ids

(* The watermarks of the source after i messages. *)
Delivery(loop, i) ==
  /\ \A j \in 1..i : log[j].payload.filled <= loop.delivered[log[j].order]
  /\ \A o \in Orders :
       \/ loop.delivered[o] = 0
       \/ \E j \in 1..i : log[j].order = o /\ log[j].payload.filled = loop.delivered[o]

LEMMA MessageFacts ==
  ASSUME LogOrdered, NEW j \in 1..Len(log)
  PROVE  /\ log[j].order \in Orders /\ log[j].payload \in BrokerOrder
         /\ log[j].payload.filled \in Nat /\ log[j].payload.updated_at \in Nat
<1>1. log[j] \in Message
  BY DEF LogOrdered
<1>2. log[j].order \in Orders /\ log[j].payload \in BrokerOrder
  BY <1>1 DEF Message
<1>3. QED
  BY <1>2 DEF BrokerOrder

LEMMA WithinMore ==
  ASSUME NEW shares, NEW o, NEW p \in Nat, NEW q \in Nat, p <= q, Within(shares, o, p)
  PROVE  Within(shares, o, q)
<1>1. \A j \in 1..p : j \in 1..q
  OBVIOUS
<1>2. QED
  BY <1>1 DEF Within

LEMMA WithinLast ==
  ASSUME LogOrdered, NEW shares, NEW p \in 1..Len(log), shares <= log[p].payload.filled
  PROVE  Within(shares, log[p].order, p)
<1>1. Len(log) \in Nat
  BY DEF LogOrdered
<1>2. p \in 1..p
  BY <1>1
<1>3. QED
  BY <1>2 DEF Within

LEMMA WithinDelivered ==
  ASSUME LogOrdered, NEW loop, IsLoop(loop), NEW i \in 0..Len(log), Delivery(loop, i),
         NEW o \in Orders, NEW shares \in Nat, Within(shares, o, i)
  PROVE  shares <= loop.delivered[o]
<1>1. loop.delivered[o] \in Nat /\ Len(log) \in Nat
  BY DEF IsLoop, LogOrdered
<1>2. CASE shares = 0
  BY <1>1, <1>2
<1>3. CASE \E j \in 1..i : log[j].order = o /\ shares <= log[j].payload.filled
  <2>1. PICK j \in 1..i : log[j].order = o /\ shares <= log[j].payload.filled
    BY <1>3
  <2>2. j \in 1..Len(log)
    BY <1>1
  <2>3. log[j].payload.filled \in Nat
    BY <2>2, MessageFacts
  <2>4. log[j].payload.filled <= loop.delivered[o]
    BY <2>1 DEF Delivery
  <2> DEFINE filled == log[j].payload.filled
             delivered == loop.delivered[o]
  <2>5. shares <= filled /\ filled <= delivered /\ filled \in Nat /\ delivered \in Nat
    BY <1>1, <2>1, <2>3, <2>4
  <2> HIDE DEF filled, delivered
  <2>6. shares <= delivered
    BY <2>5
  <2>7. QED
    BY <2>6 DEF delivered
<1>4. QED
  BY <1>2, <1>3 DEF Within

(* The order update of the next message. *)
LEMMA UpdateKeepsReplayed ==
  ASSUME LogOrdered, NEW i \in 0..(Len(log) - 1), NEW p \in i..Len(log),
         NEW e, Replayed(e, p),
         NEW event, event = UpdateIn(log[i + 1]),
         NEW t, Handled(e, t, event), HandledUpdate(e, t, event)
  PROVE  Replayed(t, p)
<1> DEFINE o == log[i + 1].order
           c == log[i + 1].payload.filled
<1>1. Len(log) \in Nat /\ i \in Nat /\ p \in Nat /\ i + 1 \in 1..Len(log)
  BY DEF LogOrdered
<1>2. o \in Orders /\ log[i + 1].payload \in BrokerOrder /\ c \in Nat
      /\ log[i + 1].payload.updated_at \in Nat
  BY <1>1, MessageFacts
<1>3. /\ IsUpdate(event) /\ event.order = o /\ event.snapshot.filled_quantity = c
      /\ event.snapshot.updated_at = log[i + 1].payload.updated_at
  BY <1>2, UpdateFacts DEF UpdateIn
<1>4. ASSUME NEW q \in Orders, t.orders[q] # NoOrder
      PROVE  Within(t.orders[q].filled_quantity, q, p) \/ Ahead(t.orders[q], q, p)
  <2>1. CASE t.orders[q] = e.orders[q]
    BY <1>4, <2>1 DEF Replayed
  <2>2. CASE t.orders[q] # e.orders[q]
    <3>1. q = o
      BY <1>3, <2>2 DEF Handled
    <3>2. t.orders[o] = event.snapshot
      BY <1>3, <2>2, <3>1 DEF Handled, OrderAfter, BecomesSnapshot, TakesFill, IsUpdate
    <3>3. CASE p = i
      <4>1. p + 1 <= Len(log) /\ log[p + 1].order = q
        BY <1>1, <3>1, <3>3
      <4>2. t.orders[q].filled_quantity = log[p + 1].payload.filled
        BY <1>3, <3>1, <3>2, <3>3
      <4>3. t.orders[q].updated_at = log[p + 1].payload.updated_at
        BY <1>3, <3>1, <3>2, <3>3
      <4>4. log[p + 1].payload.updated_at <= t.orders[q].updated_at
        BY <1>2, <3>3, <4>3
      <4>5. QED
        BY <4>1, <4>2, <4>4 DEF Ahead
    <3>4. CASE p # i
      <4>1. i + 1 <= p
        BY <1>1, <3>4
      <4>2. Within(c, o, i + 1)
        <5>1. i + 1 \in 1..(i + 1) /\ c <= log[i + 1].payload.filled
          BY <1>1, <1>2
        <5>2. QED
          BY <5>1 DEF Within
      <4>3. Within(c, o, p)
        BY <1>1, <4>1, <4>2, WithinMore
      <4>4. QED
        BY <1>3, <3>1, <3>2, <4>3
    <3>5. QED
      BY <3>3, <3>4
  <2>3. QED
    BY <2>1, <2>2
<1>5. QED
  BY <1>4 DEF Replayed, Handled, HandledUpdate

(* A fill is taken: counted once by each of the execution engine and the portfolio
   at most. *)
Takes(e, t, fill) ==
  /\ IsEngine(t)
  /\ e.processed_broker_event_ids \subseteq t.processed_broker_event_ids
  /\ e.processed_fill_ids \subseteq t.processed_fill_ids
  /\ EventId(fill) \in t.processed_broker_event_ids
  /\ EventId(fill) \in t.processed_fill_ids
  /\ t.processed_event_ids \subseteq e.processed_event_ids \cup {EventId(fill)}
  /\ \A o \in Orders : o # fill.order => t.orders[o] = e.orders[o] /\ t.shares[o] = e.shares[o]
  /\ OrderAfter(e.orders[fill.order], t.orders[fill.order], fill)
  /\ EventId(fill) \in e.processed_broker_event_ids
       => t.orders[fill.order] = e.orders[fill.order]
  /\ \/ t.shares[fill.order] = e.shares[fill.order]
     \/ /\ EventId(fill) \notin e.processed_fill_ids
        /\ t.shares[fill.order] = e.shares[fill.order] + fill.quantity

LEMMA HandledTakes ==
  ASSUME NEW e, NEW t, NEW fill, Handled(e, t, fill), HandledFill(e, t, fill)
  PROVE  Takes(e, t, fill)
BY DEF Handled, HandledFill, Takes

LEMMA RememberedTakes ==
  ASSUME NEW e, IsEngine(e), Remembered(e), NEW fill, EventId(fill).kind = "FILL",
         EventId(fill) \in e.processed_event_ids
  PROVE  Takes(e, e, fill)
BY DEF Remembered, Takes, OrderAfter

LEMMA FailureTakes ==
  ASSUME NEW loop, IsLoop(loop), NEW fill, IsFill(fill), Reaches(loop, fill)
  PROVE  /\ Takes(loop.engine, FailEvent(loop, fill), fill)
         /\ FailEvent(loop, fill).shares = loop.engine.shares
<1> DEFINE e == loop.engine
           tracked == OnBrokerEvent(e, fill)
           t == FailEvent(loop, fill)
<1>1. IsEngine(e) /\ ~Raises(e, fill)
  BY DEF IsLoop, Reaches
<1>2. Tracks(e, tracked, fill) /\ EventId(fill) \in tracked.processed_broker_event_ids
  BY <1>1, TrackingFacts
<1> HIDE DEF e
<1>3. t = RecordFillId(tracked, fill)
  BY DEF FailEvent, e
<1> HIDE DEF tracked
<1>4. Records(tracked, t, fill)
  BY <1>2, <1>3, RecordingFacts DEF Tracks
<1> HIDE DEF t
<1>5. Takes(e, t, fill) /\ t.shares = e.shares
  BY <1>2, <1>4 DEF Tracks, SameBooks, Records, SameTracking, Takes
<1>6. QED
  BY <1>5 DEF e, t

LEMMA TakesKeeps ==
  ASSUME NEW e, IsEngine(e), Remembered(e), NEW fill, IsFill(fill), NEW t, Takes(e, t, fill)
  PROVE  /\ Remembered(t)
         /\ \A o \in Orders : e.shares[o] <= t.shares[o]
<1>1. Remembered(t)
  BY DEF Remembered, Takes
<1>2. ASSUME NEW o \in Orders
      PROVE  e.shares[o] <= t.shares[o]
  <2>1. e.shares[o] \in Nat /\ fill.quantity \in Nat
    BY DEF IsEngine, IsFill
  <2>2. t.shares[o] = e.shares[o] \/ t.shares[o] = e.shares[o] + fill.quantity
    BY DEF Takes
  <2>3. QED
    BY <2>1, <2>2
<1>3. QED
  BY <1>1, <1>2

(* What a fill of the next message says. *)
LEMMA NextFillFacts ==
  ASSUME LogOrdered, NEW i \in 0..(Len(log) - 1), NEW u, IsLoop(u),
         NEW f \in FillsIn(u, log[i + 1])
  PROVE  LET o == log[i + 1].order
             c == log[i + 1].payload.filled
         IN  /\ IsFill(f) /\ f.order = o /\ o \in Orders /\ c \in Nat
             /\ u.delivered[o] \in Nat /\ u.delivered[o] < c
             /\ f.quantity = c - u.delivered[o]
             /\ f.timestamp <= log[i + 1].payload.updated_at /\ f.timestamp \in Nat
             /\ EventId(f) = FillIdOf(o, c)
<1>1. i + 1 \in 1..Len(log)
  BY DEF LogOrdered
<1>2. log[i + 1].order \in Orders /\ log[i + 1].payload \in BrokerOrder
      /\ log[i + 1].payload.filled \in Nat /\ log[i + 1].payload.updated_at \in Nat
  BY <1>1, MessageFacts
<1>3. u.delivered[log[i + 1].order] \in Nat
  BY <1>2 DEF IsLoop
<1>4. FillTime(log[i + 1].payload) <= log[i + 1].payload.updated_at
  BY <1>1, <1>2 DEF LogOrdered, FillTime
<1>5. QED
  BY <1>2, <1>3, <1>4, FillFacts DEF FillsIn, IsFill

(* The fill of a message the engine has been through changes nothing. *)
LEMMA FillAgain ==
  ASSUME LogOrdered, NEW i \in 0..(Len(log) - 1), NEW u, IsLoop(u),
         NEW f \in FillsIn(u, log[i + 1]), NEW t, Takes(u.engine, t, f),
         NEW p \in (i + 1)..Len(log), Replayed(u.engine, p)
  PROVE  Replayed(t, p)
<1> DEFINE e == u.engine
           o == log[i + 1].order
           c == log[i + 1].payload.filled
<1>1. i + 1 \in 1..p
  BY DEF LogOrdered
<1>2. f.order = o /\ o \in Orders /\ c # 0 /\ EventId(f) = FillIdOf(o, c)
  <2>1. /\ f.order = o /\ o \in Orders /\ EventId(f) = FillIdOf(o, c)
        /\ c \in Nat /\ u.delivered[o] \in Nat /\ u.delivered[o] < c
    BY NextFillFacts
  <2> HIDE DEF c
  <2>2. c # 0
    BY <2>1
  <2>3. QED
    BY <2>1, <2>2
<1>3. /\ FillIdOf(o, c) \in e.processed_fill_ids
      /\ FillIdOf(o, c) \in e.processed_broker_event_ids
  BY <1>1, <1>2 DEF Replayed
<1>4. \A r \in Orders : t.orders[r] = e.orders[r] /\ t.shares[r] = e.shares[r]
  BY <1>2, <1>3 DEF Takes
<1>5. QED
  BY <1>4 DEF Replayed, Takes

(* The fill of the next message brings order and books to what it says. *)
LEMMA FillNew ==
  ASSUME LogOrdered, NEW i \in 0..(Len(log) - 1), NEW u, IsLoop(u), Delivery(u, i),
         NEW f \in FillsIn(u, log[i + 1]), NEW t, Takes(u.engine, t, f),
         Replayed(u.engine, i)
  PROVE  Replayed(t, i + 1)
<1> DEFINE e == u.engine
           o == log[i + 1].order
           c == log[i + 1].payload.filled
           d == u.delivered[o]
<1>1. i \in Nat /\ i + 1 \in Nat /\ i \in 0..Len(log) /\ i + 1 \in 1..Len(log)
      /\ i + 1 \in 1..(i + 1)
  BY DEF LogOrdered
<1>2. /\ f.order = o /\ o \in Orders /\ c \in Nat /\ d \in Nat /\ d < c
      /\ f.quantity = c - d /\ f.timestamp <= log[i + 1].payload.updated_at
      /\ EventId(f) = FillIdOf(o, c) /\ IsFill(f) /\ f.timestamp \in Nat
  BY NextFillFacts
<1>3. IsEngine(e)
  BY DEF IsLoop
<1>4. ASSUME NEW shares \in Nat, shares <= c
      PROVE  Within(shares, o, i + 1)
  BY <1>1, <1>4 DEF Within
<1>5. ASSUME NEW shares \in Nat, Within(shares, o, i)
      PROVE  Within(shares + f.quantity, o, i + 1)
  <2>1. shares <= d
    BY <1>1, <1>2, <1>5, WithinDelivered
  <2>2. f.quantity = c - d /\ c \in Nat /\ d \in Nat /\ d < c
    BY <1>2
  <2> HIDE DEF c, d
  <2>3. shares + f.quantity \in Nat /\ shares + f.quantity <= c
    BY <2>1, <2>2
  <2>4. QED
    BY <1>4, <2>3
<1>6. ASSUME NEW j \in 1..(i + 1), log[j].payload.filled # 0
      PROVE  /\ FillIdOf(log[j].order, log[j].payload.filled) \in t.processed_fill_ids
             /\ FillIdOf(log[j].order, log[j].payload.filled) \in t.processed_broker_event_ids
  <2>1. CASE j = i + 1
    BY <1>2, <2>1 DEF Takes
  <2>2. CASE j # i + 1
    <3>1. j \in 1..i
      BY <1>1, <2>2
    <3>2. QED
      BY <1>6, <3>1 DEF Replayed, Takes
  <2>3. QED
    BY <2>1, <2>2
<1>7. ASSUME NEW r \in Orders
      PROVE  Within(t.shares[r], r, i + 1)
  <2>1. Within(e.shares[r], r, i) /\ e.shares[r] \in Nat
    BY <1>3 DEF Replayed, IsEngine
  <2>2. Within(e.shares[r], r, i + 1)
    BY <1>1, <2>1, WithinMore
  <2>3. CASE t.shares[r] = e.shares[r]
    BY <2>2, <2>3
  <2>4. CASE t.shares[r] # e.shares[r]
    <3>1. r = o /\ t.shares[r] = e.shares[r] + f.quantity
      BY <1>2, <2>4 DEF Takes
    <3>2. QED
      BY <1>5, <2>1, <3>1
  <2>5. QED
    BY <2>3, <2>4
<1>8. ASSUME NEW r \in Orders, t.orders[r] # NoOrder
      PROVE  Within(t.orders[r].filled_quantity, r, i + 1)
  <2>1. CASE t.orders[r] = e.orders[r]
    <3>1. Within(e.orders[r].filled_quantity, r, i) \/ Ahead(e.orders[r], r, i)
      BY <1>8, <2>1 DEF Replayed
    <3>2. CASE Within(e.orders[r].filled_quantity, r, i)
      BY <1>1, <2>1, <3>2, WithinMore
    <3>3. CASE Ahead(e.orders[r], r, i)
      <4>1. r = o /\ e.orders[r].filled_quantity = c
        BY <3>3 DEF Ahead
      <4>2. QED
        BY <1>2, <1>4, <2>1, <4>1
    <3>4. QED
      BY <3>1, <3>2, <3>3
  <2>2. CASE t.orders[r] # e.orders[r]
    <3>1. r = o
      BY <1>2, <2>2 DEF Takes
    <3>2. TakesFill(e.orders[o], t.orders[o], f)
      BY <1>2, <2>2, <3>1 DEF Takes, OrderAfter, BecomesSnapshot, IsFill
    <3>3. /\ e.orders[o] # NoOrder /\ ~FillAlreadyReflected(e.orders[o], f)
          /\ t.orders[o].filled_quantity = e.orders[o].filled_quantity + f.quantity
      BY <3>2 DEF TakesFill
    <3>4. e.orders[o].filled_quantity \in Nat /\ e.orders[o].updated_at \in Nat
      BY <1>2, <1>3, <3>3 DEF IsEngine, Stamped
    <3>5. ~Ahead(e.orders[o], o, i)
      <4>1. SUFFICES ASSUME Ahead(e.orders[o], o, i)
                     PROVE  FillAlreadyReflected(e.orders[o], f)
        BY <3>3
      <4>2. e.orders[o].filled_quantity = c /\ f.timestamp <= e.orders[o].updated_at
        <5>1. /\ e.orders[o].filled_quantity = c
              /\ log[i + 1].payload.updated_at <= e.orders[o].updated_at
          BY <4>1 DEF Ahead
        <5>2. log[i + 1].payload.updated_at \in Nat
          BY <1>1, MessageFacts
        <5>3. QED
          BY <1>2, <3>4, <5>1, <5>2
      <4>3. f.quantity <= c
        <5>1. f.quantity = c - d /\ c \in Nat /\ d \in Nat
          BY <1>2
        <5> HIDE DEF c, d
        <5>2. QED
          BY <5>1
      <4>4. f.quantity \in Nat
        BY <1>2 DEF IsFill
      <4>5. QED
        BY <1>2, <3>4, <4>2, <4>3, <4>4 DEF FillAlreadyReflected
    <3>6. Within(e.orders[o].filled_quantity, o, i)
      BY <1>2, <3>3, <3>5 DEF Replayed
    <3>7. QED
      BY <1>5, <3>1, <3>3, <3>4, <3>6
  <2>3. QED
    BY <2>1, <2>2
<1>9. QED
  BY <1>6, <1>7, <1>8 DEF Replayed

LEMMA FillAdvances ==
  ASSUME LogOrdered, NEW i \in 0..(Len(log) - 1), NEW u, IsLoop(u), Delivery(u, i),
         NEW f \in FillsIn(u, log[i + 1]), NEW t, Takes(u.engine, t, f),
         NEW p \in i..Len(log), Replayed(u.engine, p)
  PROVE  \E q \in (i + 1)..Len(log) : Replayed(t, q)
<1>1. i \in Nat /\ p \in Nat /\ Len(log) \in Nat /\ i + 1 \in (i + 1)..Len(log)
  BY DEF LogOrdered
<1>2. CASE p = i
  <2>1. Replayed(t, i + 1)
    BY <1>2, FillNew
  <2>2. QED
    BY <1>1, <2>1
<1>3. CASE p # i
  <2>1. p \in (i + 1)..Len(log)
    BY <1>1, <1>3
  <2>2. Replayed(t, p)
    BY <2>1, FillAgain
  <2>3. QED
    BY <2>1, <2>2
<1>4. QED
  BY <1>2, <1>3

(* A message without a fill tells of no more shares than an earlier one. *)
LEMMA NoFillAdvances ==
  ASSUME LogOrdered, NEW i \in 0..(Len(log) - 1), NEW u, IsLoop(u), Delivery(u, i),
         FillsIn(u, log[i + 1]) = {},
         NEW p \in i..Len(log), Replayed(u.engine, p)
  PROVE  \E q \in (i + 1)..Len(log) : Replayed(u.engine, q)
<1> DEFINE e == u.engine
           o == log[i + 1].order
           c == log[i + 1].payload.filled
           d == u.delivered[o]
<1>1. /\ i \in Nat /\ p \in Nat /\ Len(log) \in Nat /\ i + 1 \in (i + 1)..Len(log)
      /\ i + 1 \in 1..Len(log) /\ i + 1 \in 1..(i + 1) /\ i + 1 \in Nat
  BY DEF LogOrdered
<1>2. CASE p # i
  <2>1. p \in (i + 1)..Len(log)
    BY <1>1, <1>2
  <2>2. QED
    BY <2>1
<1>3. CASE p = i
  <2>1. o \in Orders /\ log[i + 1].payload \in BrokerOrder /\ c \in Nat
    BY <1>1, MessageFacts
  <2>2. d \in Nat
    BY <2>1 DEF IsLoop
  <2>3. c <= d
    BY <2>1, <2>2, NoFillFacts DEF FillsIn
  <2>4. ASSUME c # 0
        PROVE  /\ FillIdOf(o, c) \in e.processed_fill_ids
               /\ FillIdOf(o, c) \in e.processed_broker_event_ids
    <3>1. d # 0
      <4> HIDE DEF c, d
      <4>1. QED
        BY <2>1, <2>2, <2>3, <2>4
    <3>2. PICK j \in 1..i : log[j].order = o /\ log[j].payload.filled = d
      BY <2>1, <3>1 DEF Delivery
    <3>3. j \in 1..Len(log) /\ j < i + 1 /\ i + 1 \in 1..Len(log)
      BY <1>1
    <3>4. d <= c
      BY <3>2, <3>3 DEF LogOrdered
    <3>5. d = c
      <4> HIDE DEF c, d
      <4>1. QED
        BY <2>1, <2>2, <2>3, <3>4
    <3>6. QED
      BY <1>3, <3>1, <3>2, <3>5 DEF Replayed
  <2>5. ASSUME NEW j \in 1..(i + 1), log[j].payload.filled # 0
        PROVE  /\ FillIdOf(log[j].order, log[j].payload.filled) \in e.processed_fill_ids
               /\ FillIdOf(log[j].order, log[j].payload.filled) \in e.processed_broker_event_ids
    <3>1. CASE j = i + 1
      BY <2>4, <2>5, <3>1
    <3>2. CASE j # i + 1
      <4>1. j \in 1..i
        BY <1>1, <3>2
      <4>2. QED
        BY <1>3, <2>5, <4>1 DEF Replayed
    <3>3. QED
      BY <3>1, <3>2
  <2>6. ASSUME NEW r \in Orders
        PROVE  Within(e.shares[r], r, i + 1)
    <3>1. Within(e.shares[r], r, i)
      BY <1>3 DEF Replayed
    <3>2. QED
      BY <1>1, <3>1, WithinMore
  <2>7. ASSUME NEW r \in Orders, e.orders[r] # NoOrder
        PROVE  Within(e.orders[r].filled_quantity, r, i + 1)
    <3>1. Within(e.orders[r].filled_quantity, r, i) \/ Ahead(e.orders[r], r, i)
      BY <1>3, <2>7 DEF Replayed
    <3>2. CASE Within(e.orders[r].filled_quantity, r, i)
      BY <1>1, <3>2, WithinMore
    <3>3. CASE Ahead(e.orders[r], r, i)
      <4>1. r = o /\ e.orders[r].filled_quantity = c
        BY <3>3 DEF Ahead
      <4>2. QED
        BY <1>1, <2>1, <4>1 DEF Within
    <3>4. QED
      BY <3>1, <3>2, <3>3
  <2>8. Replayed(e, i + 1)
    BY <2>5, <2>6, <2>7 DEF Replayed
  <2>9. QED
    BY <1>1, <2>8
<1>4. QED
  BY <1>2, <1>3
-----------------------------------------------------------------------------
(* The loop after i messages, in a replay that started with the engine `first`: it
   counts nothing again, it has dropped nothing, and while it runs the engine has
   been through those messages at least. *)
Reached(first, loop, i) ==
  /\ Remembered(loop.engine)
  /\ \A o \in Orders : first.shares[o] <= loop.engine.shares[o]
  /\ \E p \in 0..Len(log) : Replayed(loop.engine, p) /\ (loop.running => i <= p)

OnTrack(first, loop, i) == IsLoop(loop) /\ Delivery(loop, i) /\ Reached(first, loop, i)

LEMMA DeliveryKept ==
  ASSUME NEW loop, NEW after, NEW i, Delivery(loop, i), after.delivered = loop.delivered
  PROVE  Delivery(after, i)
BY DEF Delivery

LEMMA UpdateOnTrack ==
  ASSUME LogOrdered, NEW first, NEW loop, NEW i \in 0..(Len(log) - 1), OnTrack(first, loop, i)
  PROVE  /\ OnTrack(first, SyncEvent(loop, UpdateIn(log[i + 1])), i)
         /\ SyncEvent(loop, UpdateIn(log[i + 1])).delivered = loop.delivered
<1> DEFINE event == UpdateIn(log[i + 1])
           after == SyncEvent(loop, event)
           e == loop.engine
           t == after.engine
<1>1. IsUpdate(event)
  <2>1. i + 1 \in 1..Len(log)
    BY DEF LogOrdered
  <2>2. log[i + 1].order \in Orders /\ log[i + 1].payload \in BrokerOrder
    BY <2>1, MessageFacts
  <2>3. QED
    BY <2>2, UpdateFacts DEF UpdateIn
<1>2. IsLoop(loop) /\ Delivery(loop, i) /\ Reached(first, loop, i) /\ IsEngine(e)
  BY DEF OnTrack, IsLoop
<1>3. /\ IsLoop(after) /\ after.delivered = loop.delivered
      /\ after.running => loop.running
      /\ \/ t = e
         \/ loop.running /\ Handled(e, t, event) /\ HandledUpdate(e, t, event)
  BY <1>1, <1>2, SyncEventFacts
<1>4. PICK p \in 0..Len(log) : Replayed(e, p) /\ (loop.running => i <= p)
  BY <1>2 DEF Reached
<1> HIDE DEF after
<1>5. ASSUME t = e
      PROVE  OnTrack(first, after, i)
  BY <1>2, <1>3, <1>4, <1>5, DeliveryKept DEF OnTrack, Reached
<1>6. ASSUME loop.running, Handled(e, t, event), HandledUpdate(e, t, event)
      PROVE  OnTrack(first, after, i)
  <2>1. p \in i..Len(log)
    BY <1>4, <1>6 DEF LogOrdered
  <2>2. Replayed(t, p)
    BY <1>4, <1>6, <2>1, UpdateKeepsReplayed
  <2>3. Remembered(t)
    <3>1. EventId(event).kind # "FILL"
      BY <1>1 DEF IsUpdate, EventId
    <3>2. Remembered(e)
      BY <1>2 DEF Reached
    <3>3. QED
      BY <1>6, <3>1, <3>2 DEF Remembered, Handled
  <2>4. t.shares = e.shares
    BY <1>6 DEF HandledUpdate
  <2>5. Reached(first, after, i)
    BY <1>2, <1>3, <1>4, <2>2, <2>3, <2>4 DEF Reached
  <2>6. QED
    BY <1>2, <1>3, <2>5, DeliveryKept DEF OnTrack
<1>7. OnTrack(first, after, i)
  BY <1>3, <1>5, <1>6
<1>8. QED
  BY <1>3, <1>7 DEF after

LEMMA FillReaches ==
  ASSUME LogOrdered, NEW first, NEW u, NEW i \in 0..(Len(log) - 1), OnTrack(first, u, i),
         IsEngine(first), NEW f \in FillsIn(u, log[i + 1])
  PROVE  /\ IsLoop(SyncEvent(u, f)) /\ SyncEvent(u, f).delivered = u.delivered
         /\ Reached(first, SyncEvent(u, f), i + 1)
<1> DEFINE after == SyncEvent(u, f)
           e == u.engine
           t == after.engine
<1>1. IsLoop(u) /\ Delivery(u, i) /\ Reached(first, u, i) /\ IsEngine(e)
  BY DEF OnTrack, IsLoop
<1>2. IsFill(f) /\ EventId(f).kind = "FILL"
  BY <1>1, NextFillFacts DEF FillIdOf
<1>3. /\ IsLoop(after) /\ after.delivered = u.delivered
      /\ after.running => u.running
      /\ \/ /\ t = e
            /\ after.running => EventId(f) \in e.processed_event_ids
         \/ u.running /\ Handled(e, t, f) /\ HandledFill(e, t, f)
  BY <1>1, <1>2, SyncEventFacts
<1>4. PICK p \in 0..Len(log) : Replayed(e, p) /\ (u.running => i <= p)
  BY <1>1 DEF Reached
<1> HIDE DEF after
<1>5. Remembered(e) /\ \A o \in Orders : first.shares[o] <= e.shares[o]
  BY <1>1 DEF Reached
<1>6. CASE t = e /\ ~after.running
  <2>1. Reached(first, after, i + 1)
    BY <1>4, <1>5, <1>6 DEF Reached
  <2>2. QED
    BY <1>3, <2>1 DEF after
<1>7. CASE ~(t = e /\ ~after.running)
  <2>1. u.running /\ Takes(e, t, f)
    <3>1. CASE u.running /\ Handled(e, t, f) /\ HandledFill(e, t, f)
      BY <3>1, HandledTakes
    <3>2. CASE t = e /\ u.running /\ EventId(f) \in e.processed_event_ids
      BY <1>1, <1>2, <1>5, <3>2, RememberedTakes
    <3>3. QED
      BY <1>3, <1>7, <3>1, <3>2
  <2>2. p \in i..Len(log)
    BY <1>4, <2>1 DEF LogOrdered
  <2>3. PICK q \in (i + 1)..Len(log) : Replayed(t, q)
    BY <1>1, <1>4, <2>1, <2>2, FillAdvances
  <2>4. q \in 0..Len(log) /\ i + 1 <= q
    BY DEF LogOrdered
  <2>5. Remembered(t) /\ \A o \in Orders : e.shares[o] <= t.shares[o]
    BY <1>1, <1>2, <1>5, <2>1, TakesKeeps
  <2>6. ASSUME NEW o \in Orders
        PROVE  first.shares[o] <= t.shares[o]
    <3>1. first.shares[o] \in Nat /\ e.shares[o] \in Nat /\ t.shares[o] \in Nat
      BY <1>1, <1>3 DEF IsEngine, IsLoop
    <3>2. first.shares[o] <= e.shares[o] /\ e.shares[o] <= t.shares[o]
      BY <1>5, <2>5
    <3>3. QED
      BY <3>1, <3>2
  <2>7. Reached(first, after, i + 1)
    BY <2>3, <2>4, <2>5, <2>6 DEF Reached
  <2>8. QED
    BY <1>3, <2>7 DEF after
<1>8. QED
  BY <1>6, <1>7

LEMMA NoFillReaches ==
  ASSUME LogOrdered, NEW first, NEW u, NEW i \in 0..(Len(log) - 1), OnTrack(first, u, i),
         FillsIn(u, log[i + 1]) = {}
  PROVE  Reached(first, u, i + 1)
<1>1. IsLoop(u) /\ Delivery(u, i) /\ Reached(first, u, i)
  BY DEF OnTrack
<1>2. PICK p \in 0..Len(log) : Replayed(u.engine, p) /\ (u.running => i <= p)
  BY <1>1 DEF Reached
<1>3. CASE ~u.running
  BY <1>1, <1>2, <1>3 DEF Reached
<1>4. CASE u.running
  <2>1. p \in i..Len(log)
    BY <1>2, <1>4 DEF LogOrdered
  <2>2. PICK q \in (i + 1)..Len(log) : Replayed(u.engine, q)
    BY <1>1, <1>2, <2>1, NoFillAdvances
  <2>3. q \in 0..Len(log) /\ i + 1 <= q
    BY DEF LogOrdered
  <2>4. QED
    BY <1>1, <2>2, <2>3 DEF Reached
<1>5. QED
  BY <1>3, <1>4

LEMMA DeliversFacts ==
  ASSUME LogOrdered, NEW loop, IsLoop(loop), NEW i \in 0..(Len(log) - 1), Delivery(loop, i)
  PROVE  LET after == Delivers(loop, log[i + 1])
         IN  /\ IsLoop(after) /\ Delivery(after, i + 1)
             /\ after.engine = loop.engine /\ after.running = loop.running
<1> DEFINE o == log[i + 1].order
           c == log[i + 1].payload.filled
           d == loop.delivered[o]
           more == IF c > d THEN c ELSE d
           delivered == [loop.delivered EXCEPT ![o] = more]
           after == Delivers(loop, log[i + 1])
<1>1. i \in Nat /\ i + 1 \in 1..Len(log) /\ i + 1 \in 1..(i + 1) /\ Len(log) \in Nat
  BY DEF LogOrdered
<1>2. o \in Orders /\ c \in Nat /\ d \in Nat
  BY <1>1, MessageFacts DEF IsLoop
<1>3. more \in Nat /\ c <= more /\ d <= more /\ (more = c \/ more = d)
  <2> HIDE DEF c, d
  <2>1. QED
    BY <1>2
<1>4. after = [loop EXCEPT !.delivered = delivered]
  BY <1>2 DEF Delivers, IsLoop
<1> HIDE DEF after
<1>5. after = [engine |-> loop.engine, left |-> loop.left, running |-> loop.running,
               delivered |-> delivered]
  BY <1>4 DEF IsLoop
<1> HIDE DEF more
<1>6. /\ delivered \in [Orders -> Nat] /\ delivered[o] = more
      /\ \A r \in Orders : r # o => delivered[r] = loop.delivered[r]
  BY <1>2, <1>3 DEF IsLoop
<1> HIDE DEF delivered
<1>7. IsLoop(after) /\ after.delivered = delivered
  BY <1>5, <1>6 DEF IsLoop
<1>8. ASSUME NEW j \in 1..(i + 1)
      PROVE  log[j].payload.filled <= delivered[log[j].order]
  <2>1. CASE j = i + 1
    BY <1>3, <1>6, <2>1
  <2>2. CASE j # i + 1
    <3>1. j \in 1..i /\ j \in 1..Len(log)
      BY <1>1, <2>2
    <3>2. log[j].order \in Orders /\ log[j].payload.filled \in Nat
      BY <3>1, MessageFacts
    <3>3. log[j].payload.filled <= loop.delivered[log[j].order]
      BY <3>1 DEF Delivery
    <3>4. CASE log[j].order = o
      <4>1. log[j].payload.filled <= d /\ d <= more
        BY <1>3, <3>3, <3>4
      <4> HIDE DEF d
      <4>2. log[j].payload.filled <= more
        BY <1>2, <1>3, <3>2, <4>1
      <4>3. QED
        BY <1>6, <3>4, <4>2
    <3>5. CASE log[j].order # o
      BY <1>6, <3>2, <3>3, <3>5
    <3>6. QED
      BY <3>4, <3>5
  <2>3. QED
    BY <2>1, <2>2
<1>9. ASSUME NEW r \in Orders
      PROVE  \/ delivered[r] = 0
             \/ \E j \in 1..(i + 1) : log[j].order = r /\ log[j].payload.filled = delivered[r]
  <2>1. \A j \in 1..i : j \in 1..(i + 1)
    BY <1>1
  <2>2. CASE delivered[r] = loop.delivered[r]
    BY <2>1, <2>2 DEF Delivery
  <2>3. CASE delivered[r] # loop.delivered[r]
    <3>1. r = o /\ delivered[o] = c
      BY <1>3, <1>6, <2>3
    <3>2. QED
      BY <1>1, <3>1
  <2>4. QED
    BY <2>2, <2>3
<1>10. Delivery(after, i + 1)
  BY <1>7, <1>8, <1>9 DEF Delivery
<1>11. QED
  BY <1>5, <1>7, <1>10 DEF after

(* One message of a replay. *)
LEMMA MessageOnTrack ==
  ASSUME LogOrdered, NEW first, IsEngine(first), NEW loop, NEW i \in 0..(Len(log) - 1),
         OnTrack(first, loop, i)
  PROVE  OnTrack(first, SyncMessage(loop, log[i + 1]), i + 1)
<1> DEFINE message == log[i + 1]
           u == SyncEvent(loop, UpdateIn(message))
           fills == FillsIn(loop, message)
           fill == CHOOSE f \in fills : TRUE
           l == IF fills = {} THEN u ELSE SyncEvent(u, fill)
<1>1. OnTrack(first, u, i) /\ u.delivered = loop.delivered
  BY UpdateOnTrack
<1>2. FillsIn(u, message) = fills
  BY <1>1 DEF FillsIn
<1> HIDE DEF u
<1>3. IsLoop(l) /\ l.delivered = loop.delivered /\ Reached(first, l, i + 1)
  <2>1. CASE fills = {}
    BY <1>1, <1>2, <2>1, NoFillReaches DEF OnTrack
  <2>2. CASE fills # {}
    <3>1. fill \in FillsIn(u, message)
      BY <1>2, <2>2
    <3> HIDE DEF fill, fills
    <3>2. /\ IsLoop(SyncEvent(u, fill)) /\ SyncEvent(u, fill).delivered = u.delivered
          /\ Reached(first, SyncEvent(u, fill), i + 1)
      BY <1>1, <3>1, FillReaches
    <3>3. QED
      BY <1>1, <2>2, <3>2
  <2>3. QED
    BY <2>1, <2>2
<1>4. SyncMessage(loop, message) = Delivers(l, message)
  BY DEF SyncMessage, u
<1> HIDE DEF l, fills, fill
<1>5. Delivery(l, i)
  BY <1>3, DeliveryKept DEF OnTrack
<1> DEFINE after == Delivers(l, message)
<1>6. /\ IsLoop(after) /\ Delivery(after, i + 1)
      /\ after.engine = l.engine /\ after.running = l.running
  BY <1>3, <1>5, DeliversFacts
<1> HIDE DEF after
<1>7. Reached(first, after, i + 1)
  BY <1>3, <1>6 DEF Reached
<1>8. QED
  BY <1>4, <1>6, <1>7 DEF OnTrack, after
-----------------------------------------------------------------------------
(* Induction on the numbers up to n. *)
LEMMA IntervalInduction ==
  ASSUME NEW n \in Nat, NEW T, 0 \in T, \A i \in 0..(n - 1) : i \in T => i + 1 \in T
  PROVE  0..n \subseteq T
<1> DEFINE Missing == (0..n) \ T
<1>1. SUFFICES ASSUME Missing # {}
               PROVE  FALSE
  OBVIOUS
<1>2. PICK x \in Missing : \A y \in Missing : ~(y < x)
  <2> DEFINE R == {ss \in Nat \X Nat : ss[1] < ss[2]}
  <2>1. IsWellFoundedOn(R, Nat)
    BY NatLessThanWellFounded DEF OpToRel
  <2>2. Missing \subseteq Nat
    OBVIOUS
  <2>3. PICK x \in Missing : \A y \in Missing : ~(<<y, x>> \in R)
    <3> HIDE DEF R, Missing
    <3>1. QED
      BY <1>1, <2>1, <2>2, WFMin
  <2>4. QED
    BY <2>2, <2>3
<1>3. x - 1 \in 0..(n - 1) /\ x - 1 \in 0..n /\ x - 1 < x /\ x = (x - 1) + 1
  BY <1>2
<1>4. x - 1 \in T
  BY <1>2, <1>3
<1>5. QED
  BY <1>2, <1>3, <1>4

(* g holds the loop after each of the first n messages. *)
Runs(g, first, n) ==
  g = [i \in 0..n |-> IF i = 0 THEN first ELSE SyncMessage(g[i - 1], log[i])]

(* There is such a function: by induction on the number of messages. *)
LEMMA RunExists ==
  ASSUME NEW n \in Nat, NEW first
  PROVE  \E g : Runs(g, first, n)
<1> DEFINE Solved == {k \in 0..n : \E g : Runs(g, first, k)}
<1>1. 0 \in Solved
  <2>1. Runs([i \in 0..0 |-> first], first, 0)
    BY DEF Runs
  <2>2. QED
    BY <2>1
<1>2. ASSUME NEW k \in 0..(n - 1), k \in Solved
      PROVE  k + 1 \in Solved
  <2>1. PICK g : Runs(g, first, k)
    BY <1>2
  <2> DEFINE h == [i \in 0..(k + 1) |-> IF i = k + 1 THEN SyncMessage(g[k], log[k + 1]) ELSE g[i]]
  <2>2. ASSUME NEW i \in 0..(k + 1)
        PROVE  h[i] = IF i = 0 THEN first ELSE SyncMessage(h[i - 1], log[i])
    <3>1. CASE i = k + 1
      <4>1. i # 0 /\ i - 1 = k /\ k \in 0..(k + 1) /\ k # k + 1
        BY <3>1
      <4>2. h[k] = g[k] /\ h[i] = SyncMessage(g[k], log[k + 1])
        BY <3>1, <4>1
      <4> HIDE DEF h
      <4>3. QED
        BY <3>1, <4>1, <4>2
    <3>2. CASE i # k + 1
      <4>1. i \in 0..k /\ h[i] = g[i]
        BY <3>2
      <4>2. g[i] = IF i = 0 THEN first ELSE SyncMessage(g[i - 1], log[i])
        BY <2>1, <4>1 DEF Runs
      <4>3. i # 0 => h[i - 1] = g[i - 1]
        BY <4>1
      <4> HIDE DEF h
      <4>4. QED
        BY <4>1, <4>2, <4>3
    <3>3. QED
      BY <3>1, <3>2
  <2>3. h = [i \in 0..(k + 1) |-> h[i]]
    OBVIOUS
  <2> HIDE DEF h
  <2>4. Runs(h, first, k + 1)
    BY <2>2, <2>3 DEF Runs
  <2>5. QED
    BY <2>4
<1>3. n \in 0..n
  OBVIOUS
<1>4. n \in Solved
  <2> HIDE DEF Solved
  <2>1. QED
    BY <1>1, <1>2, <1>3, IntervalInduction
<1>5. QED
  BY <1>4

LEMMA SyncRunFacts ==
  ASSUME Len(log) \in Nat, NEW max_events
  PROVE  Runs(SyncRun(max_events),
              [engine |-> engine, left |-> max_events, running |-> TRUE, delivered |-> Nothing],
              Len(log))
<1> DEFINE first == [engine |-> engine, left |-> max_events, running |-> TRUE,
                     delivered |-> Nothing]
<1>1. SyncRun(max_events) = CHOOSE g : Runs(g, first, Len(log))
  BY DEF SyncRun, Runs
<1> HIDE DEF first
<1>2. \E g : Runs(g, first, Len(log))
  BY RunExists
<1>3. QED
  BY <1>1, <1>2 DEF first

(* A replay stays on track from the first message to the last. *)
LEMMA RunOnTrack ==
  ASSUME LogOrdered, IsEngine(engine), Remembered(engine),
         NEW p \in 0..Len(log), Replayed(engine, p), NEW max_events, NEW i \in 0..Len(log)
  PROVE  OnTrack(engine, SyncRun(max_events)[i], i)
<1> DEFINE first == [engine |-> engine, left |-> max_events, running |-> TRUE,
                     delivered |-> Nothing]
           run == SyncRun(max_events)
           Good == {k \in 0..Len(log) : OnTrack(engine, run[k], k)}
<1>1. Len(log) \in Nat
  BY DEF LogOrdered
<1>2. /\ first.engine = engine /\ first.delivered = Nothing
      /\ first = [engine |-> first.engine, left |-> first.left, running |-> first.running,
                  delivered |-> first.delivered]
  OBVIOUS
<1> HIDE DEF first
<1>3. Runs(run, first, Len(log))
  BY <1>1, SyncRunFacts DEF first
<1> HIDE DEF run
<1>4. /\ run[0] = first
      /\ \A k \in 0..(Len(log) - 1) : run[k + 1] = SyncMessage(run[k], log[k + 1])
  <2>1. ASSUME NEW k \in 0..Len(log)
        PROVE  run[k] = IF k = 0 THEN first ELSE SyncMessage(run[k - 1], log[k])
    BY <1>3 DEF Runs
  <2>2. 0 \in 0..Len(log)
    BY <1>1
  <2>3. ASSUME NEW k \in 0..(Len(log) - 1)
        PROVE  run[k + 1] = SyncMessage(run[k], log[k + 1])
    <3>1. k + 1 \in 0..Len(log) /\ k + 1 # 0 /\ (k + 1) - 1 = k
      BY <1>1
    <3>2. QED
      BY <2>1, <3>1
  <2>4. QED
    BY <2>1, <2>2, <2>3
<1>5. 0 \in Good
  <2>1. IsLoop(first)
    BY <1>2 DEF IsLoop, Nothing
  <2>2. Delivery(first, 0)
    BY <1>2 DEF Delivery, Nothing
  <2>3. \A o \in Orders : engine.shares[o] <= engine.shares[o]
    BY DEF IsEngine
  <2>4. Reached(engine, first, 0)
    BY <1>2, <2>3 DEF Reached
  <2>5. QED
    BY <1>1, <1>4, <2>1, <2>2, <2>4 DEF OnTrack
<1>6. ASSUME NEW k \in 0..(Len(log) - 1), k \in Good
      PROVE  k + 1 \in Good
  <2>1. OnTrack(engine, SyncMessage(run[k], log[k + 1]), k + 1)
    BY <1>6, MessageOnTrack
  <2>2. k + 1 \in 0..Len(log)
    BY <1>1
  <2>3. QED
    BY <1>4, <2>1, <2>2
<1>7. i \in Good
  <2> HIDE DEF Good
  <2>1. QED
    BY <1>1, <1>5, <1>6, IntervalInduction
<1>8. QED
  BY <1>7 DEF run

(* What a sync leaves behind, whether it ends well or with a failed booking. *)
LEMMA SyncKeepsReplayed ==
  ASSUME LogOrdered, IsEngine(engine), Remembered(engine),
         NEW p \in 0..Len(log), Replayed(engine, p), NEW max_events,
         NEW t \in {SyncRun(max_events)[Len(log)].engine} \cup FailedSyncs(SyncRun(max_events))
  PROVE  /\ IsEngine(t) /\ Remembered(t)
         /\ \E q \in 0..Len(log) : Replayed(t, q)
         /\ \A o \in Orders : engine.shares[o] <= t.shares[o]
<1> DEFINE run == SyncRun(max_events)
<1>1. Len(log) \in Nat
  BY DEF LogOrdered
<1>2. \A i \in 0..Len(log) : OnTrack(engine, run[i], i)
  BY RunOnTrack
<1> HIDE DEF run
<1>3. CASE t = run[Len(log)].engine
  <2>1. OnTrack(engine, run[Len(log)], Len(log))
    BY <1>1, <1>2
  <2>2. QED
    BY <1>3, <2>1 DEF OnTrack, Reached, IsLoop
<1>4. CASE t \in FailedSyncs(run)
  <2>1. PICK i \in DOMAIN log :
          LET updated == SyncEvent(run[i - 1], UpdateIn(log[i]))
          IN  \E f \in FillsIn(run[i - 1], log[i]) :
                Reaches(updated, f) /\ t = FailEvent(updated, f)
    BY <1>4 DEF FailedSyncs
  <2> DEFINE k == i - 1
  <2>2. i \in 1..Len(log) /\ k \in 0..(Len(log) - 1) /\ k \in 0..Len(log) /\ i = k + 1
    BY <1>1 DEF LogOrdered
  <2> DEFINE u == SyncEvent(run[k], UpdateIn(log[i]))
  <2>3. PICK f \in FillsIn(run[k], log[i]) : Reaches(u, f) /\ t = FailEvent(u, f)
    BY <2>1
  <2> HIDE DEF k
  <2>4. OnTrack(engine, run[k], k)
    BY <1>2, <2>2
  <2>5. OnTrack(engine, u, k) /\ u.delivered = run[k].delivered
    BY <2>2, <2>4, UpdateOnTrack
  <2> HIDE DEF u
  <2>6. f \in FillsIn(u, log[k + 1])
    BY <2>2, <2>3, <2>5 DEF FillsIn
  <2>7. IsLoop(u) /\ Delivery(u, k) /\ Reached(engine, u, k) /\ u.running /\ IsEngine(u.engine)
    BY <2>3, <2>5 DEF OnTrack, Reaches, IsLoop
  <2>8. IsFill(f)
    BY <2>2, <2>6, <2>7, NextFillFacts
  <2>9. Takes(u.engine, t, f) /\ t.shares = u.engine.shares
    BY <2>3, <2>7, <2>8, FailureTakes
  <2>10. PICK r \in 0..Len(log) : Replayed(u.engine, r) /\ k <= r
    BY <2>7 DEF Reached
  <2>11. r \in k..Len(log)
    BY <1>1, <2>2, <2>10
  <2>12. PICK q \in (k + 1)..Len(log) : Replayed(t, q)
    BY <2>2, <2>6, <2>7, <2>9, <2>10, <2>11, FillAdvances
  <2>13. q \in 0..Len(log)
    BY <1>1, <2>2
  <2>14. Remembered(t)
    BY <2>7, <2>8, <2>9, TakesKeeps DEF Reached
  <2>15. \A o \in Orders : engine.shares[o] <= t.shares[o]
    BY <2>7, <2>9 DEF Reached
  <2>16. IsEngine(t)
    BY <2>9 DEF Takes
  <2>17. QED
    BY <2>12, <2>13, <2>14, <2>15, <2>16
<1>5. QED
  BY <1>3, <1>4 DEF run
-----------------------------------------------------------------------------
(***************************************************************************)
(* The inductive invariant.                                                 *)
(***************************************************************************)
BrokerInv ==
  /\ clock \in Nat
  /\ broker \in [Orders -> BrokerOrder]
  /\ \A o \in Orders :
       /\ broker[o].status = "none" => broker[o].filled = 0
       /\ broker[o].updated_at <= clock
       /\ FilledAt(broker[o]) <= broker[o].updated_at

LogInv ==
  /\ LogOrdered
  /\ \A j \in 1..Len(log) : log[j].payload.filled <= broker[log[j].order].filled

EngineInv ==
  /\ IsEngine(engine)
  /\ seen \in [Orders -> Nat]
  /\ snapshots # NoPoll => \A event \in snapshots : IsUpdate(event)

(* An engine that only polls: everything it counts the adapter has seen. *)
PollInv ==
  channel = "poll" =>
    /\ \A o \in Orders :
         /\ seen[o] <= broker[o].filled
         /\ engine.shares[o] <= seen[o]
         /\ Tracked(o) => engine.orders[o].filled_quantity <= seen[o]
    /\ snapshots # NoPoll =>
         \A event \in snapshots :
           /\ event.snapshot.filled_quantity <= broker[event.order].filled
           /\ FillsArePolled(event.order)

(* An engine that only hears of trade updates: it has been through the first few of
   them. *)
StreamInv ==
  channel = "stream" =>
    /\ snapshots = NoPoll
    /\ Remembered(engine)
    /\ \E p \in 0..Len(log) : Replayed(engine, p)

Inv == BrokerInv /\ LogInv /\ EngineInv /\ PollInv /\ StreamInv

-----------------------------------------------------------------------------
(* The broker moves one order forward and reports it. *)
Grows(o) ==
  /\ clock' \in Nat /\ clock <= clock'
  /\ broker' \in [Orders -> BrokerOrder]
  /\ broker'[o].updated_at <= clock'
  /\ FilledAt(broker'[o]) <= broker'[o].updated_at
  /\ broker'[o].status # "none"
  /\ broker[o].filled <= broker'[o].filled
  /\ \A p \in Orders : p # o => broker'[p] = broker[p]

LEMMA BrokerFacts ==
  ASSUME BrokerInv, NEW o \in Orders
  PROVE  /\ broker[o] \in BrokerOrder
         /\ broker[o].filled \in Nat /\ broker[o].updated_at \in Nat
         /\ broker[o].quantity \in Nat /\ broker[o].filled_at \in Nat
         /\ clock \in Nat /\ broker[o].filled_at <= clock
<1>1. /\ broker[o] \in BrokerOrder /\ clock \in Nat
      /\ broker[o].updated_at <= clock /\ FilledAt(broker[o]) <= broker[o].updated_at
  BY DEF BrokerInv
<1>2. /\ broker[o].filled \in Nat /\ broker[o].updated_at \in Nat
      /\ broker[o].quantity \in Nat /\ broker[o].filled_at \in Nat
  BY <1>1 DEF BrokerOrder
<1>3. FilledAt(broker[o]) \in Nat
      /\ (broker[o].filled_at = 0 \/ FilledAt(broker[o]) = broker[o].filled_at)
  BY <1>1, FilledAtType
<1>4. QED
  BY <1>1, <1>2, <1>3

LEMMA SetsGrows ==
  ASSUME BrokerInv, NEW o \in Orders, NEW changed \in BrokerOrder, BrokerSets(o, changed),
         changed.status # "none", broker[o].filled <= changed.filled,
         changed.filled_at <= clock
  PROVE  Grows(o) /\ broker'[o].filled = changed.filled /\ broker'[o].older = changed.older
<1>1. clock \in Nat /\ clock' \in {clock, clock + 1}
  BY DEF BrokerInv, BrokerSets
<1>2. clock' \in Nat /\ clock <= clock'
  BY <1>1
<1> DEFINE stamped == [changed EXCEPT !.updated_at = clock']
<1>3. /\ stamped \in BrokerOrder /\ stamped.status = changed.status
      /\ stamped.filled = changed.filled /\ stamped.older = changed.older
      /\ stamped.updated_at = clock' /\ stamped.filled_at = changed.filled_at
      /\ changed.filled_at \in Nat
  BY <1>2 DEF BrokerOrder
<1>4. broker' = [broker EXCEPT ![o] = stamped] /\ broker \in [Orders -> BrokerOrder]
  BY DEF BrokerSets, BrokerInv
<1> HIDE DEF stamped
<1>5. /\ broker' \in [Orders -> BrokerOrder] /\ broker'[o] = stamped
      /\ \A p \in Orders : p # o => broker'[p] = broker[p]
  BY <1>3, <1>4
<1>6. stamped.updated_at <= clock' /\ FilledAt(stamped) <= stamped.updated_at
  BY <1>1, <1>2, <1>3 DEF FilledAt
<1>7. QED
  BY <1>2, <1>3, <1>5, <1>6 DEF Grows

LEMMA AcceptGrows ==
  ASSUME BrokerInv, NEW o \in Orders, NEW quantity \in Quantities, BrokerAccepts(o, quantity)
  PROVE  Grows(o) /\ broker'[o].filled = broker[o].filled /\ broker[o].filled = 0
<1>0. PICK older \in Nat :
        BrokerSets(o, [broker[o] EXCEPT !.status = "accepted", !.quantity = quantity,
                                        !.older = older])
  BY BrokerAssumption DEF BrokerAccepts
<1> DEFINE changed == [broker[o] EXCEPT !.status = "accepted", !.quantity = quantity,
                                        !.older = older]
<1>1. /\ broker[o] \in BrokerOrder /\ quantity \in Nat /\ broker[o].filled \in Nat
      /\ broker[o].filled_at <= clock
  BY BrokerFacts, QuantityAssumption
<1>2. /\ changed \in BrokerOrder /\ changed.filled = broker[o].filled
      /\ changed.status # "none" /\ changed.filled_at = broker[o].filled_at
  BY <1>1 DEF BrokerOrder, BrokerStatus, Working
<1>3. BrokerSets(o, changed) /\ broker[o].status = "none"
  BY <1>0 DEF BrokerAccepts
<1> HIDE DEF changed
<1>4. Grows(o) /\ broker'[o].filled = broker[o].filled
  BY <1>1, <1>2, <1>3, SetsGrows
<1>5. broker[o].filled = 0
  BY <1>3 DEF BrokerInv
<1>6. QED
  BY <1>4, <1>5

(* What an execution writes into the broker's order. *)
Executed(b, filled, status, filled_at) ==
  [b EXCEPT !.status = status, !.filled = filled, !.filled_at = filled_at]

Executes(o, filled, status, filled_at) ==
  BrokerSets(o, Executed(broker[o], filled, status, filled_at))

LEMMA ExecutedType ==
  ASSUME NEW b, NEW filled, NEW status, NEW filled_at,
         b \in BrokerOrder, filled \in Nat, status \in BrokerStatus, filled_at \in Nat
  PROVE  /\ Executed(b, filled, status, filled_at) \in BrokerOrder
         /\ Executed(b, filled, status, filled_at).status = status
         /\ Executed(b, filled, status, filled_at).filled = filled
         /\ Executed(b, filled, status, filled_at).filled_at = filled_at
         /\ Executed(b, filled, status, filled_at).older = b.older
<1> DEFINE c == [b EXCEPT !.status = status, !.filled = filled]
<1>1. c \in BrokerOrder /\ c.status = status /\ c.filled = filled /\ c.older = b.older
  BY DEF BrokerOrder
<1>2. Executed(b, filled, status, filled_at) = [c EXCEPT !.filled_at = filled_at]
  BY DEF Executed
<1> HIDE DEF c
<1>3. QED
  BY <1>1, <1>2 DEF BrokerOrder

LEMMA FillsSets ==
  ASSUME NEW o \in Orders, NEW n, BrokerFills(o, n)
  PROVE  \E status \in {"filled", "partially_filled", "pending_cancel"},
            filled_at \in {0, clock} :
           Executes(o, broker[o].filled + n, status, filled_at)
<1>1. PICK filled_at \in {0, clock} :
        \/ BrokerSets(o, [broker[o] EXCEPT !.status = "filled",
                                           !.filled = broker[o].filled + n,
                                           !.filled_at = filled_at])
        \/ BrokerSets(o, [broker[o] EXCEPT
              !.status = IF broker[o].status = "pending_cancel"
                         THEN "pending_cancel" ELSE "partially_filled",
              !.filled = broker[o].filled + n,
              !.filled_at = filled_at])
  BY DEF BrokerFills
<1>2. QED
  BY <1>1 DEF Executes, Executed

LEMMA ActsGrow ==
  ASSUME BrokerInv, NEW o \in Orders, BrokerActs(o)
  PROVE  Grows(o) /\ broker'[o].older = broker[o].older
<1>1. /\ broker[o] \in BrokerOrder /\ broker[o].filled \in Nat /\ broker[o].quantity \in Nat
      /\ clock \in Nat /\ broker[o].filled_at <= clock
  BY BrokerFacts
<1>2. CASE BrokerAcknowledges(o)
  <2> DEFINE changed == [broker[o] EXCEPT !.status = "new"]
  <2>1. /\ changed \in BrokerOrder /\ changed.filled = broker[o].filled
        /\ changed.status # "none" /\ changed.filled_at = broker[o].filled_at
        /\ changed.older = broker[o].older
    BY <1>1 DEF BrokerOrder, BrokerStatus, Working
  <2>2. BrokerSets(o, changed)
    BY <1>2 DEF BrokerAcknowledges
  <2> HIDE DEF changed
  <2>3. QED
    BY <1>1, <2>1, <2>2, SetsGrows
<1>3. ASSUME NEW n \in 1..Fillable(o), BrokerFills(o, n)
      PROVE  Grows(o) /\ broker'[o].older = broker[o].older
  <2> DEFINE filled == broker[o].filled + n
  <2>1. Fillable(o) \in Nat
    BY <1>1, BrokerAssumption DEF Fillable
  <2>2. filled \in Nat /\ broker[o].filled <= filled
    BY <1>1, <2>1
  <2>3. PICK status \in {"filled", "partially_filled", "pending_cancel"},
             filled_at \in {0, clock} : Executes(o, filled, status, filled_at)
    BY <1>3, FillsSets, Zenon
  <2> DEFINE changed == Executed(broker[o], filled, status, filled_at)
  <2>4. status \in BrokerStatus /\ status # "none" /\ filled_at \in Nat /\ filled_at <= clock
    BY <1>1, <2>3 DEF BrokerStatus, Working, Closed
  <2> HIDE DEF filled
  <2>5. /\ changed \in BrokerOrder /\ changed.filled = filled /\ changed.status = status
        /\ changed.filled_at = filled_at /\ changed.older = broker[o].older
    BY <1>1, <2>2, <2>4, ExecutedType
  <2>6. BrokerSets(o, changed)
    BY <2>3 DEF Executes
  <2> HIDE DEF changed
  <2>7. QED
    BY <2>2, <2>4, <2>5, <2>6, SetsGrows
<1>4. ASSUME NEW status \in Closed \ {"filled"}, BrokerEnds(o, status)
      PROVE  Grows(o) /\ broker'[o].older = broker[o].older
  <2> DEFINE changed == [broker[o] EXCEPT !.status = status]
  <2>1. /\ changed \in BrokerOrder /\ changed.filled = broker[o].filled
        /\ changed.status # "none" /\ changed.filled_at = broker[o].filled_at
        /\ changed.older = broker[o].older
    BY <1>1 DEF BrokerOrder, BrokerStatus, Closed
  <2>2. BrokerSets(o, changed)
    BY <1>4 DEF BrokerEnds
  <2> HIDE DEF changed
  <2>3. QED
    BY <1>1, <2>1, <2>2, SetsGrows
<1>5. QED
  BY <1>2, <1>3, <1>4 DEF BrokerActs

LEMMA GrowsBroker ==
  ASSUME BrokerInv, NEW o \in Orders, Grows(o)
  PROVE  /\ BrokerInv'
         /\ \A p \in Orders : broker[p].filled <= broker'[p].filled
         /\ \A p \in Orders : broker'[p].filled \in Nat
<1>1. ASSUME NEW p \in Orders
      PROVE  /\ broker[p].filled <= broker'[p].filled
             /\ broker'[p].filled \in Nat
             /\ broker'[p].status = "none" => broker'[p].filled = 0
             /\ broker'[p].updated_at <= clock'
             /\ FilledAt(broker'[p]) <= broker'[p].updated_at
  <2>1. broker[p].filled \in Nat /\ broker[p].updated_at \in Nat /\ clock \in Nat
    BY BrokerFacts
  <2>2. broker'[p] \in BrokerOrder
    BY DEF Grows
  <2>3. broker'[p].filled \in Nat
    BY <2>2 DEF BrokerOrder
  <2>4. CASE p = o
    BY <2>3, <2>4 DEF Grows
  <2>5. CASE p # o
    BY <2>1, <2>5 DEF Grows, BrokerInv
  <2>6. QED
    BY <2>3, <2>4, <2>5
<1>2. QED
  BY <1>1 DEF Grows, BrokerInv

(* The log grows by one message, which tells of no fewer shares. *)
LEMMA ReportedFacts ==
  ASSUME BrokerInv, LogInv, NEW o \in Orders, Grows(o), Reported(o)
  PROVE  /\ LogInv'
         /\ Len(log) \in Nat /\ Len(log') = Len(log) + 1
         /\ \A j \in 1..Len(log) : log'[j] = log[j]
<1> DEFINE message == [order |-> o, payload |-> broker'[o]]
<1>1. log \in Seq(Message) /\ message \in Message
  BY DEF LogInv, LogOrdered, Message, Grows
<1>2. log' = Append(log, message)
  BY DEF Reported
<1>3. message.order = o /\ message.payload = broker'[o]
  OBVIOUS
<1> HIDE DEF message
<1>4. /\ log' \in Seq(Message) /\ Len(log) \in Nat /\ Len(log') = Len(log) + 1
      /\ \A j \in 1..Len(log) : log'[j] = log[j]
      /\ log'[Len(log) + 1] = message
  BY <1>1, <1>2
<1>5. \A p \in Orders : broker[p].filled <= broker'[p].filled /\ broker'[p].filled \in Nat
  BY GrowsBroker
<1>6. ASSUME NEW j \in 1..Len(log)
      PROVE  /\ log[j].order \in Orders /\ log[j].payload.filled \in Nat
             /\ log[j].payload.filled <= broker'[log[j].order].filled
  <2>1. log[j].order \in Orders /\ log[j].payload.filled \in Nat
    BY MessageFacts DEF LogInv
  <2>2. log[j].payload.filled <= broker[log[j].order].filled
    BY DEF LogInv
  <2>3. broker[log[j].order].filled \in Nat
    BY <2>1, BrokerFacts
  <2>4. QED
    BY <1>5, <2>1, <2>2, <2>3
<1>7. ASSUME NEW j \in 1..Len(log')
      PROVE  log'[j].payload.filled <= broker'[log'[j].order].filled
  <2>1. CASE j = Len(log) + 1
    BY <1>3, <1>4, <1>5, <2>1
  <2>2. CASE j # Len(log) + 1
    <3>1. j \in 1..Len(log)
      BY <1>4, <2>2
    <3>2. QED
      BY <1>4, <1>6, <3>1
  <2>3. QED
    BY <2>1, <2>2
<1>8. ASSUME NEW j \in 1..Len(log'), NEW k \in 1..Len(log'),
             j < k, log'[j].order = log'[k].order
      PROVE  log'[j].payload.filled <= log'[k].payload.filled
  <2>1. j \in 1..Len(log)
    BY <1>4, <1>8
  <2>2. CASE k = Len(log) + 1
    BY <1>3, <1>4, <1>6, <1>8, <2>1, <2>2
  <2>3. CASE k # Len(log) + 1
    <3>1. k \in 1..Len(log)
      BY <1>4, <2>3
    <3>2. QED
      BY <1>4, <1>8, <2>1, <3>1 DEF LogInv, LogOrdered
  <2>4. QED
    BY <2>2, <2>3
<1>9. ASSUME NEW j \in 1..Len(log')
      PROVE  FilledAt(log'[j].payload) <= log'[j].payload.updated_at
  <2>1. CASE j = Len(log) + 1
    BY <1>3, <1>4, <2>1 DEF Grows
  <2>2. CASE j # Len(log) + 1
    <3>1. j \in 1..Len(log)
      BY <1>4, <2>2
    <3>2. QED
      BY <1>4, <3>1 DEF LogInv, LogOrdered
  <2>3. QED
    BY <2>1, <2>2
<1>10. QED
  BY <1>4, <1>7, <1>8, <1>9 DEF LogInv, LogOrdered, FilledAt

LEMMA StillLog ==
  ASSUME BrokerInv, LogInv, UNCHANGED <<brokerVars, log>>
  PROVE  BrokerInv' /\ LogInv'
BY DEF BrokerInv, LogInv, LogOrdered, brokerVars, FilledAt

(* What a longer log and an answer without shares leave of a replay. *)
LEMMA ReplayedLater ==
  ASSUME Len(log) \in Nat, Len(log') \in Nat, Len(log) <= Len(log'),
         \A j \in 1..Len(log) : log'[j] = log[j],
         NEW p \in 0..Len(log), Replayed(engine, p),
         engine'.shares = engine.shares,
         engine'.processed_fill_ids = engine.processed_fill_ids,
         engine'.processed_broker_event_ids = engine.processed_broker_event_ids,
         \A o \in Orders : \/ engine'.orders[o] = engine.orders[o]
                           \/ engine'.orders[o].filled_quantity = 0
  PROVE  Replayed(engine, p)'
<1>1. \A j \in 1..p : j \in 1..Len(log) /\ log'[j] = log[j]
  OBVIOUS
<1>2. \A o \in Orders : (Within(engine.shares[o], o, p))'
  BY <1>1 DEF Replayed, Within
<1>3. ASSUME NEW o \in Orders, engine'.orders[o] # NoOrder
      PROVE  (Within(engine.orders[o].filled_quantity, o, p) \/ Ahead(engine.orders[o], o, p))'
  <2>1. CASE engine'.orders[o] = engine.orders[o]
    <3>1. Within(engine.orders[o].filled_quantity, o, p) \/ Ahead(engine.orders[o], o, p)
      BY <1>3, <2>1 DEF Replayed
    <3>2. CASE Within(engine.orders[o].filled_quantity, o, p)
      BY <1>1, <2>1, <3>2 DEF Within
    <3>3. CASE Ahead(engine.orders[o], o, p)
      <4>1. p + 1 \in 1..Len(log) /\ p + 1 <= Len(log')
        BY <3>3 DEF Ahead
      <4>2. log'[p + 1] = log[p + 1]
        BY <4>1
      <4>3. QED
        BY <2>1, <3>3, <4>1, <4>2 DEF Ahead
    <3>4. QED
      BY <3>1, <3>2, <3>3
  <2>2. CASE engine'.orders[o].filled_quantity = 0
    BY <2>2 DEF Within
  <2>3. QED
    BY <2>1, <2>2
<1>4. QED
  BY <1>1, <1>2, <1>3 DEF Replayed
-----------------------------------------------------------------------------
(* What a poll makes of the engine. *)
LEMMA PolledFillFacts ==
  ASSUME BrokerInv, seen \in [Orders -> Nat], NEW f \in PolledFills
  PROVE  /\ IsFill(f) /\ f.order \in Orders
         /\ seen[f.order] < broker[f.order].filled
         /\ f.quantity = broker[f.order].filled - seen[f.order]
         /\ FillsArePolled(f.order)
<1>1. PICK o \in Orders : /\ f \in {FillOf(d) : d \in FillDelta(o, broker[o], seen[o])}
                          /\ FillsArePolled(o)
  BY DEF PolledFills
<1>2. broker[o] \in BrokerOrder /\ seen[o] \in Nat
  BY BrokerFacts
<1>3. QED
  BY <1>1, <1>2, FillFacts

LEMMA PolledOrderFacts ==
  ASSUME BrokerInv, NEW event \in PolledOrders
  PROVE  /\ IsUpdate(event) /\ event.order \in Orders
         /\ event.snapshot.filled_quantity = broker[event.order].filled
         /\ FillsArePolled(event.order)
<1>1. PICK o \in Orders : event = UpdateEventOf(o, broker[o]) /\ OrderIsPolled(o)
  BY DEF PolledOrders
<1>2. broker[o] \in BrokerOrder /\ broker[o].older \in Nat
  BY BrokerFacts DEF BrokerOrder
<1>3. FillsArePolled(o)
  BY <1>1, <1>2 DEF OrderIsPolled, FillsArePolled, Listed, FillsRead, ListLimit, FillLimit
<1>4. QED
  BY <1>1, <1>2, <1>3, UpdateFacts

(* The engine that has heard of all a poll read, before it books. *)
TrackedPoll == TrackAll(TrackAll(engine, PolledFills), snapshots)

PolledOrder(o, after) ==
  \/ after = engine.orders[o]
  \/ \E event \in snapshots : event.order = o /\ after = event.snapshot
  \/ /\ engine.orders[o] # NoOrder
     /\ FillsArePolled(o)
     /\ seen[o] < broker[o].filled
     /\ after.filled_quantity
          = engine.orders[o].filled_quantity + (broker[o].filled - seen[o])

LEMMA TrackedPollFacts ==
  ASSUME BrokerInv, EngineInv, snapshots # NoPoll
  PROVE  /\ IsEngine(TrackedPoll) /\ SameBooks(engine, TrackedPoll)
         /\ \A o \in Orders : PolledOrder(o, TrackedPoll.orders[o])
<1> DEFINE told == TrackAll(engine, PolledFills)
           t == TrackAll(told, snapshots)
<1>1. IsEngine(engine) /\ seen \in [Orders -> Nat] /\ \A event \in snapshots : IsUpdate(event)
  BY DEF EngineInv
<1>2. \A f \in PolledFills : IsFill(f)
  BY <1>1, PolledFillFacts
<1>3. /\ IsEngine(told) /\ SameBooks(engine, told)
      /\ \A o \in Orders :
           \/ told.orders[o] = engine.orders[o]
           \/ \E f \in PolledFills :
                f.order = o /\ OrderAfter(engine.orders[o], told.orders[o], f)
  BY <1>1, <1>2, TrackAllFacts
<1> HIDE DEF told
<1>4. /\ IsEngine(t) /\ SameBooks(told, t)
      /\ \A o \in Orders :
           \/ t.orders[o] = told.orders[o]
           \/ \E event \in snapshots :
                event.order = o /\ OrderAfter(told.orders[o], t.orders[o], event)
  BY <1>1, <1>3, TrackAllFacts
<1> HIDE DEF t
<1>5. ASSUME NEW o \in Orders
      PROVE  PolledOrder(o, told.orders[o])
  <2>1. CASE told.orders[o] = engine.orders[o]
    BY <2>1 DEF PolledOrder
  <2>2. CASE told.orders[o] # engine.orders[o]
    <3>1. PICK f \in PolledFills :
            f.order = o /\ OrderAfter(engine.orders[o], told.orders[o], f)
      BY <1>3, <2>2
    <3>2. /\ IsFill(f) /\ seen[o] < broker[o].filled /\ FillsArePolled(o)
          /\ f.quantity = broker[o].filled - seen[o]
      BY <1>1, <3>1, PolledFillFacts
    <3>3. TakesFill(engine.orders[o], told.orders[o], f)
      BY <2>2, <3>1, <3>2 DEF OrderAfter, BecomesSnapshot, IsFill
    <3>4. QED
      BY <3>2, <3>3 DEF TakesFill, PolledOrder
  <2>3. QED
    BY <2>1, <2>2
<1>6. ASSUME NEW o \in Orders
      PROVE  PolledOrder(o, t.orders[o])
  <2>1. CASE t.orders[o] = told.orders[o]
    BY <1>5, <2>1
  <2>2. CASE t.orders[o] # told.orders[o]
    <3>1. PICK event \in snapshots :
            event.order = o /\ OrderAfter(told.orders[o], t.orders[o], event)
      BY <1>4, <2>2
    <3>2. t.orders[o] = event.snapshot
      BY <1>1, <2>2, <3>1 DEF OrderAfter, BecomesSnapshot, TakesFill, IsUpdate
    <3>3. QED
      BY <3>1, <3>2 DEF PolledOrder
  <2>3. QED
    BY <2>1, <2>2
<1>7. SameBooks(engine, t)
  BY <1>3, <1>4 DEF SameBooks
<1>8. QED
  BY <1>4, <1>6, <1>7 DEF TrackedPoll, t, told

PolledShares(o, shares) ==
  \/ shares = engine.shares[o]
  \/ /\ FillsArePolled(o)
     /\ seen[o] < broker[o].filled
     /\ shares = engine.shares[o] + (broker[o].filled - seen[o])

LEMMA PollFacts ==
  ASSUME BrokerInv, EngineInv, FinishPoll
  PROVE  /\ IsEngine(engine')
         /\ engine'.processed_event_ids = engine.processed_event_ids
         /\ engine.trade_ledger \subseteq engine'.trade_ledger
         /\ ~BookingFails /\ engine.processed_fill_ids \subseteq engine.trade_ledger
              => engine'.processed_fill_ids \subseteq engine'.trade_ledger
         /\ \A o \in Orders : /\ PolledOrder(o, engine'.orders[o])
                              /\ PolledShares(o, engine'.shares[o])
<1> DEFINE tracked == TrackedPoll
           fills == PolledFills
           t == engine'
<1>1. snapshots # NoPoll /\ t \in {BookAll(tracked, fills)} \cup FailedBookings(tracked, fills)
  BY DEF FinishPoll, PollReturns, EventsFromPoll, TrackedPoll
<1>2. /\ IsEngine(tracked) /\ SameBooks(engine, tracked)
      /\ \A o \in Orders : PolledOrder(o, tracked.orders[o])
  BY <1>1, TrackedPollFacts
<1> HIDE DEF tracked
<1>3. seen \in [Orders -> Nat] /\ \A f \in fills : IsFill(f)
  BY PolledFillFacts DEF EngineInv
<1>4. ASSUME NEW booked \in SUBSET fills, NEW after, after = BookAll(tracked, booked)
      PROVE  /\ IsEngine(after) /\ after.orders = tracked.orders
             /\ after.processed_event_ids = engine.processed_event_ids
             /\ engine.trade_ledger \subseteq after.trade_ledger
             /\ engine.processed_fill_ids \subseteq engine.trade_ledger
                  => after.processed_fill_ids \subseteq after.trade_ledger
             /\ \A o \in Orders : PolledShares(o, after.shares[o])
  <2> DEFINE new == {EventId(fill) : fill \in {f \in booked : ~AlreadyApplied(tracked, f)}}
  <2>1. \A f \in booked : IsFill(f)
    BY <1>3
  <2>2. /\ IsEngine(after) /\ SameTracking(tracked, after)
        /\ after.processed_fill_ids = tracked.processed_fill_ids \cup new
        /\ after.trade_ledger = tracked.trade_ledger \cup new
        /\ \A o \in Orders :
             \/ after.shares[o] = tracked.shares[o]
             \/ \E fill \in booked :
                  fill.order = o /\ after.shares[o] = tracked.shares[o] + fill.quantity
    BY <1>2, <1>4, <2>1, BookAllFacts
  <2> HIDE DEF new
  <2>3. /\ tracked.shares = engine.shares
        /\ tracked.processed_fill_ids = engine.processed_fill_ids
        /\ tracked.trade_ledger = engine.trade_ledger
        /\ tracked.processed_event_ids = engine.processed_event_ids
    BY <1>2 DEF SameBooks
  <2>4. ASSUME NEW o \in Orders
        PROVE  PolledShares(o, after.shares[o])
    <3>1. CASE after.shares[o] = tracked.shares[o]
      BY <2>3, <3>1 DEF PolledShares
    <3>2. CASE after.shares[o] # tracked.shares[o]
      <4>1. PICK fill \in booked :
              fill.order = o /\ after.shares[o] = tracked.shares[o] + fill.quantity
        BY <2>2, <3>2
      <4>2. /\ seen[o] < broker[o].filled /\ fill.quantity = broker[o].filled - seen[o]
            /\ FillsArePolled(o)
        BY <1>3, <4>1, PolledFillFacts
      <4>3. QED
        BY <2>3, <4>1, <4>2 DEF PolledShares
    <3>3. QED
      BY <3>1, <3>2
  <2>5. QED
    BY <2>2, <2>3, <2>4 DEF SameTracking
<1>5. CASE t = BookAll(tracked, fills)
  BY <1>2, <1>4, <1>5
<1>6. CASE t \in FailedBookings(tracked, fills)
  <2>1. PICK failed \in fills, booked \in SUBSET fills :
          BookingFails /\ t = RecordFillId(BookAll(tracked, booked), failed)
    BY <1>6 DEF FailedBookings, BookedBefore
  <2> DEFINE after == BookAll(tracked, booked)
  <2>2. /\ IsEngine(after) /\ after.orders = tracked.orders
        /\ after.processed_event_ids = engine.processed_event_ids
        /\ engine.trade_ledger \subseteq after.trade_ledger
        /\ \A o \in Orders : PolledShares(o, after.shares[o])
    BY <1>4
  <2> HIDE DEF after
  <2>3. Records(after, t, failed)
    BY <2>1, <2>2, RecordingFacts DEF after
  <2>4. QED
    BY <1>2, <2>1, <2>2, <2>3 DEF Records, SameTracking
<1>7. QED
  BY <1>1, <1>5, <1>6
-----------------------------------------------------------------------------
(* A replay, on whatever channels, remembers only what is booked. *)
Ledgered(e) ==
  /\ e.processed_fill_ids \subseteq e.trade_ledger
  /\ \A id \in e.processed_event_ids : id.kind = "FILL" => id \in e.trade_ledger

LedgeredLoop(loop) == IsLoop(loop) /\ Ledgered(loop.engine)

LEMMA EventLedgered ==
  ASSUME NEW loop, LedgeredLoop(loop), NEW event, IsUpdate(event) \/ IsFill(event)
  PROVE  LedgeredLoop(SyncEvent(loop, event))
<1> DEFINE after == SyncEvent(loop, event)
           e == loop.engine
           t == after.engine
<1>1. IsLoop(loop) /\ Ledgered(e)
  BY DEF LedgeredLoop
<1>2. /\ IsLoop(after)
      /\ \/ t = e
         \/ /\ Handled(e, t, event)
            /\ IsUpdate(event) => HandledUpdate(e, t, event)
            /\ IsFill(event) => HandledFill(e, t, event)
  BY <1>1, SyncEventFacts
<1> HIDE DEF after
<1>3. Ledgered(t)
  <2>1. CASE t = e
    BY <1>1, <2>1
  <2>2. CASE IsUpdate(event) /\ Handled(e, t, event) /\ HandledUpdate(e, t, event)
    <3>1. EventId(event).kind # "FILL"
      BY <2>2 DEF IsUpdate, EventId
    <3>2. QED
      BY <1>1, <2>2, <3>1 DEF Ledgered, Handled, HandledUpdate
  <2>3. CASE IsFill(event) /\ Handled(e, t, event) /\ HandledFill(e, t, event)
    <3>1. EventId(event) \in t.trade_ledger
      BY <1>1, <2>3 DEF Ledgered, Handled, HandledFill
    <3>2. QED
      BY <1>1, <2>3, <3>1 DEF Ledgered, Handled, HandledFill
  <2>4. QED
    BY <1>2, <2>1, <2>2, <2>3
<1>4. QED
  BY <1>2, <1>3 DEF LedgeredLoop, after

LEMMA MessageLedgered ==
  ASSUME NEW loop, LedgeredLoop(loop), NEW message \in Message
  PROVE  LedgeredLoop(SyncMessage(loop, message))
<1> DEFINE u == SyncEvent(loop, UpdateIn(message))
           fills == FillsIn(loop, message)
           fill == CHOOSE f \in fills : TRUE
           l == IF fills = {} THEN u ELSE SyncEvent(u, fill)
           o == message.order
           c == message.payload.filled
<1>1. o \in Orders /\ message.payload \in BrokerOrder /\ c \in Nat
  BY DEF Message, BrokerOrder
<1>2. loop.delivered[o] \in Nat
  BY <1>1 DEF LedgeredLoop, IsLoop
<1>3. LedgeredLoop(u)
  <2>1. IsUpdate(UpdateIn(message))
    BY <1>1, UpdateFacts DEF UpdateIn
  <2>2. QED
    BY <2>1, EventLedgered
<1>4. \A f \in fills : IsFill(f)
  BY <1>1, <1>2, FillFacts DEF FillsIn
<1> HIDE DEF u
<1>5. LedgeredLoop(l)
  <2>1. CASE fills = {}
    BY <1>3, <2>1
  <2>2. CASE fills # {}
    <3>1. fill \in fills
      BY <2>2
    <3> HIDE DEF fill, fills
    <3>2. LedgeredLoop(SyncEvent(u, fill))
      BY <1>3, <1>4, <3>1, EventLedgered
    <3>3. QED
      BY <2>2, <3>2
  <2>3. QED
    BY <2>1, <2>2
<1>6. SyncMessage(loop, message) = Delivers(l, message)
  BY DEF SyncMessage, u
<1> HIDE DEF l, fills, fill
<1>7. IsLoop(l) /\ Ledgered(l.engine) /\ l.delivered[o] \in Nat
  BY <1>1, <1>5 DEF LedgeredLoop, IsLoop
<1> DEFINE more == IF c > l.delivered[o] THEN c ELSE l.delivered[o]
           delivered == [l.delivered EXCEPT ![o] = more]
           after == Delivers(l, message)
<1>8. more \in Nat
  BY <1>1, <1>7
<1>9. after = [l EXCEPT !.delivered = delivered]
  BY <1>1, <1>7 DEF Delivers, IsLoop
<1> HIDE DEF after, more
<1>10. delivered \in [Orders -> Nat]
  BY <1>1, <1>7, <1>8 DEF IsLoop
<1> HIDE DEF delivered
<1>11. after = [engine |-> l.engine, left |-> l.left, running |-> l.running,
                delivered |-> delivered]
  BY <1>7, <1>9 DEF IsLoop
<1>12. LedgeredLoop(after)
  BY <1>7, <1>10, <1>11 DEF LedgeredLoop, IsLoop
<1>13. QED
  BY <1>6, <1>12 DEF after

LEMMA SyncLedgered ==
  ASSUME log \in Seq(Message), IsEngine(engine), Ledgered(engine), NEW max_events
  PROVE  LedgeredLoop(SyncRun(max_events)[Len(log)])
<1> DEFINE first == [engine |-> engine, left |-> max_events, running |-> TRUE,
                     delivered |-> Nothing]
           run == SyncRun(max_events)
           Good == {k \in 0..Len(log) : LedgeredLoop(run[k])}
<1>1. Len(log) \in Nat /\ \A k \in 0..(Len(log) - 1) : log[k + 1] \in Message
  OBVIOUS
<1>2. LedgeredLoop(first)
  BY DEF LedgeredLoop, IsLoop, Nothing
<1> HIDE DEF first
<1>3. Runs(run, first, Len(log))
  BY <1>1, SyncRunFacts DEF first
<1> HIDE DEF run
<1>4. \A k \in 0..Len(log) : run[k] = IF k = 0 THEN first ELSE SyncMessage(run[k - 1], log[k])
  BY <1>3 DEF Runs
<1>5. 0 \in Good
  BY <1>1, <1>2, <1>4
<1>6. ASSUME NEW k \in 0..(Len(log) - 1), k \in Good
      PROVE  k + 1 \in Good
  <2>1. k + 1 \in 0..Len(log) /\ k + 1 # 0 /\ (k + 1) - 1 = k
    BY <1>1
  <2>2. run[k + 1] = SyncMessage(run[k], log[k + 1])
    BY <1>4, <2>1
  <2>3. LedgeredLoop(SyncMessage(run[k], log[k + 1]))
    BY <1>1, <1>6, MessageLedgered
  <2>4. QED
    BY <2>1, <2>2, <2>3
<1>7. Len(log) \in 0..Len(log)
  BY <1>1
<1>8. Len(log) \in Good
  <2> HIDE DEF Good
  <2>1. QED
    BY <1>1, <1>5, <1>6, <1>7, IntervalInduction
<1>9. QED
  BY <1>8 DEF run
-----------------------------------------------------------------------------
(* The steps. *)
LEMMA SubmitFacts ==
  ASSUME BrokerInv, IsEngine(engine), NEW o \in Orders, NEW quantity \in Quantities,
         Submit(o, quantity)
  PROVE  /\ Grows(o) /\ Reported(o)
         /\ \A p \in Orders : broker'[p].filled = broker[p].filled
         /\ IsEngine(engine')
         /\ engine'.shares = engine.shares
         /\ engine'.processed_fill_ids = engine.processed_fill_ids
         /\ engine'.processed_broker_event_ids = engine.processed_broker_event_ids
         /\ engine'.trade_ledger = engine.trade_ledger
         /\ engine'.processed_event_ids = engine.processed_event_ids
         /\ \A p \in Orders : \/ engine'.orders[p] = engine.orders[p]
                              \/ engine'.orders[p].filled_quantity = 0
<1> DEFINE Same == /\ IsEngine(engine')
                   /\ engine'.shares = engine.shares
                   /\ engine'.processed_fill_ids = engine.processed_fill_ids
                   /\ engine'.processed_broker_event_ids = engine.processed_broker_event_ids
                   /\ engine'.trade_ledger = engine.trade_ledger
                   /\ engine'.processed_event_ids = engine.processed_event_ids
                   /\ \A p \in Orders : \/ engine'.orders[p] = engine.orders[p]
                                        \/ engine'.orders[p].filled_quantity = 0
<1>1. Grows(o) /\ broker'[o].filled = 0 /\ broker[o].filled = 0
  BY AcceptGrows DEF Submit
<1>2. \A p \in Orders : broker'[p].filled = broker[p].filled
  BY <1>1 DEF Grows
<1>4. ASSUME NEW answer \in SubmitAnswers(broker'[o], clock'),
             engine' = [engine EXCEPT !.orders[o] = answer]
      PROVE  Same
  <2>1. broker'[o] \in BrokerOrder /\ clock' \in Nat
    BY <1>1 DEF Grows
  <2>2. answer.filled_quantity = 0 /\ Stamped(answer)
    <3>1. CASE vendor = "ibkr"
      <4>1. PICK stamp : /\ stamp = clock' \/ stamp = clock' + 1
                         /\ answer = ibkr_acknowledged(broker'[o], stamp)
        BY <1>4, <3>1 DEF SubmitAnswers
      <4>2. stamp \in Nat
        BY <2>1, <4>1
      <4>3. QED
        BY <4>1, <4>2 DEF ibkr_acknowledged, Stamped
    <3>2. CASE vendor # "ibkr"
      <4>1. answer = alpaca_order_to_domain(broker'[o])
        BY <1>4, <3>2 DEF SubmitAnswers
      <4>2. answer.filled_quantity = broker'[o].filled /\ answer.updated_at = broker'[o].updated_at
        BY <4>1 DEF alpaca_order_to_domain
      <4>3. QED
        BY <1>1, <2>1, <4>2 DEF BrokerOrder, Stamped
    <3>3. QED
      BY <3>1, <3>2
  <2>3. engine' = [orders                     |-> [engine.orders EXCEPT ![o] = answer],
                   processed_broker_event_ids |-> engine.processed_broker_event_ids,
                   processed_fill_ids         |-> engine.processed_fill_ids,
                   shares                     |-> engine.shares,
                   trade_ledger               |-> engine.trade_ledger,
                   processed_event_ids        |-> engine.processed_event_ids,
                   last_event_timestamp       |-> engine.last_event_timestamp]
    BY <1>4 DEF IsEngine
  <2>4. /\ engine'.shares = engine.shares
        /\ engine'.processed_fill_ids = engine.processed_fill_ids
        /\ engine'.processed_broker_event_ids = engine.processed_broker_event_ids
        /\ engine'.trade_ledger = engine.trade_ledger
        /\ engine'.processed_event_ids = engine.processed_event_ids
        /\ engine'.orders = [engine.orders EXCEPT ![o] = answer]
    BY <2>3
  <2>5. engine' = [orders                     |-> engine'.orders,
                   processed_broker_event_ids |-> engine'.processed_broker_event_ids,
                   processed_fill_ids         |-> engine'.processed_fill_ids,
                   shares                     |-> engine'.shares,
                   trade_ledger               |-> engine'.trade_ledger,
                   processed_event_ids        |-> engine'.processed_event_ids,
                   last_event_timestamp       |-> engine'.last_event_timestamp]
    BY <2>3
  <2>6. engine.orders = [p \in Orders |-> engine.orders[p]]
    BY DEF IsEngine
  <2>7. /\ engine'.orders = [p \in Orders |-> IF p = o THEN answer ELSE engine.orders[p]]
        /\ engine'.orders[o] = answer
        /\ \A p \in Orders : p # o => engine'.orders[p] = engine.orders[p]
    BY <2>4, <2>6
  <2>8. engine'.orders = [p \in Orders |-> engine'.orders[p]]
    BY <2>7
  <2>9. \A p \in Orders : engine'.orders[p] # NoOrder => Stamped(engine'.orders[p])
    BY <2>2, <2>7 DEF IsEngine
  <2>10. engine'.shares \in [Orders -> Nat]
    BY <2>4 DEF IsEngine
  <2>11. IsEngine(engine')
    BY <2>5, <2>8, <2>9, <2>10 DEF IsEngine
  <2>12. QED
    BY <2>2, <2>4, <2>7, <2>11
<1>5. ASSUME UNCHANGED engine
      PROVE  Same
  BY <1>5
<1>6. Reported(o) /\ Same
  BY <1>4, <1>5 DEF Submit
<1>7. QED
  BY <1>1, <1>2, <1>6

LEMMA NewEngineFacts ==
  /\ IsEngine(NewEngine)
  /\ NewEngine.shares = Nothing
  /\ NewEngine.processed_event_ids = {} /\ NewEngine.processed_fill_ids = {}
  /\ \A o \in Orders : NewEngine.orders[o] = NoOrder
BY DEF NewEngine, IsEngine, Nothing

LEMMA SubmitInv ==
  ASSUME Inv, NEW o \in Orders, NEW quantity \in Quantities, Submit(o, quantity)
  PROVE  Inv'
<1>1. BrokerInv /\ LogInv /\ EngineInv /\ PollInv /\ StreamInv /\ IsEngine(engine)
  BY DEF Inv, EngineInv
<1>2. /\ Grows(o) /\ Reported(o)
      /\ \A p \in Orders : broker'[p].filled = broker[p].filled
      /\ IsEngine(engine')
      /\ engine'.shares = engine.shares
      /\ engine'.processed_fill_ids = engine.processed_fill_ids
      /\ engine'.processed_broker_event_ids = engine.processed_broker_event_ids
      /\ engine'.processed_event_ids = engine.processed_event_ids
      /\ \A p \in Orders : \/ engine'.orders[p] = engine.orders[p]
                           \/ engine'.orders[p].filled_quantity = 0
  BY <1>1, SubmitFacts
<1>3. snapshots = NoPoll /\ UNCHANGED <<channel, seen, snapshots>>
  BY DEF Submit, deployment
<1>4. BrokerInv' /\ \A p \in Orders : broker'[p].filled \in Nat
  BY <1>1, <1>2, GrowsBroker
<1>5. /\ LogInv' /\ Len(log) \in Nat /\ Len(log') = Len(log) + 1
      /\ \A j \in 1..Len(log) : log'[j] = log[j]
  BY <1>1, <1>2, ReportedFacts
<1>6. EngineInv'
  BY <1>1, <1>2, <1>3 DEF EngineInv
<1>7. PollInv'
  <2>1. SUFFICES ASSUME channel = "poll"
                 PROVE  \A p \in Orders :
                          /\ seen[p] <= broker'[p].filled
                          /\ engine'.shares[p] <= seen[p]
                          /\ engine'.orders[p] # NoOrder
                               => engine'.orders[p].filled_quantity <= seen[p]
    BY <1>3 DEF PollInv, Tracked
  <2>2. seen \in [Orders -> Nat]
    BY <1>1 DEF EngineInv
  <2>3. QED
    BY <1>1, <1>2, <2>1, <2>2 DEF PollInv, Tracked
<1>8. StreamInv'
  <2>1. CASE channel # "stream"
    BY <1>3, <2>1 DEF StreamInv
  <2>2. CASE channel = "stream"
    <3>1. PICK p \in 0..Len(log) : Replayed(engine, p)
      BY <1>1, <2>2 DEF StreamInv
    <3>2. Len(log') \in Nat /\ Len(log) <= Len(log') /\ p \in 0..Len(log')
      BY <1>5
    <3>3. Replayed(engine, p)'
      BY <1>2, <1>5, <3>1, <3>2, ReplayedLater
    <3>4. Remembered(engine)'
      BY <1>1, <1>2, <2>2 DEF StreamInv, Remembered
    <3>5. QED
      BY <1>3, <3>2, <3>3, <3>4 DEF StreamInv
  <2>3. QED
    BY <2>1, <2>2
<1>9. QED
  BY <1>4, <1>5, <1>6, <1>7, <1>8 DEF Inv

LEMMA BrokerStepInv ==
  ASSUME Inv, NEW o \in Orders, BrokerStep(o)
  PROVE  Inv'
<1>1. BrokerInv /\ LogInv /\ EngineInv /\ PollInv /\ StreamInv
  BY DEF Inv
<1>2. /\ Grows(o) /\ Reported(o) /\ UNCHANGED <<vendor, channel, seen, snapshots, engine>>
      /\ broker'[o].older = broker[o].older
  BY <1>1, ActsGrow DEF BrokerStep, deployment
<1>3. /\ BrokerInv' /\ \A p \in Orders : broker[p].filled <= broker'[p].filled
      /\ \A p \in Orders : broker'[p].filled \in Nat
  BY <1>1, <1>2, GrowsBroker
<1>4. /\ LogInv' /\ Len(log) \in Nat /\ Len(log') = Len(log) + 1
      /\ \A j \in 1..Len(log) : log'[j] = log[j]
  BY <1>1, <1>2, ReportedFacts
<1>5. EngineInv'
  BY <1>1, <1>2 DEF EngineInv
<1>6. PollInv'
  <2>1. SUFFICES ASSUME channel = "poll"
                 PROVE  /\ \A p \in Orders : seen[p] <= broker'[p].filled
                        /\ snapshots # NoPoll =>
                             \A event \in snapshots :
                               /\ event.snapshot.filled_quantity <= broker'[event.order].filled
                               /\ FillsArePolled(event.order)'
    BY <1>1, <1>2 DEF PollInv, Tracked
  <2>2. ASSUME NEW p \in Orders
        PROVE  seen[p] <= broker'[p].filled
    <3>1. seen[p] \in Nat /\ broker[p].filled \in Nat /\ seen[p] <= broker[p].filled
      BY <1>1, <2>1, BrokerFacts DEF EngineInv, PollInv
    <3>2. QED
      BY <1>3, <3>1
  <2>3. ASSUME snapshots # NoPoll, NEW event \in snapshots
        PROVE  /\ event.snapshot.filled_quantity <= broker'[event.order].filled
               /\ FillsArePolled(event.order)'
    <3>1. event.order \in Orders /\ event.snapshot.filled_quantity \in Nat
      BY <1>1, <2>3 DEF EngineInv, IsUpdate, Stamped
    <3>2. /\ event.snapshot.filled_quantity <= broker[event.order].filled
          /\ broker[event.order].filled \in Nat /\ FillsArePolled(event.order)
      BY <1>1, <2>1, <2>3, <3>1, BrokerFacts DEF PollInv
    <3>3. broker'[event.order].older = broker[event.order].older
      BY <1>2, <3>1 DEF Grows
    <3>4. FillsArePolled(event.order)'
      BY <1>2, <3>2, <3>3 DEF FillsArePolled, FillsRead
    <3>5. QED
      BY <1>3, <3>1, <3>2, <3>4
  <2>4. QED
    BY <2>2, <2>3
<1>7. StreamInv'
  <2>1. CASE channel # "stream"
    BY <1>2, <2>1 DEF StreamInv
  <2>2. CASE channel = "stream"
    <3>1. PICK p \in 0..Len(log) : Replayed(engine, p)
      BY <1>1, <2>2 DEF StreamInv
    <3>2. Len(log') \in Nat /\ Len(log) <= Len(log') /\ p \in 0..Len(log')
      BY <1>4
    <3>3. Replayed(engine, p)'
      BY <1>2, <1>4, <3>1, <3>2, ReplayedLater
    <3>4. QED
      BY <1>1, <1>2, <2>2, <3>2, <3>3 DEF StreamInv, Remembered
  <2>3. QED
    BY <2>1, <2>2
<1>8. QED
  BY <1>3, <1>4, <1>5, <1>6, <1>7 DEF Inv

LEMMA ReadOrdersInv ==
  ASSUME Inv, ReadOrders
  PROVE  Inv'
<1>1. BrokerInv /\ LogInv /\ EngineInv /\ PollInv
  BY DEF Inv
<1>2. /\ channel # "stream" /\ snapshots' = PolledOrders
      /\ UNCHANGED <<brokerVars, broker, vendor, channel, log, seen, engine>>
  BY DEF ReadOrders, deployment, brokerVars
<1>3. BrokerInv' /\ LogInv'
  BY <1>1, <1>2, StillLog
<1>4. /\ \A event \in PolledOrders : IsUpdate(event)
      /\ \A event \in PolledOrders :
           /\ event.snapshot.filled_quantity <= broker[event.order].filled
           /\ FillsArePolled(event.order)
  <2>1. ASSUME NEW event \in PolledOrders
        PROVE  /\ IsUpdate(event) /\ FillsArePolled(event.order)
               /\ event.snapshot.filled_quantity <= broker[event.order].filled
    <3>1. /\ IsUpdate(event) /\ event.order \in Orders /\ FillsArePolled(event.order)
          /\ event.snapshot.filled_quantity = broker[event.order].filled
      BY <1>1, PolledOrderFacts
    <3>2. broker[event.order].filled \in Nat
      BY <1>1, <3>1, BrokerFacts
    <3>3. QED
      BY <3>1, <3>2
  <2>2. QED
    BY <2>1
<1>5. EngineInv' /\ PollInv' /\ StreamInv'
  BY <1>1, <1>2, <1>4
  DEF EngineInv, PollInv, StreamInv, Tracked, FillsArePolled, FillsRead
<1>6. QED
  BY <1>3, <1>5 DEF Inv

LEMMA AbandonPollInv ==
  ASSUME Inv, AbandonPoll
  PROVE  Inv'
<1>1. BrokerInv /\ LogInv /\ EngineInv /\ PollInv /\ StreamInv
  BY DEF Inv
<1>2. /\ snapshots # NoPoll /\ snapshots' = NoPoll
      /\ UNCHANGED <<brokerVars, broker, channel, log, seen, engine>>
  BY DEF AbandonPoll, deployment, brokerVars
<1>3. BrokerInv' /\ LogInv'
  BY <1>1, <1>2, StillLog
<1>4. EngineInv' /\ PollInv' /\ StreamInv'
  BY <1>1, <1>2 DEF EngineInv, PollInv, StreamInv, Tracked
<1>5. QED
  BY <1>3, <1>4 DEF Inv

LEMMA FinishPollInv ==
  ASSUME Inv, FinishPoll
  PROVE  /\ Inv'
         /\ channel = "poll" =>
              \A o \in Orders : /\ engine.shares[o] <= engine'.shares[o]
                                /\ engine'.shares[o] <= broker[o].filled
<1>1. BrokerInv /\ LogInv /\ EngineInv /\ PollInv /\ StreamInv
  BY DEF Inv
<1>2. /\ snapshots # NoPoll /\ snapshots' = NoPoll /\ seen' = SeenAfterPoll
      /\ UNCHANGED <<brokerVars, broker, channel, log>>
  BY DEF FinishPoll, PollReturns, deployment, brokerVars
<1>3. BrokerInv' /\ LogInv'
  BY <1>1, <1>2, StillLog
<1>4. /\ IsEngine(engine')
      /\ \A o \in Orders : /\ PolledOrder(o, engine'.orders[o])
                           /\ PolledShares(o, engine'.shares[o])
  BY <1>1, PollFacts
<1>5. seen \in [Orders -> Nat] /\ IsEngine(engine)
  BY <1>1 DEF EngineInv
<1>6. /\ seen' \in [Orders -> Nat]
      /\ \A o \in Orders :
           seen'[o] = IF FillsArePolled(o) THEN broker[o].filled ELSE seen[o]
  BY <1>1, <1>2, <1>5, BrokerFacts DEF SeenAfterPoll
<1>7. EngineInv'
  BY <1>2, <1>4, <1>6 DEF EngineInv
<1>8. ASSUME channel = "poll", NEW o \in Orders
      PROVE  /\ engine.shares[o] <= engine'.shares[o]
             /\ seen'[o] <= broker[o].filled
             /\ engine'.shares[o] <= seen'[o]
             /\ engine'.orders[o] # NoOrder
                  => engine'.orders[o].filled_quantity <= seen'[o]
  <2>1. /\ seen[o] \in Nat /\ broker[o].filled \in Nat /\ seen[o] <= broker[o].filled
        /\ engine.shares[o] \in Nat /\ engine.shares[o] <= seen[o]
        /\ engine.orders[o] # NoOrder =>
             engine.orders[o].filled_quantity \in Nat /\ engine.orders[o].filled_quantity <= seen[o]
    BY <1>1, <1>5, <1>8, BrokerFacts DEF PollInv, Tracked, IsEngine, Stamped
  <2> DEFINE executed == broker[o].filled
             known == seen[o]
             booked == engine.shares[o]
             counted == engine.orders[o].filled_quantity
             now == seen'[o]
  <2>0. /\ now = IF FillsArePolled(o) THEN executed ELSE known
        /\ known <= now /\ now <= executed /\ now \in Nat
    BY <1>6, <2>1
  <2>2. engine.shares[o] <= engine'.shares[o] /\ engine'.shares[o] <= seen'[o]
    <3>1. \/ engine'.shares[o] = booked
          \/ now = executed /\ known < executed /\ engine'.shares[o] = booked + (executed - known)
      BY <1>4, <2>0 DEF PolledShares
    <3>2. /\ known \in Nat /\ executed \in Nat /\ known <= executed
          /\ booked \in Nat /\ booked <= known
          /\ now \in Nat /\ known <= now
      BY <2>0, <2>1
    <3> HIDE DEF executed, known, booked, now
    <3>3. booked <= engine'.shares[o] /\ engine'.shares[o] <= now
      BY <3>1, <3>2
    <3>4. QED
      BY <3>3 DEF now, booked
  <2>3. ASSUME engine'.orders[o] # NoOrder
        PROVE  engine'.orders[o].filled_quantity <= seen'[o]
    <3>1. CASE engine'.orders[o] = engine.orders[o]
      <4>1. /\ counted \in Nat /\ counted <= known /\ known <= now /\ known \in Nat
            /\ now \in Nat
        BY <2>0, <2>1, <2>3, <3>1
      <4> HIDE DEF known, counted, now
      <4>2. counted <= now
        BY <4>1
      <4>3. QED
        BY <3>1, <4>2 DEF now, counted
    <3>2. ASSUME NEW event \in snapshots, event.order = o, engine'.orders[o] = event.snapshot
          PROVE  engine'.orders[o].filled_quantity <= seen'[o]
      <4>1. /\ event.snapshot.filled_quantity <= broker[event.order].filled
            /\ FillsArePolled(event.order)
        BY <1>1, <1>2, <1>8, <3>2 DEF PollInv
      <4>2. QED
        BY <1>6, <3>2, <4>1
    <3>3. CASE /\ engine.orders[o] # NoOrder /\ FillsArePolled(o) /\ known < executed
               /\ engine'.orders[o].filled_quantity = counted + (executed - known)
      <4>1. /\ counted \in Nat /\ counted <= known /\ known \in Nat /\ executed \in Nat
            /\ now = executed
        BY <2>0, <2>1, <3>3
      <4> HIDE DEF executed, known, counted, now
      <4>2. engine'.orders[o].filled_quantity <= now
        BY <3>3, <4>1
      <4>3. QED
        BY <4>2 DEF now
    <3>4. PolledOrder(o, engine'.orders[o])
      BY <1>4
    <3>5. QED
      BY <3>1, <3>2, <3>3, <3>4 DEF PolledOrder
  <2>4. QED
    BY <2>0, <2>2, <2>3
<1>9. PollInv'
  <2>1. SUFFICES ASSUME channel = "poll"
                 PROVE  \A o \in Orders :
                          /\ seen'[o] <= broker[o].filled
                          /\ engine'.shares[o] <= seen'[o]
                          /\ engine'.orders[o] # NoOrder
                               => engine'.orders[o].filled_quantity <= seen'[o]
    BY <1>2 DEF PollInv, Tracked
  <2>2. QED
    BY <1>1, <1>6, <1>8, <2>1, BrokerFacts
<1>10. StreamInv'
  BY <1>1, <1>2 DEF StreamInv
<1>11. ASSUME channel = "poll", NEW o \in Orders
       PROVE  engine'.shares[o] <= broker[o].filled
  <2>1. /\ engine'.shares[o] <= seen'[o] /\ seen'[o] <= broker[o].filled
        /\ engine'.shares[o] \in Nat /\ seen'[o] \in Nat /\ broker[o].filled \in Nat
    BY <1>1, <1>4, <1>6, <1>8, <1>11, BrokerFacts DEF IsEngine
  <2>2. QED
    BY <2>1
<1>12. QED
  BY <1>3, <1>7, <1>8, <1>9, <1>10, <1>11 DEF Inv

LEMMA SyncInv ==
  ASSUME Channels \subseteq {"poll", "stream"}, channel \in Channels,
         Inv, NEW max_events, Sync(max_events)
  PROVE  /\ Inv'
         /\ \A o \in Orders : engine.shares[o] <= engine'.shares[o]
<1>1. BrokerInv /\ LogInv /\ EngineInv /\ StreamInv
  BY DEF Inv
<1>2. /\ channel = "stream"
      /\ engine' \in {SyncRun(max_events)[Len(log)].engine} \cup FailedSyncs(SyncRun(max_events))
      /\ UNCHANGED <<brokerVars, broker, channel, log, seen, snapshots>>
  BY DEF Sync, deployment, brokerVars
<1>3. BrokerInv' /\ LogInv'
  BY <1>1, <1>2, StillLog
<1>4. LogOrdered /\ IsEngine(engine) /\ Remembered(engine)
  BY <1>1, <1>2 DEF LogInv, EngineInv, StreamInv
<1>5. PICK p \in 0..Len(log) : Replayed(engine, p)
  BY <1>1, <1>2 DEF StreamInv
<1>6. /\ IsEngine(engine') /\ Remembered(engine')
      /\ \E q \in 0..Len(log) : Replayed(engine', q)
      /\ \A o \in Orders : engine.shares[o] <= engine'.shares[o]
  BY <1>2, <1>4, <1>5, SyncKeepsReplayed
<1>7. EngineInv' /\ PollInv'
  BY <1>1, <1>2, <1>6 DEF EngineInv, PollInv
<1>8. StreamInv'
  <2>1. PICK q \in 0..Len(log) : Replayed(engine', q)
    BY <1>6
  <2>2. Replayed(engine, q)'
    BY <1>2, <2>1 DEF Replayed, Within, Ahead
  <2>3. QED
    BY <1>1, <1>2, <1>6, <2>2 DEF StreamInv, Remembered
<1>9. QED
  BY <1>3, <1>6, <1>7, <1>8 DEF Inv

LEMMA RestartInv ==
  ASSUME Inv, Restart
  PROVE  Inv'
<1>1. BrokerInv /\ LogInv
  BY DEF Inv
<1>2. /\ seen' = Nothing /\ snapshots' = NoPoll /\ engine' = NewEngine
      /\ UNCHANGED <<brokerVars, broker, channel, log>>
  BY DEF Restart, deployment, brokerVars
<1>3. BrokerInv' /\ LogInv'
  BY <1>1, <1>2, StillLog
<1>4. /\ IsEngine(engine') /\ \A o \in Orders : engine'.orders[o] = NoOrder
      /\ engine'.shares = Nothing
      /\ engine'.processed_event_ids = {}
  BY <1>2, NewEngineFacts
<1>5. Nothing \in [Orders -> Nat] /\ \A o \in Orders : Nothing[o] = 0 /\ broker[o].filled \in Nat
  BY <1>1, BrokerFacts DEF Nothing
<1>6. EngineInv' /\ PollInv'
  BY <1>2, <1>4, <1>5 DEF EngineInv, PollInv, Tracked
<1>7. StreamInv'
  <2>1. 0 \in 0..Len(log)
    BY <1>1 DEF LogInv, LogOrdered
  <2>2. Replayed(engine, 0)'
    BY <1>2, <1>4, <1>5 DEF Replayed, Within
  <2>3. QED
    BY <1>2, <1>4, <2>1, <2>2 DEF StreamInv, Remembered
<1>8. QED
  BY <1>3, <1>6, <1>7 DEF Inv

LEMMA InitInv == Init => Inv
<1>1. SUFFICES ASSUME Init
               PROVE  Inv
  OBVIOUS
<1>2. /\ clock = 1 /\ broker = [o \in Orders |-> NotPlaced] /\ log = <<>>
      /\ seen = Nothing /\ snapshots = NoPoll /\ engine = NewEngine
  BY <1>1 DEF Init, BrokerInit
<1>3. /\ NotPlaced \in BrokerOrder /\ NotPlaced.filled = 0
      /\ NotPlaced.updated_at = 0 /\ FilledAt(NotPlaced) = 0
  BY DEF NotPlaced, NoQuantity, BrokerOrder, BrokerStatus, FilledAt
<1>4. BrokerInv
  BY <1>2, <1>3 DEF BrokerInv
<1>5. log \in Seq(Message) /\ Len(log) = 0
  BY <1>2
<1>6. LogInv
  BY <1>5 DEF LogInv, LogOrdered
<1>7. Nothing \in [Orders -> Nat] /\ \A o \in Orders : Nothing[o] = 0
  BY DEF Nothing
<1>8. EngineInv /\ PollInv
  BY <1>2, <1>3, <1>7, NewEngineFacts DEF EngineInv, PollInv, Tracked
<1>9. StreamInv
  <2>1. Replayed(engine, 0)
    BY <1>2, <1>7, NewEngineFacts DEF Replayed, Within
  <2>2. 0 \in 0..Len(log)
    BY <1>5
  <2>3. QED
    BY <1>2, <2>1, <2>2, NewEngineFacts DEF StreamInv, Remembered
<1>10. QED
  BY <1>4, <1>6, <1>8, <1>9 DEF Inv

LEMMA StutterInv ==
  ASSUME Inv, UNCHANGED vars
  PROVE  Inv'
<1>1. BrokerInv /\ LogInv /\ EngineInv /\ PollInv /\ StreamInv
  BY DEF Inv
<1>2. UNCHANGED <<brokerVars, broker, vendor, channel, log, seen, snapshots, engine>>
  BY DEF vars, brokerVars, deployment
<1>3. BrokerInv' /\ LogInv'
  BY <1>1, <1>2, StillLog
<1>4. EngineInv' /\ PollInv'
  BY <1>1, <1>2 DEF EngineInv, PollInv, Tracked, FillsArePolled, FillsRead
<1>5. StreamInv'
  <2>1. ASSUME NEW p \in 0..Len(log), Replayed(engine, p)
        PROVE  Replayed(engine, p)'
    BY <1>2, <2>1 DEF Replayed, Within, Ahead
  <2>2. QED
    BY <1>1, <1>2, <2>1 DEF StreamInv, Remembered
<1>6. QED
  BY <1>3, <1>4, <1>5 DEF Inv

(* One channel alone, whichever it is. *)
OneChannel == Channels \subseteq {"poll", "stream"}

InvOnAChannel == Inv /\ channel \in Channels

LEMMA NextInv ==
  ASSUME OneChannel, InvOnAChannel, [Next]_vars
  PROVE  InvOnAChannel'
<1>1. Inv /\ channel \in Channels
  BY DEF InvOnAChannel
<1>2. UNCHANGED channel
  BY DEF Next, Submit, BrokerStep, ReadOrders, AbandonPoll, FinishPoll, Sync, Restart,
         deployment, vars
<1>3. Inv'
  BY <1>1, SubmitInv, BrokerStepInv, ReadOrdersInv, AbandonPollInv, FinishPollInv, SyncInv,
     RestartInv, StutterInv DEF Next, OneChannel
<1>4. QED
  BY <1>1, <1>2, <1>3 DEF InvOnAChannel

LEMMA InvOnAChannelHolds ==
  ASSUME OneChannel
  PROVE  Spec => []InvOnAChannel
<1>1. Init => InvOnAChannel
  BY InitInv DEF Init, InvOnAChannel
<1>2. InvOnAChannel /\ [Next]_vars => InvOnAChannel'
  BY NextInv
<1>3. QED
  BY <1>1, <1>2, PTL DEF Spec
-----------------------------------------------------------------------------
(***************************************************************************)
(* The theorems.                                                            *)
(***************************************************************************)
LEMMA WithinIsExecuted ==
  ASSUME BrokerInv, LogInv, NEW p \in 0..Len(log), NEW o \in Orders, NEW shares \in Nat,
         Within(shares, o, p)
  PROVE  shares <= broker[o].filled
<1>1. broker[o].filled \in Nat /\ Len(log) \in Nat
  BY BrokerFacts DEF LogInv, LogOrdered
<1>2. CASE shares = 0
  BY <1>1, <1>2
<1>3. CASE shares # 0
  <2>1. PICK j \in 1..p : log[j].order = o /\ shares <= log[j].payload.filled
    BY <1>3 DEF Within
  <2>2. j \in 1..Len(log)
    BY <1>1
  <2>3. log[j].payload.filled \in Nat /\ log[j].payload.filled <= broker[o].filled
    BY <2>1, <2>2, MessageFacts DEF LogInv
  <2>4. QED
    BY <1>1, <2>1, <2>3
<1>4. QED
  BY <1>2, <1>3

LEMMA CountedIsExecuted ==
  ASSUME OneChannel, InvOnAChannel, NEW o \in Orders
  PROVE  /\ engine.shares[o] \in Nat /\ broker[o].filled \in Nat
         /\ engine.shares[o] <= broker[o].filled
         /\ Tracked(o) => engine.orders[o].filled_quantity <= broker[o].filled
<1>1. BrokerInv /\ LogInv /\ EngineInv /\ PollInv /\ StreamInv /\ channel \in {"poll", "stream"}
  BY DEF InvOnAChannel, Inv, OneChannel
<1>2. /\ broker[o].filled \in Nat /\ engine.shares[o] \in Nat /\ seen[o] \in Nat
      /\ Tracked(o) => engine.orders[o].filled_quantity \in Nat
  BY <1>1, BrokerFacts DEF EngineInv, IsEngine, Tracked, Stamped
<1>3. CASE channel = "poll"
  BY <1>1, <1>2, <1>3 DEF PollInv
<1>4. CASE channel = "stream"
  <2>1. PICK p \in 0..Len(log) : Replayed(engine, p)
    BY <1>1, <1>4 DEF StreamInv
  <2>2. engine.shares[o] <= broker[o].filled
    BY <1>1, <1>2, <2>1, WithinIsExecuted DEF Replayed
  <2>3. ASSUME Tracked(o)
        PROVE  engine.orders[o].filled_quantity <= broker[o].filled
    <3>1. \/ Within(engine.orders[o].filled_quantity, o, p)
          \/ Ahead(engine.orders[o], o, p)
      BY <2>1, <2>3 DEF Replayed, Tracked
    <3>2. CASE Within(engine.orders[o].filled_quantity, o, p)
      BY <1>1, <1>2, <2>3, <3>2, WithinIsExecuted
    <3>3. CASE Ahead(engine.orders[o], o, p)
      <4>1. p + 1 \in 1..Len(log) /\ log[p + 1].order = o
            /\ engine.orders[o].filled_quantity = log[p + 1].payload.filled
        BY <1>1, <3>3 DEF Ahead, LogInv, LogOrdered
      <4>2. QED
        BY <1>1, <4>1 DEF LogInv
    <3>4. QED
      BY <3>1, <3>2, <3>3
  <2>4. QED
    BY <1>2, <2>2, <2>3
<1>5. QED
  BY <1>1, <1>3, <1>4

(* Fed by one channel, whichever it is, with bookings that may fail, abandoned
   polls, replays from the first message on and restarts: the OrderManager never
   counts a share that the broker did not execute. *)
THEOREM CountsOnlyExecuted ==
  ASSUME Channels \subseteq {"poll", "stream"}
  PROVE  Spec => []NeverOvercounts
<1>1. OneChannel
  BY DEF OneChannel
<1>2. Spec => []InvOnAChannel
  BY <1>1, InvOnAChannelHolds
<1>3. InvOnAChannel => NeverOvercounts
  BY <1>1, CountedIsExecuted DEF NeverOvercounts
<1>4. QED
  BY <1>2, <1>3, PTL

(* Nor does the portfolio book one. *)
THEOREM BooksOnlyExecuted ==
  ASSUME Channels \subseteq {"poll", "stream"}
  PROVE  Spec => []NeverOverbooks
<1>1. OneChannel
  BY DEF OneChannel
<1>2. Spec => []InvOnAChannel
  BY <1>1, InvOnAChannelHolds
<1>3. InvOnAChannel => NeverOverbooks
  BY <1>1, CountedIsExecuted DEF NeverOverbooks, Booked
<1>4. QED
  BY <1>2, <1>3, PTL

(* The refinement mapping: what Booking calls executed and booked. *)
ExecutedShares == [o \in Orders |-> broker[o].filled]
BookedShares   == [o \in Orders |-> Booked(o)]

LEMMA Executing ==
  ASSUME BrokerInv, NEW o \in Orders, Grows(o), engine'.shares = engine.shares
  PROVE  B!Next
<1>1. \A p \in Orders : broker[p].filled <= broker'[p].filled /\ broker'[p].filled \in Nat
  BY GrowsBroker
<1>2. UNCHANGED BookedShares
  BY DEF BookedShares, Booked
<1>3. B!Execute
  BY <1>1, <1>2 DEF B!Execute, BookedShares
<1>4. QED
  BY <1>3 DEF B!Next

LEMMA Booking ==
  ASSUME UNCHANGED broker, IsEngine(engine'),
         \A o \in Orders : /\ engine.shares[o] <= engine'.shares[o]
                           /\ engine'.shares[o] <= broker[o].filled
  PROVE  B!Next
<1>1. BookedShares' \in [Orders -> Nat]
  BY DEF BookedShares, Booked, IsEngine
<1>2. UNCHANGED ExecutedShares
  BY DEF ExecutedShares
<1>3. B!Book
  BY <1>1, <1>2 DEF B!Book, BookedShares, ExecutedShares, Booked
<1>4. QED
  BY <1>3 DEF B!Next

LEMMA Standing ==
  ASSUME UNCHANGED <<broker, engine>>
  PROVE  UNCHANGED B!vars
BY DEF B!vars, Booked

LEMMA StepBooks ==
  ASSUME OneChannel, InvOnAChannel, InvOnAChannel', [Next]_vars
  PROVE  [B!Next]_(B!vars)
<1>1. BrokerInv /\ EngineInv /\ Inv /\ IsEngine(engine) /\ channel \in Channels
  BY DEF InvOnAChannel, Inv, EngineInv
<1>2. /\ IsEngine(engine')
      /\ \A o \in Orders : engine'.shares[o] <= broker'[o].filled
  <2>1. ASSUME NEW o \in Orders
        PROVE  (engine.shares[o] <= broker[o].filled)'
    <3>1. OneChannel'
      BY DEF OneChannel
    <3>2. QED
      BY <3>1, CountedIsExecuted, PTL
  <2>2. QED
    BY <2>1 DEF InvOnAChannel, Inv, EngineInv
<1>3. ASSUME NEW o \in Orders, NEW quantity \in Quantities, Submit(o, quantity)
      PROVE  B!Next
  <2>1. Grows(o) /\ engine'.shares = engine.shares
    BY <1>1, <1>3, SubmitFacts
  <2>2. QED
    BY <1>1, <2>1, Executing
<1>4. ASSUME NEW o \in Orders, BrokerStep(o)
      PROVE  B!Next
  <2>1. Grows(o) /\ engine'.shares = engine.shares
    BY <1>1, <1>4, ActsGrow DEF BrokerStep
  <2>2. QED
    BY <1>1, <2>1, Executing
<1>5. CASE ReadOrders \/ AbandonPoll \/ UNCHANGED vars
  BY <1>5, Standing DEF ReadOrders, AbandonPoll, vars, brokerVars
<1>6. CASE FinishPoll
  <2>1. channel = "poll" /\ UNCHANGED broker
    <3>1. channel # "stream"
      BY <1>1, <1>6 DEF FinishPoll, PollReturns, Inv, StreamInv
    <3>2. QED
      BY <1>1, <1>6, <3>1 DEF OneChannel, FinishPoll, brokerVars
  <2>2. \A o \in Orders : /\ engine.shares[o] <= engine'.shares[o]
                          /\ engine'.shares[o] <= broker[o].filled
    BY <1>1, <1>6, <2>1, FinishPollInv
  <2>3. QED
    BY <1>2, <2>1, <2>2, Booking
<1>7. ASSUME NEW max_events \in 0..1, Sync(max_events)
      PROVE  B!Next
  <2>1. \A o \in Orders : engine.shares[o] <= engine'.shares[o]
    BY <1>1, <1>7, SyncInv DEF OneChannel
  <2>2. UNCHANGED broker
    BY <1>7 DEF Sync, brokerVars
  <2>3. QED
    BY <1>2, <2>1, <2>2, Booking
<1>8. CASE Restart
  <2>1. UNCHANGED broker /\ engine' = NewEngine
    BY <1>8 DEF Restart, brokerVars
  <2>2. BookedShares' = B!Nothing /\ UNCHANGED ExecutedShares
    BY <2>1, NewEngineFacts DEF BookedShares, ExecutedShares, Booked, Nothing, B!Nothing
  <2>3. B!StartOver
    BY <2>2 DEF B!StartOver, BookedShares, ExecutedShares
  <2>4. QED
    BY <2>3 DEF B!Next
<1>9. QED
  BY <1>3, <1>4, <1>5, <1>6, <1>7, <1>8 DEF Next

LEMMA InitBooks == Init => B!Init
BY NewEngineFacts DEF Init, BrokerInit, NotPlaced, B!Init, B!Nothing, Booked, Nothing

(* The portfolio keeps account of the broker's executions as Booking promises: a
   step of the engine, be it a poll or the replay of the whole log, books executed
   shares that are not booked yet, and only a new process drops any. *)
THEOREM BooksAsPromised ==
  ASSUME Channels \subseteq {"poll", "stream"}
  PROVE  Spec => ImplementsBooking
<1>1. OneChannel
  BY DEF OneChannel
<1>2. Spec => []InvOnAChannel
  BY <1>1, InvOnAChannelHolds
<1>3. InvOnAChannel /\ InvOnAChannel' /\ [Next]_vars => [B!Next]_(B!vars)
  BY <1>1, StepBooks
<1>4. QED
  BY <1>2, <1>3, InitBooks, PTL DEF Spec, ImplementsBooking, B!Spec
-----------------------------------------------------------------------------
(* Without failing bookings, the ledger keeps up with every record of a fill. *)
LedgerInv ==
  /\ BrokerInv /\ LogInv /\ EngineInv
  /\ Ledgered(engine)

LEMMA LedgerStep ==
  ASSUME BookingFails = FALSE, LedgerInv, [Next]_vars
  PROVE  LedgerInv'
<1>1. BrokerInv /\ LogInv /\ EngineInv /\ Ledgered(engine) /\ IsEngine(engine)
  BY DEF LedgerInv, EngineInv
<1>2. ASSUME NEW o \in Orders, NEW quantity \in Quantities, Submit(o, quantity)
      PROVE  LedgerInv'
  <2>1. /\ Grows(o) /\ Reported(o) /\ IsEngine(engine')
        /\ engine'.processed_fill_ids = engine.processed_fill_ids
        /\ engine'.trade_ledger = engine.trade_ledger
        /\ engine'.processed_event_ids = engine.processed_event_ids
    BY <1>1, <1>2, SubmitFacts
  <2>2. BrokerInv' /\ LogInv'
    BY <1>1, <2>1, GrowsBroker, ReportedFacts
  <2>3. EngineInv'
    BY <1>1, <1>2, <2>1 DEF Submit, EngineInv
  <2>4. Ledgered(engine)'
    BY <1>1, <2>1 DEF Ledgered
  <2>5. QED
    BY <2>2, <2>3, <2>4 DEF LedgerInv
<1>3. ASSUME NEW o \in Orders, BrokerStep(o)
      PROVE  LedgerInv'
  <2>1. Grows(o) /\ Reported(o) /\ UNCHANGED <<seen, snapshots, engine>>
    BY <1>1, <1>3, ActsGrow DEF BrokerStep
  <2>2. BrokerInv' /\ LogInv'
    BY <1>1, <2>1, GrowsBroker, ReportedFacts
  <2>3. QED
    BY <1>1, <2>1, <2>2 DEF LedgerInv, EngineInv, Ledgered
<1>4. CASE ReadOrders
  <2>1. snapshots' = PolledOrders /\ UNCHANGED <<brokerVars, log, seen, engine>>
    BY <1>4 DEF ReadOrders
  <2>2. BrokerInv' /\ LogInv'
    BY <1>1, <2>1, StillLog
  <2>3. \A event \in PolledOrders : IsUpdate(event)
    BY <1>1, PolledOrderFacts
  <2>4. QED
    BY <1>1, <2>1, <2>2, <2>3 DEF LedgerInv, EngineInv, Ledgered
<1>5. CASE AbandonPoll
  <2>1. snapshots' = NoPoll /\ UNCHANGED <<brokerVars, log, seen, engine>>
    BY <1>5 DEF AbandonPoll
  <2>2. BrokerInv' /\ LogInv'
    BY <1>1, <2>1, StillLog
  <2>3. QED
    BY <1>1, <2>1, <2>2 DEF LedgerInv, EngineInv, Ledgered
<1>6. CASE FinishPoll
  <2>1. /\ snapshots' = NoPoll /\ seen' = SeenAfterPoll /\ UNCHANGED <<brokerVars, log>>
    BY <1>6 DEF FinishPoll, PollReturns
  <2>2. BrokerInv' /\ LogInv'
    BY <1>1, <2>1, StillLog
  <2>3. /\ IsEngine(engine')
        /\ engine'.processed_event_ids = engine.processed_event_ids
        /\ engine.trade_ledger \subseteq engine'.trade_ledger
        /\ engine'.processed_fill_ids \subseteq engine'.trade_ledger
    BY <1>1, <1>6, PollFacts DEF Ledgered
  <2>4. seen' \in [Orders -> Nat]
    BY <1>1, <2>1, BrokerFacts DEF SeenAfterPoll, EngineInv
  <2>5. EngineInv'
    BY <2>1, <2>3, <2>4 DEF EngineInv
  <2>6. Ledgered(engine)'
    BY <1>1, <2>3 DEF Ledgered
  <2>7. QED
    BY <2>2, <2>5, <2>6 DEF LedgerInv
<1>7. ASSUME NEW max_events \in 0..1, Sync(max_events)
      PROVE  LedgerInv'
  <2>1. /\ engine' \in {SyncRun(max_events)[Len(log)].engine} \cup FailedSyncs(SyncRun(max_events))
        /\ UNCHANGED <<brokerVars, log, seen, snapshots>>
    BY <1>7 DEF Sync
  <2>2. BrokerInv' /\ LogInv'
    BY <1>1, <2>1, StillLog
  <2>3. FailedSyncs(SyncRun(max_events)) = {}
    BY DEF FailedSyncs
  <2>4. LedgeredLoop(SyncRun(max_events)[Len(log)])
    BY <1>1, SyncLedgered DEF LogInv, LogOrdered
  <2>5. IsEngine(engine') /\ Ledgered(engine')
    BY <2>1, <2>3, <2>4 DEF LedgeredLoop, IsLoop
  <2>6. EngineInv'
    BY <1>1, <2>1, <2>5 DEF EngineInv
  <2>7. QED
    BY <2>2, <2>5, <2>6 DEF LedgerInv, Ledgered
<1>8. CASE Restart
  <2>1. /\ seen' = Nothing /\ snapshots' = NoPoll /\ engine' = NewEngine
        /\ UNCHANGED <<brokerVars, log>>
    BY <1>8 DEF Restart
  <2>2. BrokerInv' /\ LogInv'
    BY <1>1, <2>1, StillLog
  <2>3. /\ IsEngine(engine') /\ engine'.processed_event_ids = {}
        /\ engine'.processed_fill_ids = {}
    BY <2>1, NewEngineFacts
  <2>4. Nothing \in [Orders -> Nat]
    BY DEF Nothing
  <2>5. QED
    BY <2>1, <2>2, <2>3, <2>4 DEF LedgerInv, EngineInv, Ledgered
<1>9. CASE UNCHANGED vars
  <2>1. UNCHANGED <<brokerVars, log, seen, snapshots, engine>>
    BY <1>9 DEF vars
  <2>2. BrokerInv' /\ LogInv'
    BY <1>1, <2>1, StillLog
  <2>3. QED
    BY <1>1, <2>1, <2>2 DEF LedgerInv, EngineInv, Ledgered
<1>10. QED
  BY <1>2, <1>3, <1>4, <1>5, <1>6, <1>7, <1>8, <1>9 DEF Next

(* When no booking fails on its way to the portfolio, a fill the checkpoint has
   remembered is a fill the portfolio has booked: with both channels at once, too,
   and through polls, replays, early stops and restarts. *)
THEOREM RememberedIsBooked ==
  ASSUME BookingFails = FALSE
  PROVE  Spec => []CheckpointedIsBooked
<1>1. Init => LedgerInv
  <2>1. Init => Ledgered(engine)
    BY NewEngineFacts DEF Init, Ledgered
  <2>2. QED
    BY <2>1, InitInv DEF LedgerInv, Inv
<1>2. LedgerInv /\ [Next]_vars => LedgerInv'
  BY LedgerStep
<1>3. LedgerInv => CheckpointedIsBooked
  BY DEF LedgerInv, Ledgered, CheckpointedIsBooked
<1>4. QED
  BY <1>1, <1>2, <1>3, PTL DEF Spec
=============================================================================
