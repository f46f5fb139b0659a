---------------------------- MODULE BacktestEngine ----------------------------
(***************************************************************************)
(* A backtest: for each replayed bar the simulated broker fills its orders,  *)
(* the fills go through the ExecutionEngine and into the portfolio, the      *)
(* portfolio is marked, and the accepted decisions of that bar are submitted *)
(* together, all of them judged on the same snapshot.                        *)
(***************************************************************************)
EXTENDS BacktestBrokerage

CONSTANTS
  Bars,          \* [symbol, open, high, low, close]
  Requests,      \* the sequences of order requests one bar may produce
  Rank,          \* the place of a symbol in the order of strings
  FillPolicies,
  StartingCash,
  MaxOrders,     \* bound on orders of one run
  MaxTime        \* bound on the replay

BarShape == [symbol: Symbols, open: Nat, high: Nat, low: Nat, close: Nat]

ASSUME BarsAssumption ==
  Bars \subseteq {bar \in BarShape : /\ bar.low \in 1..Smaller(bar.open, bar.close)
                                     /\ bar.high >= Larger(bar.open, bar.close)}
(* A Fill refuses a price that is not positive: no slippage eats up a price. *)
ASSUME SlippageAssumption ==
  \A b \in Bars : \A price \in b.low..b.high : Slippage(price) < price
ASSUME RequestsAssumption == Requests \subseteq Seq(OrderRequest)
ASSUME RankAssumption == Rank \in [Symbols -> Nat]
ASSUME PoliciesAssumption == FillPolicies \subseteq FillPolicy
ASSUME BoundsAssumption   == StartingCash \in Nat /\ MaxOrders \in Nat /\ MaxTime \in Nat

VARIABLES
  broker,      \* the BacktestBrokerage
  portfolio,   \* the DefaultPortfolio
  orders,      \* OrderManager._orders, by order number
  bar          \* the last bar replayed, with its timestamp

vars == <<broker, portfolio, orders, bar>>

NoBar == [symbol |-> CHOOSE s \in Symbols : TRUE,
          open |-> 0, high |-> 0, low |-> 0, close |-> 0, timestamp |-> 0]

At(b, timestamp) ==
  [symbol |-> b.symbol, open |-> b.open, high |-> b.high, low |-> b.low, close |-> b.close,
   timestamp |-> timestamp]

(* The broker's order as the OrderManager keeps it. *)
Snapshot(order) ==
  [quantity        |-> order.quantity,
   filled_quantity |-> order.filled_quantity,
   status          |-> order.status,
   updated_at      |-> order.updated_at]

Init ==
  /\ \E policy \in FillPolicies : broker = NewBroker(StartingCash, policy)
  /\ portfolio = NewPortfolio(StartingCash)
  /\ orders = <<>>
  /\ bar = NoBar

(* on_fill for each fill; the broker numbers its fills, so none repeats. *)
FillTracked(tracked, fill) == [tracked EXCEPT ![fill.order] = MarkFilled(@, fill)]

(* Mistake: the first new fill is skipped. *)
NewFillsButOne(before, after) ==
  SubSeq(after.fills, Len(before.fills) + 2, Len(after.fills))

NewFills(before, after) ==
  SubSeq(after.fills, Len(before.fills) + 1, Len(after.fills))

(* submit, for each accepted decision of the bar: the broker's answer is
   registered, a rejection too. *)
SubmitAll(b, requests, timestamp) ==
  FoldLeft(LAMBDA acc, request : SubmitOrder(acc, request, timestamp), b, requests)

RegisterNew(tracked, b) ==
  tracked \o [i \in 1..(Len(b.orders) - Len(tracked)) |->
                Snapshot(b.orders[Len(tracked) + i])]

(* The replay is sorted by time and then by symbol, and of a symbol and a time it
   has one bar. *)
ComesNext(current, last) ==
  \/ current.timestamp > last.timestamp
  \/ current.timestamp = last.timestamp /\ Rank[current.symbol] > Rank[last.symbol]

(* step *)
Step(b, timestamp, requests) ==
  LET current   == At(b, timestamp)
      filled    == OnMarketEvent(broker, current)
      fills     == NewFills(broker, filled)
      submitted == SubmitAll(filled, requests, timestamp)
  IN  /\ ComesNext(current, bar)
      /\ Len(broker.orders) + Len(requests) <= MaxOrders
      /\ bar' = current
      /\ broker' = submitted
      /\ portfolio' = MarkToMarket(FoldLeft(ApplyFill, portfolio, fills), b.symbol, b.close)
      /\ orders' = RegisterNew(FoldLeft(FillTracked, orders, fills), submitted)

(* ExecutionEngine.cancel_order: the broker's answer is tracked as it is. *)
Cancel(id) ==
  LET canceled == BrokerCancel(broker, id)
  IN  /\ broker' = canceled
      /\ orders' = [orders EXCEPT ![id] = Snapshot(canceled.orders[id])]
      /\ UNCHANGED <<portfolio, bar>>

Next ==
  \/ \E b \in Bars, timestamp \in 1..MaxTime, requests \in Requests : Step(b, timestamp, requests)
  \/ \E id \in DOMAIN broker.orders : Cancel(id)

Spec == Init /\ [][Next]_vars
-----------------------------------------------------------------------------
TypeOK ==
  /\ broker.cash \in Int
  /\ broker.fill_policy \in FillPolicy
  /\ \A s \in Symbols : broker.positions[s].quantity \in Nat
  /\ \A id \in DOMAIN broker.orders :
       /\ Snapshot(broker.orders[id]) \in OrderRecord
       /\ broker.orders[id].created_at <= broker.last_timestamp
  /\ \A i \in DOMAIN broker.fills : broker.fills[i].quantity > 0 /\ broker.fills[i].price > 0
  /\ orders \in Seq(OrderRecord) /\ Len(orders) = Len(broker.orders)
  /\ bar.timestamp = broker.last_timestamp

(* Two ledgers, one truth: the broker settles its own cash and positions, the
   portfolio books the same fills; after every bar they agree on the cash and on
   every holding and its cost, and no fill was refused.  (They do not agree on
   the value: the broker marks a position before it fills and then leaves it at
   the fill price, the portfolio marks it after.) *)
PortfolioMirrorsBroker ==
  /\ portfolio.cash = broker.cash
  /\ \A s \in Symbols :
       /\ portfolio.positions[s].quantity = broker.positions[s].quantity
       /\ portfolio.positions[s].average_cost = broker.positions[s].average_cost
  /\ Len(portfolio.trade_ledger) = Len(broker.fills)

(* mark_filled and _update_order_after_fill count the shares of an order apart
   from each other and agree, and both are the sum of its fills. *)
FilledBy(id) ==
  SumFunction([i \in DOMAIN broker.fills |->
                 IF broker.fills[i].order = id THEN broker.fills[i].quantity ELSE 0])

FillsAreCounted ==
  \A id \in DOMAIN broker.orders :
    /\ orders[id].filled_quantity = broker.orders[id].filled_quantity
    /\ broker.orders[id].filled_quantity = FilledBy(id)

(* Decisions of one bar are judged on one snapshot and submitted together, and a
   market order is not priced at submission; still the broker never spends cash
   it does not have nor delivers shares it does not hold.  (The instance's
   commissions are below the proceeds of any sale.) *)
NeverOverdrawn ==
  /\ broker.cash >= 0
  /\ portfolio.last_snapshot.cash >= 0

(* No look-ahead and no zombie: an order is filled only by a bar later than the
   decision it came from (the ordered symbol's bar of the same time may follow that
   decision), a DAY order only on its own day, never beyond the quantity it has by
   then, and an order that is not open is never touched again. *)
FillsAreTimely ==
  [][\A id \in DOMAIN broker.orders :
       LET before == broker.orders[id]
           after  == broker'.orders[id]
       IN  /\ after.filled_quantity > before.filled_quantity =>
                /\ bar'.timestamp > before.created_at
                /\ before.time_in_force = "DAY" => Day(bar'.timestamp) = Day(before.created_at)
                /\ before.quantity # NoQuantity => after.filled_quantity <= before.quantity
           /\ before.status \notin OPEN_ORDER_STATUSES => after = before]_vars

(* A fill is of the bar's symbol and at a price that bar has traded at, apart from
   the slippage, and a limit order's is no worse than its limit, for every order
   type and fill policy. *)
BeforeSlippage(fill) ==
  IF fill.side = "BUY" THEN fill.price - fill.slippage ELSE fill.price + fill.slippage

WithinLimit(order, price) ==
  order.type \in {"LIMIT", "STOP_LIMIT"} =>
    IF order.side = "BUY" THEN price <= order.limit_price ELSE price >= order.limit_price

FilledInsideTheBar ==
  [][\A i \in (Len(broker.fills) + 1)..Len(broker'.fills) :
       LET fill == broker'.fills[i]
       IN  /\ fill.symbol = bar'.symbol
           /\ BeforeSlippage(fill) \in bar'.low..bar'.high
           /\ WithinLimit(broker'.orders[fill.order], BeforeSlippage(fill))]_vars

(* INTERFACES.md of list_open_orders: "Open orders only."  An order the
   OrderManager lists as open is open at the broker. *)
OpenOrdersAreOpen ==
  \A id \in DOMAIN orders :
    orders[id].status \in OPEN_ORDER_STATUSES
      => broker.orders[id].status \in OPEN_ORDER_STATUSES
=============================================================================
