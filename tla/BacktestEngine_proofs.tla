------------------------- MODULE BacktestEngine_proofs -------------------------
(***************************************************************************)
(* Theorems about BacktestEngine, for every replay, every request and every  *)
(* bound: the broker's books and the portfolio's agree, fills are counted,   *)
(* timely and inside their bar.  A bar is a fold over the broker's orders, a  *)
(* fold over its new fills, twice, and a fold over the requests; the lemmas   *)
(* say what one element of each does, and follow all of them together.       *)
(***************************************************************************)
EXTENDS BacktestEngine, Accounting_proofs

BrokerOrders ==
  [symbol: Symbols, side: Side, type: OrderType, quantity: Nat, notional: Nat,
   limit_price: Nat, stop_price: Nat, time_in_force: TimeInForce, filled_quantity: Nat,
   status: OrderStatus, created_at: Nat, updated_at: Nat]

BrokerFills ==
  [id: Nat, order: Nat, symbol: Symbols, side: Side, quantity: Nat \ {0}, price: Nat \ {0},
   commission: Nat, slippage: Nat, timestamp: Nat]

Brokers ==
  [orders: Seq(BrokerOrders), fills: Seq(BrokerFills), cash: Int,
   positions: [Symbols -> Position], fill_policy: FillPolicy, last_timestamp: Nat]

(* What the lemmas ask of a bar. *)
IsBar(b) ==
  /\ b.symbol \in Symbols /\ b.timestamp \in Nat
  /\ b.open \in Nat /\ b.high \in Nat /\ b.low \in Nat /\ b.close \in Nat
  /\ 1 <= b.low /\ b.low <= b.open /\ b.low <= b.close /\ b.open <= b.high /\ b.close <= b.high
  /\ \A price \in b.low..b.high : Slippage(price) < price

LEMMA BarFacts ==
  ASSUME NEW b \in Bars, NEW timestamp \in 1..MaxTime
  PROVE  /\ IsBar(At(b, timestamp))
         /\ At(b, timestamp).timestamp = timestamp /\ At(b, timestamp).symbol = b.symbol
         /\ timestamp \in Nat /\ b.symbol \in Symbols /\ b.close \in Nat
<1>1. /\ b \in BarShape /\ b.low \in 1..Smaller(b.open, b.close)
      /\ b.high >= Larger(b.open, b.close)
  BY BarsAssumption
<1>2. /\ b.symbol \in Symbols /\ b.open \in Nat /\ b.high \in Nat /\ b.low \in Nat
      /\ b.close \in Nat
  BY <1>1 DEF BarShape
<1>3. /\ 1 <= b.low /\ b.low <= b.open /\ b.low <= b.close
      /\ b.open <= b.high /\ b.close <= b.high
  BY <1>1, <1>2 DEF Smaller, Larger
<1>4. timestamp \in Nat
  BY BoundsAssumption
<1>5. \A price \in b.low..b.high : Slippage(price) < price
  BY SlippageAssumption
<1>6. QED
  BY <1>2, <1>3, <1>4, <1>5 DEF IsBar, At
-----------------------------------------------------------------------------
(* Prices and amounts. *)
LEMMA SlippageType ==
  ASSUME NEW price \in Nat
  PROVE  Slippage(price) \in Nat
<1>1. SlippageModel.value \in Nat /\ SlippageModel.type \in {"none", "fixed", "bps"}
  BY ModelsAssumption
<1>2. price * SlippageModel.value \in Nat
  BY <1>1
<1>3. (price * SlippageModel.value) \div 10000 \in Nat
  BY <1>2
<1>4. QED
  BY <1>1, <1>3 DEF Slippage

LEMMA CommissionType ==
  ASSUME NEW quantity \in Nat, NEW price \in Nat
  PROVE  Commission(quantity, price) \in Nat
<1>1. /\ CommissionModel.value \in Nat
      /\ CommissionModel.type \in {"none", "fixed", "per_share", "bps"}
  BY ModelsAssumption
<1>2. quantity * CommissionModel.value \in Nat /\ quantity * price \in Nat
  BY <1>1
<1>3. quantity * price * CommissionModel.value \in Nat
  BY <1>1, <1>2
<1>4. (quantity * price * CommissionModel.value) \div 10000 \in Nat
  BY <1>3
<1>5. QED
  BY <1>1, <1>2, <1>4 DEF Commission

LEMMA BasePriceInBar ==
  ASSUME NEW policy \in FillPolicy, NEW b, IsBar(b)
  PROVE  BasePrice(policy, b) \in b.low..b.high
<1>1. /\ b.open \in Nat /\ b.high \in Nat /\ b.low \in Nat /\ b.close \in Nat
      /\ b.low <= b.open /\ b.low <= b.close /\ b.open <= b.high /\ b.close <= b.high
  BY DEF IsBar
<1>2. (b.high + b.low + b.close) \div 3 \in b.low..b.high
  <2> DEFINE h == b.high
             l == b.low
             c == b.close
  <2>1. h \in Int /\ l \in Int /\ c \in Int /\ l <= c /\ c <= h
    BY <1>1
  <2> HIDE DEF h, l, c
  <2>2. l <= (h + l + c) \div 3 /\ (h + l + c) \div 3 <= h /\ (h + l + c) \div 3 \in Int
    BY <2>1
  <2>3. (h + l + c) \div 3 \in l..h
    BY <2>1, <2>2
  <2>4. QED
    BY <2>3 DEF h, l, c
<1>3. b.open \in b.low..b.high /\ b.close \in b.low..b.high
  BY <1>1
<1>4. QED
  BY <1>2, <1>3 DEF BasePrice, FillPolicy

(* An order that is triggered is filled inside the bar and within its limit. *)
LEMMA FillPriceInBar ==
  ASSUME NEW order \in BrokerOrders, NEW b, IsBar(b), Triggered(order, b),
         NEW base \in b.low..b.high
  PROVE  /\ FillPrice(order, base) \in b.low..b.high
         /\ WithinLimit(order, FillPrice(order, base))
<1> DEFINE low == b.low
           high == b.high
           limit == order.limit_price
           stop == order.stop_price
<1>1. /\ low \in Nat /\ high \in Nat /\ limit \in Nat /\ stop \in Nat /\ base \in low..high
      /\ order.side \in {"BUY", "SELL"} /\ order.type \in OrderType
  BY DEF IsBar, BrokerOrders, Side
<1>2. order.type \in {"LIMIT", "STOP_LIMIT"} =>
        IF order.side = "BUY" THEN low <= limit ELSE high >= limit
  BY DEF Triggered, LimitTriggered
<1>3. order.type = "STOP" => IF order.side = "BUY" THEN high >= stop ELSE low <= stop
  BY DEF Triggered, StopTriggered
<1>4. /\ LimitFillPrice(order, base) =
           IF order.side = "BUY" THEN Smaller(base, limit) ELSE Larger(base, limit)
      /\ StopFillPrice(order, base) =
           IF order.side = "BUY" THEN Larger(base, stop) ELSE Smaller(base, stop)
  BY DEF LimitFillPrice, StopFillPrice
<1>5. WithinLimit(order, FillPrice(order, base)) <=>
        (order.type \in {"LIMIT", "STOP_LIMIT"} =>
           IF order.side = "BUY" THEN FillPrice(order, base) <= limit
                                 ELSE FillPrice(order, base) >= limit)
  BY DEF WithinLimit
<1> HIDE DEF low, high, limit, stop
<1>6. CASE order.type = "MARKET"
  BY <1>1, <1>5, <1>6 DEF FillPrice, low, high
<1>7. CASE order.type = "STOP"
  <2>1. StopFillPrice(order, base) \in low..high
    BY <1>1, <1>3, <1>4, <1>7 DEF Larger, Smaller
  <2>2. QED
    BY <1>5, <1>7, <2>1 DEF FillPrice, low, high
<1>8. CASE order.type \in {"LIMIT", "STOP_LIMIT"}
  <2>1. /\ LimitFillPrice(order, base) \in low..high
        /\ IF order.side = "BUY" THEN LimitFillPrice(order, base) <= limit
                                 ELSE LimitFillPrice(order, base) >= limit
    BY <1>1, <1>2, <1>4, <1>8 DEF Larger, Smaller
  <2>2. QED
    BY <1>5, <1>8, <2>1 DEF FillPrice, low, high
<1>9. QED
  BY <1>1, <1>6, <1>7, <1>8 DEF OrderType

LEMMA FillQuantityFacts ==
  ASSUME NEW order \in BrokerOrders, NEW price \in Nat \ {0}
  PROVE  /\ FillQuantity(order, price) \in Nat
         /\ order.quantity # NoQuantity /\ FillQuantity(order, price) > 0 =>
              order.filled_quantity + FillQuantity(order, price) <= order.quantity
<1>1. /\ order.quantity \in Nat /\ order.filled_quantity \in Nat /\ order.notional \in Nat
      /\ MaxFillQuantity \in Nat
  BY ModelsAssumption DEF BrokerOrders
<1>2. order.notional \div price \in Nat
  BY <1>1
<1>3. Larger(order.quantity - order.filled_quantity, 0) \in Nat
  BY <1>1 DEF Larger
<1>4. QED
  BY <1>1, <1>2, <1>3 DEF FillQuantity, Larger, Smaller

LEMMA DayIsMonotonic ==
  ASSUME NEW s \in Nat, NEW t \in Nat, s <= t
  PROVE  Day(s) <= Day(t) /\ Day(s) \in Int /\ Day(t) \in Int
<1> DEFINE k == TicksPerDay
           x == s \div k
           y == t \div k
<1>1. k \in Nat /\ k > 0
  BY ModelsAssumption
<1>2. /\ x \in Int /\ y \in Int
      /\ k * x <= s /\ t < k * (y + 1)
  BY <1>1
<1>3. Day(s) = x /\ Day(t) = y
  BY DEF Day
<1> HIDE DEF x, y, k
<1>4. k * x < k * (y + 1)
  BY <1>1, <1>2
<1>5. x < y + 1
  <2>1. SUFFICES ASSUME y + 1 <= x
                 PROVE  FALSE
    BY <1>2
  <2>2. k * (y + 1) <= k * x
    BY <1>1, <1>2, <2>1
  <2>3. QED
    BY <1>1, <1>2, <1>4, <2>2
<1>6. QED
  BY <1>2, <1>3, <1>5
-----------------------------------------------------------------------------
(* What one bar does to one order: c is the broker, e the bar. *)
LEMMA OrderFacts ==
  ASSUME NEW c \in Brokers, NEW id \in 1..Len(c.orders)
  PROVE  /\ c.orders[id] \in BrokerOrders /\ Len(c.orders) \in Nat
         /\ DOMAIN c.orders = 1..Len(c.orders)
BY DEF Brokers

(* A sequence with one element replaced. *)
LEMMA ReplacedFacts ==
  ASSUME NEW V, NEW s \in Seq(V), NEW i \in 1..Len(s), NEW v \in V
  PROVE  LET q == [s EXCEPT ![i] = v]
         IN  /\ q \in Seq(V) /\ Len(q) = Len(s) /\ q[i] = v
             /\ \A j \in 1..Len(s) : j # i => q[j] = s[j]
<1>1. DOMAIN s = 1..Len(s) /\ Len(s) \in Nat
  OBVIOUS
<1>2. QED
  BY <1>1, ExceptSeq

(* What an order keeps for good. *)
OrderKeeps(before, after) ==
  /\ after.symbol = before.symbol /\ after.side = before.side /\ after.type = before.type
  /\ after.limit_price = before.limit_price /\ after.time_in_force = before.time_in_force
  /\ after.created_at = before.created_at

(* Nothing is filled. *)
Quiet(c, id, q) ==
  /\ q.fills = c.fills /\ q.cash = c.cash /\ q.positions = c.positions
  /\ q.orders[id].filled_quantity = c.orders[id].filled_quantity

CashAfter(c, fill) ==
  IF fill.side = "BUY" THEN c.cash - (fill.quantity * fill.price + fill.commission)
                       ELSE c.cash + fill.quantity * fill.price - fill.commission

PositionAfter(c, fill) ==
  LET held     == c.positions[fill.symbol]
      quantity == IF fill.side = "BUY" THEN held.quantity + fill.quantity
                                       ELSE held.quantity - fill.quantity
  IN  IF quantity = 0 THEN NoPosition
      ELSE [quantity     |-> quantity,
            average_cost |-> IF fill.side = "BUY"
                             THEN (held.quantity * held.average_cost + fill.quantity * fill.price)
                                    \div quantity
                             ELSE held.average_cost,
            market_price |-> fill.price]

(* A fill of the order, priced inside the bar, paid for and delivered. *)
Priced(order, fill, e) ==
  \E base \in e.low..e.high :
    /\ fill.price = ApplySlippage(base, order.side)
    /\ fill.slippage = Slippage(base)
    /\ fill.commission = Commission(fill.quantity, fill.price)
    /\ WithinLimit(order, base)

FillsOrder(c, id, e, fill, q) ==
  /\ fill.id = Len(c.fills) + 1 /\ fill.order = id /\ fill.timestamp = e.timestamp
  /\ fill.symbol = c.orders[id].symbol /\ fill.side = c.orders[id].side
  /\ Priced(c.orders[id], fill, e)
  /\ ~CannotSettle(c, fill)
  /\ q.fills = Append(c.fills, fill)
  /\ q.cash = CashAfter(c, fill)
  /\ q.positions = [c.positions EXCEPT ![fill.symbol] = PositionAfter(c, fill)]
  /\ q.orders[id].filled_quantity = c.orders[id].filled_quantity + fill.quantity
  /\ c.orders[id].quantity # NoQuantity => q.orders[id].filled_quantity <= c.orders[id].quantity

HandleStep(c, id, e, q) ==
  /\ q \in Brokers
  /\ Len(q.orders) = Len(c.orders)
  /\ \A j \in 1..Len(c.orders) : j # id => q.orders[j] = c.orders[j]
  /\ q.fill_policy = c.fill_policy /\ q.last_timestamp = c.last_timestamp
  /\ OrderKeeps(c.orders[id], q.orders[id])
  /\ q.orders[id].updated_at \in {c.orders[id].updated_at, e.timestamp}
  /\ Quiet(c, id, q) \/ \E fill \in BrokerFills : FillsOrder(c, id, e, fill, q)

LEMMA SetStatusFacts ==
  ASSUME NEW c \in Brokers, NEW id \in 1..Len(c.orders), NEW status \in OrderStatus,
         NEW t \in Nat
  PROVE  LET q == SetStatus(c, id, status, t)
         IN  /\ q \in Brokers /\ Len(q.orders) = Len(c.orders)
             /\ \A j \in 1..Len(c.orders) : j # id => q.orders[j] = c.orders[j]
             /\ OrderKeeps(c.orders[id], q.orders[id]) /\ Quiet(c, id, q)
             /\ q.fill_policy = c.fill_policy /\ q.last_timestamp = c.last_timestamp
             /\ q.orders[id].updated_at = t /\ q.orders[id].status = status
             /\ q.orders[id].quantity = c.orders[id].quantity
             /\ q.orders[id].notional = c.orders[id].notional
             /\ q.orders[id].stop_price = c.orders[id].stop_price
<1> DEFINE q == SetStatus(c, id, status, t)
           order == [c.orders[id] EXCEPT !.status = status, !.updated_at = t]
           changed == [c.orders EXCEPT ![id] = order]
<1>1. c.orders[id] \in BrokerOrders /\ c.orders \in Seq(BrokerOrders)
      /\ DOMAIN c.orders = 1..Len(c.orders)
  BY DEF Brokers
<1>2. /\ order \in BrokerOrders /\ OrderKeeps(c.orders[id], order)
      /\ order.updated_at = t /\ order.status = status
      /\ order.filled_quantity = c.orders[id].filled_quantity
      /\ order.quantity = c.orders[id].quantity /\ order.notional = c.orders[id].notional
      /\ order.stop_price = c.orders[id].stop_price
  BY <1>1 DEF BrokerOrders, OrderKeeps
<1>3. q = [c EXCEPT !.orders = changed]
  BY <1>1 DEF SetStatus, Brokers
<1> HIDE DEF order
<1>4. /\ changed \in Seq(BrokerOrders) /\ Len(changed) = Len(c.orders) /\ changed[id] = order
      /\ \A j \in 1..Len(c.orders) : j # id => changed[j] = c.orders[j]
  BY <1>1, <1>2, ReplacedFacts
<1> HIDE DEF changed, q
<1>5. /\ q \in Brokers /\ q.orders = changed
      /\ q.fills = c.fills /\ q.cash = c.cash /\ q.positions = c.positions
      /\ q.fill_policy = c.fill_policy /\ q.last_timestamp = c.last_timestamp
  BY <1>3, <1>4 DEF Brokers
<1>6. QED
  BY <1>2, <1>4, <1>5 DEF q, Quiet

LEMMA SetStatusStep ==
  ASSUME NEW c \in Brokers, NEW id \in 1..Len(c.orders), NEW status \in OrderStatus,
         NEW e, e.timestamp \in Nat
  PROVE  HandleStep(c, id, e, SetStatus(c, id, status, e.timestamp))
<1> DEFINE ts == e.timestamp
           q == SetStatus(c, id, status, ts)
<1>1. ts \in Nat
  OBVIOUS
<1> HIDE DEF ts
<1>2. /\ q \in Brokers /\ Len(q.orders) = Len(c.orders)
      /\ \A j \in 1..Len(c.orders) : j # id => q.orders[j] = c.orders[j]
      /\ OrderKeeps(c.orders[id], q.orders[id]) /\ Quiet(c, id, q)
      /\ q.fill_policy = c.fill_policy /\ q.last_timestamp = c.last_timestamp
      /\ q.orders[id].updated_at = ts
  BY <1>1, SetStatusFacts
<1> HIDE DEF q
<1>3. HandleStep(c, id, e, q)
  BY <1>2 DEF HandleStep, ts
<1>4. QED
  BY <1>3 DEF q, ts

LEMMA StutterStep ==
  ASSUME NEW c \in Brokers, NEW id \in 1..Len(c.orders), NEW e
  PROVE  HandleStep(c, id, e, c) /\ Quiet(c, id, c)
BY DEF HandleStep, Quiet, OrderKeeps

LEMMA PositionAfterType ==
  ASSUME NEW c \in Brokers, NEW fill \in BrokerFills, ~CannotSettle(c, fill)
  PROVE  PositionAfter(c, fill) \in Position /\ CashAfter(c, fill) \in Int
<1> DEFINE held == c.positions[fill.symbol]
           amount == fill.quantity * fill.price
           bought == held.quantity + fill.quantity
           sold == held.quantity - fill.quantity
           cost == held.quantity * held.average_cost + amount
<1>1. /\ fill.symbol \in Symbols /\ fill.side \in Side /\ fill.quantity \in Nat
      /\ fill.quantity > 0 /\ fill.price \in Nat /\ fill.commission \in Nat
      /\ c.cash \in Int /\ c.positions \in [Symbols -> Position]
  BY DEF BrokerFills, Brokers
<1>2. held \in Position
  BY <1>1
<1>3. held.quantity \in Nat /\ held.average_cost \in Int
  BY <1>2 DEF Position
<1>4. amount \in Int
  BY <1>1
<1>5. held.quantity * held.average_cost \in Int
  <2> HIDE DEF held
  <2>1. QED
    BY <1>3
<1>6. bought \in Nat \ {0} /\ cost \in Int
  <2> HIDE DEF held, amount
  <2>1. QED
    BY <1>1, <1>3, <1>4, <1>5
<1>7. cost \div bought \in Int
  <2> HIDE DEF cost, bought
  <2>1. QED
    BY <1>6
<1>8. CASE fill.side = "BUY"
  <2>1. PositionAfter(c, fill) =
          IF bought = 0 THEN NoPosition
          ELSE [quantity |-> bought, average_cost |-> cost \div bought, market_price |-> fill.price]
    BY <1>8 DEF PositionAfter
  <2> HIDE DEF cost, bought
  <2>2. PositionAfter(c, fill) \in Position
    BY <1>1, <1>6, <1>7, <2>1 DEF Position
  <2>3. CashAfter(c, fill) = c.cash - (amount + fill.commission)
    BY <1>8 DEF CashAfter
  <2> HIDE DEF amount
  <2>4. CashAfter(c, fill) \in Int
    BY <1>1, <1>4, <2>3
  <2>5. QED
    BY <2>2, <2>4
<1>9. CASE fill.side = "SELL"
  <2>1. PositionAfter(c, fill) =
          IF sold = 0 THEN NoPosition
          ELSE [quantity |-> sold, average_cost |-> held.average_cost, market_price |-> fill.price]
    BY <1>9 DEF PositionAfter
  <2>2. sold \in Nat
    <3>1. ~(held.quantity < fill.quantity)
      BY <1>9 DEF CannotSettle
    <3> HIDE DEF held
    <3>2. QED
      BY <1>1, <1>3, <3>1
  <2>3. NoPosition \in Position
    BY DEF NoPosition, Position
  <2>4. PositionAfter(c, fill) \in Position
    <3> HIDE DEF sold, held
    <3>1. QED
      BY <1>1, <1>3, <2>1, <2>2, <2>3 DEF Position
  <2>5. CashAfter(c, fill) = c.cash + amount - fill.commission
    BY <1>9 DEF CashAfter
  <2> HIDE DEF amount
  <2>6. CashAfter(c, fill) \in Int
    BY <1>1, <1>4, <2>5
  <2>7. QED
    BY <2>4, <2>6
<1>10. QED
  BY <1>1, <1>8, <1>9 DEF Side

(* A fill that is due, paid for and delivered. *)
LEMMA FilledStep ==
  ASSUME NEW c \in Brokers, NEW id \in 1..Len(c.orders), NEW e, IsBar(e),
         NEW base \in e.low..e.high, NEW quantity \in Nat \ {0},
         WithinLimit(c.orders[id], base),
         c.orders[id].quantity # NoQuantity =>
           c.orders[id].filled_quantity + quantity <= c.orders[id].quantity,
         ~CannotSettle(c, NewFill(c, id, quantity, base, e.timestamp))
  PROVE  LET fill == NewFill(c, id, quantity, base, e.timestamp)
         IN  HandleStep(c, id, e, UpdateOrderAfterFill(Settle(c, fill), id, fill))
<1> DEFINE order == c.orders[id]
           fill == NewFill(c, id, quantity, base, e.timestamp)
           price == ApplySlippage(base, order.side)
           target == IF order.quantity # NoQuantity THEN order.quantity
                     ELSE order.notional \div fill.price
           filled == order.filled_quantity + fill.quantity
           status == IF filled >= target THEN "FILLED" ELSE "PARTIALLY_FILLED"
           updated == [order EXCEPT !.quantity = target, !.filled_quantity = filled,
                                    !.status = status, !.updated_at = fill.timestamp]
           changed == [c.orders EXCEPT ![id] = updated]
           settled == Settle(c, fill)
           q == UpdateOrderAfterFill(settled, id, fill)
<1>1. /\ order \in BrokerOrders /\ c.orders \in Seq(BrokerOrders)
      /\ DOMAIN c.orders = 1..Len(c.orders) /\ id \in Nat
      /\ c.fills \in Seq(BrokerFills) /\ c.positions \in [Symbols -> Position]
  BY OrderFacts DEF Brokers
<1>2. /\ e.timestamp \in Nat /\ base \in Nat \ {0} /\ Slippage(base) < base
      /\ e.low \in Nat /\ e.high \in Nat
  BY DEF IsBar
<1>3. /\ Slippage(base) \in Nat
  BY <1>2, SlippageType
<1>4. price \in Nat \ {0}
  BY <1>2, <1>3 DEF ApplySlippage
<1>5. Commission(quantity, price) \in Nat
  <2> HIDE DEF price
  <2>1. QED
    BY <1>4, CommissionType
<1>6. /\ fill.id = Len(c.fills) + 1 /\ fill.order = id /\ fill.symbol = order.symbol
      /\ fill.side = order.side /\ fill.quantity = quantity /\ fill.price = price
      /\ fill.commission = Commission(quantity, price) /\ fill.slippage = Slippage(base)
      /\ fill.timestamp = e.timestamp
  BY DEF NewFill
<1>7. fill \in BrokerFills
  <2>1. /\ order.symbol \in Symbols /\ order.side \in Side /\ Len(c.fills) + 1 \in Nat
    <3>1. order \in BrokerOrders /\ Len(c.fills) + 1 \in Nat
      BY <1>1
    <3> HIDE DEF order
    <3>2. QED
      BY <3>1 DEF BrokerOrders
  <2>2. fill = [id |-> Len(c.fills) + 1, order |-> id, symbol |-> order.symbol,
                side |-> order.side, quantity |-> quantity, price |-> price,
                commission |-> Commission(quantity, price), slippage |-> Slippage(base),
                timestamp |-> e.timestamp]
    BY DEF NewFill
  <2> HIDE DEF fill, price, order
  <2>3. QED
    BY <1>1, <1>2, <1>3, <1>4, <1>5, <2>1, <2>2 DEF BrokerFills
<1>8. ~CannotSettle(c, fill)
  OBVIOUS
<1>9. PositionAfter(c, fill) \in Position /\ CashAfter(c, fill) \in Int
  <2> HIDE DEF fill
  <2>1. QED
    BY <1>7, <1>8, PositionAfterType
<1>10. Priced(order, fill, e)
  BY <1>6 DEF Priced
<1> HIDE DEF fill, price
<1>11. settled = [c EXCEPT !.fills = Append(c.fills, fill), !.cash = CashAfter(c, fill),
                           !.positions = [c.positions EXCEPT ![fill.symbol] =
                                            PositionAfter(c, fill)]]
  BY <1>1 DEF Settle, CashAfter, PositionAfter, Brokers
<1> DEFINE positions == [c.positions EXCEPT ![fill.symbol] = PositionAfter(c, fill)]
           fills == Append(c.fills, fill)
<1>12. positions \in [Symbols -> Position] /\ fills \in Seq(BrokerFills)
  <2>1. fill.symbol \in Symbols
    BY <1>7 DEF BrokerFills
  <2>2. QED
    BY <1>1, <1>7, <1>9, <2>1
<1> HIDE DEF positions, fills
<1>13. settled = [orders |-> c.orders, fills |-> fills, cash |-> CashAfter(c, fill),
                  positions |-> positions, fill_policy |-> c.fill_policy,
                  last_timestamp |-> c.last_timestamp]
  BY <1>11 DEF positions, fills, Brokers
<1> HIDE DEF settled
<1>14. q = [settled EXCEPT !.orders = changed]
  BY <1>13 DEF UpdateOrderAfterFill
<1>15. q = [orders |-> changed, fills |-> fills, cash |-> CashAfter(c, fill),
            positions |-> positions, fill_policy |-> c.fill_policy,
            last_timestamp |-> c.last_timestamp]
  <2> HIDE DEF changed, q
  <2>1. QED
    BY <1>13, <1>14
<1>16. target \in Nat /\ filled \in Nat
  <2>1. /\ order.quantity \in Nat /\ order.notional \in Nat /\ order.filled_quantity \in Nat
        /\ fill.price \in Nat \ {0} /\ fill.quantity \in Nat
    BY <1>1, <1>7 DEF BrokerOrders, BrokerFills
  <2>2. order.notional \div fill.price \in Nat
    <3> DEFINE m == order.notional
               k == fill.price
    <3>1. m \in Nat /\ k \in Nat \ {0}
      BY <2>1
    <3> HIDE DEF m, k
    <3>2. m \div k \in Nat
      BY <3>1
    <3>3. QED
      BY <3>2 DEF m, k
  <2>3. QED
    BY SMTT(20), <2>1, <2>2
<1>17. status \in OrderStatus
  BY DEF OrderStatus, OPEN_ORDER_STATUSES, TERMINAL_STATUSES
<1> HIDE DEF target, filled, status
<1>18. /\ updated \in BrokerOrders /\ OrderKeeps(order, updated)
       /\ updated.filled_quantity = filled /\ updated.updated_at = e.timestamp
  BY <1>1, <1>2, <1>6, <1>16, <1>17 DEF BrokerOrders, OrderKeeps
<1> HIDE DEF updated
<1>19. /\ changed \in Seq(BrokerOrders) /\ Len(changed) = Len(c.orders) /\ changed[id] = updated
       /\ \A j \in 1..Len(c.orders) : j # id => changed[j] = c.orders[j]
  <2> HIDE DEF order
  <2>1. QED
    BY <1>1, <1>18, ReplacedFacts
<1> HIDE DEF changed, q
<1>20. /\ q \in Brokers /\ q.orders = changed /\ q.fills = fills /\ q.cash = CashAfter(c, fill)
       /\ q.positions = positions
       /\ q.fill_policy = c.fill_policy /\ q.last_timestamp = c.last_timestamp
  BY <1>9, <1>12, <1>15, <1>19 DEF Brokers
<1>21. /\ q.orders[id].filled_quantity = c.orders[id].filled_quantity + fill.quantity
       /\ c.orders[id].quantity # NoQuantity =>
            q.orders[id].filled_quantity <= c.orders[id].quantity
  BY <1>6, <1>18, <1>19, <1>20 DEF filled
<1>22. FillsOrder(c, id, e, fill, q)
  BY <1>6, <1>8, <1>10, <1>20, <1>21 DEF FillsOrder, fills, positions
<1>23. HandleStep(c, id, e, q)
  BY <1>7, <1>18, <1>19, <1>20, <1>22 DEF HandleStep
<1>24. QED
  BY <1>23 DEF q, fill, settled

LEMMA TryFillStep ==
  ASSUME NEW c \in Brokers, NEW id \in 1..Len(c.orders), NEW e, IsBar(e)
  PROVE  HandleStep(c, id, e, TryFill(c, id, e))
<1> DEFINE order == c.orders[id]
           base == FillPrice(order, BasePrice(c.fill_policy, e))
           quantity == FillQuantity(order, base)
           fill == NewFill(c, id, quantity, base, e.timestamp)
           q == TryFill(c, id, e)
<1>1. order \in BrokerOrders /\ c.fill_policy \in FillPolicy
  BY OrderFacts DEF Brokers
<1>2. e.timestamp \in Nat /\ 1 <= e.low /\ e.low \in Nat /\ e.high \in Nat
  BY DEF IsBar
<1>3. q = CASE ~Triggered(order, e) -> c
            [] Triggered(order, e) /\ quantity <= 0 -> c
            [] Triggered(order, e) /\ quantity > 0 /\ CannotSettle(c, fill) ->
                 SetStatus(c, id, "REJECTED", e.timestamp)
            [] OTHER -> UpdateOrderAfterFill(Settle(c, fill), id, fill)
  BY DEF TryFill
<1>4. CASE ~Triggered(order, e)
  BY <1>3, <1>4, StutterStep
<1>5. CASE Triggered(order, e)
  <2>1. BasePrice(c.fill_policy, e) \in e.low..e.high
    BY <1>1, BasePriceInBar
  <2>2. base \in e.low..e.high /\ WithinLimit(order, base)
    <3> HIDE DEF order
    <3>1. QED
      BY <1>1, <1>5, <2>1, FillPriceInBar
  <2> HIDE DEF base
  <2>3. base \in Nat \ {0}
    BY <1>2, <2>2
  <2>4. /\ quantity \in Nat
        /\ order.quantity # NoQuantity /\ quantity > 0 =>
             order.filled_quantity + quantity <= order.quantity
    <3> HIDE DEF order
    <3>1. QED
      BY <1>1, <2>3, FillQuantityFacts
  <2> HIDE DEF quantity
  <2>5. CASE quantity = 0
    BY <1>3, <1>5, <2>5, StutterStep
  <2>6. CASE quantity # 0 /\ CannotSettle(c, fill)
    <3>1. quantity > 0 /\ ~(quantity <= 0)
      BY <2>4, <2>6
    <3>2. q = SetStatus(c, id, "REJECTED", e.timestamp)
      BY <1>3, <1>5, <2>6, <3>1
    <3>3. "REJECTED" \in OrderStatus
      BY DEF OrderStatus, TERMINAL_STATUSES
    <3> HIDE DEF q
    <3>4. QED
      BY <1>2, <3>2, <3>3, SetStatusStep DEF q
  <2>7. CASE quantity # 0 /\ ~CannotSettle(c, fill)
    <3>1. quantity > 0 /\ ~(quantity <= 0) /\ quantity \in Nat \ {0}
      BY <2>4, <2>7
    <3>2. q = UpdateOrderAfterFill(Settle(c, fill), id, fill)
      BY <1>3, <1>5, <2>7, <3>1
    <3>3. HandleStep(c, id, e, UpdateOrderAfterFill(Settle(c, fill), id, fill))
      BY <2>2, <2>4, <2>7, <3>1, FilledStep
    <3> HIDE DEF fill
    <3>4. QED
      BY <3>2, <3>3
  <2>8. QED
    BY <2>5, <2>6, <2>7
<1>6. QED
  BY <1>4, <1>5

(* The order is marked as submitted first, which is no more than a status. *)
LEMMA SubmittedThen ==
  ASSUME NEW c \in Brokers, NEW id \in 1..Len(c.orders), NEW e, IsBar(e),
         NEW d \in Brokers, Len(d.orders) = Len(c.orders),
         \A j \in 1..Len(c.orders) : j # id => d.orders[j] = c.orders[j],
         OrderKeeps(c.orders[id], d.orders[id]), Quiet(c, id, d),
         d.fill_policy = c.fill_policy, d.last_timestamp = c.last_timestamp,
         d.orders[id].updated_at \in {c.orders[id].updated_at, e.timestamp},
         d.orders[id].quantity = c.orders[id].quantity,
         NEW q, HandleStep(d, id, e, q)
  PROVE  HandleStep(c, id, e, q)
<1>1. /\ q \in Brokers /\ Len(q.orders) = Len(c.orders)
      /\ \A j \in 1..Len(c.orders) : j # id => q.orders[j] = c.orders[j]
      /\ q.fill_policy = c.fill_policy /\ q.last_timestamp = c.last_timestamp
      /\ OrderKeeps(c.orders[id], q.orders[id])
      /\ q.orders[id].updated_at \in {c.orders[id].updated_at, e.timestamp}
  BY DEF HandleStep, OrderKeeps
<1>2. CASE Quiet(d, id, q)
  <2>1. Quiet(c, id, q)
    BY <1>2 DEF Quiet
  <2>2. QED
    BY <1>1, <2>1 DEF HandleStep
<1>3. CASE ~Quiet(d, id, q)
  <2>1. PICK fill \in BrokerFills : FillsOrder(d, id, e, fill, q)
    BY <1>3 DEF HandleStep
  <2>2. /\ d.fills = c.fills /\ d.cash = c.cash /\ d.positions = c.positions
        /\ d.orders[id].filled_quantity = c.orders[id].filled_quantity
    BY DEF Quiet
  <2>3. CashAfter(d, fill) = CashAfter(c, fill) /\ PositionAfter(d, fill) = PositionAfter(c, fill)
        /\ (CannotSettle(d, fill) <=> CannotSettle(c, fill))
    BY <2>2 DEF CashAfter, PositionAfter, CannotSettle
  <2>4. Priced(d.orders[id], fill, e) => Priced(c.orders[id], fill, e)
    <3> DEFINE o == c.orders[id]
               r == d.orders[id]
    <3>1. r.side = o.side /\ r.type = o.type /\ r.limit_price = o.limit_price
      BY DEF OrderKeeps
    <3> HIDE DEF o, r
    <3>2. \A base : WithinLimit(r, base) <=> WithinLimit(o, base)
      BY <3>1 DEF WithinLimit
    <3>3. Priced(r, fill, e) => Priced(o, fill, e)
      BY <3>1, <3>2 DEF Priced
    <3>4. QED
      BY <3>3 DEF o, r
  <2>5. d.orders[id].symbol = c.orders[id].symbol /\ d.orders[id].side = c.orders[id].side
    BY DEF OrderKeeps
  <2>6. FillsOrder(c, id, e, fill, q)
    BY <2>1, <2>2, <2>3, <2>4, <2>5 DEF FillsOrder
  <2>7. QED
    BY <1>1, <2>6 DEF HandleStep
<1>4. QED
  BY <1>2, <1>3

(* A bar fills an order of its symbol that is open, older than the bar and not
   expired, and leaves a closed order, and another symbol's, alone. *)
IsDue(order, e) ==
  /\ order.symbol = e.symbol
  /\ order.status \in OPEN_ORDER_STATUSES
  /\ e.timestamp > order.created_at

LEMMA HandleOrderStep ==
  ASSUME NEW c \in Brokers, NEW id \in 1..Len(c.orders), NEW e, IsBar(e)
  PROVE  LET q == HandleOrder(c, id, e)
         IN  /\ HandleStep(c, id, e, q)
             /\ c.orders[id].status \notin OPEN_ORDER_STATUSES \/ c.orders[id].symbol # e.symbol
                  => q = c
             /\ Quiet(c, id, q) \/ /\ IsDue(c.orders[id], e)
                                   /\ ~Expires(c.orders[id], e.timestamp)
<1> DEFINE order == c.orders[id]
           open == order.symbol = e.symbol /\ order.status \in OPEN_ORDER_STATUSES
           due == ~Expires(order, e.timestamp) /\ e.timestamp > order.created_at
           q == HandleOrder(c, id, e)
           d == MarkSubmitted(c, id, e.timestamp)
<1>1. q = CASE open /\ Expires(order, e.timestamp) -> SetStatus(c, id, "EXPIRED", e.timestamp)
            [] open /\ ~Expires(order, e.timestamp) /\ e.timestamp > order.created_at ->
                 TryFill(d, id, e)
            [] OTHER -> c
  BY DEF HandleOrder
<1>2. e.timestamp \in Nat
  BY DEF IsBar
<1>3. CASE ~open \/ (~Expires(order, e.timestamp) /\ ~(e.timestamp > order.created_at))
  <2>1. q = c
    BY <1>1, <1>3
  <2>2. QED
    BY <2>1, StutterStep
<1>4. CASE open /\ Expires(order, e.timestamp)
  <2>1. q = SetStatus(c, id, "EXPIRED", e.timestamp)
    BY <1>1, <1>4
  <2>2. "EXPIRED" \in OrderStatus
    BY DEF OrderStatus, TERMINAL_STATUSES
  <2>3. HandleStep(c, id, e, q)
    BY <1>2, <2>1, <2>2, SetStatusStep
  <2>4. Quiet(c, id, q)
    <3> DEFINE ts == e.timestamp
               r == SetStatus(c, id, "EXPIRED", ts)
    <3>1. ts \in Nat
      BY <1>2
    <3> HIDE DEF ts
    <3>2. Quiet(c, id, r)
      BY <2>2, <3>1, SetStatusFacts
    <3> HIDE DEF r
    <3>3. QED
      BY <2>1, <3>2 DEF r, ts
  <2>5. QED
    BY <1>4, <2>3, <2>4
<1>5. CASE open /\ due
  <2>1. q = TryFill(d, id, e)
    BY <1>1, <1>5
  <2>2. /\ d \in Brokers /\ Len(d.orders) = Len(c.orders)
        /\ \A j \in 1..Len(c.orders) : j # id => d.orders[j] = c.orders[j]
        /\ OrderKeeps(c.orders[id], d.orders[id]) /\ Quiet(c, id, d)
        /\ d.fill_policy = c.fill_policy /\ d.last_timestamp = c.last_timestamp
        /\ d.orders[id].updated_at \in {c.orders[id].updated_at, e.timestamp}
        /\ d.orders[id].quantity = c.orders[id].quantity
    <3> DEFINE ts == e.timestamp
               r == SetStatus(c, id, "SUBMITTED", ts)
    <3>1. ts \in Nat /\ "SUBMITTED" \in OrderStatus
      BY <1>2 DEF OrderStatus, OPEN_ORDER_STATUSES
    <3>2. d = IF order.status = "ACCEPTED" THEN r ELSE c
      BY DEF MarkSubmitted
    <3> HIDE DEF ts
    <3>3. /\ r \in Brokers /\ Len(r.orders) = Len(c.orders)
          /\ \A j \in 1..Len(c.orders) : j # id => r.orders[j] = c.orders[j]
          /\ OrderKeeps(c.orders[id], r.orders[id]) /\ Quiet(c, id, r)
          /\ r.fill_policy = c.fill_policy /\ r.last_timestamp = c.last_timestamp
          /\ r.orders[id].updated_at = ts
          /\ r.orders[id].quantity = c.orders[id].quantity
      BY <3>1, SetStatusFacts
    <3> HIDE DEF r, d
    <3>4. CASE order.status = "ACCEPTED"
      BY <3>2, <3>3, <3>4 DEF ts
    <3>5. CASE order.status # "ACCEPTED"
      BY <3>2, <3>5 DEF OrderKeeps, Quiet
    <3>6. QED
      BY <3>4, <3>5
  <2> HIDE DEF d
  <2>3. HandleStep(d, id, e, TryFill(d, id, e))
    BY <2>2, TryFillStep
  <2>4. HandleStep(c, id, e, q)
    BY <2>1, <2>2, <2>3, SubmittedThen
  <2>5. IsDue(order, e)
    BY <1>5 DEF IsDue
  <2>6. QED
    BY <1>5, <2>4, <2>5
<1>6. \/ ~open \/ (~Expires(order, e.timestamp) /\ ~(e.timestamp > order.created_at))
      \/ open /\ Expires(order, e.timestamp)
      \/ open /\ due
  OBVIOUS
<1> HIDE DEF q, open, due
<1>7. /\ HandleStep(c, id, e, q)
      /\ c.orders[id].status \notin OPEN_ORDER_STATUSES \/ c.orders[id].symbol # e.symbol
           => q = c
      /\ Quiet(c, id, q) \/ /\ IsDue(c.orders[id], e)
                            /\ ~Expires(c.orders[id], e.timestamp)
  BY <1>3, <1>4, <1>5, <1>6, Zenon DEF q
<1>8. QED
  BY <1>7 DEF q
-----------------------------------------------------------------------------
(* All the orders of a bar: c is the broker before the first of them, q the
   broker after order i. *)
Continues(s, r) == Len(s) <= Len(r) /\ \A k \in 1..Len(s) : r[k] = s[k]

Inside(order, fill, e) ==
  /\ BeforeSlippage(fill) \in e.low..e.high
  /\ WithinLimit(order, BeforeSlippage(fill))

FilledIn(fills, id) ==
  SumFunction([k \in DOMAIN fills |-> IF fills[k].order = id THEN fills[k].quantity ELSE 0])

Counted(c) == \A id \in 1..Len(c.orders) : c.orders[id].filled_quantity = FilledIn(c.fills, id)

(* A sale brings in at least what its commission takes. *)
ProceedsCover(e) ==
  \A price \in e.low..e.high : \A quantity \in Nat \ {0} :
    Commission(quantity, price - Slippage(price)) <= quantity * (price - Slippage(price))

Timely(order, e) ==
  /\ e.timestamp > order.created_at
  /\ order.time_in_force = "DAY" => Day(e.timestamp) = Day(order.created_at)

(* What a bar may do to one order. *)
OrderStep(before, after, e) ==
  /\ OrderKeeps(before, after)
  /\ after.updated_at \in {before.updated_at, e.timestamp}
  /\ before.status \notin OPEN_ORDER_STATUSES => after = before
  /\ after.filled_quantity > before.filled_quantity =>
       /\ Timely(before, e)
       /\ before.quantity # NoQuantity => after.filled_quantity <= before.quantity

OrdersSoFar(c, q, e, i) ==
  \A j \in 1..Len(c.orders) : /\ OrderStep(c.orders[j], q.orders[j], e)
                              /\ j > i => q.orders[j] = c.orders[j]

FillsSoFar(c, q, e) ==
  \A k \in (Len(c.fills) + 1)..Len(q.fills) :
    /\ q.fills[k].timestamp = e.timestamp
    /\ q.fills[k].order \in 1..Len(c.orders)
    /\ q.fills[k].symbol = e.symbol
    /\ Inside(c.orders[q.fills[k].order], q.fills[k], e)

BarPrefix(c, q, e, i) ==
  /\ q \in Brokers /\ Len(q.orders) = Len(c.orders)
  /\ q.fill_policy = c.fill_policy /\ q.last_timestamp = c.last_timestamp
  /\ Continues(c.fills, q.fills)
  /\ OrdersSoFar(c, q, e, i)
  /\ FillsSoFar(c, q, e)
  /\ Counted(c) => Counted(q)
  /\ ProceedsCover(e) /\ c.cash >= 0 => q.cash >= 0

LEMMA AppendContinues ==
  ASSUME NEW V, NEW s \in Seq(V), NEW r \in Seq(V), Continues(s, r), NEW v \in V
  PROVE  LET a == Append(r, v)
         IN  /\ Continues(s, a) /\ Continues(r, a)
             /\ a \in Seq(V) /\ Len(a) = Len(r) + 1 /\ a[Len(r) + 1] = v
             /\ \A k \in 1..Len(r) : a[k] = r[k]
<1> DEFINE a == Append(r, v)
<1>1. /\ a \in Seq(V) /\ Len(a) = Len(r) + 1 /\ a[Len(r) + 1] = v
      /\ \A k \in 1..Len(r) : a[k] = r[k]
      /\ Len(r) \in Nat /\ Len(s) \in Nat
  BY AppendProperties
<1> HIDE DEF a
<1>2. Continues(r, a)
  BY <1>1 DEF Continues
<1>3. Continues(s, a)
  BY <1>1 DEF Continues
<1>4. QED
  BY <1>1, <1>2, <1>3 DEF a

LEMMA PricedIsInside ==
  ASSUME NEW order, NEW fill, NEW e, IsBar(e), order.side \in Side,
         fill.side = order.side, Priced(order, fill, e)
  PROVE  Inside(order, fill, e)
<1>1. PICK base \in e.low..e.high : /\ fill.price = ApplySlippage(base, order.side)
                                    /\ fill.slippage = Slippage(base)
                                    /\ WithinLimit(order, base)
  BY DEF Priced
<1>2. base \in Nat /\ Slippage(base) \in Nat
  BY SlippageType DEF IsBar
<1> DEFINE slip == Slippage(base)
           price == fill.price
<1>3. BeforeSlippage(fill) = base
  <2>1. price = IF order.side = "BUY" THEN base + slip ELSE base - slip
    BY <1>1 DEF ApplySlippage
  <2>2. BeforeSlippage(fill) = IF order.side = "BUY" THEN price - slip ELSE price + slip
    BY <1>1 DEF BeforeSlippage
  <2>3. slip \in Nat
    BY <1>2
  <2> HIDE DEF slip, price
  <2>4. QED
    BY <1>2, <2>1, <2>2, <2>3
<1>4. QED
  BY <1>1, <1>3 DEF Inside

LEMMA FilledInAppend ==
  ASSUME NEW fills \in Seq(BrokerFills), NEW fill \in BrokerFills, NEW id
  PROVE  FilledIn(Append(fills, fill), id) =
           FilledIn(fills, id) + IF fill.order = id THEN fill.quantity ELSE 0
<1> DEFINE n == Len(fills)
           a == Append(fills, fill)
           f == [k \in 1..n |-> IF fills[k].order = id THEN fills[k].quantity ELSE 0]
           d == [k \in 1..(n + 1) |-> IF a[k].order = id THEN a[k].quantity ELSE 0]
<1>1. /\ n \in Nat /\ a \in Seq(BrokerFills) /\ Len(a) = n + 1 /\ a[n + 1] = fill
      /\ \A k \in 1..n : a[k] = fills[k] /\ fills[k] \in BrokerFills
  BY AppendProperties
<1>2. \A k \in 1..(n + 1) : a[k] \in BrokerFills
  BY <1>1
<1>3. \A r \in BrokerFills : r.quantity \in Int
  BY DEF BrokerFills
<1>4. f \in [1..n -> Int] /\ d \in [1..(n + 1) -> Int] /\ \A k \in 1..n : d[k] = f[k]
  <2> HIDE DEF a, n
  <2>1. QED
    BY <1>1, <1>2, <1>3
<1>5. DOMAIN a = 1..(n + 1) /\ DOMAIN fills = 1..n
  <2> HIDE DEF a
  <2>1. QED
    BY <1>1
<1>6. FilledIn(a, id) = SumFunction(d) /\ FilledIn(fills, id) = SumFunction(f)
  BY <1>5 DEF FilledIn
<1>7. d[n + 1] = IF fill.order = id THEN fill.quantity ELSE 0
  <2>1. n + 1 \in 1..(n + 1)
    BY <1>1
  <2> HIDE DEF a, n
  <2>2. QED
    BY <1>1, <2>1
<1> HIDE DEF f, d, a, n
<1>8. SumFunction(d) = SumFunction(f) + d[n + 1]
  BY <1>1, <1>4, SumMore
<1>9. QED
  BY <1>6, <1>7, <1>8 DEF a

LEMMA NotExpiredIsTimely ==
  ASSUME NEW order \in BrokerOrders, NEW e, IsBar(e), e.timestamp > order.created_at,
         ~Expires(order, e.timestamp)
  PROVE  Timely(order, e)
<1> DEFINE s == order.created_at
           t == e.timestamp
<1>1. s \in Nat /\ t \in Nat /\ s < t
  BY DEF BrokerOrders, IsBar
<1>2. ~(order.time_in_force = "DAY" /\ Day(t) > Day(s))
  BY DEF Expires
<1> HIDE DEF s, t
<1>3. Day(s) <= Day(t) /\ Day(s) \in Int /\ Day(t) \in Int
  BY <1>1, DayIsMonotonic
<1>4. order.time_in_force = "DAY" => Day(t) = Day(s)
  BY <1>2, <1>3
<1>5. t > s
  BY <1>1
<1>6. QED
  BY <1>4, <1>5 DEF Timely, s, t

(* The cash a fill leaves. *)
LEMMA FillLeavesCash ==
  ASSUME NEW c \in Brokers, NEW fill \in BrokerFills, ~CannotSettle(c, fill),
         NEW order, fill.side = order.side, NEW e, IsBar(e), Priced(order, fill, e),
         ProceedsCover(e), c.cash >= 0
  PROVE  CashAfter(c, fill) >= 0
<1> DEFINE cash == c.cash
           quantity == fill.quantity
           price == fill.price
           amount == quantity * price
           commission == fill.commission
<1>1. /\ quantity \in Nat \ {0} /\ price \in Nat /\ commission \in Nat /\ fill.side \in Side
      /\ cash \in Int /\ cash >= 0
  BY DEF BrokerFills, Brokers
<1>2. amount \in Int
  <2> HIDE DEF quantity, price
  <2>1. QED
    BY <1>1
<1>3. CASE fill.side = "BUY"
  <2>1. CashAfter(c, fill) = cash - (amount + commission)
    BY <1>3 DEF CashAfter
  <2>2. ~(amount + commission > cash)
    BY <1>3 DEF CannotSettle
  <2> HIDE DEF cash, amount, commission
  <2>3. QED
    BY <1>1, <1>2, <2>1, <2>2
<1>4. CASE fill.side = "SELL"
  <2>1. CashAfter(c, fill) = cash + amount - commission
    BY <1>4 DEF CashAfter
  <2>2. PICK base \in e.low..e.high : /\ fill.price = ApplySlippage(base, order.side)
                                      /\ fill.commission = Commission(fill.quantity, fill.price)
    BY DEF Priced
  <2>3. price = base - Slippage(base) /\ commission = Commission(quantity, price)
    BY <1>4, <2>2 DEF ApplySlippage
  <2>4. Commission(quantity, base - Slippage(base)) <= quantity * (base - Slippage(base))
    BY <1>1, <2>2 DEF ProceedsCover
  <2>5. commission <= amount
    BY <2>3, <2>4
  <2> HIDE DEF cash, amount, commission
  <2>6. QED
    BY <1>1, <1>2, <2>1, <2>5
<1>5. QED
  BY <1>1, <1>3, <1>4 DEF Side

LEMMA HandleKeepsPrefix ==
  ASSUME NEW c \in Brokers, NEW e, IsBar(e), NEW i \in 1..Len(c.orders),
         NEW d, BarPrefix(c, d, e, i - 1)
  PROVE  BarPrefix(c, HandleOrder(d, i, e), e, i)
<1> DEFINE q == HandleOrder(d, i, e)
           n == Len(c.orders)
<1>1. /\ d \in Brokers /\ Len(d.orders) = n /\ n \in Nat /\ i \in Nat
      /\ d.fill_policy = c.fill_policy /\ d.last_timestamp = c.last_timestamp
      /\ Continues(c.fills, d.fills)
      /\ c.fills \in Seq(BrokerFills) /\ d.fills \in Seq(BrokerFills)
  BY OrderFacts DEF BarPrefix, Brokers
<1>2. d.orders[i] = c.orders[i]
  <2>1. OrdersSoFar(c, d, e, i - 1) /\ i > i - 1
    BY <1>1 DEF BarPrefix
  <2>2. QED
    BY <2>1 DEF OrdersSoFar
<1>3. /\ HandleStep(d, i, e, q)
      /\ d.orders[i].status \notin OPEN_ORDER_STATUSES => q = d
      /\ Quiet(d, i, q) \/ /\ IsDue(d.orders[i], e)
                           /\ ~Expires(d.orders[i], e.timestamp)
  BY <1>1, HandleOrderStep
<1> HIDE DEF q
<1>4. /\ q \in Brokers /\ Len(q.orders) = n
      /\ \A j \in 1..n : j # i => q.orders[j] = d.orders[j]
      /\ q.fill_policy = c.fill_policy /\ q.last_timestamp = c.last_timestamp
      /\ OrderKeeps(c.orders[i], q.orders[i])
      /\ q.orders[i].updated_at \in {c.orders[i].updated_at, e.timestamp}
  BY <1>1, <1>2, <1>3 DEF HandleStep
<1>5. c.orders[i].status \notin OPEN_ORDER_STATUSES => q.orders[i] = c.orders[i]
  BY <1>2, <1>3
<1>6. ASSUME NEW j \in 1..n, j # i
      PROVE  OrderStep(c.orders[j], q.orders[j], e) /\ (j > i => q.orders[j] = c.orders[j])
  <2>1. /\ OrderStep(c.orders[j], d.orders[j], e)
        /\ j > i - 1 => d.orders[j] = c.orders[j]
    <3>1. OrdersSoFar(c, d, e, i - 1)
      BY DEF BarPrefix
    <3>2. QED
      BY <3>1 DEF OrdersSoFar
  <2>2. q.orders[j] = d.orders[j] /\ (j > i => j > i - 1)
    BY <1>1, <1>4, <1>6
  <2>3. QED
    BY <2>1, <2>2
<1>7. c.orders[i] \in BrokerOrders /\ d.orders[i] \in BrokerOrders
  BY <1>2, OrderFacts
<1>8. CASE Quiet(d, i, q)
  <2>1. /\ q.fills = d.fills /\ q.cash = d.cash
        /\ q.orders[i].filled_quantity = c.orders[i].filled_quantity
    BY <1>2, <1>8 DEF Quiet
  <2>2. ~(q.orders[i].filled_quantity > c.orders[i].filled_quantity)
    <3>1. c.orders[i].filled_quantity \in Nat
      BY <1>7 DEF BrokerOrders
    <3>2. QED
      BY <2>1, <3>1
  <2>3. OrderStep(c.orders[i], q.orders[i], e)
    BY <1>4, <1>5, <2>2 DEF OrderStep
  <2>4. OrdersSoFar(c, q, e, i)
    BY <1>1, <1>6, <2>3 DEF OrdersSoFar
  <2>5. Counted(c) => Counted(q)
    <3>1. Counted(c) => Counted(d)
      BY DEF BarPrefix
    <3>2. \A j \in 1..n : q.orders[j].filled_quantity = d.orders[j].filled_quantity
      BY <1>4, <1>8 DEF Quiet
    <3>3. QED
      BY <1>1, <1>4, <2>1, <3>1, <3>2 DEF Counted
  <2>6. FillsSoFar(c, q, e)
    BY <2>1 DEF BarPrefix, FillsSoFar
  <2>7. /\ Continues(c.fills, q.fills)
        /\ ProceedsCover(e) /\ c.cash >= 0 => q.cash >= 0
    BY <1>1, <2>1 DEF BarPrefix
  <2>8. BarPrefix(c, q, e, i)
    BY <1>4, <2>4, <2>5, <2>6, <2>7 DEF BarPrefix
  <2>9. QED
    BY <2>8 DEF q
<1>9. CASE ~Quiet(d, i, q)
  <2>1. PICK fill \in BrokerFills : FillsOrder(d, i, e, fill, q)
    BY <1>3, <1>9 DEF HandleStep
  <2>2. /\ fill.order = i /\ fill.timestamp = e.timestamp /\ fill.side = c.orders[i].side
        /\ fill.symbol = c.orders[i].symbol
        /\ Priced(c.orders[i], fill, e) /\ ~CannotSettle(d, fill)
        /\ q.fills = Append(d.fills, fill) /\ q.cash = CashAfter(d, fill)
        /\ q.orders[i].filled_quantity = c.orders[i].filled_quantity + fill.quantity
        /\ c.orders[i].quantity # NoQuantity =>
             q.orders[i].filled_quantity <= c.orders[i].quantity
    BY <1>2, <2>1 DEF FillsOrder
  <2>3. /\ Continues(c.fills, q.fills) /\ Len(q.fills) = Len(d.fills) + 1
        /\ q.fills[Len(d.fills) + 1] = fill
        /\ \A k \in 1..Len(d.fills) : q.fills[k] = d.fills[k]
        /\ Len(d.fills) \in Nat /\ Len(c.fills) \in Nat
    BY <1>1, <2>2, AppendContinues
  <2>4. Inside(c.orders[i], fill, e)
    <3>1. c.orders[i].side \in Side
      BY <1>7 DEF BrokerOrders
    <3>2. QED
      BY <2>2, <3>1, PricedIsInside
  <2>5. ASSUME NEW k \in (Len(c.fills) + 1)..Len(q.fills)
        PROVE  /\ q.fills[k].timestamp = e.timestamp
               /\ q.fills[k].order \in 1..n
               /\ q.fills[k].symbol = e.symbol
               /\ Inside(c.orders[q.fills[k].order], q.fills[k], e)
    <3>1. CASE k = Len(d.fills) + 1
      <4>1. fill.symbol = e.symbol
        BY <1>2, <1>3, <1>9, <2>2 DEF IsDue
      <4>2. QED
        BY <2>2, <2>3, <2>4, <3>1, <4>1
    <3>2. CASE k # Len(d.fills) + 1
      <4>1. k \in (Len(c.fills) + 1)..Len(d.fills) /\ k \in 1..Len(d.fills)
        BY <2>3, <3>2
      <4>2. q.fills[k] = d.fills[k]
        BY <2>3, <4>1
      <4>3. FillsSoFar(c, d, e)
        BY DEF BarPrefix
      <4>4. QED
        BY <4>1, <4>2, <4>3 DEF FillsSoFar
    <3>3. QED
      BY <3>1, <3>2
  <2>6. Timely(c.orders[i], e)
    BY <1>2, <1>3, <1>7, <1>9, NotExpiredIsTimely DEF IsDue
  <2>7. OrderStep(c.orders[i], q.orders[i], e)
    BY <1>4, <1>5, <2>2, <2>6 DEF OrderStep
  <2>8. OrdersSoFar(c, q, e, i)
    BY <1>1, <1>6, <2>7 DEF OrdersSoFar
  <2>9. Counted(c) => Counted(q)
    <3>1. SUFFICES ASSUME Counted(c), NEW j \in 1..n
                   PROVE  q.orders[j].filled_quantity = FilledIn(q.fills, j)
      BY <1>4 DEF Counted
    <3>2. d.orders[j].filled_quantity = FilledIn(d.fills, j)
      BY <1>1, <3>1 DEF BarPrefix, Counted
    <3>3. FilledIn(q.fills, j) = FilledIn(d.fills, j) + IF fill.order = j THEN fill.quantity ELSE 0
      BY <1>1, <2>2, FilledInAppend
    <3>4. d.orders[j] \in BrokerOrders
      BY <1>1, OrderFacts
    <3>5. d.orders[j].filled_quantity \in Nat
      BY <3>4 DEF BrokerOrders
    <3>6. CASE j = i
      BY <1>2, <2>2, <3>2, <3>3, <3>6
    <3>7. CASE j # i
      <4>1. q.orders[j] = d.orders[j] /\ FilledIn(q.fills, j) = FilledIn(d.fills, j) + 0
        BY <1>4, <2>2, <3>3, <3>7
      <4>2. QED
        BY <3>2, <3>5, <4>1
    <3>8. QED
      BY <3>6, <3>7
  <2>10. ProceedsCover(e) /\ c.cash >= 0 => q.cash >= 0
    <3>1. ProceedsCover(e) /\ c.cash >= 0 => d.cash >= 0
      BY DEF BarPrefix
    <3>2. ProceedsCover(e) /\ d.cash >= 0 => CashAfter(d, fill) >= 0
      BY <1>1, <2>2, FillLeavesCash
    <3>3. QED
      BY <2>2, <3>1, <3>2
  <2>11. FillsSoFar(c, q, e)
    BY <2>5 DEF FillsSoFar
  <2>12. BarPrefix(c, q, e, i)
    BY <1>4, <2>3, <2>8, <2>9, <2>10, <2>11 DEF BarPrefix
  <2>13. QED
    BY <2>12 DEF q
<1>10. QED
  BY <1>8, <1>9

(* OnMarketEvent goes through the orders one by one. *)
AllOrders(c, e) ==
  FoldLeft(LAMBDA acc, id : HandleOrder(acc, id, e), c, [id \in 1..Len(c.orders) |-> id])

LEMMA BarRun ==
  ASSUME NEW c \in Brokers, NEW e, IsBar(e)
  PROVE  LET n == Len(c.orders)
         IN  \E h : /\ h \in [0..n -> Brokers] /\ h[0] = c
                    /\ \A i \in 1..n : h[i] = HandleOrder(h[i - 1], i, e)
                    /\ \A i \in 0..n : Len(h[i].orders) = n
                    /\ h[n] = AllOrders(c, e)
<1> DEFINE n == Len(c.orders)
           V == {d \in Brokers : Len(d.orders) = n}
           F == [p \in (1..n) \X V |-> HandleOrder(p[2], p[1], e)]
           seq == [id \in 1..n |-> id]
           Equation(g) == g = [T \in SUBSET DOMAIN seq |->
                                 IF T = {} THEN c
                                 ELSE LET x == Max(T) IN HandleOrder(g[T \ {x}], seq[x], e)]
           g == CHOOSE g : Equation(g)
<1>0. AllOrders(c, e) = FoldLeft(LAMBDA acc, id : HandleOrder(acc, id, e), c, seq)
  BY DEF AllOrders
<1>1. FoldLeft(LAMBDA acc, id : HandleOrder(acc, id, e), c, seq) = g[DOMAIN seq]
  BY DEF FoldLeft, MapThenFoldSet
<1>2. n \in Nat /\ c \in V /\ DOMAIN seq = 1..n
  BY OrderFacts DEF Brokers
<1>3. \A i \in 1..n : \A d \in V : HandleOrder(d, i, e) \in V
  <2>1. SUFFICES ASSUME NEW i \in 1..n, NEW d \in V
                 PROVE  HandleOrder(d, i, e) \in V
    OBVIOUS
  <2> DEFINE q == HandleOrder(d, i, e)
  <2>2. HandleStep(d, i, e, q)
    BY HandleOrderStep
  <2> HIDE DEF q
  <2>3. q \in V
    BY <2>2 DEF HandleStep
  <2>4. QED
    BY <2>3 DEF q
<1> HIDE DEF n, V
<1>4. /\ F \in [(1..n) \X V -> V]
      /\ \A i \in 1..n : \A d \in V : F[<<i, d>>] = HandleOrder(d, i, e)
  BY <1>3
<1> HIDE DEF F
<1>5. \A T \in SUBSET (1..n) : T # {} => Max(T) \in 1..n /\ seq[Max(T)] = Max(T)
  <2>1. SUFFICES ASSUME NEW T \in SUBSET (1..n), T # {}
                 PROVE  Max(T) \in 1..n
    OBVIOUS
  <2>2. T \in (SUBSET (1..n)) \ {{}}
    BY <2>1
  <2>3. Max(T) \in T
    BY <1>2, <2>2, GreatestElement
  <2>4. QED
    BY <2>3
<1>6. \E x : Equation(x)
  <2>1. PICK x : x \in [SUBSET (1..n) -> V] /\ FoldsLeft(x, n, V, c, F)
    BY <1>2, <1>4, LeftFoldExists
  <2>2. \A T \in SUBSET (1..n) : T # {} => x[T] = HandleOrder(x[T \ {Max(T)}], seq[Max(T)], e)
    <3>1. SUFFICES ASSUME NEW T \in SUBSET (1..n), T # {}
                   PROVE  x[T] = HandleOrder(x[T \ {Max(T)}], seq[Max(T)], e)
      OBVIOUS
    <3>2. Max(T) \in 1..n /\ seq[Max(T)] = Max(T) /\ x[T \ {Max(T)}] \in V
      BY <1>5, <2>1, <3>1
    <3>3. QED
      BY <1>4, <2>1, <3>1, <3>2 DEF FoldsLeft
  <2> HIDE DEF seq
  <2>3. x = [T \in SUBSET (1..n) |->
               IF T = {} THEN c ELSE HandleOrder(x[T \ {Max(T)}], seq[Max(T)], e)]
    BY <2>1, <2>2 DEF FoldsLeft
  <2>4. QED
    BY <1>2, <2>3
<1>7. Equation(g)
  BY <1>6
<1> HIDE DEF g
<1>8. g[{}] = c
  BY <1>7
<1>9. \A T \in SUBSET (1..n) :
        T # {} /\ g[T \ {Max(T)}] \in V => g[T] = F[<<Max(T), g[T \ {Max(T)}]>>]
  <2>1. SUFFICES ASSUME NEW T \in SUBSET (1..n), T # {}, g[T \ {Max(T)}] \in V
                 PROVE  g[T] = F[<<Max(T), g[T \ {Max(T)}]>>]
    OBVIOUS
  <2>2. g[T] = HandleOrder(g[T \ {Max(T)}], seq[Max(T)], e)
    BY <1>2, <1>7, <2>1
  <2>3. Max(T) \in 1..n /\ seq[Max(T)] = Max(T)
    BY <1>5, <2>1
  <2> HIDE DEF seq
  <2>4. QED
    BY <1>4, <2>1, <2>2, <2>3
<1>10. PICK h : RunsTo(h, n, V, c, F, g)
  <2>1. FoldsLeft(g, n, V, c, F)
    BY <1>8, <1>9 DEF FoldsLeft
  <2>2. n \in Nat /\ c \in V /\ F \in [(1..n) \X V -> V]
    BY <1>2, <1>4
  <2>3. QED
    BY <2>1, <2>2, LeftRun
<1>11. /\ h \in [0..n -> V] /\ h[0] = c
       /\ \A i \in 1..n : h[i] = F[<<i, h[i - 1]>>]
  BY <1>10 DEF Runs, RunsTo
<1>12. \A i \in 1..n : h[i] = HandleOrder(h[i - 1], i, e)
  <2>1. SUFFICES ASSUME NEW i \in 1..n
                 PROVE  h[i] = HandleOrder(h[i - 1], i, e)
    OBVIOUS
  <2>2. h[i - 1] \in V
    BY <1>2, <1>11
  <2>3. QED
    BY <1>4, <1>11, <2>2
<1>13. h \in [0..n -> Brokers] /\ \A i \in 0..n : Len(h[i].orders) = n
  BY <1>11 DEF V
<1>14. h[n] = AllOrders(c, e)
  BY <1>0, <1>1, <1>2, <1>10 DEF RunsTo
<1>15. QED
  BY <1>11, <1>12, <1>13, <1>14 DEF n, seq
-----------------------------------------------------------------------------
(* The portfolio books the fills of the bar ... *)
Portfolios ==
  [cash: Int, realized_pnl: Int, positions: [Symbols -> Position],
   trade_ledger: Seq([fill: BrokerFills, realized_pnl_delta: Int, position_quantity_after: Nat]),
   cash_ledger: Seq(CashEntry), processed_fill_ids: SUBSET Nat, last_snapshot: AccountSnapshot]

LEMMA PortfoliosArePortfolios ==
  ASSUME NEW p
  PROVE  p \in Portfolios <=> /\ IsPortfolio(p, BrokerFills)
                              /\ p.processed_fill_ids \in SUBSET Nat
                              /\ p.last_snapshot \in AccountSnapshot
<1> DEFINE Ledger == Seq([fill: BrokerFills, realized_pnl_delta: Int,
                          position_quantity_after: Nat])
<1>1. p \in Portfolios => IsPortfolio(p, BrokerFills)
  <2>1. SUFFICES ASSUME p \in Portfolios
                 PROVE  IsPortfolio(p, BrokerFills)
    OBVIOUS
  <2> HIDE DEF Ledger
  <2>2. p \in [cash: Int, realized_pnl: Int, positions: [Symbols -> Position],
               trade_ledger: Ledger, cash_ledger: Seq(CashEntry),
               processed_fill_ids: SUBSET Nat, last_snapshot: AccountSnapshot]
    BY <2>1 DEF Portfolios, Ledger
  <2>3. QED
    BY <2>2 DEF IsPortfolio, Ledger
<1>2. p \in Portfolios => /\ p.processed_fill_ids \in SUBSET Nat
                          /\ p.last_snapshot \in AccountSnapshot
  BY DEF Portfolios
<1>3. ASSUME IsPortfolio(p, BrokerFills), p.processed_fill_ids \in SUBSET Nat,
             p.last_snapshot \in AccountSnapshot
      PROVE  p \in Portfolios
  <2>1. p.trade_ledger \in Ledger /\ p.cash_ledger \in Seq(CashEntry)
        /\ p.cash \in Int /\ p.realized_pnl \in Int /\ p.positions \in [Symbols -> Position]
        /\ p = [cash |-> p.cash, realized_pnl |-> p.realized_pnl, positions |-> p.positions,
                trade_ledger |-> p.trade_ledger, cash_ledger |-> p.cash_ledger,
                processed_fill_ids |-> p.processed_fill_ids, last_snapshot |-> p.last_snapshot]
    BY <1>3 DEF IsPortfolio
  <2> HIDE DEF Ledger
  <2>2. p \in [cash: Int, realized_pnl: Int, positions: [Symbols -> Position],
               trade_ledger: Ledger, cash_ledger: Seq(CashEntry),
               processed_fill_ids: SUBSET Nat, last_snapshot: AccountSnapshot]
    BY <1>3, <2>1
  <2>3. QED
    BY <2>2 DEF Portfolios, Ledger
<1>4. QED
  BY <1>1, <1>2, <1>3

LEMMA BrokerFillsAreFills ==
  ASSUME NEW fill \in BrokerFills
  PROVE  IsFill(fill)
BY DEF BrokerFills, IsFill

LEMMA BookingKeepsType ==
  ASSUME NEW p \in Portfolios, NEW fill \in BrokerFills
  PROVE  ApplyFill(p, fill) \in Portfolios
<1> DEFINE q == ApplyFill(p, fill)
<1>1. IsPortfolio(p, BrokerFills) /\ p.processed_fill_ids \in SUBSET Nat
      /\ p.last_snapshot \in AccountSnapshot
  BY PortfoliosArePortfolios
<1>2. IsFill(fill) /\ fill.id \in Nat
  BY BrokerFillsAreFills DEF IsFill
<1>3. /\ IsPortfolio(q, BrokerFills)
      /\ q.processed_fill_ids = p.processed_fill_ids \cup {fill.id}
      /\ LeavesBooks(p, q) \/ BooksFill(p, fill, q)
  BY <1>1, <1>2, ApplyFillFacts
<1> HIDE DEF q
<1>4. q.last_snapshot \in AccountSnapshot
  <2>1. BuildSnapshot(q) \in AccountSnapshot
    BY <1>3, SnapshotType
  <2>2. QED
    BY <1>1, <1>3, <2>1 DEF LeavesBooks, BooksFill
<1>5. q \in Portfolios
  BY <1>1, <1>2, <1>3, <1>4, PortfoliosArePortfolios
<1>6. QED
  BY <1>5 DEF q

(* ... one after the other. *)
LEMMA BookRun ==
  ASSUME NEW p0 \in Portfolios, NEW fills \in Seq(BrokerFills)
  PROVE  \E h : /\ h \in [0..Len(fills) -> Portfolios] /\ h[0] = p0
                /\ \A i \in 1..Len(fills) : h[i] = ApplyFill(h[i - 1], fills[i])
                /\ h[Len(fills)] = FoldLeft(ApplyFill, p0, fills)
<1> DEFINE n == Len(fills)
           V == Portfolios
           F == [p \in (1..n) \X V |-> ApplyFill(p[2], fills[p[1]])]
           Equation(g) == g = [T \in SUBSET DOMAIN fills |->
                                 IF T = {} THEN p0
                                 ELSE LET x == Max(T) IN ApplyFill(g[T \ {x}], fills[x])]
           g == CHOOSE g : Equation(g)
<1>1. FoldLeft(ApplyFill, p0, fills) = g[DOMAIN fills]
  BY DEF FoldLeft, MapThenFoldSet
<1>2. n \in Nat /\ p0 \in V
  BY DEF n
<1>3. DOMAIN fills = 1..n
  BY DEF n
<1>4. \A i \in 1..n : \A d \in V : ApplyFill(d, fills[i]) \in V
  BY BookingKeepsType
<1> HIDE DEF n, V
<1>5. /\ F \in [(1..n) \X V -> V]
      /\ \A i \in 1..n : \A d \in V : F[<<i, d>>] = ApplyFill(d, fills[i])
  BY <1>4
<1> HIDE DEF F
<1>6. \A T \in SUBSET (1..n) : T # {} => Max(T) \in 1..n
  <2>1. SUFFICES ASSUME NEW T \in SUBSET (1..n), T # {}
                 PROVE  Max(T) \in 1..n
    OBVIOUS
  <2>2. T \in (SUBSET (1..n)) \ {{}}
    BY <2>1
  <2>3. Max(T) \in T
    BY <1>2, <2>2, GreatestElement
  <2>4. QED
    BY <2>3
<1>7. \E x : Equation(x)
  <2>1. PICK x : x \in [SUBSET (1..n) -> V] /\ FoldsLeft(x, n, V, p0, F)
    BY <1>2, <1>5, LeftFoldExists
  <2>2. \A T \in SUBSET (1..n) : T # {} => x[T] = ApplyFill(x[T \ {Max(T)}], fills[Max(T)])
    <3>1. SUFFICES ASSUME NEW T \in SUBSET (1..n), T # {}
                   PROVE  x[T] = ApplyFill(x[T \ {Max(T)}], fills[Max(T)])
      OBVIOUS
    <3>2. Max(T) \in 1..n /\ x[T \ {Max(T)}] \in V
      BY <1>6, <2>1, <3>1
    <3>3. QED
      BY <1>5, <2>1, <3>1, <3>2 DEF FoldsLeft
  <2>3. x = [T \in SUBSET (1..n) |->
               IF T = {} THEN p0 ELSE ApplyFill(x[T \ {Max(T)}], fills[Max(T)])]
    BY <2>1, <2>2 DEF FoldsLeft
  <2>4. QED
    BY <1>3, <2>3
<1>8. Equation(g)
  BY <1>7
<1> HIDE DEF g
<1>9. FoldsLeft(g, n, V, p0, F)
  <2>1. g[{}] = p0
    BY <1>8
  <2>2. ASSUME NEW T \in SUBSET (1..n), T # {}, g[T \ {Max(T)}] \in V
        PROVE  g[T] = F[<<Max(T), g[T \ {Max(T)}]>>]
    <3>1. g[T] = ApplyFill(g[T \ {Max(T)}], fills[Max(T)])
      BY <1>3, <1>8, <2>2
    <3>2. Max(T) \in 1..n
      BY <1>6, <2>2
    <3>3. QED
      BY <1>5, <2>2, <3>1, <3>2
  <2>3. QED
    BY <2>1, <2>2 DEF FoldsLeft
<1>10. PICK h : RunsTo(h, n, V, p0, F, g)
  <2>1. F \in [(1..n) \X V -> V]
    BY <1>5
  <2>2. QED
    BY <1>2, <1>9, <2>1, LeftRun
<1>11. /\ h \in [0..n -> V] /\ h[0] = p0
       /\ \A i \in 1..n : h[i] = F[<<i, h[i - 1]>>]
  BY <1>10 DEF Runs, RunsTo
<1>12. \A i \in 1..n : h[i] = ApplyFill(h[i - 1], fills[i])
  <2>1. SUFFICES ASSUME NEW i \in 1..n
                 PROVE  h[i] = ApplyFill(h[i - 1], fills[i])
    OBVIOUS
  <2>2. h[i - 1] \in V
    BY <1>2, <1>11
  <2>3. QED
    BY <1>5, <1>11, <2>2
<1>13. h \in [0..n -> Portfolios]
  BY <1>11 DEF V
<1>14. h[n] = FoldLeft(ApplyFill, p0, fills)
  BY <1>1, <1>3, <1>10 DEF RunsTo
<1>15. QED
  BY <1>11, <1>12, <1>13, <1>14 DEF n
-----------------------------------------------------------------------------
(* ... the ExecutionEngine counts them on its own orders ... *)
Tracks(size) == {t \in Seq(OrderRecord) : Len(t) = size}

FillsFor(size) == {fill \in BrokerFills : fill.order \in 1..size}

LEMMA MarkFilledFacts ==
  ASSUME NEW order \in OrderRecord, NEW fill \in BrokerFills
  PROVE  LET q == MarkFilled(order, fill)
         IN  /\ q \in OrderRecord
             /\ ~FillAlreadyReflected(order, fill) =>
                  /\ q.filled_quantity = order.filled_quantity + fill.quantity
                  /\ q.updated_at = fill.timestamp
<1> DEFINE filled == order.filled_quantity + fill.quantity
           target == IF order.quantity = NoQuantity THEN filled ELSE order.quantity
           status == IF filled >= target THEN "FILLED" ELSE "PARTIALLY_FILLED"
           q == MarkFilled(order, fill)
<1>1. /\ order.quantity \in Nat /\ order.filled_quantity \in Nat /\ fill.quantity \in Nat
      /\ fill.timestamp \in Nat
  BY DEF OrderRecord, BrokerFills
<1>2. filled \in Nat
  BY <1>1
<1>3. target \in Nat
  BY <1>1, <1>2
<1>4. status \in OrderStatus
  BY DEF OrderStatus, OPEN_ORDER_STATUSES, TERMINAL_STATUSES
<1>5. q = IF FillAlreadyReflected(order, fill) THEN order
          ELSE [quantity |-> target, filled_quantity |-> filled, status |-> status,
                updated_at |-> fill.timestamp]
  BY DEF MarkFilled
<1> HIDE DEF filled, target, status, q
<1>6. /\ q \in OrderRecord
      /\ ~FillAlreadyReflected(order, fill) =>
           q.filled_quantity = filled /\ q.updated_at = fill.timestamp
  BY <1>1, <1>2, <1>3, <1>4, <1>5 DEF OrderRecord
<1>7. QED
  BY <1>6 DEF q, filled

LEMMA TrackingFacts ==
  ASSUME NEW size \in Nat, NEW t \in Tracks(size), NEW fill \in FillsFor(size)
  PROVE  LET q == FillTracked(t, fill)
         IN  /\ q \in Tracks(size)
             /\ \A j \in 1..size : j # fill.order => q[j] = t[j]
             /\ q[fill.order] = MarkFilled(t[fill.order], fill)
<1> DEFINE id == fill.order
           v == MarkFilled(t[id], fill)
           q == [t EXCEPT ![id] = v]
<1>1. t \in Seq(OrderRecord) /\ Len(t) = size /\ id \in 1..size /\ fill \in BrokerFills
  BY DEF Tracks, FillsFor
<1>2. t[id] \in OrderRecord
  <2> HIDE DEF id
  <2>1. QED
    BY <1>1
<1>3. v \in OrderRecord
  <2> HIDE DEF id
  <2>1. QED
    BY <1>1, <1>2, MarkFilledFacts
<1>4. FillTracked(t, fill) = q
  BY DEF FillTracked
<1> HIDE DEF id, v
<1>5. /\ q \in Seq(OrderRecord) /\ Len(q) = Len(t) /\ q[id] = v
      /\ \A j \in 1..Len(t) : j # id => q[j] = t[j]
  BY <1>1, <1>3, ReplacedFacts
<1> HIDE DEF q
<1>6. q \in Tracks(size) /\ q[id] = v /\ \A j \in 1..size : j # id => q[j] = t[j]
  BY <1>1, <1>5 DEF Tracks
<1>7. QED
  BY <1>4, <1>6 DEF id, v

(* ... one after the other. *)
LEMMA TrackRun ==
  ASSUME NEW size \in Nat, NEW t0 \in Tracks(size), NEW fills \in Seq(FillsFor(size))
  PROVE  \E h : /\ h \in [0..Len(fills) -> Tracks(size)] /\ h[0] = t0
                /\ \A i \in 1..Len(fills) : h[i] = FillTracked(h[i - 1], fills[i])
                /\ h[Len(fills)] = FoldLeft(FillTracked, t0, fills)
<1> DEFINE n == Len(fills)
           V == Tracks(size)
           F == [p \in (1..n) \X V |-> FillTracked(p[2], fills[p[1]])]
           Equation(g) == g = [T \in SUBSET DOMAIN fills |->
                                 IF T = {} THEN t0
                                 ELSE LET x == Max(T) IN FillTracked(g[T \ {x}], fills[x])]
           g == CHOOSE g : Equation(g)
<1>1. FoldLeft(FillTracked, t0, fills) = g[DOMAIN fills]
  BY DEF FoldLeft, MapThenFoldSet
<1>2. n \in Nat /\ t0 \in V
  BY DEF n
<1>3. DOMAIN fills = 1..n
  BY DEF n
<1>4. \A i \in 1..n : \A d \in V : FillTracked(d, fills[i]) \in V
  <2>1. SUFFICES ASSUME NEW i \in 1..n, NEW d \in V
                 PROVE  FillTracked(d, fills[i]) \in V
    OBVIOUS
  <2>2. fills[i] \in FillsFor(size)
    OBVIOUS
  <2>3. QED
    BY <2>2, TrackingFacts
<1> HIDE DEF n, V
<1>5. /\ F \in [(1..n) \X V -> V]
      /\ \A i \in 1..n : \A d \in V : F[<<i, d>>] = FillTracked(d, fills[i])
  BY <1>4
<1> HIDE DEF F
<1>6. \A T \in SUBSET (1..n) : T # {} => Max(T) \in 1..n
  <2>1. SUFFICES ASSUME NEW T \in SUBSET (1..n), T # {}
                 PROVE  Max(T) \in 1..n
    OBVIOUS
  <2>2. T \in (SUBSET (1..n)) \ {{}}
    BY <2>1
  <2>3. Max(T) \in T
    BY <1>2, <2>2, GreatestElement
  <2>4. QED
    BY <2>3
<1>7. \E x : Equation(x)
  <2>1. PICK x : x \in [SUBSET (1..n) -> V] /\ FoldsLeft(x, n, V, t0, F)
    BY <1>2, <1>5, LeftFoldExists
  <2>2. \A T \in SUBSET (1..n) : T # {} => x[T] = FillTracked(x[T \ {Max(T)}], fills[Max(T)])
    <3>1. SUFFICES ASSUME NEW T \in SUBSET (1..n), T # {}
                   PROVE  x[T] = FillTracked(x[T \ {Max(T)}], fills[Max(T)])
      OBVIOUS
    <3>2. Max(T) \in 1..n /\ x[T \ {Max(T)}] \in V
      BY <1>6, <2>1, <3>1
    <3>3. QED
      BY <1>5, <2>1, <3>1, <3>2 DEF FoldsLeft
  <2>3. x = [T \in SUBSET (1..n) |->
               IF T = {} THEN t0 ELSE FillTracked(x[T \ {Max(T)}], fills[Max(T)])]
    BY <2>1, <2>2 DEF FoldsLeft
  <2>4. QED
    BY <1>3, <2>3
<1>8. Equation(g)
  BY <1>7
<1> HIDE DEF g
<1>9. FoldsLeft(g, n, V, t0, F)
  <2>1. g[{}] = t0
    BY <1>8
  <2>2. ASSUME NEW T \in SUBSET (1..n), T # {}, g[T \ {Max(T)}] \in V
        PROVE  g[T] = F[<<Max(T), g[T \ {Max(T)}]>>]
    <3>1. g[T] = FillTracked(g[T \ {Max(T)}], fills[Max(T)])
      BY <1>3, <1>8, <2>2
    <3>2. Max(T) \in 1..n
      BY <1>6, <2>2
    <3>3. QED
      BY <1>5, <2>2, <3>1, <3>2
  <2>3. QED
    BY <2>1, <2>2 DEF FoldsLeft
<1>10. PICK h : RunsTo(h, n, V, t0, F, g)
  <2>1. F \in [(1..n) \X V -> V]
    BY <1>5
  <2>2. QED
    BY <1>2, <1>9, <2>1, LeftRun
<1>11. /\ h \in [0..n -> V] /\ h[0] = t0
       /\ \A i \in 1..n : h[i] = F[<<i, h[i - 1]>>]
  BY <1>10 DEF Runs, RunsTo
<1>12. \A i \in 1..n : h[i] = FillTracked(h[i - 1], fills[i])
  <2>1. SUFFICES ASSUME NEW i \in 1..n
                 PROVE  h[i] = FillTracked(h[i - 1], fills[i])
    OBVIOUS
  <2>2. h[i - 1] \in V
    BY <1>2, <1>11
  <2>3. QED
    BY <1>5, <1>11, <2>2
<1>13. h \in [0..n -> Tracks(size)]
  BY <1>11 DEF V
<1>14. h[n] = FoldLeft(FillTracked, t0, fills)
  BY <1>1, <1>3, <1>10 DEF RunsTo
<1>15. QED
  BY <1>11, <1>12, <1>13, <1>14 DEF n

(* ... and the decisions of the bar are submitted, which only adds orders. *)
Adds(c, q, timestamp) ==
  /\ q.fills = c.fills /\ q.cash = c.cash /\ q.positions = c.positions
  /\ q.fill_policy = c.fill_policy /\ q.last_timestamp = c.last_timestamp
  /\ Continues(c.orders, q.orders)
  /\ \A id \in (Len(c.orders) + 1)..Len(q.orders) :
       /\ q.orders[id].filled_quantity = 0
       /\ q.orders[id].created_at = timestamp /\ q.orders[id].updated_at = timestamp

LEMMA SubmitFacts ==
  ASSUME NEW c \in Brokers, NEW request \in OrderRequest, NEW timestamp \in Nat
  PROVE  LET q == SubmitOrder(c, request, timestamp)
         IN  q \in Brokers /\ q.orders = Append(c.orders, NewOrder(c, request, timestamp))
             /\ NewOrder(c, request, timestamp) \in BrokerOrders
             /\ q.fills = c.fills /\ q.cash = c.cash /\ q.positions = c.positions
             /\ q.fill_policy = c.fill_policy /\ q.last_timestamp = c.last_timestamp
<1> DEFINE order == NewOrder(c, request, timestamp)
           status == IF SubmissionRejected(c, request) THEN "REJECTED" ELSE "ACCEPTED"
           all == Append(c.orders, order)
           q == SubmitOrder(c, request, timestamp)
<1>1. status \in OrderStatus
  BY DEF OrderStatus, OPEN_ORDER_STATUSES, TERMINAL_STATUSES
<1>2. request \in [symbol: Symbols, side: Side, type: OrderType, quantity: Nat, notional: Nat,
                   limit_price: Nat, stop_price: Nat, time_in_force: TimeInForce]
  BY DEF OrderRequest
<1>3. order = [symbol |-> request.symbol, side |-> request.side, type |-> request.type,
               quantity |-> request.quantity, notional |-> request.notional,
               limit_price |-> request.limit_price, stop_price |-> request.stop_price,
               time_in_force |-> request.time_in_force, filled_quantity |-> 0,
               status |-> status, created_at |-> timestamp, updated_at |-> timestamp]
  BY DEF NewOrder
<1> HIDE DEF status, order
<1>4. order \in BrokerOrders
  BY <1>1, <1>2, <1>3 DEF BrokerOrders
<1>5. all \in Seq(BrokerOrders)
  BY <1>4 DEF Brokers
<1>6. q = [c EXCEPT !.orders = all]
  BY DEF SubmitOrder, order
<1> HIDE DEF all, q
<1>7. /\ q \in Brokers /\ q.orders = all
      /\ q.fills = c.fills /\ q.cash = c.cash /\ q.positions = c.positions
      /\ q.fill_policy = c.fill_policy /\ q.last_timestamp = c.last_timestamp
  BY <1>5, <1>6 DEF Brokers
<1>8. QED
  BY <1>4, <1>7 DEF q, all, order

(* The requests, one after the other. *)
LEMMA SubmitRun ==
  ASSUME NEW c \in Brokers, NEW requests \in Seq(OrderRequest), NEW timestamp \in Nat
  PROVE  \E h : /\ h \in [0..Len(requests) -> Brokers] /\ h[0] = c
                /\ \A i \in 1..Len(requests) : h[i] = SubmitOrder(h[i - 1], requests[i], timestamp)
                /\ h[Len(requests)] = FoldLeft(LAMBDA acc, request : SubmitOrder(acc, request, timestamp), c, requests)
<1> DEFINE n == Len(requests)
           V == Brokers
           F == [p \in (1..n) \X V |-> SubmitOrder(p[2], requests[p[1]], timestamp)]
           Equation(g) == g = [T \in SUBSET DOMAIN requests |->
                                 IF T = {} THEN c
                                 ELSE LET x == Max(T) IN SubmitOrder(g[T \ {x}], requests[x], timestamp)]
           g == CHOOSE g : Equation(g)
<1>1. FoldLeft(LAMBDA acc, request : SubmitOrder(acc, request, timestamp), c, requests) = g[DOMAIN requests]
  BY DEF FoldLeft, MapThenFoldSet
<1>2. n \in Nat /\ c \in V
  BY DEF n
<1>3. DOMAIN requests = 1..n
  BY DEF n
<1>4. \A i \in 1..n : \A d \in V : SubmitOrder(d, requests[i], timestamp) \in V
  <2>1. SUFFICES ASSUME NEW i \in 1..n, NEW d \in V
                 PROVE  SubmitOrder(d, requests[i], timestamp) \in V
    OBVIOUS
  <2>2. requests[i] \in OrderRequest
    OBVIOUS
  <2>3. QED
    BY <2>2, SubmitFacts
<1> HIDE DEF n, V
<1>5. /\ F \in [(1..n) \X V -> V]
      /\ \A i \in 1..n : \A d \in V : F[<<i, d>>] = SubmitOrder(d, requests[i], timestamp)
  BY <1>4
<1> HIDE DEF F
<1>6. \A T \in SUBSET (1..n) : T # {} => Max(T) \in 1..n
  <2>1. SUFFICES ASSUME NEW T \in SUBSET (1..n), T # {}
                 PROVE  Max(T) \in 1..n
    OBVIOUS
  <2>2. T \in (SUBSET (1..n)) \ {{}}
    BY <2>1
  <2>3. Max(T) \in T
    BY <1>2, <2>2, GreatestElement
  <2>4. QED
    BY <2>3
<1>7. \E x : Equation(x)
  <2>1. PICK x : x \in [SUBSET (1..n) -> V] /\ FoldsLeft(x, n, V, c, F)
    BY <1>2, <1>5, LeftFoldExists
  <2>2. \A T \in SUBSET (1..n) : T # {} => x[T] = SubmitOrder(x[T \ {Max(T)}], requests[Max(T)], timestamp)
    <3>1. SUFFICES ASSUME NEW T \in SUBSET (1..n), T # {}
                   PROVE  x[T] = SubmitOrder(x[T \ {Max(T)}], requests[Max(T)], timestamp)
      OBVIOUS
    <3>2. Max(T) \in 1..n /\ x[T \ {Max(T)}] \in V
      BY <1>6, <2>1, <3>1
    <3>3. QED
      BY <1>5, <2>1, <3>1, <3>2 DEF FoldsLeft
  <2>3. x = [T \in SUBSET (1..n) |->
               IF T = {} THEN c ELSE SubmitOrder(x[T \ {Max(T)}], requests[Max(T)], timestamp)]
    BY <2>1, <2>2 DEF FoldsLeft
  <2>4. QED
    BY <1>3, <2>3
<1>8. Equation(g)
  BY <1>7
<1> HIDE DEF g
<1>9. FoldsLeft(g, n, V, c, F)
  <2>1. g[{}] = c
    BY <1>8
  <2>2. ASSUME NEW T \in SUBSET (1..n), T # {}, g[T \ {Max(T)}] \in V
        PROVE  g[T] = F[<<Max(T), g[T \ {Max(T)}]>>]
    <3>1. g[T] = SubmitOrder(g[T \ {Max(T)}], requests[Max(T)], timestamp)
      BY <1>3, <1>8, <2>2
    <3>2. Max(T) \in 1..n
      BY <1>6, <2>2
    <3>3. QED
      BY <1>5, <2>2, <3>1, <3>2
  <2>3. QED
    BY <2>1, <2>2 DEF FoldsLeft
<1>10. PICK h : RunsTo(h, n, V, c, F, g)
  <2>1. F \in [(1..n) \X V -> V]
    BY <1>5
  <2>2. QED
    BY <1>2, <1>9, <2>1, LeftRun
<1>11. /\ h \in [0..n -> V] /\ h[0] = c
       /\ \A i \in 1..n : h[i] = F[<<i, h[i - 1]>>]
  BY <1>10 DEF Runs, RunsTo
<1>12. \A i \in 1..n : h[i] = SubmitOrder(h[i - 1], requests[i], timestamp)
  <2>1. SUFFICES ASSUME NEW i \in 1..n
                 PROVE  h[i] = SubmitOrder(h[i - 1], requests[i], timestamp)
    OBVIOUS
  <2>2. h[i - 1] \in V
    BY <1>2, <1>11
  <2>3. QED
    BY <1>5, <1>11, <2>2
<1>13. h \in [0..n -> Brokers]
  BY <1>11 DEF V
<1>14. h[n] = FoldLeft(LAMBDA acc, request : SubmitOrder(acc, request, timestamp), c, requests)
  BY <1>1, <1>3, <1>10 DEF RunsTo
<1>15. QED
  BY <1>11, <1>12, <1>13, <1>14 DEF n

LEMMA SubmitAllFacts ==
  ASSUME NEW c \in Brokers, NEW requests \in Seq(OrderRequest), NEW timestamp \in Nat
  PROVE  SubmitAll(c, requests, timestamp) \in Brokers
         /\ Adds(c, SubmitAll(c, requests, timestamp), timestamp)
<1> DEFINE n == Len(requests)
<1>1. PICK h : /\ h \in [0..n -> Brokers] /\ h[0] = c
               /\ \A i \in 1..n : h[i] = SubmitOrder(h[i - 1], requests[i], timestamp)
               /\ h[n] = FoldLeft(LAMBDA acc, request : SubmitOrder(acc, request, timestamp),
                                  c, requests)
  BY SubmitRun
<1>2. h[n] = SubmitAll(c, requests, timestamp)
  BY <1>1 DEF SubmitAll
<1>3. n \in Nat /\ \A i \in 1..n : requests[i] \in OrderRequest
  OBVIOUS
<1> DEFINE T == {i \in 0..n : Adds(c, h[i], timestamp)}
<1> HIDE DEF n
<1>4. 0 \in T
  <2>1. Len(c.orders) \in Nat /\ c.orders \in Seq(BrokerOrders)
    BY DEF Brokers
  <2>2. Continues(c.orders, c.orders)
    BY <2>1 DEF Continues
  <2>3. Adds(c, c, timestamp)
    BY <2>1, <2>2 DEF Adds
  <2>4. Adds(c, h[0], timestamp) /\ 0 \in 0..n
    <3>1. h[0] = c
      BY <1>1
    <3>2. QED
      BY <1>3, <2>3, <3>1
  <2>5. QED
    BY <2>4
<1>5. ASSUME NEW i \in 1..n, i - 1 \in T
      PROVE  i \in T
  <2> DEFINE d == h[i - 1]
             q == h[i]
             order == NewOrder(d, requests[i], timestamp)
  <2>1. d \in Brokers /\ Adds(c, d, timestamp) /\ i - 1 \in 0..n
    BY <1>1, <1>5
  <2>2. q = SubmitOrder(d, requests[i], timestamp) /\ requests[i] \in OrderRequest
    BY <1>1, <1>3
  <2> HIDE DEF d, q
  <2>3. /\ q \in Brokers /\ q.orders = Append(d.orders, order) /\ order \in BrokerOrders
        /\ q.fills = d.fills /\ q.cash = d.cash /\ q.positions = d.positions
        /\ q.fill_policy = d.fill_policy /\ q.last_timestamp = d.last_timestamp
    BY <2>1, <2>2, SubmitFacts
  <2>4. /\ order.filled_quantity = 0
        /\ order.created_at = timestamp /\ order.updated_at = timestamp
    BY DEF NewOrder
  <2> HIDE DEF order
  <2>5. /\ c.orders \in Seq(BrokerOrders) /\ d.orders \in Seq(BrokerOrders)
        /\ Continues(c.orders, d.orders)
    BY <2>1 DEF Brokers, Adds
  <2>6. /\ Continues(c.orders, q.orders) /\ Len(q.orders) = Len(d.orders) + 1
        /\ q.orders[Len(d.orders) + 1] = order
        /\ \A k \in 1..Len(d.orders) : q.orders[k] = d.orders[k]
        /\ Len(d.orders) \in Nat /\ Len(c.orders) \in Nat
    BY <2>3, <2>5, AppendContinues
  <2>7. ASSUME NEW id \in (Len(c.orders) + 1)..Len(q.orders)
        PROVE  /\ q.orders[id].filled_quantity = 0
               /\ q.orders[id].created_at = timestamp /\ q.orders[id].updated_at = timestamp
    <3>1. CASE id = Len(d.orders) + 1
      BY <2>4, <2>6, <3>1
    <3>2. CASE id # Len(d.orders) + 1
      <4>1. id \in (Len(c.orders) + 1)..Len(d.orders) /\ id \in 1..Len(d.orders)
        BY <2>6, <3>2
      <4>2. q.orders[id] = d.orders[id]
        BY <2>6, <4>1
      <4>3. QED
        BY <2>1, <4>1, <4>2 DEF Adds
    <3>3. QED
      BY <3>1, <3>2
  <2>8. Adds(c, q, timestamp)
    BY <2>1, <2>3, <2>6, <2>7 DEF Adds
  <2>9. QED
    BY <2>8 DEF q
<1>6. 0..n \subseteq T
  <2> HIDE DEF T
  <2>1. QED
    BY <1>3, <1>4, <1>5, RunInduction
<1>7. n \in T
  BY <1>3, <1>6
<1>8. QED
  BY <1>1, <1>2, <1>7
-----------------------------------------------------------------------------
(* The two books.  c is the broker, p the portfolio, t the ExecutionEngine's orders. *)
Mirrors(c, p) ==
  /\ p.cash = c.cash
  /\ \A s \in Symbols : /\ p.positions[s].quantity = c.positions[s].quantity
                        /\ p.positions[s].average_cost = c.positions[s].average_cost
  /\ Len(p.trade_ledger) = Len(c.fills)
  /\ \A id \in p.processed_fill_ids : id <= Len(c.fills)

LEMMA PositionsAgree ==
  ASSUME NEW c \in Brokers, NEW p \in Portfolios, Mirrors(c, p),
         NEW fill \in BrokerFills, ~CannotSettle(c, fill)
  PROVE  /\ After(p, fill).quantity = PositionAfter(c, fill).quantity
         /\ After(p, fill).average_cost = PositionAfter(c, fill).average_cost
<1> DEFINE held == c.positions[fill.symbol]
           booked == p.positions[fill.symbol]
           quantity == fill.quantity
           price == fill.price
<1>1. /\ fill.symbol \in Symbols /\ quantity \in Nat \ {0} /\ fill.side \in Side
  BY DEF BrokerFills
<1>2. held \in Position /\ booked \in Position
  BY <1>1 DEF Brokers, Portfolios
<1>3. booked.quantity = held.quantity /\ booked.average_cost = held.average_cost
  BY <1>1 DEF Mirrors
<1>4. held.quantity \in Nat
  BY <1>2 DEF Position
<1>5. CASE fill.side = "BUY"
  <2> DEFINE total == held.quantity + quantity
             cost == (held.quantity * held.average_cost + quantity * price) \div total
  <2>1. After(p, fill) = [quantity |-> booked.quantity + quantity,
                          average_cost |-> (booked.quantity * booked.average_cost
                                              + quantity * price) \div (booked.quantity + quantity),
                          market_price |-> price]
    BY <1>5 DEF After, Bought
  <2>2. After(p, fill) = [quantity |-> total, average_cost |-> cost, market_price |-> price]
    BY <1>3, <2>1
  <2>3. PositionAfter(c, fill) = IF total = 0 THEN NoPosition
          ELSE [quantity |-> total, average_cost |-> cost, market_price |-> price]
    BY <1>5 DEF PositionAfter
  <2>4. total # 0
    <3> HIDE DEF held, quantity
    <3>1. QED
      BY <1>1, <1>4
  <2> HIDE DEF total, cost
  <2>5. QED
    BY <2>2, <2>3, <2>4
<1>6. CASE fill.side = "SELL"
  <2> DEFINE left == held.quantity - quantity
  <2>1. After(p, fill) = IF booked.quantity = quantity THEN NoPosition
          ELSE [booked EXCEPT !.quantity = booked.quantity - quantity, !.market_price = price]
    BY <1>6 DEF After, Sold
  <2>2. /\ After(p, fill).quantity = IF held.quantity = quantity THEN 0 ELSE left
        /\ After(p, fill).average_cost = IF held.quantity = quantity THEN 0 ELSE held.average_cost
    <3> HIDE DEF held, booked, quantity, price
    <3>1. QED
      BY <1>2, <1>3, <2>1 DEF Position, NoPosition
  <2>3. PositionAfter(c, fill) = IF left = 0 THEN NoPosition
          ELSE [quantity |-> left, average_cost |-> held.average_cost, market_price |-> price]
    BY <1>6 DEF PositionAfter
  <2>4. left = 0 <=> held.quantity = quantity
    <3> HIDE DEF held, quantity
    <3>1. QED
      BY <1>1, <1>4
  <2> HIDE DEF left, held, quantity
  <2>5. QED
    BY <2>2, <2>3, <2>4 DEF NoPosition
<1>7. QED
  BY <1>1, <1>5, <1>6 DEF Side

LEMMA BooksAgree ==
  ASSUME NEW c \in Brokers, NEW q \in Brokers, NEW e, NEW id, NEW fill \in BrokerFills,
         FillsOrder(c, id, e, fill, q), NEW p \in Portfolios, Mirrors(c, p)
  PROVE  Mirrors(q, ApplyFill(p, fill))
<1> DEFINE r == ApplyFill(p, fill)
<1>1. /\ fill.id = Len(c.fills) + 1 /\ ~CannotSettle(c, fill)
      /\ q.fills = Append(c.fills, fill) /\ q.cash = CashAfter(c, fill)
      /\ q.positions = [c.positions EXCEPT ![fill.symbol] = PositionAfter(c, fill)]
  BY DEF FillsOrder
<1>2. IsPortfolio(p, BrokerFills) /\ p.processed_fill_ids \in SUBSET Nat
  BY PortfoliosArePortfolios
<1>3. IsFill(fill) /\ fill.symbol \in Symbols /\ fill.side \in Side
  BY BrokerFillsAreFills DEF IsFill
<1>4. c.fills \in Seq(BrokerFills) /\ Len(c.fills) \in Nat
      /\ c.positions \in [Symbols -> Position] /\ c.cash \in Int
  BY DEF Brokers
<1>5. fill.id \notin p.processed_fill_ids
  <2>1. \A x \in p.processed_fill_ids : x <= Len(c.fills)
    BY DEF Mirrors
  <2>2. QED
    BY <1>1, <1>4, <2>1
<1>6. ~Oversells(p, fill)
  BY <1>1, <1>3 DEF Oversells, CannotSettle, Mirrors
<1>7. /\ IsPortfolio(r, BrokerFills)
      /\ r.processed_fill_ids = p.processed_fill_ids \cup {fill.id}
      /\ BooksFill(p, fill, r)
  BY <1>2, <1>3, <1>5, <1>6, ApplyFillFacts
<1> HIDE DEF r
<1>8. r.cash = q.cash
  <2> DEFINE amount == fill.quantity * fill.price
             commission == fill.commission
             cash == c.cash
  <2>1. amount \in Int /\ commission \in Int /\ cash \in Int
    <3>1. fill.quantity \in Int /\ fill.price \in Int /\ fill.commission \in Int
      BY <1>3 DEF IsFill
    <3>2. QED
      BY <1>4, <3>1
  <2>2. q.cash = IF fill.side = "BUY" THEN cash - (amount + commission)
                 ELSE cash + amount - commission
    BY <1>1 DEF CashAfter
  <2>3. r.cash = cash + (IF fill.side = "SELL" THEN amount ELSE -amount) - commission
    BY <1>7 DEF BooksFill, CashWith, TradeAmount, Notional, Mirrors
  <2> HIDE DEF amount, commission, cash
  <2>4. QED
    BY <1>3, <2>1, <2>2, <2>3 DEF Side
<1>9. \A s \in Symbols : /\ r.positions[s].quantity = q.positions[s].quantity
                         /\ r.positions[s].average_cost = q.positions[s].average_cost
  <2>1. /\ After(p, fill).quantity = PositionAfter(c, fill).quantity
        /\ After(p, fill).average_cost = PositionAfter(c, fill).average_cost
    BY <1>1, PositionsAgree
  <2>2. r.positions = [p.positions EXCEPT ![fill.symbol] = After(p, fill)]
    BY <1>7 DEF BooksFill
  <2>3. p.positions \in [Symbols -> Position]
    BY <1>2 DEF IsPortfolio
  <2>4. SUFFICES ASSUME NEW s \in Symbols
                 PROVE  /\ r.positions[s].quantity = q.positions[s].quantity
                        /\ r.positions[s].average_cost = q.positions[s].average_cost
    OBVIOUS
  <2>5. CASE s = fill.symbol
    <3>1. r.positions[s] = After(p, fill) /\ q.positions[s] = PositionAfter(c, fill)
      BY <1>1, <1>4, <2>2, <2>3, <2>5
    <3>2. QED
      BY <2>1, <3>1
  <2>6. CASE s # fill.symbol
    <3>1. r.positions[s] = p.positions[s] /\ q.positions[s] = c.positions[s]
      BY <1>1, <1>4, <2>2, <2>3, <2>6
    <3>2. QED
      BY <3>1 DEF Mirrors
  <2>7. QED
    BY <2>5, <2>6
<1>10. Len(q.fills) = Len(c.fills) + 1
  BY <1>1, <1>4, AppendProperties
<1>11. Len(r.trade_ledger) = Len(q.fills)
  <2> DEFINE Entries == [fill: BrokerFills, realized_pnl_delta: Int,
                         position_quantity_after: Nat]
  <2>1. PICK entry \in [fill: {fill}, realized_pnl_delta: Int, position_quantity_after: Nat] :
          r.trade_ledger = Append(p.trade_ledger, entry)
    BY <1>7 DEF BooksFill
  <2>2. entry \in Entries /\ p.trade_ledger \in Seq(Entries)
    BY <1>2 DEF IsPortfolio
  <2> HIDE DEF Entries
  <2>3. Len(r.trade_ledger) = Len(p.trade_ledger) + 1
    BY <2>1, <2>2, AppendProperties
  <2>4. QED
    BY <1>10, <2>3 DEF Mirrors
<1>12. \A x \in r.processed_fill_ids : x <= Len(q.fills)
  <2>1. \A x \in p.processed_fill_ids : x \in Nat /\ x <= Len(c.fills)
    BY <1>2 DEF Mirrors
  <2>2. QED
    BY <1>1, <1>4, <1>7, <1>10, <2>1
<1>13. Mirrors(q, r)
  BY <1>8, <1>9, <1>11, <1>12 DEF Mirrors
<1>14. QED
  BY <1>13 DEF r

(* The tracked orders when the bar has been through the orders up to i.  An order
   that may still be filled at the bar's time, by it or by another symbol's bar,
   was last tracked before. *)
Waits(order, e) ==
  /\ order.status \in OPEN_ORDER_STATUSES
  /\ e.timestamp > order.created_at
  /\ Rank[order.symbol] >= Rank[e.symbol]

Follows(c, t, e, i) ==
  /\ t \in Tracks(Len(c.orders))
  /\ \A j \in 1..Len(c.orders) :
       /\ t[j].filled_quantity = c.orders[j].filled_quantity
       /\ t[j].updated_at <= e.timestamp
       /\ (j > i \/ c.orders[j].symbol # e.symbol) /\ Waits(c.orders[j], e)
            => t[j].updated_at < e.timestamp

LEMMA FollowsQuietly ==
  ASSUME NEW c \in Brokers, NEW q \in Brokers, NEW e, NEW i \in 1..Len(c.orders),
         HandleStep(c, i, e, q), Quiet(c, i, q), c.orders[i].symbol # e.symbol => q = c,
         NEW t, NEW k, k = i - 1, Follows(c, t, e, k)
  PROVE  Follows(q, t, e, i)
<1> DEFINE n == Len(c.orders)
<1>1. Len(q.orders) = n /\ n \in Nat /\ i \in Nat
  BY OrderFacts DEF HandleStep
<1>2. t \in Tracks(Len(q.orders))
  BY <1>1 DEF Follows
<1>3. ASSUME NEW j \in 1..n
      PROVE  /\ t[j].filled_quantity = q.orders[j].filled_quantity
             /\ t[j].updated_at <= e.timestamp
             /\ (j > i \/ q.orders[j].symbol # e.symbol) /\ Waits(q.orders[j], e)
                  => t[j].updated_at < e.timestamp
  <2>1. /\ t[j].filled_quantity = c.orders[j].filled_quantity
        /\ t[j].updated_at <= e.timestamp
        /\ (j > k \/ c.orders[j].symbol # e.symbol) /\ Waits(c.orders[j], e)
             => t[j].updated_at < e.timestamp
    BY DEF Follows
  <2>2. q.orders[j].filled_quantity = c.orders[j].filled_quantity
    BY DEF HandleStep, Quiet
  <2>3. (j > i => j > k) /\ (j > i => j # i)
    BY <1>1
  <2>4. j # i => q.orders[j] = c.orders[j]
    BY DEF HandleStep
  <2>5. j = i /\ q.orders[j].symbol # e.symbol => q.orders[j] = c.orders[j]
    BY DEF HandleStep, OrderKeeps
  <2>6. QED
    BY <2>1, <2>2, <2>3, <2>4, <2>5
<1>4. QED
  BY <1>1, <1>2, <1>3 DEF Follows

LEMMA FollowsFill ==
  ASSUME NEW c \in Brokers, NEW q \in Brokers, NEW e, IsBar(e),
         NEW i \in 1..Len(c.orders), IsDue(c.orders[i], e),
         HandleStep(c, i, e, q), NEW fill \in BrokerFills, FillsOrder(c, i, e, fill, q),
         NEW t, NEW k, k = i - 1, Follows(c, t, e, k)
  PROVE  Follows(q, FillTracked(t, fill), e, i) /\ fill \in FillsFor(Len(c.orders))
<1> DEFINE n == Len(c.orders)
           ts == e.timestamp
           u == FillTracked(t, fill)
<1>1. Len(q.orders) = n /\ n \in Nat /\ i \in Nat /\ ts \in Nat
  BY OrderFacts DEF HandleStep, IsBar
<1>2. t \in Tracks(n)
  BY DEF Follows
<1>3. /\ fill.order = i /\ fill.timestamp = ts
      /\ q.orders[i].filled_quantity = c.orders[i].filled_quantity + fill.quantity
  BY DEF FillsOrder
<1>4. fill \in FillsFor(n)
  BY <1>3 DEF FillsFor
<1>5. Waits(c.orders[i], e) /\ q.orders[i].symbol = e.symbol
  <2>1. Rank[e.symbol] \in Nat
    BY RankAssumption DEF IsBar
  <2>2. q.orders[i].symbol = c.orders[i].symbol
    BY DEF HandleStep, OrderKeeps
  <2>3. QED
    BY <2>1, <2>2 DEF IsDue, Waits
<1> HIDE DEF n, u
<1>6. /\ u \in Tracks(n) /\ \A j \in 1..n : j # i => u[j] = t[j]
      /\ u[i] = MarkFilled(t[i], fill)
  BY <1>1, <1>2, <1>3, <1>4, TrackingFacts DEF u
<1>7. t[i].filled_quantity = c.orders[i].filled_quantity /\ t[i].updated_at < ts
      /\ t[i] \in OrderRecord
  <2>1. i > k /\ i \in 1..n
    BY <1>1 DEF n
  <2>2. t[i] \in OrderRecord
    BY <1>2, <2>1 DEF Tracks
  <2>3. QED
    BY <1>5, <2>1, <2>2 DEF Follows
<1>8. ~FillAlreadyReflected(t[i], fill)
  <2>1. t[i].updated_at \in Nat
    BY <1>7 DEF OrderRecord
  <2>2. ~(t[i].updated_at >= ts)
    BY <1>1, <1>7, <2>1
  <2>3. QED
    BY <1>3, <2>2 DEF FillAlreadyReflected
<1>9. u[i].filled_quantity = q.orders[i].filled_quantity /\ u[i].updated_at = ts
  BY <1>3, <1>6, <1>7, <1>8, MarkFilledFacts
<1>10. ASSUME NEW j \in 1..n
       PROVE  /\ u[j].filled_quantity = q.orders[j].filled_quantity
              /\ u[j].updated_at <= ts
              /\ (j > i \/ q.orders[j].symbol # e.symbol) /\ Waits(q.orders[j], e)
                   => u[j].updated_at < ts
  <2>1. CASE j = i
    BY <1>1, <1>5, <1>9, <2>1
  <2>2. CASE j # i
    <3>1. /\ t[j].filled_quantity = c.orders[j].filled_quantity
          /\ t[j].updated_at <= ts
          /\ (j > k \/ c.orders[j].symbol # e.symbol) /\ Waits(c.orders[j], e)
               => t[j].updated_at < ts
      BY DEF Follows, n
    <3>2. q.orders[j] = c.orders[j]
      BY <2>2 DEF HandleStep, n
    <3>3. j > i => j > k
      BY <1>1
    <3>4. QED
      BY <1>6, <2>2, <3>1, <3>2, <3>3
  <2>3. QED
    BY <2>1, <2>2
<1>11. Follows(q, u, e, i)
  BY <1>1, <1>6, <1>10 DEF Follows
<1>12. QED
  BY <1>4, <1>11 DEF u, n

LEMMA BarPrefixStart ==
  ASSUME NEW c \in Brokers, NEW e, IsBar(e)
  PROVE  BarPrefix(c, c, e, 0)
<1>1. Len(c.orders) \in Nat /\ Len(c.fills) \in Nat
  BY DEF Brokers
<1>2. Continues(c.fills, c.fills)
  BY <1>1 DEF Continues
<1>3. FillsSoFar(c, c, e)
  BY <1>1 DEF FillsSoFar
<1>4. ASSUME NEW j \in 1..Len(c.orders)
      PROVE  OrderStep(c.orders[j], c.orders[j], e)
  <2>1. c.orders[j] \in BrokerOrders
    BY OrderFacts
  <2>2. c.orders[j].filled_quantity \in Nat
    BY <2>1 DEF BrokerOrders
  <2>3. ~(c.orders[j].filled_quantity > c.orders[j].filled_quantity)
    BY <2>2
  <2>4. QED
    BY <2>3 DEF OrderStep, OrderKeeps
<1>5. OrdersSoFar(c, c, e, 0)
  BY <1>4 DEF OrdersSoFar
<1>6. QED
  BY <1>2, <1>3, <1>5 DEF BarPrefix

(* A bar, with all that it does to the broker's books, to the portfolio's and to
   the tracked orders: order by order, the fill if there is one is the next one
   the portfolio and the ExecutionEngine are given. *)
LEMMA BarBooks ==
  ASSUME NEW c \in Brokers, NEW e, IsBar(e), NEW p0 \in Portfolios, Mirrors(c, p0),
         NEW t0, Follows(c, t0, e, 0)
  PROVE  LET q     == AllOrders(c, e)
             fills == SubSeq(q.fills, Len(c.fills) + 1, Len(q.fills))
             p     == FoldLeft(ApplyFill, p0, fills)
             t     == FoldLeft(FillTracked, t0, fills)
         IN  /\ BarPrefix(c, q, e, Len(c.orders))
             /\ p \in Portfolios /\ Mirrors(q, p)
             /\ Follows(q, t, e, Len(c.orders))
<1> DEFINE n == Len(c.orders)
           q == AllOrders(c, e)
           first == Len(c.fills)
           last == Len(q.fills)
           fills == SubSeq(q.fills, first + 1, last)
           m == Len(fills)
<1>1. PICK h : /\ h \in [0..n -> Brokers] /\ h[0] = c
               /\ \A i \in 1..n : h[i] = HandleOrder(h[i - 1], i, e)
               /\ \A i \in 0..n : Len(h[i].orders) = n
               /\ h[n] = q
  BY BarRun
<1> HIDE DEF q
<1>2. n \in Nat /\ first \in Nat /\ c.fills \in Seq(BrokerFills) /\ e.timestamp \in Nat
  BY OrderFacts DEF Brokers, IsBar
<1> HIDE DEF n
<1>3. \A i \in 0..n : BarPrefix(c, h[i], e, i)
  <2> DEFINE T == {i \in 0..n : BarPrefix(c, h[i], e, i)}
  <2>1. 0 \in T
    <3>1. BarPrefix(c, c, e, 0)
      BY BarPrefixStart
    <3>2. QED
      BY <1>1, <1>2, <3>1
  <2>2. ASSUME NEW i \in 1..n, i - 1 \in T
        PROVE  i \in T
    <3>1. BarPrefix(c, h[i - 1], e, i - 1) /\ h[i] = HandleOrder(h[i - 1], i, e)
      BY <1>1, <2>2
    <3> DEFINE d == h[i - 1]
    <3> HIDE DEF d
    <3>2. BarPrefix(c, d, e, i - 1) /\ i \in 1..Len(c.orders)
      BY <3>1 DEF d, n
    <3>3. BarPrefix(c, HandleOrder(d, i, e), e, i)
      BY <3>2, HandleKeepsPrefix
    <3>4. QED
      BY <3>1, <3>3 DEF d
  <2> HIDE DEF T
  <2>3. 0..n \subseteq T
    BY <1>2, <2>1, <2>2, RunInduction
  <2>4. QED
    BY <2>3 DEF T
<1>4. BarPrefix(c, q, e, n) /\ q \in Brokers
  <2>1. n \in 0..n
    BY <1>2
  <2>2. QED
    BY <1>1, <1>3, <2>1
<1>5. /\ q.fills \in Seq(BrokerFills) /\ last \in Nat /\ first <= last
      /\ \A k \in 1..first : q.fills[k] = c.fills[k]
      /\ FillsSoFar(c, q, e)
  BY <1>4 DEF Brokers, BarPrefix, Continues
<1>6. /\ fills \in Seq(FillsFor(n)) /\ fills \in Seq(BrokerFills)
      /\ m \in Nat /\ m = last - first
      /\ \A k \in 1..m : fills[k] = q.fills[first + k]
  <2>1. ASSUME NEW k \in (first + 1)..last
        PROVE  q.fills[k] \in FillsFor(n)
    <3>1. k \in 1..last
      BY <1>2, <1>5
    <3>2. q.fills[k] \in BrokerFills /\ q.fills[k].order \in 1..n
      BY <1>5, <3>1 DEF FillsSoFar, n
    <3>3. QED
      BY <3>2 DEF FillsFor
  <2>2. FillsFor(n) \subseteq BrokerFills
    BY DEF FillsFor
  <2> HIDE DEF first, last
  <2>3. /\ fills \in Seq(FillsFor(n))
        /\ m = IF first + 1 <= last THEN last - (first + 1) + 1 ELSE 0
        /\ \A k \in 1..(last - (first + 1) + 1) : fills[k] = q.fills[(first + 1) + k - 1]
    BY <1>2, <1>5, <2>1, SubSeqProperties
  <2> HIDE DEF fills
  <2>4. m = last - first /\ m \in Nat
    BY <1>2, <1>5, <2>3
  <2>5. ASSUME NEW k \in 1..m
        PROVE  fills[k] = q.fills[first + k]
    <3>1. k \in 1..(last - (first + 1) + 1) /\ (first + 1) + k - 1 = first + k
      BY <1>2, <1>5, <2>4
    <3>2. QED
      BY <2>3, <3>1
  <2>6. fills \in Seq(BrokerFills)
    BY <2>2, <2>3
  <2>7. QED
    BY <2>3, <2>4, <2>5, <2>6
<1> HIDE DEF fills, first, last
<1>7. PICK p : /\ p \in [0..m -> Portfolios] /\ p[0] = p0
               /\ \A k \in 1..m : p[k] = ApplyFill(p[k - 1], fills[k])
               /\ p[m] = FoldLeft(ApplyFill, p0, fills)
  BY <1>6, BookRun
<1>8. PICK t : /\ t \in [0..m -> Tracks(n)] /\ t[0] = t0
               /\ \A k \in 1..m : t[k] = FillTracked(t[k - 1], fills[k])
               /\ t[m] = FoldLeft(FillTracked, t0, fills)
  <2>1. t0 \in Tracks(n)
    BY DEF Follows, n
  <2>2. QED
    BY ZenonT(40), <1>2, <1>6, <2>1, TrackRun
<1> HIDE DEF m
(* The fills so far are a prefix of all. *)
<1>9. \A i \in 0..n : Continues(h[i].fills, q.fills)
  <2> DEFINE T == {i \in 0..n : \A l \in 0..i : Continues(h[l].fills, h[i].fills)}
  <2>1. \A i \in 0..n : h[i].fills \in Seq(BrokerFills) /\ Len(h[i].fills) \in Nat
    <3>1. \A d \in Brokers : d.fills \in Seq(BrokerFills) /\ Len(d.fills) \in Nat
      BY DEF Brokers
    <3>2. QED
      BY <1>1, <3>1
  <2>2. \A i \in 0..n : Continues(h[i].fills, h[i].fills)
    BY <2>1 DEF Continues
  <2>3. 0 \in T
    BY <1>2, <2>2
  <2>4. ASSUME NEW i \in 1..n, i - 1 \in T
        PROVE  i \in T
    <3> DEFINE d == h[i - 1]
               r == h[i]
    <3>1. i - 1 \in 0..n /\ i \in 0..n
      BY <1>2
    <3>2. d \in Brokers /\ r = HandleOrder(d, i, e) /\ i \in 1..Len(d.orders)
      BY <1>1, <3>1
    <3> HIDE DEF d, r
    <3>3. HandleStep(d, i, e, r)
      BY <3>2, HandleOrderStep
    <3>4. d.fills \in Seq(BrokerFills) /\ r.fills \in Seq(BrokerFills)
      BY <2>1, <3>1 DEF d, r
    <3>5. Continues(d.fills, r.fills)
      <4>1. CASE r.fills = d.fills
        BY <3>4, <4>1 DEF Continues
      <4>2. CASE r.fills # d.fills
        <5>1. PICK fill \in BrokerFills : r.fills = Append(d.fills, fill)
          BY <3>3, <4>2 DEF HandleStep, Quiet, FillsOrder
        <5>2. Continues(d.fills, d.fills)
          BY <3>4 DEF Continues
        <5>3. QED
          BY <3>4, <5>1, <5>2, AppendContinues
      <4>3. QED
        BY <4>1, <4>2
    <3>6. ASSUME NEW l \in 0..i
          PROVE  Continues(h[l].fills, r.fills)
      <4>1. CASE l = i
        BY <2>2, <3>1, <4>1 DEF r
      <4>2. CASE l # i
        <5>1. l \in 0..(i - 1) /\ l \in 0..n
          BY <1>2, <4>2
        <5>2. Continues(h[l].fills, d.fills)
          BY <2>4, <5>1 DEF d
        <5>3. Len(h[l].fills) \in Nat /\ Len(d.fills) \in Nat /\ Len(r.fills) \in Nat
          BY <2>1, <3>4, <5>1
        <5>4. QED
          BY <3>5, <5>2, <5>3 DEF Continues
      <4>3. QED
        BY <4>1, <4>2
    <3>7. QED
      BY <3>1, <3>6 DEF r
  <2>5. 0..n \subseteq T
    <3> HIDE DEF T
    <3>1. QED
      BY <1>2, <2>3, <2>4, RunInduction
  <2>6. n \in T /\ n \in 0..n
    BY <1>2, <2>5
  <2>7. QED
    BY <1>1, <2>6
(* After order i, the portfolio and the tracked orders are where the fills up
   to it have brought them. *)
<1> DEFINE Booked(i) == Len(h[i].fills) - first
           Agree(i) == Mirrors(h[i], p[Booked(i)]) /\ Follows(h[i], t[Booked(i)], e, i)
           T == {i \in 0..n : Agree(i)}
<1>10. ASSUME NEW i \in 0..n
       PROVE  /\ Booked(i) \in 0..m /\ h[i] \in Brokers
              /\ Len(h[i].fills) \in Nat /\ Len(h[i].fills) = first + Booked(i)
  <2>1. h[i] \in Brokers /\ Len(h[i].fills) \in Nat
    <3>1. \A d \in Brokers : Len(d.fills) \in Nat
      BY DEF Brokers
    <3>2. QED
      BY <1>1, <3>1
  <2>2. Continues(c.fills, h[i].fills)
    BY <1>3 DEF BarPrefix
  <2>3. Continues(h[i].fills, q.fills)
    BY <1>9
  <2>4. first <= Len(h[i].fills) /\ Len(h[i].fills) <= last
    BY <2>2, <2>3 DEF Continues, first, last
  <2>5. QED
    BY <1>2, <1>5, <1>6, <2>1, <2>4
<1>11. 0 \in T
  <2>1. Booked(0) = 0
    BY <1>1, <1>2 DEF first
  <2>2. h[0] = c /\ p[0] = p0 /\ t[0] = t0 /\ 0 \in 0..n
    BY <1>1, <1>2, <1>7, <1>8
  <2>3. QED
    BY <2>1, <2>2
<1>12. ASSUME NEW i \in 1..n, i - 1 \in T
       PROVE  i \in T
  <2> DEFINE d == h[i - 1]
             r == h[i]
             k == Booked(i - 1)
             pk == p[k]
             tk == t[k]
  <2>1. i - 1 \in 0..n /\ i \in 0..n
    BY <1>2
  <2>2. /\ d \in Brokers /\ r \in Brokers /\ r = HandleOrder(d, i, e)
        /\ i \in 1..Len(d.orders)
        /\ k \in 0..m /\ Len(d.fills) \in Nat /\ Len(d.fills) = first + k
        /\ Mirrors(d, pk) /\ Follows(d, tk, e, i - 1)
    BY <1>1, <1>10, <1>12, <2>1
  <2>3. pk \in Portfolios
    BY <1>7, <2>2
  <2>4. Booked(i) = Len(r.fills) - first
    OBVIOUS
  <2>5. Continues(r.fills, q.fills)
    BY <1>9, <2>1
  <2> HIDE DEF d, r, k, pk, tk, Booked
  <2>6. /\ HandleStep(d, i, e, r)
        /\ d.orders[i].symbol # e.symbol => r = d
        /\ Quiet(d, i, r) \/ IsDue(d.orders[i], e)
    BY <2>2, HandleOrderStep
  <2>7. CASE Quiet(d, i, r)
    <3>1. Booked(i) = k
      BY <1>2, <2>2, <2>4, <2>7 DEF Quiet
    <3>2. Mirrors(r, pk)
      BY <2>2, <2>7 DEF Quiet, Mirrors
    <3>3. Follows(r, tk, e, i)
      BY <2>2, <2>6, <2>7, FollowsQuietly
    <3>4. QED
      BY <2>1, <3>1, <3>2, <3>3 DEF pk, tk, r
  <2>8. CASE ~Quiet(d, i, r)
    <3>1. PICK fill \in BrokerFills : FillsOrder(d, i, e, fill, r)
      BY <2>6, <2>8 DEF HandleStep
    <3>2. r.fills = Append(d.fills, fill) /\ d.fills \in Seq(BrokerFills)
      BY <2>2, <3>1 DEF FillsOrder, Brokers
    <3>3. Len(r.fills) = Len(d.fills) + 1 /\ r.fills[Len(d.fills) + 1] = fill
      BY <3>2, AppendProperties
    <3>4. Booked(i) = k + 1
      BY <1>2, <2>2, <2>4, <3>3
    <3>5. k + 1 \in 1..m /\ k \in Nat
      BY <1>6, <1>10, <2>1, <2>2, <3>4
    <3>6. fills[k + 1] = fill
      <4>1. q.fills[Len(d.fills) + 1] = fill
        <5>1. Len(d.fills) + 1 \in 1..Len(r.fills)
          BY <2>2, <3>3
        <5>2. QED
          BY <2>5, <3>3, <5>1 DEF Continues
      <4>2. fills[k + 1] = q.fills[first + (k + 1)] /\ first + (k + 1) = Len(d.fills) + 1
        BY <1>2, <1>6, <2>2, <3>5
      <4>3. QED
        BY <4>1, <4>2
    <3>7. p[k + 1] = ApplyFill(pk, fill) /\ t[k + 1] = FillTracked(tk, fill)
      <4>1. (k + 1) - 1 = k
        BY <3>5
      <4>2. QED
        BY <1>7, <1>8, <3>5, <3>6, <4>1 DEF pk, tk
    <3>8. Mirrors(r, ApplyFill(pk, fill))
      BY <2>2, <2>3, <3>1, BooksAgree
    <3>9. Follows(r, FillTracked(tk, fill), e, i)
      BY <2>2, <2>6, <2>8, <3>1, FollowsFill
    <3>10. QED
      BY <2>1, <3>4, <3>7, <3>8, <3>9 DEF r
  <2>9. QED
    BY <2>7, <2>8
<1>13. n \in T
  <2> HIDE DEF T
  <2>1. 0..n \subseteq T
    BY <1>2, <1>11, <1>12, RunInduction
  <2>2. QED
    BY <1>2, <2>1
<1>14. Booked(n) = m
  BY <1>1, <1>6 DEF last
<1>15. /\ Mirrors(q, FoldLeft(ApplyFill, p0, fills))
       /\ Follows(q, FoldLeft(FillTracked, t0, fills), e, n)
       /\ FoldLeft(ApplyFill, p0, fills) \in Portfolios
  <2>1. Agree(n)
    BY <1>13
  <2>2. p[m] \in Portfolios
    BY <1>6, <1>7
  <2>3. QED
    BY <1>1, <1>7, <1>8, <1>14, <2>1, <2>2
<1>16. QED
  BY <1>4, <1>15 DEF fills, first, last, q, n
-----------------------------------------------------------------------------
(* The invariant.  Nothing is newer than the bar that has come last. *)
BarRecord == [symbol: Symbols, open: Nat, high: Nat, low: Nat, close: Nat, timestamp: Nat]

TypeInv ==
  /\ broker \in Brokers
  /\ portfolio \in Portfolios
  /\ orders \in Tracks(Len(broker.orders))
  /\ bar.timestamp \in Nat /\ bar.timestamp = broker.last_timestamp
  /\ Symbols # {} => bar.symbol \in Symbols

OrdersStamped(c) ==
  \A id \in 1..Len(c.orders) : /\ c.orders[id].created_at <= c.last_timestamp
                               /\ c.orders[id].updated_at <= c.last_timestamp

FillsStamped(c) ==
  \A k \in 1..Len(c.fills) : /\ c.fills[k].timestamp <= c.last_timestamp
                             /\ c.fills[k].order \in 1..Len(c.orders)

Inv ==
  /\ TypeInv
  /\ Mirrors(broker, portfolio)
  /\ Follows(broker, orders, bar, Len(broker.orders))
  /\ Counted(broker)
  /\ OrdersStamped(broker) /\ FillsStamped(broker)
  /\ portfolio.last_snapshot.cash = portfolio.cash

(* The steps of the engine: the marked broker c, the broker after the orders, the
   portfolio and the tracked orders after the fills. *)
StepShape(e, c, filled, p, t) ==
  /\ IsBar(e) /\ e.timestamp >= bar.timestamp
  /\ c \in Brokers /\ c.orders = broker.orders /\ c.fills = broker.fills
  /\ c.cash = broker.cash /\ c.last_timestamp = e.timestamp
  /\ BarPrefix(c, filled, e, Len(c.orders))
  /\ broker' \in Brokers /\ Adds(filled, broker', e.timestamp)
  /\ p \in Portfolios /\ Mirrors(filled, p)
  /\ portfolio' = MarkToMarket(p, e.symbol, e.close)
  /\ Follows(filled, t, e, Len(filled.orders))
  /\ orders' = RegisterNew(t, broker')
  /\ bar' = e

LEMMA MarkedBroker ==
  ASSUME NEW b \in Brokers, NEW e, IsBar(e)
  PROVE  LET c == MarkPosition([b EXCEPT !.last_timestamp = e.timestamp], e)
         IN  /\ c \in Brokers /\ c.orders = b.orders /\ c.fills = b.fills /\ c.cash = b.cash
             /\ c.last_timestamp = e.timestamp
             /\ \A s \in Symbols : /\ c.positions[s].quantity = b.positions[s].quantity
                                   /\ c.positions[s].average_cost = b.positions[s].average_cost
<1> DEFINE d == [b EXCEPT !.last_timestamp = e.timestamp]
           c == MarkPosition(d, e)
           marked == [b.positions EXCEPT ![e.symbol].market_price = e.close]
<1>1. e.symbol \in Symbols /\ e.close \in Nat /\ e.timestamp \in Nat
  BY DEF IsBar
<1>2. /\ d \in Brokers /\ d.orders = b.orders /\ d.fills = b.fills /\ d.cash = b.cash
      /\ d.positions = b.positions /\ d.last_timestamp = e.timestamp
  BY <1>1 DEF Brokers
<1>3. b.positions \in [Symbols -> Position]
  BY DEF Brokers
<1>4. /\ marked \in [Symbols -> Position]
      /\ \A s \in Symbols : /\ marked[s].quantity = b.positions[s].quantity
                            /\ marked[s].average_cost = b.positions[s].average_cost
  BY <1>1, <1>3 DEF Position
<1>5. c = IF d.positions[e.symbol].quantity = 0 THEN d ELSE [d EXCEPT !.positions = marked]
  BY <1>1, <1>2 DEF MarkPosition, Brokers
<1> HIDE DEF d, marked, c
<1>6. CASE d.positions[e.symbol].quantity = 0
  BY <1>2, <1>5, <1>6 DEF c, d
<1>7. CASE d.positions[e.symbol].quantity # 0
  <2>1. /\ c \in Brokers /\ c.orders = d.orders /\ c.fills = d.fills /\ c.cash = d.cash
        /\ c.last_timestamp = d.last_timestamp /\ c.positions = marked
    BY <1>2, <1>4, <1>5, <1>7 DEF Brokers
  <2>2. QED
    BY <1>2, <1>4, <2>1 DEF c, d
<1>8. QED
  BY <1>6, <1>7

LEMMA StepTakes ==
  ASSUME Inv, NEW b \in Bars, NEW timestamp \in 1..MaxTime, NEW requests \in Requests,
         Step(b, timestamp, requests)
  PROVE  \E e, c, filled, p, t :
           /\ StepShape(e, c, filled, p, t)
           /\ e = At(b, timestamp)
<1> DEFINE e == At(b, timestamp)
           c == MarkPosition([broker EXCEPT !.last_timestamp = e.timestamp], e)
           filled == AllOrders(c, e)
           fills == SubSeq(filled.fills, Len(c.fills) + 1, Len(filled.fills))
           p == FoldLeft(ApplyFill, portfolio, fills)
           t == FoldLeft(FillTracked, orders, fills)
<1>1. /\ IsBar(e) /\ e.timestamp = timestamp /\ e.symbol = b.symbol /\ timestamp \in Nat
      /\ e.close = b.close
  BY BarFacts DEF At
<1>2. /\ ComesNext(e, bar) /\ bar.timestamp \in Nat /\ bar.symbol \in Symbols
      /\ Rank[e.symbol] \in Nat /\ Rank[bar.symbol] \in Nat
  <2>1. ComesNext(e, bar)
    BY DEF Step
  <2> HIDE DEF e
  <2>2. bar.timestamp \in Nat /\ e.symbol \in Symbols /\ bar.symbol \in Symbols
    BY <1>1 DEF Inv, TypeInv, IsBar
  <2>3. QED
    BY <2>1, <2>2, RankAssumption
<1>3. /\ broker \in Brokers /\ portfolio \in Portfolios /\ Mirrors(broker, portfolio)
      /\ Follows(broker, orders, bar, Len(broker.orders))
  BY DEF Inv, TypeInv
<1>4. requests \in Seq(OrderRequest)
  BY RequestsAssumption
<1> HIDE DEF e
<1>5. /\ c \in Brokers /\ c.orders = broker.orders /\ c.fills = broker.fills
      /\ c.cash = broker.cash /\ c.last_timestamp = e.timestamp
      /\ \A s \in Symbols : /\ c.positions[s].quantity = broker.positions[s].quantity
                            /\ c.positions[s].average_cost = broker.positions[s].average_cost
  BY <1>1, <1>3, MarkedBroker
<1>6. filled = OnMarketEvent(broker, e)
  BY <1>5 DEF OnMarketEvent, AllOrders
<1>7. fills = NewFills(broker, filled)
  BY <1>5 DEF NewFills
<1>8. /\ bar' = e
      /\ broker' = SubmitAll(filled, requests, timestamp)
      /\ portfolio' = MarkToMarket(p, e.symbol, e.close)
      /\ orders' = RegisterNew(t, broker')
  <2>1. /\ bar' = e
        /\ broker' = SubmitAll(OnMarketEvent(broker, e), requests, timestamp)
        /\ portfolio' = MarkToMarket(FoldLeft(ApplyFill, portfolio,
                                              NewFills(broker, OnMarketEvent(broker, e))),
                                     b.symbol, b.close)
        /\ orders' = RegisterNew(FoldLeft(FillTracked, orders,
                                          NewFills(broker, OnMarketEvent(broker, e))),
                                 SubmitAll(OnMarketEvent(broker, e), requests, timestamp))
    BY DEF Step, e
  <2> HIDE DEF filled, fills, c
  <2>2. QED
    BY <1>1, <1>6, <1>7, <2>1
<1> HIDE DEF c
<1>9. Mirrors(c, portfolio)
  BY <1>3, <1>5 DEF Mirrors
<1>10. Follows(c, orders, e, 0)
  <2>1. ASSUME NEW j \in 1..Len(c.orders)
        PROVE  /\ orders[j].filled_quantity = c.orders[j].filled_quantity
               /\ orders[j].updated_at <= e.timestamp
               /\ Waits(c.orders[j], e) => orders[j].updated_at < e.timestamp
    <3> DEFINE order == c.orders[j]
    <3>1. /\ orders[j].filled_quantity = order.filled_quantity
          /\ orders[j].updated_at <= bar.timestamp
          /\ order.symbol # bar.symbol /\ Waits(order, bar)
               => orders[j].updated_at < bar.timestamp
      BY <1>3, <1>5 DEF Follows
    <3>2. orders[j] \in OrderRecord /\ order \in BrokerOrders
      BY <1>3, <1>5, OrderFacts DEF Follows, Tracks
    <3>3. orders[j].updated_at \in Nat /\ order.symbol \in Symbols
      BY <3>2 DEF OrderRecord, BrokerOrders
    <3>4. Rank[order.symbol] \in Nat
      BY <3>3, RankAssumption
    <3> HIDE DEF order
    <3>5. CASE e.timestamp > bar.timestamp
      BY <1>1, <1>2, <3>1, <3>3, <3>5 DEF order
    <3>6. CASE ~(e.timestamp > bar.timestamp)
      <4>1. e.timestamp = bar.timestamp /\ Rank[e.symbol] > Rank[bar.symbol]
        BY <1>2, <3>6 DEF ComesNext
      <4>2. Waits(order, e) => order.symbol # bar.symbol /\ Waits(order, bar)
        BY <1>2, <3>4, <4>1 DEF Waits
      <4>3. QED
        BY <1>1, <1>2, <3>1, <3>3, <4>1, <4>2 DEF order
    <3>7. QED
      BY <3>5, <3>6
  <2>2. QED
    BY <1>3, <1>5, <2>1 DEF Follows
<1>11. /\ BarPrefix(c, filled, e, Len(c.orders))
       /\ p \in Portfolios /\ Mirrors(filled, p)
       /\ Follows(filled, t, e, Len(c.orders))
  BY <1>1, <1>3, <1>5, <1>9, <1>10, BarBooks
<1> HIDE DEF filled, fills, p, t
<1>12. filled \in Brokers /\ Len(filled.orders) = Len(c.orders)
  BY <1>11 DEF BarPrefix
<1>13. broker' \in Brokers /\ Adds(filled, broker', timestamp)
  BY <1>1, <1>4, <1>8, <1>12, SubmitAllFacts
<1>14. StepShape(e, c, filled, p, t)
  <2>1. e.timestamp >= bar.timestamp
    BY <1>1, <1>2 DEF ComesNext
  <2>2. QED
    BY <1>1, <1>5, <1>8, <1>11, <1>12, <1>13, <2>1 DEF StepShape
<1>15. QED
  BY <1>14 DEF e

(* What a step keeps, one part of the invariant after the other. *)
LEMMA StepKeepsOrders ==
  ASSUME Inv, NEW e, NEW c, NEW filled, NEW p, NEW t, StepShape(e, c, filled, p, t)
  PROVE  /\ broker' \in Brokers /\ filled \in Brokers
         /\ broker'.fills = filled.fills /\ broker'.cash = filled.cash
         /\ broker'.last_timestamp = e.timestamp
         /\ Len(broker.orders) \in Nat /\ Len(filled.orders) = Len(broker.orders)
         /\ Len(broker'.orders) \in Nat /\ Len(broker.orders) <= Len(broker'.orders)
         /\ \A id \in 1..Len(broker.orders) :
              broker'.orders[id] = filled.orders[id]
              /\ OrderStep(broker.orders[id], broker'.orders[id], e)
         /\ \A id \in (Len(broker.orders) + 1)..Len(broker'.orders) :
              /\ broker'.orders[id].filled_quantity = 0
              /\ broker'.orders[id].created_at = e.timestamp
              /\ broker'.orders[id].updated_at = e.timestamp
<1>1. /\ c \in Brokers /\ c.orders = broker.orders /\ c.last_timestamp = e.timestamp
      /\ BarPrefix(c, filled, e, Len(c.orders)) /\ Adds(filled, broker', e.timestamp)
      /\ broker' \in Brokers
  BY DEF StepShape
<1>2. /\ filled \in Brokers /\ Len(filled.orders) = Len(broker.orders)
      /\ OrdersSoFar(c, filled, e, Len(c.orders)) /\ filled.last_timestamp = e.timestamp
  BY <1>1 DEF BarPrefix
<1>3. \A d \in Brokers : Len(d.orders) \in Nat
  BY DEF Brokers
<1>4. Len(broker.orders) \in Nat /\ Len(broker'.orders) \in Nat
  BY <1>1, <1>2, <1>3
<1>5. /\ broker'.fills = filled.fills /\ broker'.cash = filled.cash
      /\ broker'.last_timestamp = e.timestamp /\ Continues(filled.orders, broker'.orders)
      /\ \A id \in (Len(filled.orders) + 1)..Len(broker'.orders) :
           /\ broker'.orders[id].filled_quantity = 0
           /\ broker'.orders[id].created_at = e.timestamp
           /\ broker'.orders[id].updated_at = e.timestamp
  BY <1>1, <1>2 DEF Adds
<1>6. /\ Len(broker.orders) <= Len(broker'.orders)
      /\ \A id \in 1..Len(broker.orders) : broker'.orders[id] = filled.orders[id]
  BY <1>2, <1>5 DEF Continues
<1>7. \A id \in 1..Len(broker.orders) : OrderStep(broker.orders[id], filled.orders[id], e)
  BY <1>1, <1>2 DEF OrdersSoFar
<1>8. QED
  BY <1>1, <1>2, <1>4, <1>5, <1>6, <1>7

LEMMA StepKeepsTracking ==
  ASSUME Inv, NEW e, NEW c, NEW filled, NEW p, NEW t, StepShape(e, c, filled, p, t)
  PROVE  Follows(broker', orders', bar', Len(broker'.orders))
         /\ orders' \in Tracks(Len(broker'.orders))
<1> DEFINE n == Len(broker.orders)
           k == Len(broker'.orders)
           ts == e.timestamp
           new == [i \in 1..(k - n) |-> Snapshot(broker'.orders[n + i])]
           all == t \o new
<1>1. /\ broker' \in Brokers /\ Len(filled.orders) = n /\ n \in Nat /\ k \in Nat /\ n <= k
      /\ \A id \in 1..n : broker'.orders[id] = filled.orders[id]
      /\ \A id \in (n + 1)..k : /\ broker'.orders[id].filled_quantity = 0
                                /\ broker'.orders[id].created_at = ts
                                /\ broker'.orders[id].updated_at = ts
  BY StepKeepsOrders
<1>2. ts \in Nat /\ bar' = e /\ Follows(filled, t, e, Len(filled.orders))
      /\ orders' = RegisterNew(t, broker')
  BY DEF StepShape, IsBar
<1>3. /\ t \in Seq(OrderRecord) /\ Len(t) = n
      /\ \A j \in 1..n : /\ t[j].filled_quantity = filled.orders[j].filled_quantity
                         /\ t[j].updated_at <= ts
                         /\ filled.orders[j].symbol # e.symbol /\ Waits(filled.orders[j], e)
                              => t[j].updated_at < ts
  BY <1>1, <1>2 DEF Follows, Tracks
<1>4. orders' = all
  BY <1>2, <1>3 DEF RegisterNew
<1>5. ASSUME NEW i \in 1..(k - n)
      PROVE  /\ new[i] \in OrderRecord /\ new[i].filled_quantity = 0 /\ new[i].updated_at = ts
  <2> DEFINE order == broker'.orders[n + i]
  <2>1. n + i \in 1..k /\ n + i \in (n + 1)..k
    BY <1>1
  <2>2. order \in BrokerOrders
    BY <1>1, <2>1, OrderFacts
  <2>3. order.filled_quantity = 0 /\ order.updated_at = ts
    BY <1>1, <2>1
  <2>4. new[i] = Snapshot(order)
    OBVIOUS
  <2> HIDE DEF order, new
  <2>5. Snapshot(order) \in OrderRecord /\ Snapshot(order).filled_quantity = 0
        /\ Snapshot(order).updated_at = ts
    BY <2>2, <2>3 DEF Snapshot, OrderRecord, BrokerOrders
  <2>6. QED
    BY <2>4, <2>5
<1>6. new \in Seq(OrderRecord) /\ Len(new) = k - n
  <2>1. \A i \in 1..(k - n) : Snapshot(broker'.orders[n + i]) \in OrderRecord
    BY <1>5
  <2>2. k - n \in Nat
    BY <1>1
  <2> HIDE DEF n, k
  <2>3. QED
    BY <2>1, <2>2
<1> HIDE DEF new, n, k, ts
<1>7. /\ all \in Seq(OrderRecord) /\ Len(all) = n + (k - n)
      /\ \A j \in 1..(n + (k - n)) : all[j] = IF j <= n THEN t[j] ELSE new[j - n]
  <2>1. /\ all \in Seq(OrderRecord) /\ Len(all) = Len(t) + Len(new)
        /\ \A j \in 1..Len(t) + Len(new) :
             all[j] = IF j <= Len(t) THEN t[j] ELSE new[j - Len(t)]
    <3>1. t \in Seq(OrderRecord) /\ new \in Seq(OrderRecord)
      BY <1>3, <1>6
    <3>2. QED
      BY ONLY <3>1, ConcatProperties
  <2> HIDE DEF all
  <2>2. Len(t) = n /\ Len(new) = k - n
    BY <1>3, <1>6
  <2>3. QED
    BY ONLY <2>1, <2>2
<1> HIDE DEF all
<1>8. n + (k - n) = k
  BY <1>1
<1>9. ASSUME NEW j \in 1..k
      PROVE  /\ all[j].filled_quantity = broker'.orders[j].filled_quantity
             /\ all[j].updated_at <= ts
             /\ broker'.orders[j].symbol # e.symbol /\ Waits(broker'.orders[j], e)
                  => all[j].updated_at < ts
  <2>1. CASE j <= n
    <3>1. j \in 1..n /\ all[j] = t[j]
      BY <1>1, <1>7, <1>8, <2>1
    <3>2. QED
      BY <1>1, <1>3, <3>1
  <2>2. CASE ~(j <= n)
    <3>1. j \in (n + 1)..k /\ j - n \in 1..(k - n) /\ all[j] = new[j - n]
      BY <1>1, <1>7, <1>8, <2>2
    <3>2. all[j].filled_quantity = 0 /\ all[j].updated_at = ts
      BY <1>5, <3>1
    <3>3. ~Waits(broker'.orders[j], e)
      BY <1>1, <1>2, <3>1 DEF Waits, ts
    <3>4. QED
      BY <1>1, <1>2, <3>1, <3>2, <3>3
  <2>3. QED
    BY <2>1, <2>2
<1>10. all \in Tracks(k)
  BY <1>7, <1>8 DEF Tracks
<1>11. \A j \in 1..k : ~(j > k)
  BY <1>1
<1>12. QED
  BY <1>2, <1>4, <1>9, <1>10, <1>11 DEF Follows, k, ts

LEMMA StepKeepsBooks ==
  ASSUME Inv, NEW e, NEW c, NEW filled, NEW p, NEW t, StepShape(e, c, filled, p, t)
  PROVE  /\ portfolio' \in Portfolios /\ Mirrors(broker', portfolio')
         /\ portfolio'.last_snapshot.cash = portfolio'.cash
<1> DEFINE q == MarkToMarket(p, e.symbol, e.close)
<1>1. /\ p \in Portfolios /\ Mirrors(filled, p) /\ portfolio' = q
      /\ e.symbol \in Symbols /\ e.close \in Int
      /\ Adds(filled, broker', e.timestamp)
  BY DEF StepShape, IsBar
<1>2. IsPortfolio(p, BrokerFills) /\ p.processed_fill_ids \in SUBSET Nat
  BY <1>1, PortfoliosArePortfolios
<1>3. /\ IsPortfolio(q, BrokerFills) /\ SameBooks(p, q)
      /\ \A s \in Symbols : /\ q.positions[s].quantity = p.positions[s].quantity
                            /\ q.positions[s].average_cost = p.positions[s].average_cost
      /\ q.last_snapshot = BuildSnapshot(q)
  BY <1>1, <1>2, MarkFacts
<1> HIDE DEF q
<1>4. BuildSnapshot(q) \in AccountSnapshot /\ BuildSnapshot(q).cash = q.cash
  BY <1>3, SnapshotType DEF BuildSnapshot
<1>5. q \in Portfolios
  BY <1>2, <1>3, <1>4, PortfoliosArePortfolios DEF SameBooks
<1>6. Mirrors(broker', q)
  BY <1>1, <1>3 DEF Mirrors, SameBooks, Adds
<1>7. QED
  BY <1>1, <1>3, <1>4, <1>5, <1>6

LEMMA NothingFilled ==
  ASSUME NEW fills \in Seq(BrokerFills), NEW id,
         \A k \in 1..Len(fills) : fills[k].order # id
  PROVE  FilledIn(fills, id) = 0
<1> DEFINE S == 1..Len(fills)
           f == [k \in DOMAIN fills |-> IF fills[k].order = id THEN fills[k].quantity ELSE 0]
<1>1. IsFiniteSet(S) /\ DOMAIN fills = S
  BY FS_Interval
<1>2. \A k \in S : f[k] = 0
  BY <1>1
<1>3. f \in [S -> Int]
  <2>1. f = [k \in S |-> f[k]]
    BY <1>1
  <2> HIDE DEF f, S
  <2>2. QED
    BY <1>2, <2>1
<1> HIDE DEF f, S
<1>4. SumFunction(f) = 0
  BY <1>1, <1>2, <1>3, SumZero
<1>5. QED
  BY <1>4 DEF FilledIn, f

LEMMA StepKeepsFills ==
  ASSUME Inv, NEW e, NEW c, NEW filled, NEW p, NEW t, StepShape(e, c, filled, p, t)
  PROVE  Counted(broker') /\ FillsStamped(broker') /\ OrdersStamped(broker')
<1> DEFINE n == Len(broker.orders)
           m == Len(broker'.orders)
           ts == e.timestamp
           old == broker.last_timestamp
           f == filled.fills
<1>1. /\ broker' \in Brokers /\ filled \in Brokers /\ Len(filled.orders) = n
      /\ n \in Nat /\ m \in Nat /\ n <= m
      /\ broker'.fills = f /\ broker'.last_timestamp = ts
      /\ \A id \in 1..n : /\ broker'.orders[id] = filled.orders[id]
                          /\ OrderStep(broker.orders[id], broker'.orders[id], e)
      /\ \A id \in (n + 1)..m : /\ broker'.orders[id].filled_quantity = 0
                                /\ broker'.orders[id].created_at = ts
                                /\ broker'.orders[id].updated_at = ts
  BY StepKeepsOrders
<1>2. /\ bar' = e /\ ts \in Nat /\ IsBar(e) /\ c.orders = broker.orders
      /\ c.fills = broker.fills /\ ts >= bar.timestamp
      /\ BarPrefix(c, filled, e, Len(c.orders))
  BY DEF StepShape, IsBar
<1>3. /\ old \in Nat /\ bar.timestamp = old /\ old <= ts
      /\ broker.fills \in Seq(BrokerFills) /\ Len(broker.fills) \in Nat
      /\ Counted(broker) /\ OrdersStamped(broker) /\ FillsStamped(broker) /\ broker \in Brokers
  <2>1. broker \in Brokers /\ bar.timestamp = old /\ bar.timestamp \in Nat
    BY DEF Inv, TypeInv
  <2>2. broker.fills \in Seq(BrokerFills)
    BY <2>1 DEF Brokers
  <2>3. QED
    BY <1>2, <2>1, <2>2 DEF Inv
<1>4. /\ Counted(filled) /\ Continues(broker.fills, f) /\ FillsSoFar(c, filled, e)
      /\ f \in Seq(BrokerFills) /\ Len(f) \in Nat
  <2>1. Counted(c) <=> Counted(broker)
    BY <1>2 DEF Counted
  <2>2. \A d \in Brokers : d.fills \in Seq(BrokerFills) /\ Len(d.fills) \in Nat
    BY DEF Brokers
  <2>3. QED
    BY <1>1, <1>2, <1>3, <2>1, <2>2 DEF BarPrefix
<1> HIDE DEF n, m, ts, old, f
<1>5. ASSUME NEW k \in 1..Len(f)
      PROVE  f[k].timestamp <= ts /\ f[k].order \in 1..n
  <2>1. CASE k <= Len(broker.fills)
    <3>1. k \in 1..Len(broker.fills) /\ f[k] = broker.fills[k]
      BY <1>3, <1>4, <2>1 DEF Continues
    <3>2. f[k].timestamp <= old /\ f[k].order \in 1..n
      BY <1>3, <3>1 DEF FillsStamped, old, n
    <3>3. broker.fills[k] \in BrokerFills
      BY <1>3, <3>1
    <3>4. f[k].timestamp \in Nat
      BY <3>1, <3>3 DEF BrokerFills
    <3>5. QED
      BY <1>2, <1>3, <3>2, <3>4
  <2>2. CASE ~(k <= Len(broker.fills))
    <3>1. k \in (Len(c.fills) + 1)..Len(f)
      BY <1>2, <1>3, <1>4, <2>2
    <3>2. f[k].timestamp = e.timestamp /\ f[k].order \in 1..Len(c.orders)
      BY <1>4, <3>1 DEF FillsSoFar, f
    <3>3. QED
      BY <1>2, <3>2 DEF ts, n
  <2>3. QED
    BY <2>1, <2>2
<1>6. FillsStamped(broker')
  <2>1. \A k \in 1..Len(f) : f[k].timestamp <= ts /\ f[k].order \in 1..m
    BY <1>1, <1>5
  <2>2. QED
    BY <1>1, <2>1 DEF FillsStamped, m
<1>7. Counted(broker')
  <2>1. SUFFICES ASSUME NEW id \in 1..m
                 PROVE  broker'.orders[id].filled_quantity = FilledIn(f, id)
    BY <1>1 DEF Counted, m
  <2>2. CASE id <= n
    <3>1. id \in 1..n /\ broker'.orders[id] = filled.orders[id]
      BY <1>1, <2>2
    <3>2. filled.orders[id].filled_quantity = FilledIn(f, id)
      BY <1>1, <1>4, <3>1 DEF Counted, f
    <3>3. QED
      BY <3>1, <3>2
  <2>3. CASE ~(id <= n)
    <3>1. id \in (n + 1)..m /\ \A k \in 1..Len(f) : f[k].order # id
      BY <1>1, <1>5, <2>3
    <3>2. FilledIn(f, id) = 0
      BY <1>4, <3>1, NothingFilled
    <3>3. QED
      BY <1>1, <3>1, <3>2
  <2>4. QED
    BY <2>2, <2>3
<1>8. OrdersStamped(broker')
  <2>1. SUFFICES ASSUME NEW id \in 1..m
                 PROVE  broker'.orders[id].created_at <= ts /\ broker'.orders[id].updated_at <= ts
    BY <1>1 DEF OrdersStamped, m
  <2>2. CASE id <= n
    <3>1. id \in 1..n
      BY <1>1, <2>2
    <3>2. /\ broker.orders[id].created_at <= old /\ broker.orders[id].updated_at <= old
          /\ broker.orders[id] \in BrokerOrders
      BY <1>3, <3>1, OrderFacts DEF OrdersStamped, old, n
    <3>3. broker.orders[id].created_at \in Nat /\ broker.orders[id].updated_at \in Nat
      BY <3>2 DEF BrokerOrders
    <3>4. /\ broker'.orders[id].created_at = broker.orders[id].created_at
          /\ broker'.orders[id].updated_at \in {broker.orders[id].updated_at, ts}
      BY <1>1, <3>1 DEF OrderStep, OrderKeeps, ts
    <3>5. QED
      BY <1>2, <1>3, <3>2, <3>3, <3>4
  <2>3. CASE ~(id <= n)
    <3>1. id \in (n + 1)..m
      BY <1>1, <2>3
    <3>2. QED
      BY <1>1, <1>2, <3>1
  <2>4. QED
    BY <2>2, <2>3
<1>9. QED
  BY <1>6, <1>7, <1>8
-----------------------------------------------------------------------------
(* The invariant holds at the start, and a cancel keeps it. *)
LEMMA InitInv ==
  Init => Inv
<1>1. SUFFICES ASSUME NEW policy \in FillPolicies, broker = NewBroker(StartingCash, policy),
                      portfolio = NewPortfolio(StartingCash), orders = <<>>, bar = NoBar
               PROVE  Inv
  BY DEF Init
<1> DEFINE none == [s \in Symbols |-> NoPosition]
<1>2. StartingCash \in Nat /\ policy \in FillPolicy
  BY BoundsAssumption, PoliciesAssumption
<1>3. none \in [Symbols -> Position] /\ [s \in Symbols |-> 0] \in [Symbols -> Nat]
  BY DEF Position, NoPosition
<1>4. /\ broker.orders = <<>> /\ broker.fills = <<>> /\ broker.cash = StartingCash
      /\ broker.positions = none /\ broker.last_timestamp = 0
  BY <1>1 DEF NewBroker
<1>5. broker \in Brokers
  BY <1>1, <1>2, <1>3 DEF NewBroker, Brokers
<1>6. /\ portfolio.cash = StartingCash /\ portfolio.positions = none
      /\ portfolio.trade_ledger = <<>> /\ portfolio.processed_fill_ids = {}
      /\ portfolio.last_snapshot.cash = StartingCash
  BY <1>1 DEF NewPortfolio
<1>7. portfolio \in Portfolios
  <2>1. portfolio.last_snapshot \in AccountSnapshot
    BY <1>1, <1>2, <1>3 DEF NewPortfolio, AccountSnapshot
  <2>2. IsPortfolio(portfolio, BrokerFills)
    BY <1>1, <1>2, <1>3 DEF NewPortfolio, IsPortfolio
  <2>3. QED
    BY <1>6, <2>1, <2>2, PortfoliosArePortfolios
<1>8. orders \in Tracks(0) /\ Len(broker.orders) = 0 /\ Len(broker.fills) = 0
      /\ Len(portfolio.trade_ledger) = 0
  BY <1>1, <1>4, <1>6 DEF Tracks
<1>9. bar.timestamp = 0 /\ (Symbols # {} => bar.symbol \in Symbols)
  <2>1. bar.symbol = CHOOSE s \in Symbols : TRUE
    BY <1>1 DEF NoBar
  <2>2. QED
    BY <1>1, <2>1 DEF NoBar
<1>10. TypeInv
  BY <1>4, <1>5, <1>7, <1>8, <1>9 DEF TypeInv
<1> HIDE DEF none
<1>11. Mirrors(broker, portfolio)
  BY <1>4, <1>6, <1>8 DEF Mirrors
<1>12. Follows(broker, orders, bar, Len(broker.orders))
  BY <1>8 DEF Follows
<1>13. Counted(broker) /\ OrdersStamped(broker) /\ FillsStamped(broker)
  BY <1>8 DEF Counted, OrdersStamped, FillsStamped
<1>14. QED
  BY <1>6, <1>10, <1>11, <1>12, <1>13 DEF Inv

(* An order that is canceled keeps its shares; the OrderManager takes the broker's
   answer as it is. *)
CancelShape(id) ==
  /\ id \in 1..Len(broker.orders)
  /\ broker' \in Brokers /\ Len(broker'.orders) = Len(broker.orders)
  /\ broker'.fills = broker.fills /\ broker'.cash = broker.cash
  /\ broker'.positions = broker.positions /\ broker'.last_timestamp = broker.last_timestamp
  /\ \A j \in 1..Len(broker.orders) :
       /\ OrderKeeps(broker.orders[j], broker'.orders[j])
       /\ broker'.orders[j].filled_quantity = broker.orders[j].filled_quantity
       /\ broker'.orders[j].updated_at \in {broker.orders[j].updated_at, broker.last_timestamp}
       /\ j # id \/ broker.orders[j].status \notin OPEN_ORDER_STATUSES
            => broker'.orders[j] = broker.orders[j]
  /\ broker'.orders[id].status \notin OPEN_ORDER_STATUSES
  /\ orders' = [orders EXCEPT ![id] = Snapshot(broker'.orders[id])]
  /\ portfolio' = portfolio /\ bar' = bar

LEMMA CancelTakes ==
  ASSUME Inv, NEW id \in DOMAIN broker.orders, Cancel(id)
  PROVE  CancelShape(id)
<1>1. broker \in Brokers
  BY DEF Inv, TypeInv
<1>2. id \in 1..Len(broker.orders) /\ broker.last_timestamp \in Nat
  BY <1>1 DEF Brokers
<1>3. /\ broker' = BrokerCancel(broker, id) /\ portfolio' = portfolio /\ bar' = bar
      /\ orders' = [orders EXCEPT ![id] = Snapshot(broker'.orders[id])]
  BY DEF Cancel
<1>4. CASE broker.orders[id].status \notin OPEN_ORDER_STATUSES
  <2>1. broker' = broker
    BY <1>3, <1>4 DEF BrokerCancel
  <2>2. QED
    BY <1>1, <1>2, <1>3, <1>4, <2>1 DEF CancelShape, OrderKeeps
<1>5. CASE broker.orders[id].status \in OPEN_ORDER_STATUSES
  <2> DEFINE q == SetStatus(broker, id, "CANCELED", broker.last_timestamp)
  <2>1. broker' = q
    BY <1>3, <1>5 DEF BrokerCancel
  <2>2. "CANCELED" \in OrderStatus /\ "CANCELED" \notin OPEN_ORDER_STATUSES
    BY DEF OrderStatus, TERMINAL_STATUSES, OPEN_ORDER_STATUSES
  <2>3. /\ q \in Brokers /\ Len(q.orders) = Len(broker.orders)
        /\ \A j \in 1..Len(broker.orders) : j # id => q.orders[j] = broker.orders[j]
        /\ OrderKeeps(broker.orders[id], q.orders[id]) /\ Quiet(broker, id, q)
        /\ q.last_timestamp = broker.last_timestamp
        /\ q.orders[id].updated_at = broker.last_timestamp /\ q.orders[id].status = "CANCELED"
    BY <1>1, <1>2, <2>2, SetStatusFacts
  <2> HIDE DEF q
  <2>4. ASSUME NEW j \in 1..Len(broker.orders)
        PROVE  /\ OrderKeeps(broker.orders[j], q.orders[j])
               /\ q.orders[j].filled_quantity = broker.orders[j].filled_quantity
               /\ q.orders[j].updated_at \in {broker.orders[j].updated_at, broker.last_timestamp}
               /\ j # id \/ broker.orders[j].status \notin OPEN_ORDER_STATUSES
                    => q.orders[j] = broker.orders[j]
    <3>1. CASE j = id
      BY <1>5, <2>3, <3>1 DEF Quiet
    <3>2. CASE j # id
      BY <2>3, <3>2 DEF OrderKeeps
    <3>3. QED
      BY <3>1, <3>2
  <2>5. QED
    BY <1>2, <1>3, <2>1, <2>2, <2>3, <2>4 DEF CancelShape, Quiet
<1>6. QED
  BY <1>4, <1>5

LEMMA CancelKeeps ==
  ASSUME Inv, NEW id, CancelShape(id)
  PROVE  Inv'
<1> DEFINE n == Len(broker.orders)
           last == broker.last_timestamp
<1>1. /\ broker \in Brokers /\ portfolio \in Portfolios /\ orders \in Tracks(n)
      /\ bar.timestamp \in Nat /\ bar.timestamp = last /\ (Symbols # {} => bar.symbol \in Symbols)
      /\ Mirrors(broker, portfolio) /\ Follows(broker, orders, bar, n)
      /\ Counted(broker) /\ OrdersStamped(broker) /\ FillsStamped(broker)
      /\ portfolio.last_snapshot.cash = portfolio.cash
  BY DEF Inv, TypeInv
<1>2. /\ id \in 1..n /\ broker' \in Brokers /\ Len(broker'.orders) = n
      /\ broker'.fills = broker.fills /\ broker'.cash = broker.cash
      /\ broker'.positions = broker.positions /\ broker'.last_timestamp = last
      /\ \A j \in 1..n :
           /\ OrderKeeps(broker.orders[j], broker'.orders[j])
           /\ broker'.orders[j].filled_quantity = broker.orders[j].filled_quantity
           /\ broker'.orders[j].updated_at \in {broker.orders[j].updated_at, last}
           /\ j # id => broker'.orders[j] = broker.orders[j]
      /\ broker'.orders[id].status \notin OPEN_ORDER_STATUSES
      /\ orders' = [orders EXCEPT ![id] = Snapshot(broker'.orders[id])]
      /\ portfolio' = portfolio /\ bar' = bar
  BY DEF CancelShape
<1>3. n \in Nat /\ last \in Nat
  BY <1>1 DEF Brokers
<1>4. \A j \in 1..n : /\ broker.orders[j].created_at <= last
                      /\ broker.orders[j].updated_at <= last
  BY <1>1 DEF OrdersStamped
<1> HIDE DEF n, last
<1>5. OrdersStamped(broker')
  BY <1>2, <1>3, <1>4 DEF OrdersStamped, OrderKeeps
<1>6. FillsStamped(broker') /\ Counted(broker') /\ Mirrors(broker', portfolio')
  BY <1>1, <1>2 DEF FillsStamped, Counted, Mirrors, n, last
<1>7. Follows(broker', orders', bar', n) /\ orders' \in Tracks(n)
  <2> DEFINE kept == Snapshot(broker'.orders[id])
             t == [orders EXCEPT ![id] = kept]
  <2>1. broker'.orders[id] \in BrokerOrders
    BY <1>2, OrderFacts
  <2>2. /\ kept \in OrderRecord
        /\ kept.filled_quantity = broker'.orders[id].filled_quantity
        /\ kept.updated_at = broker'.orders[id].updated_at
    BY <2>1 DEF Snapshot, OrderRecord, BrokerOrders
  <2>3. orders \in Seq(OrderRecord) /\ Len(orders) = n
    BY <1>1 DEF Tracks
  <2>4. orders' = t
    BY <1>2
  <2> HIDE DEF kept
  <2>5. /\ t \in Seq(OrderRecord) /\ Len(t) = n /\ t[id] = kept
        /\ \A j \in 1..n : j # id => t[j] = orders[j]
    BY <1>2, <2>2, <2>3, ReplacedFacts
  <2> HIDE DEF t
  <2>6. kept.updated_at <= bar.timestamp
    BY <1>1, <1>2, <1>3, <1>4, <2>2
  <2>7. \A j \in 1..n : /\ orders[j].filled_quantity = broker.orders[j].filled_quantity
                        /\ orders[j].updated_at <= bar.timestamp
                        /\ broker.orders[j].symbol # bar.symbol /\ Waits(broker.orders[j], bar)
                             => orders[j].updated_at < bar.timestamp
    BY <1>1 DEF Follows, n
  <2>8. ASSUME NEW j \in 1..n
        PROVE  /\ t[j].filled_quantity = broker'.orders[j].filled_quantity
               /\ t[j].updated_at <= bar.timestamp
               /\ broker'.orders[j].symbol # bar.symbol /\ Waits(broker'.orders[j], bar)
                    => t[j].updated_at < bar.timestamp
    <3>1. CASE j = id
      <4>1. ~Waits(broker'.orders[id], bar)
        BY <1>2 DEF Waits
      <4>2. QED
        BY <2>2, <2>5, <2>6, <3>1, <4>1
    <3>2. CASE j # id
      BY <1>2, <2>5, <2>7, <3>2
    <3>3. QED
      BY <3>1, <3>2
  <2>9. t \in Tracks(n)
    BY <2>5 DEF Tracks
  <2>10. \A j \in 1..n : ~(j > n)
    BY <1>3
  <2>11. QED
    BY <1>2, <2>4, <2>8, <2>9, <2>10 DEF Follows
<1>8. TypeInv'
  BY <1>1, <1>2, <1>7 DEF TypeInv
<1>9. QED
  BY <1>1, <1>2, <1>5, <1>6, <1>7, <1>8 DEF Inv, n
-----------------------------------------------------------------------------
(* What every step is, and what it may do to the orders and to the cash. *)
StepKind(e) == \E c, filled, p, t : StepShape(e, c, filled, p, t)

LEMMA StepKeeps ==
  ASSUME Inv, NEW e, StepKind(e)
  PROVE  Inv'
<1>1. PICK c, filled, p, t : StepShape(e, c, filled, p, t)
  BY DEF StepKind
<1>2. /\ Follows(broker', orders', bar', Len(broker'.orders))
      /\ orders' \in Tracks(Len(broker'.orders))
  BY <1>1, StepKeepsTracking
<1>3. /\ portfolio' \in Portfolios /\ Mirrors(broker', portfolio')
      /\ portfolio'.last_snapshot.cash = portfolio'.cash
  BY <1>1, StepKeepsBooks
<1>4. Counted(broker') /\ FillsStamped(broker') /\ OrdersStamped(broker')
  BY <1>1, StepKeepsFills
<1>5. /\ broker' \in Brokers /\ broker'.last_timestamp = e.timestamp
      /\ bar' = e /\ e.timestamp \in Nat /\ e.symbol \in Symbols
  BY <1>1, StepKeepsOrders DEF StepShape, IsBar
<1>6. QED
  BY <1>2, <1>3, <1>4, <1>5 DEF Inv, TypeInv

LEMMA EveryStep ==
  ASSUME Inv, [Next]_vars
  PROVE  \/ \E b \in Bars, timestamp \in 1..MaxTime : StepKind(At(b, timestamp))
         \/ \E id : CancelShape(id)
         \/ UNCHANGED vars
<1>1. ASSUME NEW b \in Bars, NEW timestamp \in 1..MaxTime, NEW requests \in Requests,
             Step(b, timestamp, requests)
      PROVE  StepKind(At(b, timestamp))
  BY <1>1, StepTakes DEF StepKind
<1>2. ASSUME NEW id \in DOMAIN broker.orders, Cancel(id)
      PROVE  CancelShape(id)
  BY <1>2, CancelTakes
<1>3. QED
  BY <1>1, <1>2 DEF Next

LEMMA NextKeeps ==
  Inv /\ [Next]_vars => Inv'
<1>1. SUFFICES ASSUME Inv, [Next]_vars
               PROVE  Inv'
  OBVIOUS
<1>2. CASE UNCHANGED vars
  <2>1. broker' = broker /\ portfolio' = portfolio /\ orders' = orders /\ bar' = bar
    BY <1>2 DEF vars
  <2>2. QED
    BY <1>1, <2>1, Zenon DEF Inv, TypeInv
<1>3. ASSUME NEW e, StepKind(e)
      PROVE  Inv'
  BY <1>1, <1>3, StepKeeps
<1>4. ASSUME NEW id, CancelShape(id)
      PROVE  Inv'
  BY <1>1, <1>4, CancelKeeps
<1>5. QED
  BY <1>1, <1>2, <1>3, <1>4, EveryStep

LEMMA InvHolds == Spec => []Inv
<1>1. QED
  BY InitInv, NextKeeps, PTL DEF Spec
-----------------------------------------------------------------------------
(* The state of a backtest always has its type: no holding is negative, every fill
   has shares and a price, and the OrderManager tracks every order of the broker
   (brokerage.py: submit_order, _create_fill; backtest.py: step). *)
THEOREM TypeCorrect == Spec => []TypeOK
<1>1. Inv => TypeOK
  <2>1. SUFFICES ASSUME Inv
                 PROVE  TypeOK
    OBVIOUS
  <2>2. /\ broker \in Brokers /\ orders \in Tracks(Len(broker.orders))
        /\ bar.timestamp = broker.last_timestamp /\ OrdersStamped(broker)
    BY <2>1 DEF Inv, TypeInv
  <2>3. /\ broker.cash \in Int /\ broker.fill_policy \in FillPolicy
        /\ \A s \in Symbols : broker.positions[s] \in Position
        /\ broker.fills \in Seq(BrokerFills)
    BY <2>2 DEF Brokers
  <2>4. \A s \in Symbols : broker.positions[s].quantity \in Nat
    BY <2>3 DEF Position
  <2>5. ASSUME NEW id \in DOMAIN broker.orders
        PROVE  /\ Snapshot(broker.orders[id]) \in OrderRecord
               /\ broker.orders[id].created_at <= broker.last_timestamp
    <3>1. id \in 1..Len(broker.orders)
      BY <2>2 DEF Brokers
    <3>2. broker.orders[id] \in BrokerOrders
      BY <2>2, <3>1, OrderFacts
    <3>3. Snapshot(broker.orders[id]) \in OrderRecord
      BY <3>2 DEF Snapshot, OrderRecord, BrokerOrders
    <3>4. QED
      BY <2>2, <3>1, <3>3 DEF OrdersStamped
  <2>6. ASSUME NEW i \in DOMAIN broker.fills
        PROVE  broker.fills[i].quantity > 0 /\ broker.fills[i].price > 0
    <3>1. broker.fills[i] \in BrokerFills
      BY <2>3
    <3>2. broker.fills[i].quantity \in Nat \ {0} /\ broker.fills[i].price \in Nat \ {0}
      BY <3>1 DEF BrokerFills
    <3>3. QED
      BY <3>2
  <2>7. orders \in Seq(OrderRecord) /\ Len(orders) = Len(broker.orders)
    BY <2>2 DEF Tracks
  <2>8. QED
    BY <2>2, <2>3, <2>4, <2>5, <2>6, <2>7 DEF TypeOK
<1>2. QED
  BY <1>1, InvHolds, PTL

(* The broker's own books and the portfolio's agree on the cash, on every holding
   and its cost, and on the number of fills, after every bar and every cancel
   (brokerage.py: _apply_fill_to_state; accounting.py: apply_fill). *)
THEOREM BooksMirror == Spec => []PortfolioMirrorsBroker
<1>1. Inv => PortfolioMirrorsBroker
  BY DEF Inv, Mirrors, PortfolioMirrorsBroker
<1>2. QED
  BY <1>1, InvHolds, PTL

(* The OrderManager and the broker count the shares of an order alike, and count
   each of its fills once (manager.py: mark_filled; brokerage.py:
   _update_order_after_fill). *)
THEOREM FillsCounted == Spec => []FillsAreCounted
<1>1. Inv => FillsAreCounted
  <2>1. SUFFICES ASSUME Inv, NEW id \in DOMAIN broker.orders
                 PROVE  /\ orders[id].filled_quantity = broker.orders[id].filled_quantity
                        /\ broker.orders[id].filled_quantity = FilledBy(id)
    BY DEF FillsAreCounted
  <2>2. /\ broker \in Brokers /\ Counted(broker)
        /\ Follows(broker, orders, bar, Len(broker.orders))
    BY <2>1 DEF Inv, TypeInv
  <2>3. id \in 1..Len(broker.orders)
    BY <2>1, <2>2 DEF Brokers
  <2>4. FilledBy(id) = FilledIn(broker.fills, id)
    BY DEF FilledBy, FilledIn
  <2>5. QED
    BY <2>2, <2>3, <2>4 DEF Follows, Counted
<1>2. QED
  BY <1>1, InvHolds, PTL

(* A new fill is of the bar's symbol, at a price that bar traded at, apart from the
   slippage, and within the order's limit, for every order type and fill policy
   (brokerage.py: _base_price, _fill_price, _apply_slippage). *)
THEOREM FillsInsideTheirBar == Spec => FilledInsideTheBar
<1> DEFINE Kept ==
             \A i \in (Len(broker.fills) + 1)..Len(broker'.fills) :
               LET fill == broker'.fills[i]
               IN  /\ fill.symbol = bar'.symbol
                   /\ BeforeSlippage(fill) \in bar'.low..bar'.high
                   /\ WithinLimit(broker'.orders[fill.order], BeforeSlippage(fill))
<1>1. Inv /\ [Next]_vars => [Kept]_vars
  <2>1. SUFFICES ASSUME Inv, [Next]_vars, ~UNCHANGED vars,
                        NEW i \in (Len(broker.fills) + 1)..Len(broker'.fills)
                 PROVE  /\ broker'.fills[i].symbol = bar'.symbol
                        /\ Inside(broker'.orders[broker'.fills[i].order], broker'.fills[i], bar')
    BY DEF Inside
  <2>2. CASE \E e : StepKind(e)
    <3>1. PICK e, c, filled, p, t : StepShape(e, c, filled, p, t)
      BY <2>2 DEF StepKind
    <3> DEFINE id == filled.fills[i].order
    <3>2. /\ bar' = e /\ broker'.fills = filled.fills /\ c.fills = broker.fills
          /\ c.orders = broker.orders /\ FillsSoFar(c, filled, e)
      BY <2>1, <3>1, StepKeepsOrders DEF StepShape, BarPrefix
    <3>3. /\ id \in 1..Len(broker.orders) /\ filled.fills[i].symbol = e.symbol
          /\ Inside(broker.orders[id], filled.fills[i], e)
      BY <2>1, <3>2 DEF FillsSoFar
    <3> HIDE DEF id
    <3>4. OrderKeeps(broker.orders[id], broker'.orders[id])
      BY <2>1, <3>1, <3>3, StepKeepsOrders DEF OrderStep
    <3>5. Inside(broker'.orders[id], filled.fills[i], e)
      BY <3>3, <3>4 DEF Inside, WithinLimit, OrderKeeps
    <3>6. QED
      BY <3>2, <3>3, <3>5 DEF id
  <2>3. CASE \E id : CancelShape(id)
    <3>1. broker'.fills = broker.fills /\ Len(broker.fills) \in Nat
      BY <2>1, <2>3 DEF CancelShape, Inv, TypeInv, Brokers
    <3>2. QED
      BY <2>1, <3>1
  <2>4. QED
    BY <2>1, <2>2, <2>3, EveryStep
<1>2. QED
  BY <1>1, InvHolds, PTL DEF Spec, FilledInsideTheBar

(* An order is filled only by a bar later than its submission, a DAY order only on
   its own day, never beyond the quantity it has, and a closed order is never
   touched again (brokerage.py: _eligible_orders, _expire_if_needed, _fill_quantity,
   cancel_order). *)
THEOREM FillsTimely == Spec => FillsAreTimely
<1> DEFINE Kept ==
             \A id \in DOMAIN broker.orders :
               LET before == broker.orders[id]
                   after  == broker'.orders[id]
               IN  /\ after.filled_quantity > before.filled_quantity =>
                        /\ bar'.timestamp > before.created_at
                        /\ before.time_in_force = "DAY"
                             => Day(bar'.timestamp) = Day(before.created_at)
                        /\ before.quantity # NoQuantity => after.filled_quantity <= before.quantity
                   /\ before.status \notin OPEN_ORDER_STATUSES => after = before
<1>1. Inv /\ [Next]_vars => [Kept]_vars
  <2>1. SUFFICES ASSUME Inv, [Next]_vars, ~UNCHANGED vars, NEW id \in DOMAIN broker.orders
                 PROVE  /\ broker'.orders[id].filled_quantity > broker.orders[id].filled_quantity
                             => /\ Timely(broker.orders[id], bar')
                                /\ broker.orders[id].quantity # NoQuantity
                                     => broker'.orders[id].filled_quantity
                                          <= broker.orders[id].quantity
                        /\ broker.orders[id].status \notin OPEN_ORDER_STATUSES
                             => broker'.orders[id] = broker.orders[id]
    BY DEF Timely
  <2>2. broker \in Brokers
    BY <2>1 DEF Inv, TypeInv
  <2>3. id \in 1..Len(broker.orders)
    BY <2>1, <2>2 DEF Brokers
  <2>4. CASE \E e : StepKind(e)
    <3>1. PICK e, c, filled, p, t : StepShape(e, c, filled, p, t)
      BY <2>4 DEF StepKind
    <3>2. OrderStep(broker.orders[id], broker'.orders[id], e) /\ bar' = e
      BY <2>1, <2>3, <3>1, StepKeepsOrders DEF StepShape
    <3>3. QED
      BY <3>2 DEF OrderStep
  <2>5. CASE \E other : CancelShape(other)
    <3>1. /\ broker'.orders[id].filled_quantity = broker.orders[id].filled_quantity
          /\ broker.orders[id].status \notin OPEN_ORDER_STATUSES
               => broker'.orders[id] = broker.orders[id]
      BY <2>3, <2>5 DEF CancelShape
    <3>2. broker.orders[id] \in BrokerOrders
      BY <2>2, <2>3, OrderFacts
    <3>3. broker.orders[id].filled_quantity \in Nat
      BY <3>2 DEF BrokerOrders
    <3>4. QED
      BY <3>1, <3>3
  <2>6. QED
    BY <2>1, <2>4, <2>5, EveryStep
<1>2. QED
  BY <1>1, InvHolds, PTL DEF Spec, FillsAreTimely

(* Neither the broker's cash nor the account's is ever negative, however many
   decisions of a bar are judged on the same snapshot, as long as no sale brings in
   less than its commission (brokerage.py: _create_fill, _apply_fill_to_state). *)
THEOREM Solvent ==
  ASSUME \A b \in Bars : ProceedsCover(b)
  PROVE  Spec => []NeverOverdrawn
<1> DEFINE Funded == broker.cash >= 0
<1>1. Init => Funded
  BY BoundsAssumption DEF Init, NewBroker
<1>2. Inv /\ Funded /\ [Next]_vars => Funded'
  <2>1. SUFFICES ASSUME Inv, Funded, [Next]_vars
                 PROVE  Funded'
    OBVIOUS
  <2>2. ASSUME NEW b \in Bars, NEW timestamp \in 1..MaxTime, StepKind(At(b, timestamp))
        PROVE  Funded'
    <3> DEFINE e == At(b, timestamp)
    <3>1. ProceedsCover(b) /\ e.low = b.low /\ e.high = b.high
      BY DEF At
    <3>2. ProceedsCover(e)
      BY <3>1 DEF ProceedsCover
    <3> HIDE DEF e
    <3>3. PICK c, filled, p, t : StepShape(e, c, filled, p, t)
      BY <2>2 DEF StepKind, e
    <3>4. c.cash >= 0 /\ BarPrefix(c, filled, e, Len(c.orders))
      BY <2>1, <3>3 DEF StepShape
    <3>5. filled.cash >= 0
      BY <3>2, <3>4 DEF BarPrefix
    <3>6. QED
      BY <2>1, <3>3, <3>5, StepKeepsOrders
  <2>3. ASSUME NEW id, CancelShape(id)
        PROVE  Funded'
    BY <2>1, <2>3 DEF CancelShape
  <2>4. CASE UNCHANGED vars
    BY <2>1, <2>4 DEF vars
  <2>5. QED
    BY <2>1, <2>2, <2>3, <2>4, EveryStep
<1>3. Inv /\ Funded => NeverOverdrawn
  BY DEF Inv, Mirrors, NeverOverdrawn
<1>4. QED
  BY <1>1, <1>2, <1>3, InvHolds, PTL DEF Spec
=============================================================================
