--------------------------- MODULE BacktestBrokerage ---------------------------
(***************************************************************************)
(* The simulated broker of qts.brokers.backtest as operators on one broker   *)
(* record: orders taken, expired, rejected and filled against the next bars, *)
(* and the broker's own cash and positions.                                  *)
(*                                                                         *)
(* Zero stands for an absent quantity, notional, limit or stop: the code     *)
(* only accepts positive ones.  Money and shares are integers; an instance   *)
(* picks prices and notionals whose quotients are whole.                     *)
(***************************************************************************)
EXTENDS Accounting, OrderManager

CONSTANTS
  TicksPerDay,       \* bars of one symbol in one day
  CommissionModel,   \* [type, value] of _commission
  SlippageModel,     \* [type, value] of _apply_slippage
  MaxFillQuantity    \* max_fill_quantity_per_event, 0 for none

FillPolicy  == {"next_bar_open", "next_bar_close", "next_bar_typical_price"}
OrderType   == {"MARKET", "LIMIT", "STOP", "STOP_LIMIT"}
TimeInForce == {"DAY", "GTC"}

ASSUME ModelsAssumption ==
  /\ CommissionModel \in [type: {"none", "fixed", "per_share", "bps"}, value: Nat]
  /\ SlippageModel \in [type: {"none", "fixed", "bps"}, value: Nat]
  /\ MaxFillQuantity \in Nat
  /\ TicksPerDay \in Nat \ {0}

(* The requests __post_init__ accepts: a quantity or a notional, and the prices
   the order type needs; a price it does not need is not refused. *)
OrderRequest ==
  {request \in [symbol: Symbols, side: Side, type: OrderType, quantity: Nat, notional: Nat,
                limit_price: Nat, stop_price: Nat, time_in_force: TimeInForce] :
     /\ (request.quantity = NoQuantity) # (request.notional = 0)
     /\ request.type \in {"LIMIT", "STOP_LIMIT"} => request.limit_price # 0
     /\ request.type \in {"STOP", "STOP_LIMIT"}  => request.stop_price # 0}

Smaller(x, y) == IF x < y THEN x ELSE y
Larger(x, y)  == IF x > y THEN x ELSE y

Day(timestamp) == timestamp \div TicksPerDay

(* reset: an account with cash and nothing else. *)
NewBroker(starting_cash, policy) ==
  [orders         |-> <<>>,
   fills          |-> <<>>,
   cash           |-> starting_cash,
   positions      |-> [s \in Symbols |-> NoPosition],
   fill_policy    |-> policy,
   last_timestamp |-> 0]
-----------------------------------------------------------------------------
Commission(quantity, price) ==
  CASE CommissionModel.type = "none"      -> 0
    [] CommissionModel.type = "fixed"     -> CommissionModel.value
    [] CommissionModel.type = "per_share" -> quantity * CommissionModel.value
    [] CommissionModel.type = "bps"       -> (quantity * price * CommissionModel.value) \div 10000

Slippage(price) ==
  CASE SlippageModel.type = "none"  -> 0
    [] SlippageModel.type = "fixed" -> SlippageModel.value
    [] SlippageModel.type = "bps"   -> (price * SlippageModel.value) \div 10000

(* Slippage always hurts, and is added after the limit has been looked at. *)
ApplySlippage(price, side) ==
  IF side = "BUY" THEN price + Slippage(price) ELSE price - Slippage(price)

(* _base_price of a bar. *)
BasePrice(policy, bar) ==
  CASE policy = "next_bar_open"          -> bar.open
    [] policy = "next_bar_close"         -> bar.close
    [] policy = "next_bar_typical_price" -> (bar.high + bar.low + bar.close) \div 3

LimitTriggered(order, bar) ==
  /\ order.limit_price # 0
  /\ IF order.side = "BUY" THEN bar.low <= order.limit_price ELSE bar.high >= order.limit_price

StopTriggered(order, bar) ==
  /\ order.stop_price # 0
  /\ IF order.side = "BUY" THEN bar.high >= order.stop_price ELSE bar.low <= order.stop_price

(* Mistake: the worse of the two. *)
WorseThanLimit(order, base) ==
  IF order.side = "BUY" THEN Larger(base, order.limit_price) ELSE Smaller(base, order.limit_price)

LimitFillPrice(order, base) ==
  IF order.side = "BUY" THEN Smaller(base, order.limit_price) ELSE Larger(base, order.limit_price)

StopFillPrice(order, base) ==
  IF order.side = "BUY" THEN Larger(base, order.stop_price) ELSE Smaller(base, order.stop_price)

(* _fill_price, the case that yields no price first. *)
Triggered(order, bar) ==
  /\ order.type \in {"LIMIT", "STOP_LIMIT"} => LimitTriggered(order, bar)
  /\ order.type \in {"STOP", "STOP_LIMIT"}  => StopTriggered(order, bar)

FillPrice(order, base) ==
  CASE order.type = "MARKET"                  -> base
    [] order.type = "STOP"                    -> StopFillPrice(order, base)
    [] order.type \in {"LIMIT", "STOP_LIMIT"} -> LimitFillPrice(order, base)

(* _fill_quantity.  A notional order is sized at the price before slippage. *)
FillQuantity(order, price) ==
  LET target == IF order.quantity # NoQuantity
                THEN Larger(order.quantity - order.filled_quantity, 0)
                ELSE order.notional \div price
  IN  IF MaxFillQuantity = 0 THEN target ELSE Smaller(target, MaxFillQuantity)
-----------------------------------------------------------------------------
(* _submission_rejection_reason: only what the cash at submission refuses. *)
SubmissionRejected(b, request) ==
  /\ request.side = "BUY"
  /\ \/ /\ request.notional # 0
        /\ request.notional + Commission(1, request.notional) > b.cash
     \/ /\ request.quantity # NoQuantity
        /\ request.limit_price # 0
        /\ request.quantity * request.limit_price
             + Commission(request.quantity, request.limit_price) > b.cash

NewOrder(b, request, timestamp) ==
  [symbol          |-> request.symbol,
   side            |-> request.side,
   type            |-> request.type,
   quantity        |-> request.quantity,
   notional        |-> request.notional,
   limit_price     |-> request.limit_price,
   stop_price      |-> request.stop_price,
   time_in_force   |-> request.time_in_force,
   filled_quantity |-> 0,
   status          |-> IF SubmissionRejected(b, request) THEN "REJECTED" ELSE "ACCEPTED",
   created_at      |-> timestamp,
   updated_at      |-> timestamp]

SubmitOrder(b, request, timestamp) ==
  [b EXCEPT !.orders = Append(@, NewOrder(b, request, timestamp))]

SetStatus(b, id, status, timestamp) ==
  [b EXCEPT !.orders[id].status = status, !.orders[id].updated_at = timestamp]

(* cancel_order: a closed order is returned as it is. *)
BrokerCancel(b, id) ==
  IF b.orders[id].status \in OPEN_ORDER_STATUSES
  THEN SetStatus(b, id, "CANCELED", b.last_timestamp)
  ELSE b
-----------------------------------------------------------------------------
(* _create_fill's record; its id is the fill counter. *)
NewFill(b, id, quantity, base, timestamp) ==
  LET order == b.orders[id]
      price == ApplySlippage(base, order.side)
  IN  [id         |-> Len(b.fills) + 1,
       order      |-> id,
       symbol     |-> order.symbol,
       side       |-> order.side,
       quantity   |-> quantity,
       price      |-> price,
       commission |-> Commission(quantity, price),
       slippage   |-> Slippage(base),
       timestamp  |-> timestamp]

(* Mistakes: no look at the shares, no look at the cash. *)
CannotPay(b, fill) ==
  fill.side = "BUY" /\ fill.quantity * fill.price + fill.commission > b.cash

CannotDeliver(b, fill) ==
  fill.side = "SELL" /\ b.positions[fill.symbol].quantity < fill.quantity

(* The order is refused when it could be filled but not paid or delivered. *)
CannotSettle(b, fill) ==
  \/ fill.side = "BUY"  /\ fill.quantity * fill.price + fill.commission > b.cash
  \/ fill.side = "SELL" /\ b.positions[fill.symbol].quantity < fill.quantity

(* _apply_fill_to_state: the broker's own cash and position. *)
Settle(b, fill) ==
  LET held     == b.positions[fill.symbol]
      amount   == fill.quantity * fill.price
      quantity == IF fill.side = "BUY" THEN held.quantity + fill.quantity
                  ELSE held.quantity - fill.quantity
      cost     == IF fill.side = "BUY"
                  THEN (held.quantity * held.average_cost + amount) \div quantity
                  ELSE held.average_cost
  IN  [b EXCEPT
        !.fills = Append(@, fill),
        !.cash = IF fill.side = "BUY" THEN @ - (amount + fill.commission)
                 ELSE @ + amount - fill.commission,
        !.positions[fill.symbol] =
          IF quantity = 0 THEN NoPosition
          ELSE [quantity |-> quantity, average_cost |-> cost, market_price |-> fill.price]]

(* _update_order_after_fill.  A notional order gets its target quantity here,
   from the price of its first fill after slippage. *)
UpdateOrderAfterFill(b, id, fill) ==
  LET order  == b.orders[id]
      target == IF order.quantity # NoQuantity THEN order.quantity
                ELSE order.notional \div fill.price
      filled == order.filled_quantity + fill.quantity
  IN  [b EXCEPT !.orders[id] =
        [@ EXCEPT !.quantity = target,
                  !.filled_quantity = filled,
                  !.status = IF filled >= target THEN "FILLED" ELSE "PARTIALLY_FILLED",
                  !.updated_at = fill.timestamp]]

(* An order due for a fill gets one, is refused, or waits. *)
TryFill(b, id, bar) ==
  LET order    == b.orders[id]
      base     == FillPrice(order, BasePrice(b.fill_policy, bar))
      quantity == FillQuantity(order, base)
      fill     == NewFill(b, id, quantity, base, bar.timestamp)
  IN  CASE ~Triggered(order, bar) -> b
        [] Triggered(order, bar) /\ quantity <= 0 -> b
        [] Triggered(order, bar) /\ quantity > 0 /\ CannotSettle(b, fill) ->
             SetStatus(b, id, "REJECTED", bar.timestamp)
        [] OTHER -> UpdateOrderAfterFill(Settle(b, fill), id, fill)

(* _expire_if_needed comes before everything else a bar does to an order. *)
Expires(order, timestamp) ==
  order.time_in_force = "DAY" /\ Day(timestamp) > Day(order.created_at)

MarkSubmitted(b, id, timestamp) ==
  IF b.orders[id].status = "ACCEPTED" THEN SetStatus(b, id, "SUBMITTED", timestamp) ELSE b

(* Mistake: an order is due for a bar of the time it was submitted at. *)
HandleOrderAtOnce(b, id, bar) ==
  LET order == b.orders[id]
      open  == order.symbol = bar.symbol /\ order.status \in OPEN_ORDER_STATUSES
  IN  CASE open /\ Expires(order, bar.timestamp) ->
             SetStatus(b, id, "EXPIRED", bar.timestamp)
        [] open /\ ~Expires(order, bar.timestamp) ->
             TryFill(MarkSubmitted(b, id, bar.timestamp), id, bar)
        [] OTHER -> b

HandleOrder(b, id, bar) ==
  LET order == b.orders[id]
      open  == order.symbol = bar.symbol /\ order.status \in OPEN_ORDER_STATUSES
  IN  CASE open /\ Expires(order, bar.timestamp) ->
             SetStatus(b, id, "EXPIRED", bar.timestamp)
        [] open /\ ~Expires(order, bar.timestamp) /\ bar.timestamp > order.created_at ->
             TryFill(MarkSubmitted(b, id, bar.timestamp), id, bar)
        [] OTHER -> b

MarkPosition(b, bar) ==
  IF b.positions[bar.symbol].quantity = 0 THEN b
  ELSE [b EXCEPT !.positions[bar.symbol].market_price = bar.close]

(* on_market_event: mark, then every order of the symbol, oldest first. *)
OnMarketEvent(b, bar) ==
  FoldLeft(LAMBDA acc, id : HandleOrder(acc, id, bar),
           MarkPosition([b EXCEPT !.last_timestamp = bar.timestamp], bar),
           [id \in 1..Len(b.orders) |-> id])
=============================================================================
