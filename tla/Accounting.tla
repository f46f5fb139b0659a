------------------------------ MODULE Accounting ------------------------------
(***************************************************************************)
(* The long-only ledger of qts.portfolio.accounting.DefaultPortfolio as      *)
(* operators on one portfolio record, for the components that own one.       *)
(*                                                                         *)
(* Money and shares are integers.  average_cost is a quotient in the code;   *)
(* an instance picks prices that are multiples of a unit large enough for    *)
(* every quotient its bounds allow to be whole (see MCPortfolio).            *)
(***************************************************************************)
EXTENDS Integers, Sequences, SequencesExt

CONSTANT Symbols

ASSUME SymbolsAssumption == IsFiniteSet(Symbols)

Side == {"BUY", "SELL"}

CashEntry       == [amount: Int, cash_after: Int]
AccountSnapshot == [cash: Int, equity: Int, realized_pnl: Int, unrealized_pnl: Int,
                    quantity: [Symbols -> Nat]]

(* No position: the code removes the symbol from _positions. *)
NoPosition == [quantity |-> 0, average_cost |-> 0, market_price |-> 0]
-----------------------------------------------------------------------------
Equity(p) ==
  p.cash + SumFunction([s \in Symbols |-> p.positions[s].quantity * p.positions[s].market_price])

UnrealizedPnl(p) ==
  SumFunction([s \in Symbols |->
    p.positions[s].quantity * (p.positions[s].market_price - p.positions[s].average_cost)])

(* _build_snapshot: what get_account and the risk rules see until the next
   fill or mark. *)
BuildSnapshot(p) ==
  [cash           |-> p.cash,
   equity         |-> Equity(p),
   realized_pnl   |-> p.realized_pnl,
   unrealized_pnl |-> UnrealizedPnl(p),
   quantity       |-> [s \in Symbols |-> p.positions[s].quantity]]

WithSnapshot(p) == [p EXCEPT !.last_snapshot = BuildSnapshot(p)]

NewPortfolio(starting_cash) ==
  LET positions == [s \in Symbols |-> NoPosition]
  IN  [cash               |-> starting_cash,
       realized_pnl       |-> 0,
       positions          |-> positions,
       trade_ledger       |-> <<>>,
       cash_ledger        |-> <<>>,
       processed_fill_ids |-> {},
       last_snapshot      |-> [cash |-> starting_cash, equity |-> starting_cash,
                               realized_pnl |-> 0, unrealized_pnl |-> 0,
                               quantity |-> [s \in Symbols |-> 0]]]

(* mark_to_market, for one symbol: a symbol without a position is only priced. *)
MarkToMarket(p, symbol, price) ==
  WithSnapshot(
    IF p.positions[symbol].quantity = 0 THEN p
    ELSE [p EXCEPT !.positions[symbol].market_price = price])

Bought(position, fill) ==
  LET quantity == position.quantity + fill.quantity
  IN  [quantity     |-> quantity,
       average_cost |-> (position.quantity * position.average_cost
                           + fill.quantity * fill.price) \div quantity,
       market_price |-> fill.price]

(* Mistake: a sell closes the position. *)
SoldOut(position, fill) == NoPosition

Sold(position, fill) ==
  IF position.quantity = fill.quantity THEN NoPosition
  ELSE [position EXCEPT !.quantity = @ - fill.quantity, !.market_price = fill.price]

Notional(fill) == fill.quantity * fill.price

(* The signed effect of a fill on cash, before commission. *)
TradeAmount(fill) == IF fill.side = "SELL" THEN Notional(fill) ELSE -Notional(fill)

(* Mistake: the commission of a sell is forgotten. *)
RealizedDeltaBeforeCommission(position, fill) ==
  IF fill.side = "SELL" THEN (fill.price - position.average_cost) * fill.quantity ELSE 0

RealizedDelta(position, fill) ==
  IF fill.side = "SELL"
  THEN (fill.price - position.average_cost) * fill.quantity - fill.commission
  ELSE 0

(* Mistake: the first entry tells the cash after the commission, too. *)
CashEntriesWithFinalCash(fill, cash) ==
  <<[amount |-> TradeAmount(fill), cash_after |-> cash]>>
    \o IF fill.commission = 0 THEN <<>>
       ELSE <<[amount |-> -fill.commission, cash_after |-> cash]>>

(* _record_cash_entries, with the cash after the whole fill. *)
CashEntries(fill, cash) ==
  <<[amount |-> TradeAmount(fill), cash_after |-> cash + fill.commission]>>
    \o IF fill.commission = 0 THEN <<>>
       ELSE <<[amount |-> -fill.commission, cash_after |-> cash]>>

TradeEntry(fill, realized, position) ==
  [fill |-> fill, realized_pnl_delta |-> realized, position_quantity_after |-> position.quantity]

(* Mistake: only a sell without any position is refused. *)
OversellsNothing(p, fill) ==
  fill.side = "SELL" /\ p.positions[fill.symbol].quantity = 0

(* A sell of more shares than are held raises PortfolioError. *)
Oversells(p, fill) ==
  fill.side = "SELL" /\ p.positions[fill.symbol].quantity < fill.quantity

(* Mistake: an id is remembered, but a known one is not refused. *)
ApplyEveryFill(p, fill) ==
  LET before == p.positions[fill.symbol]
      after  == IF fill.side = "BUY" THEN Bought(before, fill) ELSE Sold(before, fill)
      cash   == p.cash + TradeAmount(fill) - fill.commission
  IN  IF Oversells(p, fill) THEN p
      ELSE MarkToMarket(
             [p EXCEPT
                !.processed_fill_ids = @ \cup {fill.id},
                !.positions[fill.symbol] = after,
                !.cash = cash,
                !.realized_pnl = @ + RealizedDelta(before, fill),
                !.trade_ledger = Append(@, TradeEntry(fill, RealizedDelta(before, fill), after)),
                !.cash_ledger = @ \o CashEntries(fill, cash)],
             fill.symbol, fill.price)

(* apply_fill.  The fill id is recorded first; a fill that raises leaves the
   rest of the portfolio as it was. *)
ApplyFill(p, fill) ==
  LET before   == p.positions[fill.symbol]
      after    == IF fill.side = "BUY" THEN Bought(before, fill) ELSE Sold(before, fill)
      cash     == p.cash + TradeAmount(fill) - fill.commission
      realized == RealizedDelta(before, fill)
      applied  == [p EXCEPT
                     !.processed_fill_ids = @ \cup {fill.id},
                     !.positions[fill.symbol] = after,
                     !.cash = cash,
                     !.realized_pnl = @ + realized,
                     !.trade_ledger = Append(@, TradeEntry(fill, realized, after)),
                     !.cash_ledger = @ \o CashEntries(fill, cash)]
  IN  CASE fill.id \in p.processed_fill_ids -> p
        [] fill.id \notin p.processed_fill_ids /\ Oversells(p, fill) ->
             [p EXCEPT !.processed_fill_ids = @ \cup {fill.id}]
        [] OTHER -> MarkToMarket(applied, fill.symbol, fill.price)
=============================================================================
