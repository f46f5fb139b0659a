------------------------------- MODULE Portfolio -------------------------------
(***************************************************************************)
(* A DefaultPortfolio on its own: fills and marks in any order, fills        *)
(* repeated under the same id, sells of more shares than are held, and a     *)
(* re-initialisation in between.  A snapshot is handed out after each call.  *)
(***************************************************************************)
EXTENDS Accounting

CONSTANTS
  Fills,         \* every fill that may be reported, ids not necessarily distinct
  Prices,        \* prices of marks
  StartingCash,
  MaxFills       \* bound on the trade ledger

ASSUME FillsAssumption ==
  Fills \subseteq [id: Nat, symbol: Symbols, side: Side, quantity: Nat \ {0},
                   price: Nat \ {0}, commission: Nat]
ASSUME PricesAssumption == Prices \subseteq Nat \ {0}
ASSUME CashAssumption == StartingCash \in Int /\ MaxFills \in Nat

VARIABLE portfolio

Init == portfolio = NewPortfolio(StartingCash)

(* apply_fill: a repeated id and a rejected sell take part too. *)
Apply(fill) ==
  /\ Len(portfolio.trade_ledger) < MaxFills
  /\ portfolio' = ApplyFill(portfolio, fill)

Mark(symbol, price) == portfolio' = MarkToMarket(portfolio, symbol, price)

(* initialize: everything starts afresh. *)
Initialize == portfolio' = NewPortfolio(StartingCash)

Next ==
  \/ \E fill \in Fills : Apply(fill)
  \/ \E symbol \in Symbols, price \in Prices : Mark(symbol, price)
  \/ Initialize

Spec == Init /\ [][Next]_portfolio
-----------------------------------------------------------------------------
TypeOK ==
  /\ portfolio.cash \in Int
  /\ portfolio.realized_pnl \in Int
  /\ \A s \in Symbols : portfolio.positions[s].quantity \in Nat
  /\ portfolio.cash_ledger \in Seq(CashEntry)
  /\ \A i \in DOMAIN portfolio.trade_ledger : portfolio.trade_ledger[i].fill \in Fills
  /\ portfolio.processed_fill_ids \subseteq Nat
  /\ portfolio.last_snapshot \in AccountSnapshot

(* The cash ledger explains the cash: each entry's cash_after follows from the
   previous one by its amount, the commission entry included, and the last one
   is the account's cash (_record_cash_entries rebuilds the intermediate value). *)
CashAfter(i) ==
  IF i = 0 THEN StartingCash ELSE portfolio.cash_ledger[i].cash_after

CashLedgerExplainsCash ==
  /\ \A i \in DOMAIN portfolio.cash_ledger :
       CashAfter(i) = CashAfter(i - 1) + portfolio.cash_ledger[i].amount
  /\ portfolio.cash = CashAfter(Len(portfolio.cash_ledger))

(* The trade ledger explains the positions: the shares held are the signed
   shares traded, whatever was repeated or refused. *)
SharesTraded(s, entry) ==
  CASE entry.fill.symbol # s                               -> 0
    [] entry.fill.symbol = s /\ entry.fill.side = "BUY"  -> entry.fill.quantity
    [] entry.fill.symbol = s /\ entry.fill.side = "SELL" -> -entry.fill.quantity

TradeLedgerExplainsPositions ==
  \A s \in Symbols :
    portfolio.positions[s].quantity =
      SumFunction([i \in DOMAIN portfolio.trade_ledger |->
                     SharesTraded(s, portfolio.trade_ledger[i])])

(* A fill id enters the books at most once, and then its id is remembered. *)
BookedOnce ==
  \A i, j \in DOMAIN portfolio.trade_ledger :
    /\ portfolio.trade_ledger[i].fill.id \in portfolio.processed_fill_ids
    /\ i # j => portfolio.trade_ledger[i].fill.id # portfolio.trade_ledger[j].fill.id

(* The average cost is a quotient (the code's Decimal rounds it to 28 digits, the
   model to a unit).  No fill that could come next is rounded. *)
WholeCosts ==
  \A fill \in Fills :
    LET before == portfolio.positions[fill.symbol]
        after  == Bought(before, fill)
    IN  fill.side = "BUY" /\ Len(portfolio.trade_ledger) < MaxFills
          => after.quantity * after.average_cost =
               before.quantity * before.average_cost + Notional(fill)

(* Where the money went: equity is what the account started with, plus realized
   and unrealized profit, less the commissions of the buys (a sell's commission
   is already in realized_pnl). *)
BuyCommission(entry) == IF entry.fill.side = "BUY" THEN entry.fill.commission ELSE 0

BuyCommissions ==
  SumFunction([i \in DOMAIN portfolio.trade_ledger |->
                 BuyCommission(portfolio.trade_ledger[i])])

ProfitExplainsEquity ==
  LET snapshot == portfolio.last_snapshot
  IN  snapshot.equity = StartingCash + snapshot.realized_pnl + snapshot.unrealized_pnl
                          - BuyCommissions
=============================================================================
