---------------------------- MODULE Portfolio_proofs ----------------------------
(***************************************************************************)
(* The books of a DefaultPortfolio, for every set of fills and symbols and   *)
(* every length: each fill is booked once, the cash ledger explains the cash *)
(* and the trade ledger the shares, and the profit explains the equity.      *)
(***************************************************************************)
EXTENDS Portfolio, Accounting_proofs

(* What one step may do to the books: nothing, besides a new mark. *)
KeepsBooks(p, q) ==
  /\ q.cash = p.cash
  /\ q.realized_pnl = p.realized_pnl
  /\ q.trade_ledger = p.trade_ledger
  /\ q.cash_ledger = p.cash_ledger
  /\ p.processed_fill_ids \subseteq q.processed_fill_ids
  /\ \A s \in Symbols : /\ q.positions[s].quantity = p.positions[s].quantity
                        /\ q.positions[s].average_cost = p.positions[s].average_cost
  /\ p.last_snapshot = BuildSnapshot(p) => q.last_snapshot = BuildSnapshot(q)

LEMMA FillsAreFills ==
  ASSUME NEW fill \in Fills
  PROVE  IsFill(fill)
BY FillsAssumption DEF IsFill

LEMMA NewPortfolioFacts ==
  LET p == NewPortfolio(StartingCash)
  IN  /\ IsPortfolio(p, Fills)
      /\ p.trade_ledger = <<>> /\ p.cash_ledger = <<>> /\ p.processed_fill_ids = {}
      /\ p.cash = StartingCash /\ p.realized_pnl = 0
      /\ p.positions = [s \in Symbols |-> NoPosition]
      /\ p.last_snapshot = [cash |-> StartingCash, equity |-> StartingCash, realized_pnl |-> 0,
                            unrealized_pnl |-> 0, quantity |-> [s \in Symbols |-> 0]]
<1>1. NoPosition \in Position
  BY DEF NoPosition, Position
<1>2. [s \in Symbols |-> NoPosition] \in [Symbols -> Position]
  BY <1>1
<1>3. QED
  BY <1>2, CashAssumption DEF NewPortfolio, IsPortfolio

(* The three kinds of steps. *)
LEMMA PortfolioSteps ==
  ASSUME IsPortfolio(portfolio, Fills), portfolio.processed_fill_ids \subseteq Nat,
         [Next]_portfolio
  PROVE  /\ IsPortfolio(portfolio', Fills)
         /\ portfolio'.processed_fill_ids \subseteq Nat
         /\ \/ portfolio' = NewPortfolio(StartingCash)
            \/ KeepsBooks(portfolio, portfolio')
            \/ \E fill \in Fills :
                 /\ Len(portfolio.trade_ledger) < MaxFills
                 /\ BooksFill(portfolio, fill, portfolio')
                 /\ portfolio'.processed_fill_ids = portfolio.processed_fill_ids \cup {fill.id}
<1>1. ASSUME NEW fill \in Fills, Apply(fill)
      PROVE  /\ IsPortfolio(portfolio', Fills)
             /\ portfolio'.processed_fill_ids = portfolio.processed_fill_ids \cup {fill.id}
             /\ fill.id \in Nat
             /\ Len(portfolio.trade_ledger) < MaxFills
             /\ KeepsBooks(portfolio, portfolio') \/ BooksFill(portfolio, fill, portfolio')
  <2>1. IsFill(fill) /\ portfolio' = ApplyFill(portfolio, fill)
        /\ Len(portfolio.trade_ledger) < MaxFills
    BY <1>1, FillsAreFills DEF Apply
  <2>2. /\ IsPortfolio(portfolio', Fills)
        /\ portfolio'.processed_fill_ids = portfolio.processed_fill_ids \cup {fill.id}
        /\ LeavesBooks(portfolio, portfolio') \/ BooksFill(portfolio, fill, portfolio')
    BY <2>1, ApplyFillFacts
  <2>3. LeavesBooks(portfolio, portfolio') => KeepsBooks(portfolio, portfolio')
    BY <2>2, SnapshotFacts DEF LeavesBooks, KeepsBooks
  <2>4. QED
    BY <2>1, <2>2, <2>3 DEF IsFill
<1>2. ASSUME NEW symbol \in Symbols, NEW price \in Prices, Mark(symbol, price)
      PROVE  /\ IsPortfolio(portfolio', Fills)
             /\ portfolio'.processed_fill_ids = portfolio.processed_fill_ids
             /\ KeepsBooks(portfolio, portfolio')
  <2>1. price \in Int /\ portfolio' = MarkToMarket(portfolio, symbol, price)
    BY <1>2, PricesAssumption DEF Mark
  <2>2. QED
    BY <2>1, MarkFacts DEF SameBooks, KeepsBooks
<1>3. CASE Initialize
  BY <1>3, NewPortfolioFacts DEF Initialize
<1>4. CASE UNCHANGED portfolio
  BY <1>4 DEF KeepsBooks
<1>5. QED
  BY <1>1, <1>2, <1>3, <1>4 DEF Next

(* A ledger with one more entry. *)
LEMMA OneMoreTrade ==
  ASSUME IsPortfolio(portfolio, Fills), NEW fill \in Fills,
         BooksFill(portfolio, fill, portfolio')
  PROVE  LET old == portfolio.trade_ledger
             new == portfolio'.trade_ledger
         IN  /\ Len(old) \in Nat /\ DOMAIN old = 1..Len(old) /\ DOMAIN new = 1..(Len(old) + 1)
             /\ \A i \in 1..Len(old) : new[i] = old[i] /\ old[i].fill \in Fills
             /\ new[Len(old) + 1].fill = fill
<1>1. PICK entry \in [fill: {fill}, realized_pnl_delta: Int, position_quantity_after: Nat] :
        portfolio'.trade_ledger = Append(portfolio.trade_ledger, entry)
  BY DEF BooksFill
<1>2. entry.fill = fill
  OBVIOUS
<1>3. portfolio.trade_ledger \in
        Seq([fill: Fills, realized_pnl_delta: Int, position_quantity_after: Nat])
  BY DEF IsPortfolio
<1>4. entry \in [fill: Fills, realized_pnl_delta: Int, position_quantity_after: Nat]
  OBVIOUS
<1> DEFINE Entries == [fill: Fills, realized_pnl_delta: Int, position_quantity_after: Nat]
           old == portfolio.trade_ledger
           new == portfolio'.trade_ledger
<1>5. \A e \in Entries : e.fill \in Fills
  OBVIOUS
<1>6. old \in Seq(Entries) /\ entry \in Entries /\ new = Append(old, entry)
  BY <1>1, <1>3, <1>4
<1> HIDE DEF Entries, old, new
<1>7. /\ Len(old) \in Nat /\ DOMAIN old = 1..Len(old) /\ DOMAIN new = 1..(Len(old) + 1)
      /\ \A i \in 1..Len(old) : new[i] = old[i] /\ old[i] \in Entries
      /\ new[Len(old) + 1] = entry
  BY <1>6
<1>8. QED
  BY <1>2, <1>5, <1>7 DEF old, new
-----------------------------------------------------------------------------
(* Each fill is booked once. *)
LEMMA BookedOnceStep ==
  ASSUME IsPortfolio(portfolio, Fills), portfolio.processed_fill_ids \subseteq Nat,
         BookedOnce, [Next]_portfolio
  PROVE  BookedOnce'
<1>1. CASE portfolio' = NewPortfolio(StartingCash)
  BY <1>1, NewPortfolioFacts DEF BookedOnce
<1>2. CASE KeepsBooks(portfolio, portfolio')
  BY <1>2 DEF KeepsBooks, BookedOnce
<1>3. ASSUME NEW fill \in Fills, BooksFill(portfolio, fill, portfolio'),
             portfolio'.processed_fill_ids = portfolio.processed_fill_ids \cup {fill.id}
      PROVE  BookedOnce'
  <2> DEFINE old == portfolio.trade_ledger
             new == portfolio'.trade_ledger
  <2>1. /\ Len(old) \in Nat /\ DOMAIN old = 1..Len(old) /\ DOMAIN new = 1..(Len(old) + 1)
        /\ \A i \in 1..Len(old) : new[i] = old[i]
        /\ new[Len(old) + 1].fill = fill
    BY <1>3, OneMoreTrade
  <2>2. fill.id \notin portfolio.processed_fill_ids
    BY <1>3 DEF BooksFill
  <2>3. \A i \in DOMAIN old : old[i].fill.id \in portfolio.processed_fill_ids
    BY DEF BookedOnce
  <2>4. \A i, j \in DOMAIN old : i # j => old[i].fill.id # old[j].fill.id
    BY DEF BookedOnce
  <2> HIDE DEF old, new
  <2>5. \A i \in DOMAIN new : i \in DOMAIN old \/ i = Len(old) + 1
    BY <2>1
  <2>6. \A i \in DOMAIN new :
          /\ i \in DOMAIN old => new[i] = old[i]
          /\ i = Len(old) + 1 => new[i].fill.id = fill.id
    BY <2>1
  <2>7. \A i \in DOMAIN new : new[i].fill.id \in portfolio'.processed_fill_ids
    BY <1>3, <2>3, <2>5, <2>6
  <2>8. \A i, j \in DOMAIN new : i # j => new[i].fill.id # new[j].fill.id
    BY <2>2, <2>3, <2>4, <2>5, <2>6
  <2>9. QED
    BY <2>7, <2>8 DEF new, BookedOnce
<1>4. QED
  BY <1>1, <1>2, <1>3, PortfolioSteps
-----------------------------------------------------------------------------
(* A cash ledger that leads from the starting cash to cash. *)
AfterEntry(ledger, i) == IF i = 0 THEN StartingCash ELSE ledger[i].cash_after
Explains(ledger, cash) ==
  /\ \A i \in 1..Len(ledger) : AfterEntry(ledger, i) = AfterEntry(ledger, i - 1) + ledger[i].amount
  /\ cash = AfterEntry(ledger, Len(ledger))

LEMMA ExplainsPortfolio ==
  ASSUME IsPortfolio(portfolio, Fills)
  PROVE  CashLedgerExplainsCash <=> Explains(portfolio.cash_ledger, portfolio.cash)
<1>1. DOMAIN portfolio.cash_ledger = 1..Len(portfolio.cash_ledger)
  BY DEF IsPortfolio
<1>2. QED
  BY <1>1 DEF CashLedgerExplainsCash, CashAfter, Explains, AfterEntry

LEMMA AppendExplains ==
  ASSUME NEW ledger \in Seq(CashEntry), NEW cash \in Int, Explains(ledger, cash),
         NEW entry \in CashEntry, entry.cash_after = cash + entry.amount
  PROVE  /\ Append(ledger, entry) \in Seq(CashEntry)
         /\ Explains(Append(ledger, entry), entry.cash_after)
<1> DEFINE longer == Append(ledger, entry)
<1>1. /\ longer \in Seq(CashEntry) /\ Len(longer) = Len(ledger) + 1
      /\ \A i \in 1..Len(ledger) : longer[i] = ledger[i]
      /\ longer[Len(ledger) + 1] = entry
  BY AppendProperties
<1>2. Len(ledger) \in Nat
  OBVIOUS
<1> HIDE DEF longer
<1>3. \A i \in 0..Len(ledger) : AfterEntry(longer, i) = AfterEntry(ledger, i)
  BY <1>1, <1>2 DEF AfterEntry
<1>4. AfterEntry(longer, Len(ledger) + 1) = entry.cash_after
  BY <1>1, <1>2 DEF AfterEntry
<1>5. \A i \in 1..Len(longer) : AfterEntry(longer, i) = AfterEntry(longer, i - 1) + longer[i].amount
  <2>1. SUFFICES ASSUME NEW i \in 1..Len(longer)
                 PROVE  AfterEntry(longer, i) = AfterEntry(longer, i - 1) + longer[i].amount
    OBVIOUS
  <2>2. CASE i \in 1..Len(ledger)
    <3>1. i - 1 \in 0..Len(ledger) /\ i \in 0..Len(ledger)
      BY <1>2, <2>2
    <3>2. QED
      BY <1>1, <1>3, <2>2, <3>1 DEF Explains
  <2>3. CASE i = Len(ledger) + 1
    <3>1. i - 1 = Len(ledger) /\ Len(ledger) \in 0..Len(ledger)
      BY <1>2, <2>3
    <3>2. QED
      BY <1>1, <1>3, <1>4, <2>3, <3>1 DEF Explains
  <2>4. QED
    BY <1>1, <1>2, <2>2, <2>3
<1>6. QED
  BY <1>1, <1>4, <1>5 DEF Explains, longer

(* The entries of a fill lead from the cash before it to the cash after it. *)
LEMMA CashEntriesExplain ==
  ASSUME NEW ledger \in Seq(CashEntry), NEW before \in Int, Explains(ledger, before),
         NEW fill \in Fills
  PROVE  LET cash == before + TradeAmount(fill) - fill.commission
         IN  Explains(ledger \o CashEntries(fill, cash), cash)
<1> DEFINE cash == before + TradeAmount(fill) - fill.commission
           first == [amount |-> TradeAmount(fill), cash_after |-> cash + fill.commission]
           second == [amount |-> -fill.commission, cash_after |-> cash]
<1>1. IsFill(fill) /\ TradeAmount(fill) \in Int /\ fill.commission \in Int /\ cash \in Int
  BY FillsAreFills, AmountType
<1>2. /\ first \in CashEntry /\ second \in CashEntry
      /\ IF fill.commission = 0 THEN CashEntries(fill, cash) = <<first>>
         ELSE CashEntries(fill, cash) = <<first, second>>
  BY <1>1, CashEntriesFacts
<1>3. first.cash_after = before + first.amount /\ second.cash_after = first.cash_after + second.amount
  BY <1>1
<1>4. fill.commission = 0 => first.cash_after = cash
  BY <1>1
<1>5. second.cash_after = cash /\ first.cash_after \in Int
  BY <1>1
<1> HIDE DEF cash, first, second
<1>6. Append(ledger, first) \in Seq(CashEntry) /\ Explains(Append(ledger, first), first.cash_after)
  BY <1>2, <1>3, AppendExplains
<1>7. ledger \o <<first>> = Append(ledger, first)
  BY <1>2, AppendIsConcat
<1>8. CASE fill.commission = 0
  BY <1>2, <1>4, <1>6, <1>7, <1>8 DEF cash
<1>9. CASE fill.commission # 0
  <2>1. Explains(Append(Append(ledger, first), second), second.cash_after)
    BY <1>2, <1>3, <1>5, <1>6, AppendExplains
  <2>2. ledger \o <<first, second>> = Append(Append(ledger, first), second)
    OBVIOUS
  <2>3. QED
    BY <1>2, <1>5, <1>9, <2>1, <2>2 DEF cash
<1>10. QED
  BY <1>8, <1>9
LEMMA CashLedgerStep ==
  ASSUME IsPortfolio(portfolio, Fills), portfolio.processed_fill_ids \subseteq Nat,
         CashLedgerExplainsCash, [Next]_portfolio
  PROVE  CashLedgerExplainsCash'
<1>1. IsPortfolio(portfolio', Fills)
  BY PortfolioSteps
<1>2. CASE portfolio' = NewPortfolio(StartingCash)
  BY <1>2, NewPortfolioFacts DEF CashLedgerExplainsCash, CashAfter
<1>3. CASE KeepsBooks(portfolio, portfolio')
  BY <1>3 DEF KeepsBooks, CashLedgerExplainsCash, CashAfter
<1>4. ASSUME NEW fill \in Fills, BooksFill(portfolio, fill, portfolio')
      PROVE  CashLedgerExplainsCash'
  <2>1. Explains(portfolio.cash_ledger, portfolio.cash)
    BY ExplainsPortfolio
  <2>2. /\ portfolio'.cash = CashWith(portfolio, fill)
        /\ portfolio'.cash_ledger =
             portfolio.cash_ledger \o CashEntries(fill, CashWith(portfolio, fill))
    BY <1>4 DEF BooksFill
  <2>3. Explains(portfolio'.cash_ledger, portfolio'.cash)
    BY <2>1, <2>2, CashEntriesExplain DEF IsPortfolio, CashWith
  <2>4. DOMAIN portfolio'.cash_ledger = 1..Len(portfolio'.cash_ledger)
    BY <1>1 DEF IsPortfolio
  <2>5. QED
    BY <2>3, <2>4 DEF CashLedgerExplainsCash, CashAfter, Explains, AfterEntry
<1>5. QED
  BY <1>2, <1>3, <1>4, PortfolioSteps
-----------------------------------------------------------------------------
(* The trade ledger explains the shares: a sum over the ledger grows by what the
   new entry adds. *)
Shares(s, ledger) == [i \in DOMAIN ledger |-> SharesTraded(s, ledger[i])]

Commissions(ledger) == [i \in DOMAIN ledger |-> BuyCommission(ledger[i])]

LEMMA SharesType ==
  ASSUME NEW entry, entry.fill \in Fills, NEW s \in Symbols
  PROVE  SharesTraded(s, entry) \in Int /\ BuyCommission(entry) \in Int
<1>1. entry.fill.side \in Side /\ entry.fill.quantity \in Nat /\ entry.fill.commission \in Nat
  BY FillsAssumption
<1>2. QED
  BY <1>1 DEF SharesTraded, BuyCommission, Side

LEMMA LedgerSums ==
  ASSUME IsPortfolio(portfolio, Fills), NEW fill \in Fills,
         BooksFill(portfolio, fill, portfolio'), NEW s \in Symbols
  PROVE  LET old == portfolio.trade_ledger
             new == portfolio'.trade_ledger
             entry == new[Len(new)]
         IN  /\ entry.fill = fill
             /\ SumFunction(Shares(s, old)) \in Int
             /\ SumFunction(Shares(s, new)) = SumFunction(Shares(s, old)) + SharesTraded(s, entry)
             /\ SumFunction(Commissions(old)) \in Int
             /\ SumFunction(Commissions(new)) = SumFunction(Commissions(old)) + BuyCommission(entry)
<1> DEFINE old == portfolio.trade_ledger
           new == portfolio'.trade_ledger
           n == Len(old)
<1>1. /\ n \in Nat /\ DOMAIN old = 1..n /\ DOMAIN new = 1..(n + 1)
      /\ \A i \in 1..n : new[i] = old[i] /\ old[i].fill \in Fills
      /\ new[n + 1].fill = fill
  BY OneMoreTrade
<1>2. Len(new) = n + 1
  <2>1. \E entry : new = Append(old, entry)
    BY DEF BooksFill
  <2>2. old \in Seq([fill: Fills, realized_pnl_delta: Int, position_quantity_after: Nat])
    BY DEF IsPortfolio
  <2>3. QED
    BY <2>1, <2>2
<1> HIDE DEF old, new, n
<1>3. \A i \in 1..(n + 1) : new[i].fill \in Fills
  BY <1>1
<1>4. /\ Shares(s, old) \in [1..n -> Int] /\ Shares(s, new) \in [1..(n + 1) -> Int]
      /\ Commissions(old) \in [1..n -> Int] /\ Commissions(new) \in [1..(n + 1) -> Int]
  BY <1>1, <1>3, SharesType DEF Shares, Commissions
<1>5. /\ \A i \in 1..n : Shares(s, new)[i] = Shares(s, old)[i]
      /\ \A i \in 1..n : Commissions(new)[i] = Commissions(old)[i]
      /\ Shares(s, new)[n + 1] = SharesTraded(s, new[n + 1])
      /\ Commissions(new)[n + 1] = BuyCommission(new[n + 1])
  BY <1>1 DEF Shares, Commissions
<1>6. IsFiniteSet(1..n)
  BY <1>1, FS_Interval
<1>7. SumFunction(Shares(s, old)) \in Int /\ SumFunction(Commissions(old)) \in Int
  BY <1>4, <1>6, SumType
<1>8. SumFunction(Shares(s, new)) = SumFunction(Shares(s, old)) + SharesTraded(s, new[n + 1])
  BY <1>1, <1>4, <1>5, SumMore
<1>9. SumFunction(Commissions(new)) = SumFunction(Commissions(old)) + BuyCommission(new[n + 1])
  BY <1>1, <1>4, <1>5, SumMore
<1>10. QED
  BY <1>1, <1>2, <1>7, <1>8, <1>9 DEF old, new

LEMMA QuantityAfter ==
  ASSUME NEW p, IsPortfolio(p, Fills), NEW fill \in Fills, ~Oversells(p, fill)
  PROVE  /\ p.positions[fill.symbol] \in Position
         /\ fill.side = "BUY" =>
              /\ After(p, fill).quantity = p.positions[fill.symbol].quantity + fill.quantity
              /\ After(p, fill).average_cost =
                   (p.positions[fill.symbol].quantity * p.positions[fill.symbol].average_cost
                      + fill.quantity * fill.price)
                     \div (p.positions[fill.symbol].quantity + fill.quantity)
         /\ fill.side = "SELL" =>
              /\ After(p, fill).quantity = p.positions[fill.symbol].quantity - fill.quantity
              /\ fill.quantity <= p.positions[fill.symbol].quantity
              /\ \/ After(p, fill).average_cost = p.positions[fill.symbol].average_cost
                 \/ After(p, fill).quantity = 0
<1> DEFINE before == p.positions[fill.symbol]
<1>1. IsFill(fill) /\ before \in Position
  BY FillsAreFills DEF IsPortfolio, IsFill
<1>2. CASE fill.side = "BUY"
  BY <1>1, <1>2 DEF After, Bought
<1>3. CASE fill.side = "SELL"
  <2>1. After(p, fill) = Sold(before, fill) /\ fill.quantity <= before.quantity
    BY <1>1, <1>3 DEF After, Oversells, IsFill, Position
  <2>2. CASE before.quantity = fill.quantity
    BY <1>1, <1>3, <2>1, <2>2 DEF Sold, NoPosition, IsFill, Position
  <2>3. CASE before.quantity # fill.quantity
    <3>1. Sold(before, fill) = [quantity     |-> before.quantity - fill.quantity,
                                average_cost |-> before.average_cost,
                                market_price |-> fill.price]
      BY <1>1, <2>3 DEF Sold, Position
    <3>2. QED
      BY <1>1, <1>3, <2>1, <3>1
  <2>4. QED
    BY <2>2, <2>3
<1>4. QED
  BY <1>1, <1>2, <1>3 DEF IsFill, Side

LEMMA TradeLedgerStep ==
  ASSUME IsPortfolio(portfolio, Fills), portfolio.processed_fill_ids \subseteq Nat,
         TradeLedgerExplainsPositions, [Next]_portfolio
  PROVE  TradeLedgerExplainsPositions'
<1>1. CASE portfolio' = NewPortfolio(StartingCash)
  <2>1. SUFFICES ASSUME NEW s \in Symbols
                 PROVE  portfolio'.positions[s].quantity =
                          SumFunction(Shares(s, portfolio'.trade_ledger))
    BY DEF TradeLedgerExplainsPositions, Shares
  <2>2. portfolio'.trade_ledger = <<>> /\ portfolio'.positions[s] = NoPosition
    BY <1>1, NewPortfolioFacts
  <2>3. DOMAIN Shares(s, <<>>) = {}
    BY DEF Shares
  <2>4. SumFunction(Shares(s, <<>>)) = 0
    BY <2>3, SumEmpty
  <2>5. QED
    BY <2>2, <2>4 DEF NoPosition
<1>2. CASE KeepsBooks(portfolio, portfolio')
  BY <1>2 DEF KeepsBooks, TradeLedgerExplainsPositions
<1>3. ASSUME NEW fill \in Fills, BooksFill(portfolio, fill, portfolio')
      PROVE  TradeLedgerExplainsPositions'
  <2>1. SUFFICES ASSUME NEW s \in Symbols
                 PROVE  portfolio'.positions[s].quantity =
                          SumFunction(Shares(s, portfolio'.trade_ledger))
    BY DEF TradeLedgerExplainsPositions, Shares
  <2> DEFINE old == SumFunction(Shares(s, portfolio.trade_ledger))
             new == SumFunction(Shares(s, portfolio'.trade_ledger))
  <2>2. PICK entry : entry.fill = fill /\ old \in Int /\ new = old + SharesTraded(s, entry)
    BY <1>3, LedgerSums
  <2>3. portfolio.positions[s].quantity = old
    BY DEF TradeLedgerExplainsPositions, Shares
  <2> HIDE DEF old, new
  <2>4. /\ portfolio'.positions = [portfolio.positions EXCEPT ![fill.symbol] = After(portfolio, fill)]
        /\ ~Oversells(portfolio, fill)
    BY <1>3 DEF BooksFill
  <2>5. portfolio.positions \in [Symbols -> Position] /\ IsFill(fill)
    BY FillsAreFills DEF IsPortfolio
  <2>6. CASE fill.symbol # s
    BY <2>2, <2>3, <2>4, <2>5, <2>6 DEF SharesTraded, new
  <2>7. CASE fill.symbol = s /\ fill.side = "BUY"
    <3>1. portfolio'.positions[s] = After(portfolio, fill)
      BY <2>4, <2>5, <2>7
    <3>2. SharesTraded(s, entry) = fill.quantity
      BY <2>2, <2>7 DEF SharesTraded
    <3>3. QED
      BY <2>2, <2>3, <2>4, <2>7, <3>1, <3>2, QuantityAfter DEF new
  <2>8. CASE fill.symbol = s /\ fill.side = "SELL"
    <3>1. portfolio'.positions[s] = After(portfolio, fill)
      BY <2>4, <2>5, <2>8
    <3>2. SharesTraded(s, entry) = -fill.quantity
      BY <2>2, <2>8 DEF SharesTraded
    <3>3. After(portfolio, fill).quantity = portfolio.positions[s].quantity - fill.quantity
      BY <2>4, <2>8, QuantityAfter
    <3>4. fill.quantity \in Int
      BY <2>5 DEF IsFill
    <3>5. QED
      BY <2>2, <2>3, <3>1, <3>2, <3>3, <3>4 DEF new
  <2>9. QED
    BY <2>5, <2>6, <2>7, <2>8 DEF IsFill, Side
<1>4. QED
  BY <1>1, <1>2, <1>3, PortfolioSteps
-----------------------------------------------------------------------------
(* The snapshot is the one of the books as they are. *)
SnapshotIsCurrent == portfolio.last_snapshot = BuildSnapshot(portfolio)

(* A portfolio without positions is worth its cash. *)
LEMMA NewPortfolioSnapshot ==
  LET p == NewPortfolio(StartingCash)
  IN  p.last_snapshot = BuildSnapshot(p) /\ SumFunction(Costs(p)) = 0
<1> DEFINE p == NewPortfolio(StartingCash)
           zero == [s \in Symbols |-> 0]
<1>1. /\ p.cash = StartingCash /\ p.realized_pnl = 0
      /\ p.positions = [s \in Symbols |-> NoPosition]
      /\ p.last_snapshot = [cash |-> StartingCash, equity |-> StartingCash, realized_pnl |-> 0,
                            unrealized_pnl |-> 0, quantity |-> zero]
  BY NewPortfolioFacts
<1> HIDE DEF p
<1>2. \A s \in Symbols : p.positions[s].quantity = 0 /\ p.positions[s].market_price = 0
                          /\ p.positions[s].average_cost = 0
  BY <1>1 DEF NoPosition
<1>3. [s \in Symbols |-> p.positions[s].quantity * p.positions[s].market_price] = zero
  BY <1>2
<1>4. [s \in Symbols |->
         p.positions[s].quantity * (p.positions[s].market_price - p.positions[s].average_cost)] = zero
  BY <1>2
<1>5. [s \in Symbols |-> p.positions[s].quantity * p.positions[s].average_cost] = zero
  BY <1>2
<1>6. [s \in Symbols |-> p.positions[s].quantity] = zero
  BY <1>2
<1>7. zero \in [Symbols -> Int] /\ \A s \in Symbols : zero[s] = 0
  OBVIOUS
<1> HIDE DEF zero
<1>9. SumFunction(zero) = 0
  BY <1>7, SumZero, SymbolsAssumption
<1>10. Equity(p) = StartingCash /\ UnrealizedPnl(p) = 0 /\ SumFunction(Costs(p)) = 0
  BY <1>1, <1>3, <1>4, <1>5, <1>9, CashAssumption DEF Equity, UnrealizedPnl, Costs
<1>11. QED
  BY <1>1, <1>6, <1>10 DEF BuildSnapshot, p

LEMMA SnapshotStep ==
  ASSUME IsPortfolio(portfolio, Fills), portfolio.processed_fill_ids \subseteq Nat,
         SnapshotIsCurrent, [Next]_portfolio
  PROVE  SnapshotIsCurrent'
<1>1. CASE portfolio' = NewPortfolio(StartingCash)
  BY <1>1, NewPortfolioSnapshot DEF SnapshotIsCurrent
<1>2. CASE KeepsBooks(portfolio, portfolio')
  BY <1>2 DEF KeepsBooks, SnapshotIsCurrent
<1>3. ASSUME NEW fill \in Fills, BooksFill(portfolio, fill, portfolio')
      PROVE  SnapshotIsCurrent'
  BY <1>3 DEF BooksFill, SnapshotIsCurrent
<1>4. QED
  BY <1>1, <1>2, <1>3, PortfolioSteps
-----------------------------------------------------------------------------
(* The inductive invariant: a portfolio of the right shape whose two ledgers
   explain what it holds, and whose snapshot is current. *)
BooksInv ==
  /\ IsPortfolio(portfolio, Fills)
  /\ portfolio.processed_fill_ids \subseteq Nat
  /\ BookedOnce
  /\ CashLedgerExplainsCash
  /\ TradeLedgerExplainsPositions
  /\ SnapshotIsCurrent

LEMMA BooksInvInit == Init => BooksInv
<1>1. SUFFICES ASSUME portfolio = NewPortfolio(StartingCash)
               PROVE  BooksInv
  BY DEF Init
<1>2. /\ IsPortfolio(portfolio, Fills) /\ portfolio.trade_ledger = <<>>
      /\ portfolio.cash_ledger = <<>> /\ portfolio.processed_fill_ids = {}
      /\ portfolio.cash = StartingCash
      /\ portfolio.positions = [s \in Symbols |-> NoPosition]
  BY <1>1, NewPortfolioFacts
<1>3. SnapshotIsCurrent
  BY <1>1, NewPortfolioSnapshot DEF SnapshotIsCurrent
<1>4. BookedOnce /\ CashLedgerExplainsCash
  BY <1>2 DEF BookedOnce, CashLedgerExplainsCash, CashAfter
<1>5. ASSUME NEW s \in Symbols
      PROVE  portfolio.positions[s].quantity = SumFunction(Shares(s, portfolio.trade_ledger))
  <2>1. DOMAIN Shares(s, <<>>) = {}
    BY DEF Shares
  <2>2. SumFunction(Shares(s, <<>>)) = 0
    BY <2>1, SumEmpty
  <2>3. QED
    BY <1>2, <2>2 DEF NoPosition
<1>6. TradeLedgerExplainsPositions
  BY <1>5 DEF TradeLedgerExplainsPositions, Shares
<1>7. QED
  BY <1>2, <1>3, <1>4, <1>6 DEF BooksInv

LEMMA BooksInvNext == BooksInv /\ [Next]_portfolio => BooksInv'
<1>1. SUFFICES ASSUME BooksInv, [Next]_portfolio
               PROVE  BooksInv'
  OBVIOUS
<1>2. /\ IsPortfolio(portfolio, Fills) /\ portfolio.processed_fill_ids \subseteq Nat
      /\ BookedOnce /\ CashLedgerExplainsCash /\ TradeLedgerExplainsPositions
      /\ SnapshotIsCurrent
  BY <1>1 DEF BooksInv
<1>3. IsPortfolio(portfolio', Fills) /\ portfolio'.processed_fill_ids \subseteq Nat
  BY <1>1, <1>2, PortfolioSteps
<1>4. BookedOnce' /\ CashLedgerExplainsCash'
  BY <1>1, <1>2, BookedOnceStep, CashLedgerStep
<1>5. TradeLedgerExplainsPositions' /\ SnapshotIsCurrent'
  BY <1>1, <1>2, TradeLedgerStep, SnapshotStep
<1>6. QED
  BY <1>3, <1>4, <1>5 DEF BooksInv

(* The books keep their shape, their ledgers and their snapshot, whatever is
   reported, repeated, refused, marked or started afresh. *)
THEOREM BooksAreKept == Spec => []BooksInv
<1>1. QED
  BY BooksInvInit, BooksInvNext, PTL DEF Spec

(* A portfolio keeps its type: no position is ever short, and the snapshot handed
   to the risk rules is one of numbers (accounting.py: _build_snapshot). *)
THEOREM TypeCorrect == Spec => []TypeOK
<1>1. BooksInv => TypeOK
  <2>1. SUFFICES ASSUME BooksInv
                 PROVE  TypeOK
    OBVIOUS
  <2>2. IsPortfolio(portfolio, Fills) /\ portfolio.processed_fill_ids \subseteq Nat
        /\ portfolio.last_snapshot = BuildSnapshot(portfolio)
    BY <2>1 DEF BooksInv, SnapshotIsCurrent
  <2>3. portfolio.last_snapshot \in AccountSnapshot
    BY <2>2, SnapshotType
  <2>4. \A s \in Symbols : portfolio.positions[s].quantity \in Nat
    BY <2>2 DEF IsPortfolio, Position
  <2>5. \A i \in DOMAIN portfolio.trade_ledger : portfolio.trade_ledger[i].fill \in Fills
    <3> DEFINE Entries == [fill: Fills, realized_pnl_delta: Int, position_quantity_after: Nat]
    <3>1. portfolio.trade_ledger \in Seq(Entries) /\ \A e \in Entries : e.fill \in Fills
      BY <2>2 DEF IsPortfolio
    <3> HIDE DEF Entries
    <3>2. \A i \in DOMAIN portfolio.trade_ledger : portfolio.trade_ledger[i] \in Entries
      BY <3>1
    <3>3. QED
      BY <3>1, <3>2
  <2>6. QED
    BY <2>2, <2>3, <2>4, <2>5 DEF TypeOK, IsPortfolio
<1>2. QED
  BY <1>1, BooksAreKept, PTL

(* However often a fill is reported, and whatever is refused or marked in
   between, its id enters the trade ledger at most once (accounting.py:
   apply_fill). *)
THEOREM FillsBookedOnce == Spec => []BookedOnce
<1>1. BooksInv => BookedOnce
  BY DEF BooksInv
<1>2. QED
  BY <1>1, BooksAreKept, PTL

(* Each entry of the cash ledger follows from the one before it, and the last
   one is the account's cash, with and without commissions (accounting.py:
   _record_cash_entries). *)
THEOREM CashIsExplained == Spec => []CashLedgerExplainsCash
<1>1. BooksInv => CashLedgerExplainsCash
  BY DEF BooksInv
<1>2. QED
  BY <1>1, BooksAreKept, PTL

(* The shares held of a symbol are the signed shares of the trade ledger, however
   long it is, though a closed position is forgotten and opened again
   (accounting.py: apply_fill). *)
THEOREM SharesAreExplained == Spec => []TradeLedgerExplainsPositions
<1>1. BooksInv => TradeLedgerExplainsPositions
  BY DEF BooksInv
<1>2. QED
  BY <1>1, BooksAreKept, PTL
-----------------------------------------------------------------------------
(* What the shares cost, and the cash, are the starting cash and the realized
   profit, less the commissions of the buys: no price of a mark enters. *)
CostsBalance ==
  portfolio.cash + SumFunction(Costs(portfolio)) =
    StartingCash + portfolio.realized_pnl - SumFunction(Commissions(portfolio.trade_ledger))

LEMMA CostsAfterFill ==
  ASSUME IsPortfolio(portfolio, Fills), NEW fill \in Fills,
         BooksFill(portfolio, fill, portfolio'), IsPortfolio(portfolio', Fills)
  PROVE  LET before == portfolio.positions[fill.symbol]
             after  == After(portfolio, fill)
         IN  /\ before \in Position /\ after \in Position
             /\ SumFunction(Costs(portfolio)) \in Int
             /\ SumFunction(Costs(portfolio')) =
                  SumFunction(Costs(portfolio)) - before.quantity * before.average_cost
                                                + after.quantity * after.average_cost
<1> DEFINE before == portfolio.positions[fill.symbol]
           after == After(portfolio, fill)
<1>1. /\ portfolio.positions \in [Symbols -> Position]
      /\ portfolio'.positions \in [Symbols -> Position]
      /\ portfolio'.positions = [portfolio.positions EXCEPT ![fill.symbol] = after]
      /\ fill.symbol \in Symbols
  BY FillsAreFills DEF IsPortfolio, BooksFill, IsFill
<1>2. /\ before \in Position /\ after \in Position /\ portfolio'.positions[fill.symbol] = after
      /\ \A s \in Symbols \ {fill.symbol} : portfolio'.positions[s] = portfolio.positions[s]
  BY <1>1 DEF BooksFill
<1>3. /\ Costs(portfolio) \in [Symbols -> Int] /\ Costs(portfolio') \in [Symbols -> Int]
      /\ SumFunction(Costs(portfolio)) \in Int
  BY <1>1, PositionSums
<1>4. /\ Costs(portfolio)[fill.symbol] = before.quantity * before.average_cost
      /\ Costs(portfolio')[fill.symbol] = after.quantity * after.average_cost
      /\ \A s \in Symbols \ {fill.symbol} : Costs(portfolio')[s] = Costs(portfolio)[s]
  BY <1>1, <1>2 DEF Costs
<1> HIDE DEF before, after
<1>5. SumFunction(Costs(portfolio')) =
        SumFunction(Costs(portfolio)) - Costs(portfolio)[fill.symbol] + Costs(portfolio')[fill.symbol]
  BY <1>1, <1>3, <1>4, SumChange, SymbolsAssumption
<1>6. QED
  BY <1>2, <1>3, <1>4, <1>5 DEF before, after

LEMMA CommissionsType ==
  ASSUME NEW ledger \in Seq([fill: Fills, realized_pnl_delta: Int, position_quantity_after: Nat])
  PROVE  SumFunction(Commissions(ledger)) \in Int
<1> DEFINE Entries == [fill: Fills, realized_pnl_delta: Int, position_quantity_after: Nat]
<1>1. ledger \in Seq(Entries) /\ \A e \in Entries : e.fill \in Fills
  OBVIOUS
<1> HIDE DEF Entries
<1>2. /\ Len(ledger) \in Nat /\ DOMAIN ledger = 1..Len(ledger)
      /\ \A i \in 1..Len(ledger) : ledger[i].fill \in Fills
  BY <1>1
<1>3. \A i \in 1..Len(ledger) : BuyCommission(ledger[i]) \in Int
  <2>1. \A fill \in Fills : fill.commission \in Int
    BY FillsAssumption
  <2>2. QED
    BY <1>2, <2>1 DEF BuyCommission
<1>4. Commissions(ledger) \in [1..Len(ledger) -> Int]
  BY <1>2, <1>3 DEF Commissions
<1>5. IsFiniteSet(1..Len(ledger))
  BY <1>2, FS_Interval
<1>6. QED
  BY <1>4, <1>5, SumType

LEMMA BuyBalances ==
  ASSUME IsPortfolio(portfolio, Fills), IsPortfolio(portfolio', Fills), CostsBalance, WholeCosts,
         NEW fill \in Fills, fill.side = "BUY", Len(portfolio.trade_ledger) < MaxFills,
         BooksFill(portfolio, fill, portfolio')
  PROVE  CostsBalance'
<1> DEFINE before == portfolio.positions[fill.symbol]
           after == After(portfolio, fill)
           old == SumFunction(Commissions(portfolio.trade_ledger))
           new == SumFunction(Commissions(portfolio'.trade_ledger))
           costs == SumFunction(Costs(portfolio))
           oldCost == before.quantity * before.average_cost
           newCost == after.quantity * after.average_cost
<1>0. /\ portfolio.cash \in Int /\ portfolio.realized_pnl \in Int
      /\ Notional(fill) \in Int /\ fill.commission \in Int
  <2>1. fill.quantity \in Int /\ fill.price \in Int /\ fill.commission \in Int
    BY FillsAreFills DEF IsFill
  <2>2. fill.quantity * fill.price \in Int
    BY <2>1
  <2>3. QED
    BY <2>1, <2>2 DEF Notional, IsPortfolio
<1>1. /\ before \in Position /\ after \in Position /\ costs \in Int
      /\ SumFunction(Costs(portfolio')) = costs - oldCost + newCost
  BY CostsAfterFill
<1>2. newCost = oldCost + Notional(fill)
  BY DEF WholeCosts, After
<1>3. old \in Int /\ new = old + fill.commission
  <2>1. fill.symbol \in Symbols
    BY FillsAreFills DEF IsFill
  <2>2. PICK entry : entry.fill = fill /\ old \in Int /\ new = old + BuyCommission(entry)
    BY <2>1, LedgerSums
  <2>3. QED
    BY <2>2 DEF BuyCommission
<1>4. /\ portfolio'.cash = portfolio.cash - Notional(fill) - fill.commission
      /\ portfolio'.realized_pnl = portfolio.realized_pnl
  <2>1. /\ portfolio'.cash = portfolio.cash + TradeAmount(fill) - fill.commission
        /\ portfolio'.realized_pnl =
             portfolio.realized_pnl + RealizedDelta(portfolio.positions[fill.symbol], fill)
    BY DEF BooksFill, CashWith, RealizedWith
  <2>2. /\ TradeAmount(fill) = -Notional(fill)
        /\ RealizedDelta(portfolio.positions[fill.symbol], fill) = 0
    BY DEF TradeAmount, RealizedDelta
  <2> DEFINE cash == portfolio.cash
             paid == Notional(fill)
             fee == fill.commission
  <2>3. cash \in Int /\ paid \in Int /\ fee \in Int
    BY <1>0
  <2> HIDE DEF cash, paid, fee
  <2>4. cash + (-paid) - fee = cash - paid - fee
    BY <2>3
  <2>5. portfolio.realized_pnl + 0 = portfolio.realized_pnl
    BY <1>0
  <2>6. portfolio'.cash = cash + (-paid) - fee /\ portfolio'.realized_pnl = portfolio.realized_pnl + 0
    BY <2>1, <2>2 DEF cash, paid, fee
  <2>7. QED
    BY <2>4, <2>5, <2>6 DEF cash, paid, fee
<1>5. oldCost \in Int
  <2>1. before.quantity \in Int /\ before.average_cost \in Int
    BY <1>1 DEF Position
  <2> HIDE DEF before
  <2>2. QED
    BY <2>1
<1>6. portfolio.cash + costs = StartingCash + portfolio.realized_pnl - old
  BY DEF CostsBalance
<1>7. SumFunction(Costs(portfolio')) = costs + Notional(fill)
  <2> HIDE DEF oldCost, newCost, costs, before, after
  <2>1. SumFunction(Costs(portfolio')) = costs - oldCost + (oldCost + Notional(fill))
    BY <1>1, <1>2
  <2>2. QED
    BY <1>0, <1>1, <1>5, <2>1
<1> HIDE DEF oldCost, newCost, costs, old, new, before, after
<1>8. costs \in Int /\ old \in Int
  BY <1>1, <1>3
<1>9. (portfolio.cash - Notional(fill) - fill.commission) + (costs + Notional(fill))
        = StartingCash + portfolio.realized_pnl - (old + fill.commission)
  <2> DEFINE cash == portfolio.cash
             realized == portfolio.realized_pnl
             paid == Notional(fill)
             fee == fill.commission
  <2>1. /\ cash \in Int /\ realized \in Int /\ paid \in Int /\ fee \in Int
        /\ cash + costs = StartingCash + realized - old /\ StartingCash \in Int
    BY <1>0, <1>6, CashAssumption
  <2> HIDE DEF cash, realized, paid, fee
  <2>2. (cash - paid - fee) + (costs + paid) = StartingCash + realized - (old + fee)
    BY <1>8, <2>1
  <2>3. QED
    BY <2>2 DEF cash, realized, paid, fee
<1>10. QED
  BY <1>3, <1>4, <1>7, <1>9 DEF CostsBalance, new

LEMMA SellBalances ==
  ASSUME IsPortfolio(portfolio, Fills), IsPortfolio(portfolio', Fills), CostsBalance,
         NEW fill \in Fills, fill.side = "SELL",
         BooksFill(portfolio, fill, portfolio')
  PROVE  CostsBalance'
<1> DEFINE before == portfolio.positions[fill.symbol]
           after == After(portfolio, fill)
           old == SumFunction(Commissions(portfolio.trade_ledger))
           new == SumFunction(Commissions(portfolio'.trade_ledger))
           costs == SumFunction(Costs(portfolio))
           oldCost == before.quantity * before.average_cost
           newCost == after.quantity * after.average_cost
           soldCost == fill.quantity * before.average_cost
           proceeds == fill.quantity * fill.price
<1>1. /\ before \in Position /\ after \in Position /\ costs \in Int
      /\ SumFunction(Costs(portfolio')) = costs - oldCost + newCost
  BY CostsAfterFill
<1>2. /\ fill.quantity \in Int /\ fill.price \in Int /\ fill.commission \in Int
      /\ before.quantity \in Int /\ before.average_cost \in Int
  BY <1>1, FillsAreFills DEF Position, IsFill
<1>3. newCost = oldCost - soldCost
  <2>1. /\ after.quantity = before.quantity - fill.quantity
        /\ after.average_cost = before.average_cost \/ after.quantity = 0
    BY QuantityAfter DEF BooksFill
  <2>2. after.average_cost \in Int
    BY <1>1 DEF Position
  <2> HIDE DEF before, after
  <2>3. CASE after.average_cost = before.average_cost
    <3>1. newCost = (before.quantity - fill.quantity) * before.average_cost
      BY <2>1, <2>3
    <3>2. QED
      BY <1>2, <3>1
  <2>4. CASE after.quantity = 0
    <3>1. before.quantity = fill.quantity
      BY <1>2, <2>1, <2>4
    <3>2. newCost = 0 /\ oldCost = soldCost
      BY <2>2, <2>4, <3>1
    <3>3. soldCost \in Int
      BY <1>2
    <3>4. QED
      BY <3>2, <3>3
  <2>5. QED
    BY <2>1, <2>3, <2>4
<1>4. old \in Int /\ new = old
  <2>1. fill.symbol \in Symbols
    BY FillsAreFills DEF IsFill
  <2>2. PICK entry : entry.fill = fill /\ old \in Int /\ new = old + BuyCommission(entry)
    BY <2>1, LedgerSums
  <2>3. BuyCommission(entry) = 0
    BY <2>2 DEF BuyCommission
  <2>4. QED
    BY <2>2, <2>3
<1>5. /\ portfolio'.cash = portfolio.cash + proceeds - fill.commission
      /\ portfolio'.realized_pnl = portfolio.realized_pnl + (proceeds - soldCost - fill.commission)
  <2>1. /\ portfolio'.cash = portfolio.cash + TradeAmount(fill) - fill.commission
        /\ portfolio'.realized_pnl = portfolio.realized_pnl + RealizedDelta(before, fill)
    BY DEF BooksFill, CashWith, RealizedWith
  <2>2. /\ TradeAmount(fill) = proceeds
        /\ RealizedDelta(before, fill) =
             (fill.price - before.average_cost) * fill.quantity - fill.commission
    BY DEF TradeAmount, RealizedDelta, Notional
  <2> HIDE DEF before
  <2>3. (fill.price - before.average_cost) * fill.quantity = proceeds - soldCost
    BY <1>2
  <2>4. QED
    BY <2>1, <2>2, <2>3
<1>6. /\ oldCost \in Int /\ soldCost \in Int /\ proceeds \in Int
      /\ portfolio.cash \in Int /\ portfolio.realized_pnl \in Int
  <2>1. portfolio.cash \in Int /\ portfolio.realized_pnl \in Int
    BY DEF IsPortfolio
  <2> HIDE DEF before
  <2>2. oldCost \in Int /\ soldCost \in Int /\ proceeds \in Int
    BY <1>2
  <2>3. QED
    BY <2>1, <2>2
<1>7. portfolio.cash + costs = StartingCash + portfolio.realized_pnl - old
  BY DEF CostsBalance
<1> HIDE DEF oldCost, newCost, soldCost, proceeds, costs, old, new, before, after
<1>8. costs \in Int /\ old \in Int /\ fill.commission \in Int
  BY <1>1, <1>2, <1>4
<1>9. SumFunction(Costs(portfolio')) = costs - soldCost
  <2>1. SumFunction(Costs(portfolio')) = costs - oldCost + (oldCost - soldCost)
    BY <1>1, <1>3
  <2>2. QED
    BY <1>6, <1>8, <2>1
<1>10. (portfolio.cash + proceeds - fill.commission) + (costs - soldCost)
         = StartingCash + (portfolio.realized_pnl + (proceeds - soldCost - fill.commission)) - old
  BY <1>6, <1>7, <1>8, CashAssumption
<1>11. QED
  BY <1>4, <1>5, <1>9, <1>10 DEF CostsBalance, new

LEMMA BalanceStep ==
  ASSUME BooksInv, CostsBalance, WholeCosts, [Next]_portfolio
  PROVE  CostsBalance'
<1>1. IsPortfolio(portfolio, Fills) /\ portfolio.processed_fill_ids \subseteq Nat
  BY DEF BooksInv
<1>2. IsPortfolio(portfolio', Fills)
  BY <1>1, PortfolioSteps
<1>3. CASE portfolio' = NewPortfolio(StartingCash)
  <2>1. /\ portfolio'.trade_ledger = <<>> /\ portfolio'.cash = StartingCash
        /\ portfolio'.realized_pnl = 0 /\ SumFunction(Costs(portfolio')) = 0
    BY <1>3, NewPortfolioFacts, NewPortfolioSnapshot
  <2>2. DOMAIN Commissions(<<>>) = {}
    BY DEF Commissions
  <2>3. SumFunction(Commissions(<<>>)) = 0
    BY <2>2, SumEmpty
  <2>4. QED
    BY <2>1, <2>3, CashAssumption DEF CostsBalance
<1>4. CASE KeepsBooks(portfolio, portfolio')
  <2>1. Costs(portfolio') = Costs(portfolio)
    BY <1>4 DEF KeepsBooks, Costs
  <2>2. QED
    BY <1>4, <2>1 DEF KeepsBooks, CostsBalance
<1>5. ASSUME NEW fill \in Fills, Len(portfolio.trade_ledger) < MaxFills,
             BooksFill(portfolio, fill, portfolio')
      PROVE  CostsBalance'
  <2>1. fill.side = "BUY" \/ fill.side = "SELL"
    BY FillsAreFills DEF IsFill, Side
  <2>2. QED
    BY <1>1, <1>2, <1>5, <2>1, BuyBalances, SellBalances
<1>6. QED
  BY <1>1, <1>3, <1>4, <1>5, PortfolioSteps

(* As long as no average cost is rounded, the account's equity is what it started
   with, and its realized and unrealized profit, less the commissions of the buys,
   for every history of fills, refusals, marks and restarts (accounting.py:
   apply_fill, _build_snapshot). *)
THEOREM ProfitIsExplained == Spec /\ []WholeCosts => []ProfitExplainsEquity
<1>1. Init => CostsBalance
  <2>1. SUFFICES ASSUME portfolio = NewPortfolio(StartingCash)
                 PROVE  CostsBalance
    BY DEF Init
  <2>2. /\ portfolio.trade_ledger = <<>> /\ portfolio.cash = StartingCash
        /\ portfolio.realized_pnl = 0 /\ SumFunction(Costs(portfolio)) = 0
    BY <2>1, NewPortfolioFacts, NewPortfolioSnapshot
  <2>3. DOMAIN Commissions(<<>>) = {}
    BY DEF Commissions
  <2>4. SumFunction(Commissions(<<>>)) = 0
    BY <2>3, SumEmpty
  <2>5. QED
    BY <2>2, <2>4, CashAssumption DEF CostsBalance
<1>2. BooksInv /\ WholeCosts /\ CostsBalance /\ [Next]_portfolio => CostsBalance'
  BY BalanceStep
<1>3. BooksInv /\ CostsBalance => ProfitExplainsEquity
  <2>1. SUFFICES ASSUME BooksInv, CostsBalance
                 PROVE  ProfitExplainsEquity
    OBVIOUS
  <2> DEFINE values == SumFunction(Values(portfolio))
             costs == SumFunction(Costs(portfolio))
             gains == SumFunction(Gains(portfolio))
  <2>2. IsPortfolio(portfolio, Fills) /\ portfolio.last_snapshot = BuildSnapshot(portfolio)
    BY <2>1 DEF BooksInv, SnapshotIsCurrent
  <2>3. /\ portfolio.last_snapshot.equity = portfolio.cash + values
        /\ portfolio.last_snapshot.unrealized_pnl = gains
        /\ portfolio.last_snapshot.realized_pnl = portfolio.realized_pnl
    BY <2>2, SnapshotType
  <2>4. portfolio.positions \in [Symbols -> Position] /\ portfolio.cash \in Int
        /\ portfolio.realized_pnl \in Int
    BY <2>2 DEF IsPortfolio
  <2>5. values = gains + costs /\ gains \in Int /\ costs \in Int
    BY <2>4, PositionSums
  <2>6. portfolio.cash + costs = StartingCash + portfolio.realized_pnl - BuyCommissions
    BY <2>1 DEF CostsBalance, BuyCommissions, Commissions
  <2> HIDE DEF values, costs, gains
  <2>7. BuyCommissions \in Int
    <3>1. portfolio.trade_ledger \in
            Seq([fill: Fills, realized_pnl_delta: Int, position_quantity_after: Nat])
      BY <2>2 DEF IsPortfolio
    <3>2. QED
      BY <3>1, CommissionsType DEF BuyCommissions, Commissions
  <2>8. portfolio.last_snapshot.equity =
          StartingCash + portfolio.last_snapshot.realized_pnl
            + portfolio.last_snapshot.unrealized_pnl - BuyCommissions
    BY <2>3, <2>4, <2>5, <2>6, <2>7, CashAssumption
  <2>9. QED
    BY <2>8 DEF ProfitExplainsEquity
<1>4. QED
  BY <1>1, <1>2, <1>3, BooksAreKept, PTL DEF Spec
=============================================================================
