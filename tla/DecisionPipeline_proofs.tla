------------------------ MODULE DecisionPipeline_proofs ------------------------
(***************************************************************************)
(* Theorems about DecisionPipeline, for any configurations and any strategies *)
(* an engine may be given: what the risk engine promises of the decisions it  *)
(* accepted, bars, quotes and exceptions in any order, what the two data     *)
(* portals show of the same feed, and that the strategies trade at the rows  *)
(* of the batch over the whole history.                                     *)
(*                                                                         *)
(* Three folds make up a bar: the orders that fill, the strategies that are   *)
(* asked, the requests that are judged.  Each has a lemma that it runs from   *)
(* left to right, and one that says what it keeps.  The last sections follow  *)
(* the rows of the features: over a prefix of the bars each indicator has     *)
(* the values it has over more of them.                                     *)
(***************************************************************************)
EXTENDS DecisionPipeline, Accounting_proofs

IdsOf(config) == {config.strategies[i].id : i \in DOMAIN config.strategies}

Keys(config) == (IdsOf(config) \cup {UnknownStrategy}) \X Symbols

Times(config) == [Keys(config) -> SUBSET Nat]

Events ==
  [symbol: Symbols, kind: {"bar", "quote"}, timestamp: Nat, close: Nat \ {0}, low: Nat \ {0},
   high: Nat \ {0}, volume: Nat, vwap: SUBSET Nat]

(* An intent that passed the sizer has a quantity or a notional. *)
IsSized(intent) ==
  \/ \E q \in Nat : intent.quantity = {q}
  \/ intent.quantity = {} /\ \E n \in Nat : intent.notional = {n}

Unsized(config) ==
  [strategy_id: IdsOf(config), symbol: Symbols, timestamp: Nat, side: Side,
   quantity: SUBSET Nat, notional: SUBSET Nat]

Intents(config) == {intent \in Unsized(config) : IsSized(intent)}

RequestsOf(config) == Requests(IdsOf(config), Symbols, Nat)

Decisions(config) ==
  [request: RequestsOf(config), approved: SUBSET Intents(config), price: Nat \ {0}]

Orders(config) == [id: Nat \ {0}, intent: Intents(config)]

Fills ==
  [id: Nat \ {0}, symbol: Symbols, side: Side, quantity: Nat \ {0}, price: Nat \ {0},
   commission: {0}, filled_at: Nat]

Portfolios ==
  [cash: Int, realized_pnl: Int, positions: [Symbols -> Position],
   trade_ledger: Seq([fill: Fills, realized_pnl_delta: Int, position_quantity_after: Nat]),
   cash_ledger: Seq(CashEntry), processed_fill_ids: SUBSET Nat, last_snapshot: AccountSnapshot]

Accounts(config) == [portfolio: Portfolios, last_trade_time: Times(config)]
-----------------------------------------------------------------------------
LEMMA GreatestOfOne ==
  ASSUME NEW x \in Int
  PROVE  Max({x}) = x
BY DEF Max

LEMMA GreatestBelow ==
  ASSUME NEW S, S \subseteq Nat, S # {}, NEW n \in Nat, \A x \in S : x <= n
  PROVE  Max(S) \in S /\ \A x \in S : x <= Max(S)
<1> DEFINE M == {n - x : x \in S}
<1>1. M \subseteq Nat /\ M # {}
  <2>1. \A x \in S : n - x \in Nat
    OBVIOUS
  <2>2. QED
    BY <2>1
<1>2. PICK m \in M : \A y \in M : ~(y < m)
  <2> HIDE DEF M
  <2>1. QED
    BY <1>1, LeastElement
<1>3. PICK x \in S : m = n - x
  BY <1>2
<1>4. \A y \in S : x >= y
  <2>1. SUFFICES ASSUME NEW y \in S
                 PROVE  x >= y
    OBVIOUS
  <2>2. n - y \in M /\ x \in Nat /\ y \in Nat
    OBVIOUS
  <2>3. ~(n - y < n - x)
    BY <1>2, <1>3, <2>2
  <2>4. QED
    BY <2>2, <2>3
<1>5. Max(S) \in S /\ \A y \in S : Max(S) >= y
  BY <1>4 DEF Max
<1>6. QED
  BY <1>5

LEMMA LeastIsMin ==
  ASSUME NEW S, S \subseteq Nat, S # {}
  PROVE  Min(S) \in S /\ \A x \in S : Min(S) <= x
<1>1. PICK m \in S : \A y \in S : ~(y < m)
  BY LeastElement
<1>2. \A y \in S : m <= y
  BY <1>1
<1>3. QED
  BY <1>2 DEF Min

LEMMA PortfolioType ==
  ASSUME NEW p \in Portfolios
  PROVE  IsPortfolio(p, Fills)
BY DEF Portfolios, IsPortfolio

LEMMA TypedPortfolio ==
  ASSUME NEW p, IsPortfolio(p, Fills), p.processed_fill_ids \in SUBSET Nat,
         p.last_snapshot \in AccountSnapshot
  PROVE  p \in Portfolios
BY DEF Portfolios, IsPortfolio

LEMMA FillType ==
  ASSUME NEW fill \in Fills
  PROVE  IsFill(fill)
BY DEF Fills, IsFill

LEMMA AppliedType ==
  ASSUME NEW p \in Portfolios, NEW fill \in Fills
  PROVE  ApplyFill(p, fill) \in Portfolios
<1> DEFINE q == ApplyFill(p, fill)
<1>1. IsPortfolio(p, Fills) /\ IsFill(fill)
  BY PortfolioType, FillType
<1>2. /\ IsPortfolio(q, Fills)
      /\ q.processed_fill_ids = p.processed_fill_ids \cup {fill.id}
      /\ IF fill.id \in p.processed_fill_ids \/ Oversells(p, fill)
         THEN LeavesBooks(p, q) ELSE BooksFill(p, fill, q)
  BY <1>1, ApplyFillFacts
<1> HIDE DEF q
<1>3. q.processed_fill_ids \in SUBSET Nat
  BY <1>2 DEF Portfolios, Fills
<1>4. q.last_snapshot = p.last_snapshot \/ q.last_snapshot = BuildSnapshot(q)
  BY <1>2 DEF LeavesBooks, BooksFill
<1>5. BuildSnapshot(q) \in AccountSnapshot
  BY <1>2, SnapshotType
<1>6. q.last_snapshot \in AccountSnapshot
  BY <1>4, <1>5 DEF Portfolios
<1>7. q \in Portfolios
  BY <1>2, <1>3, <1>6, TypedPortfolio
<1>8. QED
  BY <1>7 DEF q

LEMMA MarkedType ==
  ASSUME NEW p \in Portfolios, NEW symbol \in Symbols, NEW price \in Int
  PROVE  LET q == MarkToMarket(p, symbol, price)
         IN  /\ q \in Portfolios
             /\ q.trade_ledger = p.trade_ledger /\ q.processed_fill_ids = p.processed_fill_ids
             /\ \A s \in Symbols :
                  /\ q.positions[s].quantity = p.positions[s].quantity
                  /\ q.last_snapshot.quantity[s] = q.positions[s].quantity
<1> DEFINE q == MarkToMarket(p, symbol, price)
<1>1. IsPortfolio(p, Fills)
  BY PortfolioType
<1>2. /\ IsPortfolio(q, Fills) /\ SameBooks(p, q)
      /\ \A s \in Symbols : q.positions[s].quantity = p.positions[s].quantity
      /\ q.last_snapshot = BuildSnapshot(q)
  BY <1>1, MarkFacts
<1> HIDE DEF q
<1>3. BuildSnapshot(q) \in AccountSnapshot
  BY <1>2, SnapshotType
<1>4. q.trade_ledger = p.trade_ledger /\ q.processed_fill_ids = p.processed_fill_ids
  BY <1>2 DEF SameBooks
<1>5. q \in Portfolios
  <2>1. q.processed_fill_ids \in SUBSET Nat
    BY <1>4 DEF Portfolios
  <2>2. QED
    BY <1>2, <1>3, <2>1, TypedPortfolio
<1>6. \A s \in Symbols : q.last_snapshot.quantity[s] = q.positions[s].quantity
  BY <1>2 DEF BuildSnapshot
<1>7. QED
  BY <1>2, <1>4, <1>5, <1>6 DEF q
-----------------------------------------------------------------------------
(* What an order becomes at the bar that fills it. *)
FillOf(fill, order, event) ==
  /\ fill \in Fills
  /\ fill.id = order.id /\ fill.symbol = event.symbol /\ fill.side = order.intent.side
  /\ fill.filled_at = event.timestamp
  /\ order.intent.quantity # {} => order.intent.quantity = {fill.quantity}

Settles(a, q, fill) ==
  /\ ~Oversells(a.portfolio, fill)
  /\ q.portfolio = ApplyFill(a.portfolio, fill)
  /\ q.last_trade_time = update_after_fill(a.last_trade_time, fill)

LEMMA SettleFacts ==
  ASSUME NEW config \in Setups, NEW a \in Accounts(config), NEW order \in Orders(config),
         NEW event \in Events, NEW price \in Nat \ {0}
  PROVE  LET q == Settle(a, order, event, price)
         IN  /\ q \in Accounts(config)
             /\ q = a \/ \E fill \in Fills : FillOf(fill, order, event) /\ Settles(a, q, fill)
<1> DEFINE intent == order.intent
           quantity == IF intent.quantity # {} THEN Max(intent.quantity)
                       ELSE Max(intent.notional) \div price
           fill == [id |-> order.id, symbol |-> event.symbol, side |-> intent.side,
                    quantity |-> quantity, price |-> price, commission |-> 0,
                    filled_at |-> event.timestamp]
           refused == \/ quantity = 0
                      \/ fill.side = "BUY" /\ Notional(fill) > a.portfolio.cash
                      \/ Oversells(a.portfolio, fill)
           settled == [portfolio |-> ApplyFill(a.portfolio, fill),
                       last_trade_time |-> update_after_fill(a.last_trade_time, fill)]
           q == Settle(a, order, event, price)
<1>1. q = IF refused THEN a ELSE settled
  BY DEF Settle
<1>2. intent \in Unsized(config) /\ IsSized(intent) /\ order.id \in Nat \ {0}
  BY DEF Orders, Intents
<1>3. /\ quantity \in Nat
      /\ intent.quantity # {} => intent.quantity = {quantity}
  <2>1. CASE \E n \in Nat : intent.quantity = {n}
    <3>1. PICK n \in Nat : intent.quantity = {n}
      BY <2>1
    <3>2. Max({n}) = n
      BY GreatestOfOne
    <3>3. QED
      BY <3>1, <3>2
  <2>2. CASE intent.quantity = {} /\ \E n \in Nat : intent.notional = {n}
    <3>1. PICK n \in Nat : intent.notional = {n}
      BY <2>2
    <3>2. Max({n}) = n
      BY GreatestOfOne
    <3>3. quantity = n \div price
      BY <2>2, <3>1, <3>2
    <3>4. n \div price \in Nat
      OBVIOUS
    <3>5. QED
      BY <2>2, <3>3, <3>4
  <2>3. QED
    BY <1>2, <2>1, <2>2 DEF IsSized
<1>4. CASE refused
  BY <1>1, <1>4
<1>5. CASE ~refused
  <2>1. quantity \in Nat \ {0} /\ ~Oversells(a.portfolio, fill)
    BY <1>3, <1>5
  <2>2. intent.side \in Side /\ event.symbol \in Symbols /\ event.timestamp \in Nat
    BY <1>2 DEF Unsized, Events
  <2> HIDE DEF quantity, refused, settled, q, intent
  <2>3. fill \in Fills
    BY <1>2, <2>1, <2>2 DEF Fills
  <2>4. FillOf(fill, order, event)
    BY <1>3, <2>3 DEF FillOf, intent
  <2>5. q = settled
    BY <1>1, <1>5
  <2>6. a.portfolio \in Portfolios /\ a.last_trade_time \in Times(config)
    BY DEF Accounts
  <2> HIDE DEF fill
  <2>7. ApplyFill(a.portfolio, fill) \in Portfolios
    BY <2>3, <2>6, AppliedType
  <2>8. update_after_fill(a.last_trade_time, fill) \in Times(config)
    <3>1. fill.symbol \in Symbols /\ fill.filled_at \in Nat
      BY <2>3 DEF Fills
    <3>2. QED
      BY <2>6, <3>1 DEF update_after_fill, Times
  <2>9. settled \in Accounts(config)
    BY <2>7, <2>8 DEF settled, Accounts
  <2>10. Settles(a, settled, fill)
    BY <2>1 DEF settled, Settles
  <2>11. QED
    BY <2>3, <2>4, <2>5, <2>9, <2>10 DEF q
<1>6. QED
  BY <1>4, <1>5

(* The orders of the symbol settle one after the other. *)
SettlesAlong(h, account, orders, event, price) ==
  /\ h[0] = account
  /\ \A i \in 1..Len(orders) : h[i] = Settle(h[i - 1], orders[i], event, price)
  /\ h[Len(orders)] = SettleAll(account, orders, event, price)

LEMMA SettledRun ==
  ASSUME NEW config \in Setups, NEW base \in Accounts(config), NEW orders \in Seq(Orders(config)),
         NEW event \in Events, NEW price \in Nat \ {0}
  PROVE  \E h \in [0..Len(orders) -> Accounts(config)] :
            SettlesAlong(h, base, orders, event, price)
<1> DEFINE n == Len(orders)
           V == Accounts(config)
           F == [p \in (1..n) \X V |-> Settle(p[2], orders[p[1]], event, price)]
           Equation(g) == g = [T \in SUBSET DOMAIN orders |->
                                 IF T = {} THEN base
                                 ELSE LET x == Max(T) IN Settle(g[T \ {x}], orders[x], event, price)]
           g == CHOOSE g : Equation(g)
<1>1. SettleAll(base, orders, event, price) = g[DOMAIN orders]
  BY DEF SettleAll, FoldLeft, MapThenFoldSet
<1>2. n \in Nat /\ base \in V
  BY DEF n
<1>3. DOMAIN orders = 1..n
  BY DEF n
<1>4. \A i \in 1..n : \A d \in V : Settle(d, orders[i], event, price) \in V
  <2>1. SUFFICES ASSUME NEW i \in 1..n, NEW d \in V
                 PROVE  Settle(d, orders[i], event, price) \in V
    OBVIOUS
  <2>2. orders[i] \in Orders(config)
    OBVIOUS
  <2>3. QED
    BY <2>2, SettleFacts
<1> HIDE DEF n, V
<1>5. /\ F \in [(1..n) \X V -> V]
      /\ \A i \in 1..n : \A d \in V : F[<<i, d>>] = Settle(d, orders[i], event, price)
  BY <1>4
<1> HIDE DEF F
<1>6. \A T \in SUBSET (1..n) : T # {} => Max(T) \in 1..n
  <2>1. SUFFICES ASSUME NEW T \in SUBSET (1..n), T # {}
                 PROVE  Max(T) \in 1..n
    OBVIOUS
  <2>2. T \in (SUBSET (1..n)) \ {{}}
    BY <2>1
  <2>3. Max(T) \in T
    BY <1>2, <2>2, GreatestElement
  <2>4. QED
    BY <2>3
<1>7. \E x : Equation(x)
  <2>1. PICK x : x \in [SUBSET (1..n) -> V] /\ FoldsLeft(x, n, V, base, F)
    BY <1>2, <1>5, LeftFoldExists
  <2>2. \A T \in SUBSET (1..n) :
          T # {} => x[T] = Settle(x[T \ {Max(T)}], orders[Max(T)], event, price)
    <3>1. SUFFICES ASSUME NEW T \in SUBSET (1..n), T # {}
                   PROVE  x[T] = Settle(x[T \ {Max(T)}], orders[Max(T)], event, price)
      OBVIOUS
    <3>2. Max(T) \in 1..n /\ x[T \ {Max(T)}] \in V
      BY <1>6, <2>1, <3>1
    <3>3. QED
      BY <1>5, <2>1, <3>1, <3>2 DEF FoldsLeft
  <2>3. x = [T \in SUBSET (1..n) |->
               IF T = {} THEN base ELSE Settle(x[T \ {Max(T)}], orders[Max(T)], event, price)]
    BY <2>1, <2>2 DEF FoldsLeft
  <2>4. QED
    BY <1>3, <2>3
<1>8. Equation(g)
  BY <1>7
<1> HIDE DEF g
<1>9. FoldsLeft(g, n, V, base, F)
  <2>1. g[{}] = base
    BY <1>8
  <2>2. ASSUME NEW T \in SUBSET (1..n), T # {}, g[T \ {Max(T)}] \in V
        PROVE  g[T] = F[<<Max(T), g[T \ {Max(T)}]>>]
    <3>1. g[T] = Settle(g[T \ {Max(T)}], orders[Max(T)], event, price)
      BY <1>3, <1>8, <2>2
    <3>2. Max(T) \in 1..n
      BY <1>6, <2>2
    <3>3. QED
      BY <1>5, <2>2, <3>1, <3>2
  <2>3. QED
    BY <2>1, <2>2 DEF FoldsLeft
<1>10. PICK h : RunsTo(h, n, V, base, F, g)
  <2>1. F \in [(1..n) \X V -> V]
    BY <1>5
  <2>2. QED
    BY <1>2, <1>9, <2>1, LeftRun
<1>11. /\ h \in [0..n -> V] /\ h[0] = base
       /\ \A i \in 1..n : h[i] = F[<<i, h[i - 1]>>]
  BY <1>10 DEF Runs, RunsTo
<1>12. \A i \in 1..n : h[i] = Settle(h[i - 1], orders[i], event, price)
  <2>1. SUFFICES ASSUME NEW i \in 1..n
                 PROVE  h[i] = Settle(h[i - 1], orders[i], event, price)
    OBVIOUS
  <2>2. h[i - 1] \in V
    BY <1>2, <1>11
  <2>3. QED
    BY <1>5, <1>11, <2>2
<1>13. h \in [0..n -> Accounts(config)]
  BY <1>11 DEF V
<1>14. h[n] = SettleAll(base, orders, event, price)
  BY <1>1, <1>3, <1>10 DEF RunsTo
<1>15. QED
  BY <1>11, <1>12, <1>13, <1>14 DEF n, SettlesAlong
-----------------------------------------------------------------------------
(* What becomes of a request keeps its strategy, its symbol and its time. *)
SameRequest(intent, request) ==
  /\ intent.strategy_id = request.strategy_id
  /\ intent.symbol = request.symbol
  /\ intent.timestamp = request.timestamp

LEMMA TradeIntentFacts ==
  ASSUME NEW config \in Setups, NEW request \in RequestsOf(config),
         NEW snapshot \in AccountSnapshot
  PROVE  LET intent == trade_intent(request, snapshot)
         IN  /\ intent \in Unsized(config) /\ SameRequest(intent, request)
             /\ \/ request.kind = "signal" /\ intent.quantity = {} /\ intent.notional = {}
                \/ \E q \in Nat : intent.quantity = {q} /\ intent.notional = {}
                \/ \E n \in Nat : intent.quantity = {} /\ intent.notional = {n}
<1> DEFINE made(side, quantity, notional) == Intent(request, side, quantity, notional)
<1>1. /\ request.strategy_id \in IdsOf(config) /\ request.symbol \in Symbols
      /\ request.timestamp \in Nat
  BY DEF RequestsOf, Requests
<1>2. ASSUME NEW side \in Side, NEW quantity \in SUBSET Nat, NEW notional \in SUBSET Nat
      PROVE  /\ made(side, quantity, notional) \in Unsized(config)
             /\ SameRequest(made(side, quantity, notional), request)
             /\ made(side, quantity, notional).quantity = quantity
             /\ made(side, quantity, notional).notional = notional
  BY <1>1, <1>2 DEF Intent, Unsized, SameRequest
<1>3. "BUY" \in Side /\ "SELL" \in Side
  BY DEF Side
<1> HIDE DEF made
<1>4. \A x \in Int : Absolute(x) \in Nat
  BY DEF Absolute
<1>5. CASE request.kind = "signal"
  <2> DEFINE side == IF request.direction \in {"BUY", "COVER"} THEN "BUY" ELSE "SELL"
  <2>1. trade_intent(request, snapshot) = made(side, {}, {})
    BY <1>5 DEF trade_intent, made
  <2>2. side \in Side
    BY <1>3
  <2> HIDE DEF side
  <2>3. QED
    BY <1>2, <1>5, <2>1, <2>2
<1>6. CASE request.kind = "target_quantity"
  <2> DEFINE delta == request.target - snapshot.quantity[request.symbol]
             side == IF delta > 0 THEN "BUY" ELSE "SELL"
  <2>1. trade_intent(request, snapshot) = made(side, {Absolute(delta)}, {})
    BY <1>6 DEF trade_intent, made
  <2>2. side \in Side
    BY <1>3
  <2>3. delta \in Int
    <3>1. request.target \in Int
      BY <1>6 DEF RequestsOf, Requests
    <3>2. snapshot.quantity[request.symbol] \in Nat
      BY <1>1 DEF AccountSnapshot
    <3>3. QED
      BY <3>1, <3>2
  <2> HIDE DEF side, delta
  <2>4. Absolute(delta) \in Nat
    BY <1>4, <2>3
  <2>5. QED
    BY <1>2, <2>1, <2>2, <2>4
<1>7. CASE request.kind = "target_notional"
  <2>1. trade_intent(request, snapshot) = made("BUY", {}, {request.target})
    BY <1>7 DEF trade_intent, made
  <2>2. request.target \in Nat
    BY <1>7 DEF RequestsOf, Requests
  <2>3. QED
    BY <1>2, <1>3, <2>1, <2>2
<1>8. CASE request.kind = "target_weight"
  <2> DEFINE side == IF request.target >= 0 THEN "BUY" ELSE "SELL"
             worth == Absolute(snapshot.equity * request.target)
  <2>1. trade_intent(request, snapshot) = made(side, {}, {worth \div 100})
    BY <1>8 DEF trade_intent, made
  <2>2. side \in Side
    BY <1>3
  <2>3. worth \in Nat
    <3>1. request.target \in Int /\ snapshot.equity \in Int
      BY <1>8 DEF RequestsOf, Requests, AccountSnapshot
    <3>2. snapshot.equity * request.target \in Int
      BY <3>1
    <3>3. QED
      BY <1>4, <3>2
  <2> HIDE DEF side, worth
  <2>4. worth \div 100 \in Nat
    BY <2>3
  <2>5. QED
    BY <1>2, <2>1, <2>2, <2>4
<1>9. request.kind \in {"signal", "target_quantity", "target_notional", "target_weight"}
  BY DEF RequestsOf, Requests
<1>10. QED
  BY <1>5, <1>6, <1>7, <1>8, <1>9

LEMMA PolicyFacts ==
  ASSUME NEW config \in Setups
  PROVE  IsPolicy(config.policy)
BY PipelineAssumption DEF SetupsAssumption

LEMMA SizedFacts ==
  ASSUME NEW config \in Setups, NEW request \in RequestsOf(config),
         NEW snapshot \in AccountSnapshot, ~Raises(request, snapshot, config.policy)
  PROVE  LET intent == sized(trade_intent(request, snapshot), snapshot, config.policy)
         IN  /\ intent \in Intents(config) /\ SameRequest(intent, request)
             /\ intent.quantity # {} \/ intent.notional # {}
             /\ intent.quantity = {} \/ intent.notional = {}
<1> DEFINE raw == trade_intent(request, snapshot)
           policy == config.policy
           intent == sized(raw, snapshot, policy)
<1>1. /\ raw \in Unsized(config) /\ SameRequest(raw, request)
      /\ \/ request.kind = "signal" /\ raw.quantity = {} /\ raw.notional = {}
         \/ \E q \in Nat : raw.quantity = {q} /\ raw.notional = {}
         \/ \E n \in Nat : raw.quantity = {} /\ raw.notional = {n}
  BY TradeIntentFacts
<1>2. /\ policy.sizing_amount \in Nat
      /\ policy.sizing_method \in {"fixed_quantity", "fixed_notional", "percent_equity"}
  BY PolicyFacts DEF IsPolicy
<1> HIDE DEF raw, policy
<1>3. CASE raw.quantity # {} \/ raw.notional # {}
  <2>1. intent = raw
    BY <1>3 DEF sized
  <2>2. IsSized(raw)
    BY <1>1, <1>3 DEF IsSized
  <2>3. QED
    BY <1>1, <1>3, <2>1, <2>2 DEF Intents, raw, policy
<1>4. CASE raw.quantity = {} /\ raw.notional = {}
  <2>1. request.kind = "signal"
    BY <1>1, <1>4
  <2>2. CASE policy.sizing_method = "fixed_quantity"
    <3>1. intent = [raw EXCEPT !.quantity = {policy.sizing_amount}]
      BY <1>4, <2>2 DEF sized
    <3> HIDE DEF intent
    <3>2. /\ intent \in Unsized(config) /\ SameRequest(intent, request)
          /\ intent.quantity = {policy.sizing_amount} /\ intent.notional = {}
      BY <1>1, <1>2, <1>4, <3>1 DEF Unsized, SameRequest
    <3>3. QED
      BY <1>2, <3>2 DEF Intents, IsSized, intent, raw, policy
  <2>3. CASE policy.sizing_method = "fixed_notional"
    <3>1. intent = [raw EXCEPT !.notional = {policy.sizing_amount}]
      BY <1>4, <2>3 DEF sized
    <3> HIDE DEF intent
    <3>2. /\ intent \in Unsized(config) /\ SameRequest(intent, request)
          /\ intent.quantity = {} /\ intent.notional = {policy.sizing_amount}
      BY <1>1, <1>2, <1>4, <3>1 DEF Unsized, SameRequest
    <3>3. QED
      BY <1>2, <3>2 DEF Intents, IsSized, intent, raw, policy
  <2>4. CASE policy.sizing_method = "percent_equity"
    <3> DEFINE share == snapshot.equity * policy.sizing_amount
    <3>1. intent = [raw EXCEPT !.notional = {share \div 100}]
      BY <1>4, <2>4 DEF sized
    <3>2. share \in Nat
      <4>1. snapshot.equity \in Int
        BY DEF AccountSnapshot
      <4>2. share \in Int
        BY <1>2, <4>1
      <4>3. ~(share <= 0)
        BY <2>1, <2>4 DEF Raises, policy
      <4> HIDE DEF share
      <4>4. QED
        BY <4>2, <4>3
    <3> HIDE DEF intent, share
    <3>3. share \div 100 \in Nat
      BY <3>2
    <3>4. /\ intent \in Unsized(config) /\ SameRequest(intent, request)
          /\ intent.quantity = {} /\ intent.notional = {share \div 100}
      BY <1>1, <1>4, <3>1, <3>3 DEF Unsized, SameRequest
    <3>5. QED
      BY <3>3, <3>4 DEF Intents, IsSized, intent, raw, policy
  <2>5. QED
    BY <1>2, <2>2, <2>3, <2>4
<1>5. QED
  BY <1>3, <1>4

(* The position a buy of some quantity leaves keeps the limits at a price. *)
Limited(intent, held, price, policy) ==
  \A q \in Nat :
    intent.side = "BUY" /\ intent.quantity = {q} /\ q # 0 =>
      \A limit \in policy.max_position_notional : (held + q) * price <= limit

LEMMA CutFacts ==
  ASSUME NEW config \in Setups, NEW intent \in Intents(config),
         intent.quantity # {} \/ intent.notional # {}, intent.quantity = {} \/ intent.notional = {},
         NEW snapshot \in AccountSnapshot, NEW price \in Nat \ {0},
         NEW cut \in max_position_notional(intent, snapshot, price, config.policy)
  PROVE  /\ cut \in Intents(config) /\ SameRequest(cut, intent)
         /\ Limited(cut, snapshot.quantity[intent.symbol], price, config.policy)
<1> DEFINE policy == config.policy
           held == snapshot.quantity[intent.symbol]
           amount == estimate_notional(intent, price)
           current == current_exposure(intent, snapshot, price)
           projected == projected_exposure(intent, snapshot, price)
           exceeded == {limit \in policy.max_position_notional : projected > limit}
<1>1. /\ policy.max_position_notional \subseteq Nat
      /\ \A x, y \in policy.max_position_notional : x = y
  BY PolicyFacts DEF IsPolicy, IsLimit
<1>2. intent \in Unsized(config) /\ IsSized(intent) /\ SameRequest(intent, intent)
  BY DEF Intents, SameRequest
<1>3. held \in Nat
  BY <1>2 DEF Unsized, AccountSnapshot
<1>4. held * price \in Nat /\ (held * price = 0 <=> held = 0)
  BY <1>3
<1>5. current = held * price
  BY <1>4 DEF current_exposure, Absolute
<1>6. \A q \in Nat : intent.quantity = {q} => /\ intent.notional = {}
                                              /\ amount = q * price /\ amount \in Nat
  <2>1. SUFFICES ASSUME NEW q \in Nat, intent.quantity = {q}
                 PROVE  intent.notional = {} /\ amount = q * price /\ amount \in Nat
    OBVIOUS
  <2>2. Max({q}) = q
    BY GreatestOfOne
  <2>3. intent.notional = {}
    BY <2>1
  <2>4. amount = q * price
    BY <2>1, <2>2, <2>3 DEF estimate_notional
  <2>5. q * price \in Nat
    OBVIOUS
  <2>6. QED
    BY <2>3, <2>4, <2>5
<1>7. intent.side = "BUY" /\ amount \in Nat => projected = held * price + amount
  BY <1>4 DEF projected_exposure, Absolute
<1>8. projected \in Int /\ current \in Int
  <2>1. amount \in Int
    <3>1. CASE intent.notional # {}
      <4>1. PICK n \in Nat : intent.notional = {n}
        BY <1>2, <3>1 DEF IsSized
      <4>2. QED
        BY <3>1, <4>1, GreatestOfOne DEF estimate_notional
    <3>2. CASE intent.notional = {}
      <4>1. PICK q \in Nat : intent.quantity = {q}
        BY <1>2, <3>2 DEF IsSized
      <4>2. QED
        BY <1>6, <4>1
    <3>3. QED
      BY <3>1, <3>2
  <2>2. QED
    BY <1>4, <1>5, <2>1 DEF projected_exposure, Absolute
<1>9. CASE exceeded = {} \/ projected <= current
  <2>1. cut = intent
    <3> HIDE DEF projected, current
    <3>1. ~(exceeded # {} /\ projected > current /\ current = 0)
      BY <1>8, <1>9
    <3>2. QED
      BY <1>9, <3>1 DEF max_position_notional, projected, current
  <2>2. SUFFICES ASSUME NEW q \in Nat, intent.side = "BUY", intent.quantity = {q}, q # 0,
                        NEW limit \in policy.max_position_notional
                 PROVE  (held + q) * price <= limit
    BY <1>2, <2>1 DEF Limited
  <2>3. projected = held * price + q * price /\ q * price \in Nat
    BY <1>6, <1>7, <2>2
  <2>4. q * price > 0
    BY <2>2
  <2>5. (held + q) * price = held * price + q * price
    BY <1>3
  <2>6. ~(projected <= current)
    BY <1>4, <1>5, <2>3, <2>4
  <2>7. ~(projected > limit)
    BY <1>9, <2>6
  <2>8. limit \in Nat /\ projected \in Nat
    BY <1>1, <1>4, <2>3
  <2> HIDE DEF projected
  <2>9. QED
    BY <2>3, <2>5, <2>7, <2>8
<1>10. CASE exceeded # {} /\ projected > current /\ current = 0
  <2>1. PICK limit \in Nat : exceeded = {limit} /\ limit \in policy.max_position_notional
    <3>1. PICK x \in exceeded : TRUE
      BY <1>10
    <3>2. exceeded = {x} /\ x \in Nat /\ x \in policy.max_position_notional
      BY <1>1, <3>1
    <3>3. QED
      BY <3>2
  <2>2. Max(exceeded) = limit /\ held = 0
    BY <1>4, <1>5, <1>10, <2>1, GreatestOfOne
  <2>3. cut = IF intent.notional # {} THEN [intent EXCEPT !.notional = exceeded]
              ELSE [intent EXCEPT !.quantity = {Max(exceeded) \div price}]
    <3>1. ~(exceeded = {} \/ projected <= current)
      <4> HIDE DEF projected, current
      <4>1. QED
        BY <1>8, <1>10
    <3>2. QED
      BY <1>10, <3>1 DEF max_position_notional
  <2> HIDE DEF exceeded, projected, current, amount
  <2>4. CASE intent.notional # {}
    <3>1. cut = [intent EXCEPT !.notional = {limit}] /\ intent.quantity = {}
      BY <2>1, <2>3, <2>4
    <3>2. /\ cut \in Unsized(config) /\ SameRequest(cut, intent)
          /\ cut.quantity = {} /\ cut.notional = {limit}
      BY <1>2, <3>1 DEF Unsized, SameRequest
    <3>3. QED
      BY <3>2 DEF Intents, IsSized, Limited
  <2>5. CASE intent.notional = {}
    <3> DEFINE q == limit \div price
    <3>1. cut = [intent EXCEPT !.quantity = {q}]
      BY <2>2, <2>3, <2>5
    <3>2. q \in Nat /\ q * price <= limit
      OBVIOUS
    <3> HIDE DEF q
    <3>3. /\ cut \in Unsized(config) /\ SameRequest(cut, intent) /\ cut.quantity = {q}
      BY <1>2, <3>1, <3>2 DEF Unsized, SameRequest
    <3>4. \A x \in policy.max_position_notional : x = limit
      BY <1>1, <2>1
    <3>5. Limited(cut, held, price, policy)
      <4>1. SUFFICES ASSUME NEW r \in Nat, cut.quantity = {r},
                            NEW x \in policy.max_position_notional
                     PROVE  (held + r) * price <= x
        BY DEF Limited
      <4> HIDE DEF held
      <4>2. r = q
        BY <3>3, <4>1
      <4>3. x = limit
        BY <3>4, <4>1
      <4>4. held + r = q
        BY <2>2, <3>2, <4>2
      <4>5. QED
        BY <3>2, <4>3, <4>4
    <3>6. QED
      BY <3>2, <3>3, <3>5 DEF Intents, IsSized
  <2>6. QED
    BY <2>4, <2>5
<1>11. CASE ~(exceeded = {} \/ projected <= current)
            /\ ~(exceeded # {} /\ projected > current /\ current = 0)
  <2>1. max_position_notional(intent, snapshot, price, policy) = {}
    BY <1>11 DEF max_position_notional
  <2>2. QED
    BY <2>1
<1>12. QED
  BY <1>9, <1>10, <1>11

(* What the risk engine accepts. *)
Follows(intent, request, timestamp, times, policy) ==
  /\ SameRequest(intent, request)
  /\ policy.session_rules_enabled => is_tradable(timestamp, policy.market_session)
  /\ policy.cooldown > 0 =>
       \A last \in times[<<request.strategy_id, request.symbol>>] :
         timestamp - last >= policy.cooldown

LEMMA EvaluateFacts ==
  ASSUME NEW config \in Setups, NEW request \in RequestsOf(config),
         NEW snapshot \in AccountSnapshot, ~Raises(request, snapshot, config.policy),
         NEW timestamp \in Nat, NEW price \in Nat \ {0}, NEW times \in Times(config),
         NEW intent \in evaluate(request, snapshot, timestamp, price, times, config.policy)
  PROVE  /\ intent \in Intents(config)
         /\ Follows(intent, request, timestamp, times, config.policy)
         /\ Limited(intent, snapshot.quantity[request.symbol], price, config.policy)
<1> DEFINE policy == config.policy
           whole == sized(trade_intent(request, snapshot), snapshot, policy)
<1>1. /\ intent \in max_position_notional(whole, snapshot, price, policy)
      /\ trading_session(timestamp, policy)
      /\ policy.cooldown > 0 => cooldown(whole, timestamp, times, policy)
  BY DEF evaluate
<1>2. /\ whole \in Intents(config) /\ SameRequest(whole, request)
      /\ whole.quantity # {} \/ whole.notional # {}
      /\ whole.quantity = {} \/ whole.notional = {}
  BY SizedFacts
<1> HIDE DEF whole
<1>3. /\ intent \in Intents(config) /\ SameRequest(intent, whole)
      /\ Limited(intent, snapshot.quantity[whole.symbol], price, policy)
  BY <1>1, <1>2, CutFacts
<1>4. /\ SameRequest(intent, request) /\ whole.symbol = request.symbol
      /\ whole.strategy_id = request.strategy_id
  BY <1>2, <1>3 DEF SameRequest
<1>5. policy.session_rules_enabled => is_tradable(timestamp, policy.market_session)
  BY <1>1 DEF trading_session
<1>6. policy.cooldown > 0 =>
        \A last \in times[<<request.strategy_id, request.symbol>>] :
          timestamp - last >= policy.cooldown
  BY <1>1, <1>4 DEF cooldown
<1>7. QED
  BY <1>3, <1>4, <1>5, <1>6 DEF Follows
-----------------------------------------------------------------------------
LEMMA Appended ==
  ASSUME NEW S, NEW s \in Seq(S), NEW x \in S
  PROVE  LET t == Append(s, x)
         IN  /\ t \in Seq(S) /\ Len(s) \in Nat /\ Len(t) = Len(s) + 1
             /\ DOMAIN s = 1..Len(s) /\ DOMAIN t = 1..(Len(s) + 1)
             /\ \A i \in DOMAIN s : i \in DOMAIN t /\ i # Len(s) + 1 /\ t[i] = s[i] /\ i \in Nat
             /\ \A i \in DOMAIN t : i \in DOMAIN s \/ i = Len(s) + 1
             /\ t[Len(s) + 1] = x
OBVIOUS

KeyOf(decision) == <<decision.request.strategy_id, decision.request.symbol>>

(* The cooldowns between the decisions of a list, and what the risk engine
   remembers of them. *)
Cool(made, times, policy) ==
  /\ \A i \in DOMAIN made :
       made[i].approved # {} =>
         \E last \in times[KeyOf(made[i])] : made[i].request.timestamp <= last
  /\ \A i, j \in DOMAIN made :
       made[i].approved # {} /\ made[j].approved # {} /\ i < j /\ KeyOf(made[i]) = KeyOf(made[j])
         => made[j].request.timestamp - made[i].request.timestamp >= policy.cooldown

Until(made, timestamp) == \A i \in DOMAIN made : made[i].request.timestamp <= timestamp

LEMMA DecisionType ==
  ASSUME NEW config \in Setups, NEW d \in Decisions(config)
  PROVE  /\ d.request.timestamp \in Nat /\ KeyOf(d) \in Keys(config)
         /\ d.request.symbol \in Symbols /\ d.request.strategy_id \in IdsOf(config)
<1>1. d.request \in RequestsOf(config)
  BY DEF Decisions
<1>2. /\ d.request.timestamp \in Nat /\ d.request.symbol \in Symbols
      /\ d.request.strategy_id \in IdsOf(config)
  BY <1>1 DEF RequestsOf, Requests
<1>3. QED
  BY <1>2 DEF KeyOf, Keys

LEMMA CoolRejected ==
  ASSUME NEW config \in Setups, NEW made \in Seq(Decisions(config)), NEW d \in Decisions(config),
         NEW times, NEW policy, Cool(made, times, policy), d.approved = {}
  PROVE  Cool(Append(made, d), times, policy)
<1> DEFINE all == Append(made, d)
           n == Len(made) + 1
<1>1. /\ \A i \in DOMAIN made : i \in DOMAIN all /\ all[i] = made[i]
      /\ \A i \in DOMAIN all : i \in DOMAIN made \/ i = n
      /\ all[n] = d
  BY Appended
<1> HIDE DEF all, n
<1>2. \A i \in DOMAIN all : all[i].approved # {} => i \in DOMAIN made /\ all[i] = made[i]
  BY <1>1
<1>3. Cool(all, times, policy)
  BY <1>2 DEF Cool
<1>4. QED
  BY <1>3 DEF all

LEMMA CoolAccepted ==
  ASSUME NEW config \in Setups, NEW made \in Seq(Decisions(config)), NEW d \in Decisions(config),
         NEW times \in Times(config), Cool(made, times, config.policy),
         Until(made, d.request.timestamp),
         config.policy.cooldown > 0 =>
           \A last \in times[KeyOf(d)] : d.request.timestamp - last >= config.policy.cooldown,
         NEW intent, SameRequest(intent, d.request)
  PROVE  Cool(Append(made, d), record_intent(times, intent), config.policy)
<1> DEFINE all == Append(made, d)
           n == Len(made) + 1
           later == record_intent(times, intent)
           key == KeyOf(d)
           policy == config.policy
<1>1. /\ \A i \in DOMAIN made : i \in DOMAIN all /\ all[i] = made[i] /\ i < n
      /\ \A i \in DOMAIN all : i \in DOMAIN made \/ i = n
      /\ all[n] = d
  BY Appended
<1>2. key \in Keys(config) /\ d.request.timestamp \in Nat
  BY DecisionType
<1>3. later = [times EXCEPT ![key] = {d.request.timestamp}]
  BY DEF record_intent, SameRequest, KeyOf
<1>4. /\ later[key] = {d.request.timestamp}
      /\ \A k \in Keys(config) : k # key => later[k] = times[k]
  BY <1>2, <1>3 DEF Times
<1>5. \A i \in DOMAIN made : /\ made[i].request.timestamp \in Nat
                             /\ KeyOf(made[i]) \in Keys(config)
  BY DecisionType
<1>6. policy.cooldown \in Nat
  BY PolicyFacts DEF IsPolicy
<1>7. \A k \in Keys(config) : times[k] \subseteq Nat
  BY DEF Times
<1>8. \A i \in DOMAIN made : n >= i /\ ~(n < i)
  BY Appended
<1> HIDE DEF all, n, later, key, policy
<1>9. ASSUME NEW i \in DOMAIN all, all[i].approved # {}
      PROVE  \E last \in later[KeyOf(all[i])] : all[i].request.timestamp <= last
  <2>1. CASE i = n
    <3>1. all[i] = d /\ KeyOf(all[i]) = key
      BY <1>1, <2>1 DEF key
    <3>2. d.request.timestamp \in later[key] /\ d.request.timestamp <= d.request.timestamp
      BY <1>2, <1>4
    <3>3. QED
      BY <3>1, <3>2
  <2>2. CASE i \in DOMAIN made /\ KeyOf(made[i]) = key
    <3>1. made[i].request.timestamp <= d.request.timestamp
      BY <2>2 DEF Until
    <3>2. QED
      BY <1>1, <1>4, <2>2, <3>1
  <2>3. CASE i \in DOMAIN made /\ KeyOf(made[i]) # key
    <3>1. \E last \in times[KeyOf(made[i])] : made[i].request.timestamp <= last
      BY <1>1, <1>9, <2>3 DEF Cool
    <3>2. QED
      BY <1>1, <1>4, <1>5, <2>3, <3>1
  <2>4. QED
    BY <1>1, <2>1, <2>2, <2>3
<1>10. ASSUME NEW i \in DOMAIN all, NEW j \in DOMAIN all, all[i].approved # {},
              all[j].approved # {}, i < j, KeyOf(all[i]) = KeyOf(all[j])
       PROVE  all[j].request.timestamp - all[i].request.timestamp >= policy.cooldown
  <2>1. CASE j \in DOMAIN made
    <3>1. i \in DOMAIN made
      BY <1>1, <1>8, <1>10, <2>1
    <3>2. QED
      BY <1>1, <1>10, <2>1, <3>1 DEF Cool, policy
  <2>2. CASE j = n
    <3>1. i \in DOMAIN made
      <4>1. n \in Nat
        BY DEF n
      <4>2. QED
        BY <1>1, <1>10, <2>2, <4>1
    <3>2. all[j] = d /\ all[i] = made[i] /\ KeyOf(made[i]) = key
      BY <1>1, <1>10, <2>2, <3>1 DEF key
    <3>3. PICK last \in times[key] : made[i].request.timestamp <= last
      BY <1>10, <3>1, <3>2 DEF Cool
    <3>4. last \in Nat /\ made[i].request.timestamp \in Nat
      BY <1>2, <1>5, <1>7, <3>1
    <3>5. made[i].request.timestamp <= d.request.timestamp
      BY <3>1 DEF Until
    <3>6. policy.cooldown > 0 => d.request.timestamp - last >= policy.cooldown
      BY DEF policy, key
    <3>7. QED
      BY <1>2, <1>6, <3>2, <3>3, <3>4, <3>5, <3>6
  <2>3. QED
    BY <1>1, <2>1, <2>2
<1>11. Cool(all, later, policy)
  BY <1>9, <1>10 DEF Cool
<1>12. QED
  BY <1>11 DEF all, later, policy

(* A fill starts a cooldown only later than the decisions. *)
LEMMA CoolAfterFill ==
  ASSUME NEW config \in Setups, NEW made \in Seq(Decisions(config)), NEW policy,
         NEW times \in Times(config), Cool(made, times, policy),
         NEW fill \in Fills, Until(made, fill.filled_at)
  PROVE  Cool(made, update_after_fill(times, fill), policy)
<1> DEFINE later == update_after_fill(times, fill)
           key == <<UnknownStrategy, fill.symbol>>
<1>1. later = [times EXCEPT ![key] = {fill.filled_at}]
  BY DEF update_after_fill
<1>2. key \in Keys(config)
  BY DEF Keys, Fills
<1>3. /\ later[key] = {fill.filled_at}
      /\ \A k \in Keys(config) : k # key => later[k] = times[k]
  BY <1>1, <1>2 DEF Times
<1>4. \A i \in DOMAIN made : KeyOf(made[i]) \in Keys(config)
  BY DecisionType
<1> HIDE DEF later, key
<1>5. ASSUME NEW i \in DOMAIN made, made[i].approved # {}
      PROVE  \E last \in later[KeyOf(made[i])] : made[i].request.timestamp <= last
  <2>1. CASE KeyOf(made[i]) = key
    BY <1>3, <2>1 DEF Until
  <2>2. CASE KeyOf(made[i]) # key
    BY <1>3, <1>4, <1>5, <2>2 DEF Cool
  <2>3. QED
    BY <2>1, <2>2
<1>6. QED
  BY <1>5 DEF Cool, later
-----------------------------------------------------------------------------
(* The state of the fold over the requests of an event. *)
Asked(config, values) ==
  [memory: [DOMAIN config.strategies -> [Symbols -> values]], decisions: Seq(Decisions(config)),
   orders: Seq(Orders(config)), raised: BOOLEAN, last_trade_time: Times(config)]

(* An order of an accepted decision that was judged at a price, against a holding. *)
Kept(order, made, price, held, policy) ==
  /\ order.id \in DOMAIN made
  /\ made[order.id].price = price
  /\ order.intent \in made[order.id].approved
  /\ Limited(order.intent, held, price, policy)

Extends(old, made) == Len(old) <= Len(made) /\ \A i \in DOMAIN old : i \in DOMAIN made /\ made[i] = old[i]

Tradable(made, policy) ==
  \A i \in DOMAIN made :
    made[i].approved # {} /\ policy.session_rules_enabled =>
      is_tradable(made[i].request.timestamp, policy.market_session)

(* What is new in a list of decisions is of one time. *)
Dated(old, made, timestamp) ==
  \A i \in DOMAIN made : i \in DOMAIN old \/ made[i].request.timestamp = timestamp

Sound(r, old, event, held, policy) ==
  /\ Extends(old, r.decisions)
  /\ Dated(old, r.decisions, event.timestamp)
  /\ Until(r.decisions, event.timestamp)
  /\ Cool(r.decisions, r.last_trade_time, policy)
  /\ Tradable(r.decisions, policy)
  /\ \A k \in DOMAIN r.orders : Kept(r.orders[k], r.decisions, event.close, held, policy)

LEMMA JudgeFacts ==
  ASSUME setup \in Setups, NEW values, NEW r \in Asked(setup, values),
         NEW event \in Events, NEW snapshot \in AccountSnapshot,
         NEW request \in Requests(IdsOf(setup), {event.symbol}, {event.timestamp})
  PROVE  /\ Judge(r, request, snapshot, event) \in Asked(setup, values)
         /\ \A old \in Seq(Decisions(setup)) :
              LET held == snapshot.quantity[event.symbol]
              IN  Sound(r, old, event, held, setup.policy) =>
                    Sound(Judge(r, request, snapshot, event), old, event, held, setup.policy)
<1> DEFINE policy == setup.policy
           held == snapshot.quantity[event.symbol]
           approved == evaluate(request, snapshot, event.timestamp, event.close,
                                r.last_trade_time, policy)
           intent == CHOOSE candidate \in approved : TRUE
           d == [request |-> request, approved |-> approved, price |-> event.close]
           order == [id |-> Len(r.decisions) + 1, intent |-> intent]
           q == Judge(r, request, snapshot, event)
<1>1. /\ r.decisions \in Seq(Decisions(setup)) /\ r.orders \in Seq(Orders(setup))
      /\ r.last_trade_time \in Times(setup) /\ r.raised \in BOOLEAN
      /\ Len(r.decisions) \in Nat
  BY DEF Asked
<1>2. /\ request \in RequestsOf(setup) /\ request.symbol = event.symbol
      /\ request.timestamp = event.timestamp /\ request.strategy_id \in IdsOf(setup)
  BY DEF Requests, RequestsOf, Events
<1>3. event.timestamp \in Nat /\ event.close \in Nat \ {0} /\ event.symbol \in Symbols
  BY DEF Events
<1>4. CASE r.raised
  BY <1>4 DEF Judge
<1>5. CASE ~r.raised /\ Raises(request, snapshot, policy)
  <2>1. q = [r EXCEPT !.raised = TRUE]
    BY <1>5 DEF Judge
  <2> HIDE DEF q
  <2>2. /\ q \in Asked(setup, values)
        /\ q.decisions = r.decisions /\ q.orders = r.orders
        /\ q.last_trade_time = r.last_trade_time
    BY <2>1 DEF Asked
  <2>3. QED
    BY <2>2 DEF Sound, q
<1>6. CASE ~r.raised /\ ~Raises(request, snapshot, policy)
  <2>1. \A candidate \in approved :
          /\ candidate \in Intents(setup)
          /\ Follows(candidate, request, event.timestamp, r.last_trade_time, policy)
          /\ Limited(candidate, held, event.close, policy)
    BY <1>1, <1>2, <1>3, <1>6, EvaluateFacts
  <2> HIDE DEF approved, policy, held
  <2>2. d \in Decisions(setup)
    BY <1>2, <1>3, <2>1 DEF Decisions
  <2> DEFINE made == Append(r.decisions, d)
  <2>3. /\ made \in Seq(Decisions(setup))
        /\ DOMAIN made = 1..(Len(r.decisions) + 1)
        /\ Len(made) = Len(r.decisions) + 1
        /\ \A i \in DOMAIN r.decisions : i \in DOMAIN made /\ made[i] = r.decisions[i]
        /\ \A i \in DOMAIN made : i \in DOMAIN r.decisions \/ i = Len(r.decisions) + 1
        /\ made[Len(r.decisions) + 1] = d
    BY <1>1, <2>2, Appended
  <2>4. d.request = request /\ d.approved = approved /\ d.price = event.close
        /\ KeyOf(d) = <<request.strategy_id, request.symbol>>
    BY DEF KeyOf
  <2> HIDE DEF d, made
  <2>5. ASSUME NEW old \in Seq(Decisions(setup)), Sound(r, old, event, held, policy)
        PROVE  /\ Extends(old, made)
               /\ Dated(old, made, event.timestamp)
               /\ Until(made, event.timestamp)
               /\ \A k \in DOMAIN r.orders : Kept(r.orders[k], made, event.close, held, policy)
               /\ (approved # {} /\ policy.session_rules_enabled =>
                     is_tradable(event.timestamp, policy.market_session))
                  => Tradable(made, policy)
    <3>1. Extends(old, r.decisions)
      BY <2>5 DEF Sound
    <3>2. Extends(old, made)
      <4>1. \A i \in DOMAIN old : i \in DOMAIN r.decisions /\ r.decisions[i] = old[i]
        BY <3>1 DEF Extends
      <4>2. \A i \in DOMAIN old : i \in DOMAIN made /\ made[i] = old[i]
        BY <2>3, <4>1
      <4>3. Len(old) <= Len(made)
        BY <1>1, <2>3, <3>1 DEF Extends
      <4>4. QED
        BY <4>2, <4>3 DEF Extends
    <3>3. Until(made, event.timestamp)
      BY <1>2, <1>3, <2>3, <2>4, <2>5 DEF Until, Sound
    <3>4. ASSUME NEW k \in DOMAIN r.orders
          PROVE  Kept(r.orders[k], made, event.close, held, policy)
      <4>1. Kept(r.orders[k], r.decisions, event.close, held, policy)
        BY <2>5 DEF Sound
      <4>2. QED
        BY <2>3, <4>1 DEF Kept
    <3>5. (approved # {} /\ policy.session_rules_enabled =>
             is_tradable(event.timestamp, policy.market_session)) => Tradable(made, policy)
      <4>1. Tradable(r.decisions, policy)
        BY <2>5 DEF Sound
      <4>2. QED
        BY <1>2, <2>3, <2>4, <4>1 DEF Tradable
    <3>6. Dated(old, made, event.timestamp)
      <4>1. Dated(old, r.decisions, event.timestamp)
        BY <2>5 DEF Sound
      <4>2. QED
        BY <1>2, <2>3, <2>4, <4>1 DEF Dated
    <3>7. QED
      BY <3>2, <3>3, <3>4, <3>5, <3>6
  <2>6. CASE approved = {}
    <3>1. q = [r EXCEPT !.decisions = made]
      BY <1>6, <2>6 DEF Judge, approved, policy, d, made
    <3> HIDE DEF q
    <3>2. /\ q \in Asked(setup, values)
          /\ q.decisions = made /\ q.orders = r.orders /\ q.last_trade_time = r.last_trade_time
      BY <2>3, <3>1 DEF Asked
    <3>3. ASSUME NEW old \in Seq(Decisions(setup)), Sound(r, old, event, held, policy)
          PROVE  Sound(q, old, event, held, policy)
      <4>1. Cool(made, r.last_trade_time, policy)
        <5>1. Cool(r.decisions, r.last_trade_time, policy)
          BY <3>3 DEF Sound
        <5>2. QED
          BY <1>1, <2>2, <2>4, <2>6, <5>1, CoolRejected DEF made
      <4>2. QED
        BY <2>5, <2>6, <3>2, <3>3, <4>1 DEF Sound
    <3>4. QED
      BY <3>2, <3>3 DEF q, policy, held
  <2>7. CASE approved # {}
    <3> DEFINE times == record_intent(r.last_trade_time, intent)
               orders == Append(r.orders, order)
    <3>1. q = [r EXCEPT !.decisions = made, !.orders = orders, !.last_trade_time = times]
      BY <1>6, <2>7 DEF Judge, approved, policy, d, made
    <3>2. intent \in approved
      BY <2>7
    <3> HIDE DEF q, intent
    <3>3. /\ intent \in Intents(setup)
          /\ Follows(intent, request, event.timestamp, r.last_trade_time, policy)
          /\ Limited(intent, held, event.close, policy)
      BY <2>1, <3>2
    <3>4. order \in Orders(setup)
      BY <1>1, <3>3 DEF Orders
    <3>5. /\ orders \in Seq(Orders(setup)) /\ orders[Len(r.orders) + 1] = order
          /\ \A k \in DOMAIN r.orders : orders[k] = r.orders[k]
          /\ \A k \in DOMAIN orders : k \in DOMAIN r.orders \/ k = Len(r.orders) + 1
      BY <1>1, <3>4, Appended
    <3>6. times \in Times(setup)
      <4>1. /\ intent.strategy_id \in IdsOf(setup) /\ intent.symbol \in Symbols
            /\ intent.timestamp \in Nat
        BY <3>3 DEF Intents, Unsized
      <4>2. QED
        BY <1>1, <4>1 DEF record_intent, Times, Keys
    <3>7. order.id = Len(r.decisions) + 1 /\ order.intent = intent
      OBVIOUS
    <3> HIDE DEF orders, order, times
    <3>8. /\ q \in Asked(setup, values)
          /\ q.decisions = made /\ q.orders = orders /\ q.last_trade_time = times
      BY <2>3, <3>1, <3>5, <3>6 DEF Asked
    <3>9. ASSUME NEW old \in Seq(Decisions(setup)), Sound(r, old, event, held, policy)
          PROVE  Sound(q, old, event, held, policy)
      <4>1. Cool(made, times, policy)
        <5>1. Cool(r.decisions, r.last_trade_time, policy) /\ Until(r.decisions, event.timestamp)
          BY <3>9 DEF Sound
        <5>2. /\ SameRequest(intent, d.request)
              /\ policy.cooldown > 0 =>
                   \A last \in r.last_trade_time[KeyOf(d)] :
                     d.request.timestamp - last >= policy.cooldown
              /\ d.request.timestamp = event.timestamp
          BY <1>2, <2>4, <3>3 DEF Follows
        <5>3. QED
          BY <1>1, <2>2, <5>1, <5>2, CoolAccepted DEF made, times, policy
      <4>2. Kept(order, made, event.close, held, policy)
        BY <1>1, <2>3, <2>4, <3>2, <3>3, <3>7 DEF Kept
      <4>3. \A k \in DOMAIN orders : Kept(orders[k], made, event.close, held, policy)
        BY <2>5, <3>5, <3>9, <4>2
      <4>4. Tradable(made, policy)
        BY <2>5, <3>3, <3>9 DEF Follows
      <4>5. QED
        BY <2>5, <3>8, <3>9, <4>1, <4>3, <4>4 DEF Sound
    <3>10. QED
      BY <3>8, <3>9 DEF q, policy, held
  <2>8. QED
    BY <2>6, <2>7
<1>7. QED
  BY <1>1, <1>4, <1>5, <1>6
-----------------------------------------------------------------------------
(* The requests of a strategy are judged one after the other. *)
LEMMA JudgeRun ==
  ASSUME setup \in Setups, NEW values, NEW base \in Asked(setup, values), NEW event \in Events,
         NEW snapshot \in AccountSnapshot,
         NEW requests \in Seq(Requests(IdsOf(setup), {event.symbol}, {event.timestamp}))
  PROVE  \E h : /\ h \in [0..Len(requests) -> Asked(setup, values)] /\ h[0] = base
                /\ \A i \in 1..Len(requests) : h[i] = Judge(h[i - 1], requests[i], snapshot, event)
                /\ h[Len(requests)] = JudgeAll(base, requests, snapshot, event)
<1> DEFINE n == Len(requests)
           V == Asked(setup, values)
           F == [p \in (1..n) \X V |-> Judge(p[2], requests[p[1]], snapshot, event)]
           Equation(g) == g = [T \in SUBSET DOMAIN requests |->
                                 IF T = {} THEN base
                                 ELSE LET x == Max(T)
                                      IN  Judge(g[T \ {x}], requests[x], snapshot, event)]
           g == CHOOSE g : Equation(g)
<1>1. JudgeAll(base, requests, snapshot, event) = g[DOMAIN requests]
  BY DEF JudgeAll, FoldLeft, MapThenFoldSet
<1>2. n \in Nat /\ base \in V
  BY DEF n
<1>3. DOMAIN requests = 1..n
  BY DEF n
<1>4. \A i \in 1..n : \A d \in V : Judge(d, requests[i], snapshot, event) \in V
  <2>1. SUFFICES ASSUME NEW i \in 1..n, NEW d \in V
                 PROVE  Judge(d, requests[i], snapshot, event) \in V
    OBVIOUS
  <2>2. requests[i] \in Requests(IdsOf(setup), {event.symbol}, {event.timestamp})
    OBVIOUS
  <2>3. QED
    BY <2>2, JudgeFacts
<1> HIDE DEF n, V
<1>5. /\ F \in [(1..n) \X V -> V]
      /\ \A i \in 1..n : \A d \in V : F[<<i, d>>] = Judge(d, requests[i], snapshot, event)
  BY <1>4
<1> HIDE DEF F
<1>6. \A T \in SUBSET (1..n) : T # {} => Max(T) \in 1..n
  <2>1. SUFFICES ASSUME NEW T \in SUBSET (1..n), T # {}
                 PROVE  Max(T) \in 1..n
    OBVIOUS
  <2>2. T \in (SUBSET (1..n)) \ {{}}
    BY <2>1
  <2>3. Max(T) \in T
    BY <1>2, <2>2, GreatestElement
  <2>4. QED
    BY <2>3
<1>7. \E x : Equation(x)
  <2>1. PICK x : x \in [SUBSET (1..n) -> V] /\ FoldsLeft(x, n, V, base, F)
    BY <1>2, <1>5, LeftFoldExists
  <2>2. \A T \in SUBSET (1..n) :
          T # {} => x[T] = Judge(x[T \ {Max(T)}], requests[Max(T)], snapshot, event)
    <3>1. SUFFICES ASSUME NEW T \in SUBSET (1..n), T # {}
                   PROVE  x[T] = Judge(x[T \ {Max(T)}], requests[Max(T)], snapshot, event)
      OBVIOUS
    <3>2. Max(T) \in 1..n /\ x[T \ {Max(T)}] \in V
      BY <1>6, <2>1, <3>1
    <3>3. QED
      BY <1>5, <2>1, <3>1, <3>2 DEF FoldsLeft
  <2>3. x = [T \in SUBSET (1..n) |->
               IF T = {} THEN base
               ELSE Judge(x[T \ {Max(T)}], requests[Max(T)], snapshot, event)]
    BY <2>1, <2>2 DEF FoldsLeft
  <2>4. QED
    BY <1>3, <2>3
<1>8. Equation(g)
  BY <1>7
<1> HIDE DEF g
<1>9. FoldsLeft(g, n, V, base, F)
  <2>1. g[{}] = base
    BY <1>8
  <2>2. ASSUME NEW T \in SUBSET (1..n), T # {}, g[T \ {Max(T)}] \in V
        PROVE  g[T] = F[<<Max(T), g[T \ {Max(T)}]>>]
    <3>1. g[T] = Judge(g[T \ {Max(T)}], requests[Max(T)], snapshot, event)
      BY <1>3, <1>8, <2>2
    <3>2. Max(T) \in 1..n
      BY <1>6, <2>2
    <3>3. QED
      BY <1>5, <2>2, <3>1, <3>2
  <2>3. QED
    BY <2>1, <2>2 DEF FoldsLeft
<1>10. PICK h : RunsTo(h, n, V, base, F, g)
  <2>1. F \in [(1..n) \X V -> V]
    BY <1>5
  <2>2. QED
    BY <1>2, <1>9, <2>1, LeftRun
<1>11. /\ h \in [0..n -> V] /\ h[0] = base
       /\ \A i \in 1..n : h[i] = F[<<i, h[i - 1]>>]
  BY <1>10 DEF Runs, RunsTo
<1>12. \A i \in 1..n : h[i] = Judge(h[i - 1], requests[i], snapshot, event)
  <2>1. SUFFICES ASSUME NEW i \in 1..n
                 PROVE  h[i] = Judge(h[i - 1], requests[i], snapshot, event)
    OBVIOUS
  <2>2. h[i - 1] \in V
    BY <1>2, <1>11
  <2>3. QED
    BY <1>5, <1>11, <2>2
<1>13. h \in [0..n -> Asked(setup, values)]
  BY <1>11 DEF V
<1>14. h[n] = JudgeAll(base, requests, snapshot, event)
  BY <1>1, <1>3, <1>10 DEF RunsTo
<1>15. QED
  BY <1>11, <1>12, <1>13, <1>14 DEF n

LEMMA JudgedFacts ==
  ASSUME setup \in Setups, NEW values, NEW base \in Asked(setup, values), NEW event \in Events,
         NEW snapshot \in AccountSnapshot,
         NEW requests \in Seq(Requests(IdsOf(setup), {event.symbol}, {event.timestamp}))
  PROVE  LET q == JudgeAll(base, requests, snapshot, event)
             held == snapshot.quantity[event.symbol]
         IN  /\ q \in Asked(setup, values)
             /\ \A old \in Seq(Decisions(setup)) :
                  Sound(base, old, event, held, setup.policy) =>
                    Sound(q, old, event, held, setup.policy)
<1> DEFINE n == Len(requests)
           held == snapshot.quantity[event.symbol]
<1>1. PICK h : /\ h \in [0..n -> Asked(setup, values)] /\ h[0] = base
               /\ \A i \in 1..n : h[i] = Judge(h[i - 1], requests[i], snapshot, event)
               /\ h[n] = JudgeAll(base, requests, snapshot, event)
  BY JudgeRun
<1>2. n \in Nat /\ \A i \in 1..n :
        requests[i] \in Requests(IdsOf(setup), {event.symbol}, {event.timestamp})
  OBVIOUS
<1> HIDE DEF n
<1>3. ASSUME NEW old \in Seq(Decisions(setup)), Sound(base, old, event, held, setup.policy)
      PROVE  Sound(h[n], old, event, held, setup.policy)
  <2> DEFINE T == {i \in 0..n : Sound(h[i], old, event, held, setup.policy)}
  <2>1. 0 \in T
    BY <1>1, <1>2, <1>3
  <2>2. ASSUME NEW i \in 1..n, i - 1 \in T
        PROVE  i \in T
    <3>1. h[i - 1] \in Asked(setup, values) /\ Sound(h[i - 1], old, event, held, setup.policy)
      BY <1>1, <1>2, <2>2
    <3>2. Sound(Judge(h[i - 1], requests[i], snapshot, event), old, event, held, setup.policy)
      BY <1>2, <3>1, JudgeFacts
    <3>3. QED
      BY <1>1, <1>2, <3>2
  <2>3. 0..n \subseteq T
    <3> HIDE DEF T
    <3>1. QED
      BY <1>2, <2>1, <2>2, RunInduction
  <2>4. QED
    BY <1>2, <2>3
<1>4. h[n] \in Asked(setup, values)
  BY <1>1, <1>2
<1>5. QED
  BY <1>1, <1>3, <1>4
-----------------------------------------------------------------------------
(* What the strategies make of a record is among some values. *)
Closed(values, config, record) ==
  \A i \in DOMAIN config.strategies :
    /\ relation(record, config.strategies[i]) \in values
    /\ feature_value(record, <<"rsi", config.strategies[i].window>>) \in values

IsShaped(event, config) == \E shape \in config.shapes : event.close = shape.close

LEMMA SignalsType ==
  ASSUME NEW strategy, NEW ids, strategy.id \in ids, NEW event, NEW rising, NEW falling
  PROVE  Signals(strategy, event, rising, falling)
           \in Seq(Requests(ids, {event.symbol}, {event.timestamp}))
<1> DEFINE R == Requests(ids, {event.symbol}, {event.timestamp})
<1>1. ASSUME NEW direction \in SignalDirection
      PROVE  Signal(strategy, event, direction) \in R
  BY DEF Signal, Requests
<1>2. "BUY" \in SignalDirection /\ "SELL" \in SignalDirection
  BY DEF SignalDirection
<1> HIDE DEF R
<1>3. CASE rising
  <2>1. Signals(strategy, event, rising, falling) = <<Signal(strategy, event, "BUY")>>
    BY <1>3 DEF Signals
  <2>2. QED
    BY <1>1, <1>2, <2>1 DEF R
<1>4. CASE ~rising /\ falling
  <2>1. Signals(strategy, event, rising, falling) = <<Signal(strategy, event, "SELL")>>
    BY <1>4 DEF Signals
  <2>2. QED
    BY <1>1, <1>2, <2>1 DEF R
<1>5. CASE ~rising /\ ~falling
  BY <1>5 DEF Signals
<1>6. QED
  BY <1>3, <1>4, <1>5

LEMMA OnDataFacts ==
  ASSUME setup \in Setups, NEW i \in DOMAIN setup.strategies, NEW event \in Events,
         IsShaped(event, setup), NEW record, NEW values, Closed(values, setup, record),
         NEW previous \in values, NEW ids, setup.strategies[i].id \in ids
  PROVE  LET answer == on_data(setup.strategies[i], event, record, previous)
         IN  /\ answer.memory \in values
             /\ answer.requests \in Seq(Requests(ids, {event.symbol}, {event.timestamp}))
<1> DEFINE strategy == setup.strategies[i]
           R == Requests(ids, {event.symbol}, {event.timestamp})
           answer == on_data(strategy, event, record, previous)
<1>1. strategy.id \in ids
  OBVIOUS
<1>2. /\ strategy.type \in StrategyTypes
      /\ strategy.type = "injected" =>
           \A shape \in setup.shapes : strategy.answers[shape.close] \in Seq(Answers)
  BY PipelineAssumption DEF SetupsAssumption
<1>3. /\ relation(record, strategy) \in values
      /\ feature_value(record, <<"rsi", strategy.window>>) \in values
  BY DEF Closed
<1>4. \A rising, falling : Signals(strategy, event, rising, falling) \in Seq(R)
  BY <1>1, SignalsType
<1>5. CASE strategy.type = "sma_crossover"
  BY <1>3, <1>4, <1>5 DEF on_data, sma_crossover, Remember
<1>6. CASE strategy.type = "rsi_mean_reversion"
  BY <1>3, <1>4, <1>6 DEF on_data, rsi_mean_reversion, Remember
<1>7. CASE strategy.type = "ml_directional"
  <2>1. \A direction \in SignalDirection : Signal(strategy, event, direction) \in R
    BY <1>1 DEF Signal, Requests
  <2>2. "BUY" \in SignalDirection /\ "SELL" \in SignalDirection /\ "HOLD" \in SignalDirection
    BY DEF SignalDirection
  <2>3. /\ answer.memory = previous
        /\ answer.requests = ml_directional(strategy, event, record)
    BY <1>7 DEF on_data, Remember
  <2> HIDE DEF R, strategy, answer
  <2>4. \/ ml_directional(strategy, event, record) = <<Signal(strategy, event, "BUY")>>
        \/ ml_directional(strategy, event, record) = <<Signal(strategy, event, "SELL")>>
        \/ ml_directional(strategy, event, record) = <<Signal(strategy, event, "HOLD")>>
        \/ ml_directional(strategy, event, record) = <<>>
    BY DEF ml_directional
  <2>5. \A x \in R : <<x>> \in Seq(R)
    OBVIOUS
  <2>6. ml_directional(strategy, event, record) \in Seq(R)
    <3>1. \A direction \in SignalDirection : <<Signal(strategy, event, direction)>> \in Seq(R)
      BY <2>1, <2>5
    <3>2. <<>> \in Seq(R)
      OBVIOUS
    <3>3. QED
      BY <2>2, <2>4, <3>1, <3>2, Zenon
  <2>7. answer.memory \in values /\ answer.requests \in Seq(R)
    BY <2>3, <2>6
  <2>8. QED
    BY <2>7 DEF R, strategy, answer
<1>8. CASE strategy.type = "injected"
  <2> DEFINE answers == strategy.answers[event.close]
             requests == [k \in DOMAIN answers |->
                            [answers[k] EXCEPT !.strategy_id = strategy.id,
                               !.symbol = event.symbol, !.timestamp = event.timestamp]]
  <2>1. answer = Remember(previous, requests)
    BY <1>8 DEF on_data
  <2>2. answers \in Seq(Answers)
    BY <1>2, <1>8 DEF IsShaped
  <2>3. ASSUME NEW a \in Answers
        PROVE  [a EXCEPT !.strategy_id = strategy.id, !.symbol = event.symbol,
                         !.timestamp = event.timestamp] \in R
    BY <1>1 DEF Answers, Requests
  <2> HIDE DEF R, answers
  <2>4. Len(answers) \in Nat /\ DOMAIN answers = 1..Len(answers)
        /\ \A k \in DOMAIN answers : answers[k] \in Answers
    BY <2>2
  <2>5. requests \in [1..Len(answers) -> R]
    BY <2>3, <2>4
  <2>6. requests \in Seq(R)
    <3> HIDE DEF requests
    <3>1. QED
      BY <2>4, <2>5
  <2>7. answer.memory \in values /\ answer.requests \in Seq(R)
    <3> HIDE DEF answer, requests
    <3>1. QED
      BY <2>1, <2>6 DEF Remember
  <2>8. QED
    BY <2>7 DEF R
<1>9. QED
  BY <1>2, <1>5, <1>6, <1>7, <1>8 DEF StrategyTypes

LEMMA ConsultFacts ==
  ASSUME setup \in Setups, NEW i \in DOMAIN setup.strategies, NEW record, NEW values,
         Closed(values, setup, record), NEW run \in Asked(setup, values), NEW event \in Events,
         IsShaped(event, setup), NEW snapshot \in AccountSnapshot
  PROVE  LET q == Consult(run, i, record, snapshot, event)
             held == snapshot.quantity[event.symbol]
         IN  /\ q \in Asked(setup, values)
             /\ \A old \in Seq(Decisions(setup)) :
                  Sound(run, old, event, held, setup.policy) =>
                    Sound(q, old, event, held, setup.policy)
<1> DEFINE strategy == setup.strategies[i]
           symbol == event.symbol
           held == snapshot.quantity[symbol]
           answer == on_data(strategy, event, record, run.memory[i][symbol])
           asked == [run EXCEPT !.memory[i][symbol] = answer.memory]
           q == Consult(run, i, record, snapshot, event)
<1>1. /\ run.memory \in [DOMAIN setup.strategies -> [Symbols -> values]]
      /\ symbol \in Symbols
  BY DEF Asked, Events
<1>2. run.memory[i] \in [Symbols -> values] /\ run.memory[i][symbol] \in values
  BY <1>1
<1>3. /\ answer.memory \in values
      /\ answer.requests \in Seq(Requests(IdsOf(setup), {event.symbol}, {event.timestamp}))
  <2>1. strategy.id \in IdsOf(setup)
    BY DEF IdsOf
  <2>2. QED
    BY <1>2, <2>1, OnDataFacts
<1>4. \/ q = run
      \/ q = [run EXCEPT !.raised = TRUE]
      \/ q = JudgeAll(asked, answer.requests, snapshot, event)
  BY DEF Consult
<1> HIDE DEF answer, q
<1>5. CASE q = run
  BY <1>5 DEF q
<1>6. CASE q = [run EXCEPT !.raised = TRUE]
  <2>1. /\ q \in Asked(setup, values)
        /\ q.decisions = run.decisions /\ q.orders = run.orders
        /\ q.last_trade_time = run.last_trade_time
    BY <1>6 DEF Asked
  <2>2. QED
    BY <2>1 DEF Sound, q
<1>7. CASE q = JudgeAll(asked, answer.requests, snapshot, event)
  <2> DEFINE memories == [run.memory EXCEPT ![i][symbol] = answer.memory]
  <2>1. memories \in [DOMAIN setup.strategies -> [Symbols -> values]]
    BY <1>1, <1>3
  <2>2. asked = [run EXCEPT !.memory = memories]
    BY DEF Asked
  <2> HIDE DEF asked, memories
  <2>3. /\ asked \in Asked(setup, values)
        /\ asked.decisions = run.decisions /\ asked.orders = run.orders
        /\ asked.last_trade_time = run.last_trade_time
    BY <2>1, <2>2 DEF Asked
  <2>4. \A old \in Seq(Decisions(setup)) :
          Sound(run, old, event, held, setup.policy)
            => Sound(asked, old, event, held, setup.policy)
    BY <2>3 DEF Sound
  <2>5. /\ q \in Asked(setup, values)
        /\ \A old \in Seq(Decisions(setup)) :
             Sound(asked, old, event, held, setup.policy) =>
               Sound(q, old, event, held, setup.policy)
    BY <1>3, <1>7, <2>3, JudgedFacts
  <2>6. QED
    BY <2>4, <2>5 DEF q
<1>8. QED
  BY <1>4, <1>5, <1>6, <1>7

(* The strategies are asked in their order. *)
LEMMA ConsultRun ==
  ASSUME setup \in Setups, NEW record, NEW values, Closed(values, setup, record),
         NEW base \in Asked(setup, values), NEW event \in Events, IsShaped(event, setup),
         NEW snapshot \in AccountSnapshot
  PROVE  \E n \in Nat : \E h :
           /\ DOMAIN setup.strategies = 1..n
           /\ h \in [0..n -> Asked(setup, values)] /\ h[0] = base
           /\ \A i \in 1..n : h[i] = Consult(h[i - 1], i, record, snapshot, event)
           /\ h[n] = ConsultAll(base, record, snapshot, event)
<1> DEFINE n == Len(setup.strategies)
           indices == [i \in DOMAIN setup.strategies |-> i]
           V == Asked(setup, values)
           F == [p \in (1..n) \X V |-> Consult(p[2], indices[p[1]], record, snapshot, event)]
           Equation(g) == g = [T \in SUBSET DOMAIN indices |->
                                 IF T = {} THEN base
                                 ELSE LET x == Max(T)
                                      IN  Consult(g[T \ {x}], indices[x], record, snapshot, event)]
           g == CHOOSE g : Equation(g)
<1>1. ConsultAll(base, record, snapshot, event) = g[DOMAIN indices]
  BY DEF ConsultAll, FoldLeft, MapThenFoldSet
<1>2. n \in Nat /\ DOMAIN setup.strategies = 1..n /\ base \in V
  <2>1. setup.strategies \in Seq(ToSet(setup.strategies))
    BY PipelineAssumption DEF SetupsAssumption
  <2>2. QED
    BY <2>1
<1>3. DOMAIN indices = 1..n /\ \A i \in 1..n : indices[i] = i
  BY <1>2
<1>4. \A i \in 1..n : \A d \in V : Consult(d, indices[i], record, snapshot, event) \in V
  <2>1. SUFFICES ASSUME NEW i \in 1..n, NEW d \in V
                 PROVE  Consult(d, i, record, snapshot, event) \in V
    BY <1>3
  <2>2. i \in DOMAIN setup.strategies
    BY <1>2
  <2>3. QED
    BY <2>2, ConsultFacts
<1> HIDE DEF n, V, indices
<1>5. /\ F \in [(1..n) \X V -> V]
      /\ \A i \in 1..n : \A d \in V : F[<<i, d>>] = Consult(d, indices[i], record, snapshot, event)
  BY <1>4
<1> HIDE DEF F
<1>6. \A T \in SUBSET (1..n) : T # {} => Max(T) \in 1..n
  <2>1. SUFFICES ASSUME NEW T \in SUBSET (1..n), T # {}
                 PROVE  Max(T) \in 1..n
    OBVIOUS
  <2>2. T \in (SUBSET (1..n)) \ {{}}
    BY <2>1
  <2>3. Max(T) \in T
    BY <1>2, <2>2, GreatestElement
  <2>4. QED
    BY <2>3
<1>7. \E x : Equation(x)
  <2>1. PICK x : x \in [SUBSET (1..n) -> V] /\ FoldsLeft(x, n, V, base, F)
    BY <1>2, <1>5, LeftFoldExists
  <2>2. \A T \in SUBSET (1..n) :
          T # {} => x[T] = Consult(x[T \ {Max(T)}], indices[Max(T)], record, snapshot, event)
    <3>1. SUFFICES ASSUME NEW T \in SUBSET (1..n), T # {}
                   PROVE  x[T] = Consult(x[T \ {Max(T)}], indices[Max(T)], record, snapshot, event)
      OBVIOUS
    <3>2. Max(T) \in 1..n /\ x[T \ {Max(T)}] \in V
      BY <1>6, <2>1, <3>1
    <3>3. QED
      BY <1>5, <2>1, <3>1, <3>2 DEF FoldsLeft
  <2>3. x = [T \in SUBSET (1..n) |->
               IF T = {} THEN base
               ELSE Consult(x[T \ {Max(T)}], indices[Max(T)], record, snapshot, event)]
    BY <2>1, <2>2 DEF FoldsLeft
  <2>4. QED
    BY ZenonT(40), <1>3, <2>3
<1>8. Equation(g)
  BY <1>7
<1> HIDE DEF g
<1>9. FoldsLeft(g, n, V, base, F)
  <2>1. g[{}] = base
    BY <1>8
  <2>2. ASSUME NEW T \in SUBSET (1..n), T # {}, g[T \ {Max(T)}] \in V
        PROVE  g[T] = F[<<Max(T), g[T \ {Max(T)}]>>]
    <3>1. g[T] = Consult(g[T \ {Max(T)}], indices[Max(T)], record, snapshot, event)
      BY <1>3, <1>8, <2>2
    <3>2. Max(T) \in 1..n
      BY <1>6, <2>2
    <3>3. QED
      BY <1>5, <2>2, <3>1, <3>2
  <2>3. QED
    BY <2>1, <2>2 DEF FoldsLeft
<1>10. PICK h : RunsTo(h, n, V, base, F, g)
  <2>1. F \in [(1..n) \X V -> V]
    BY <1>5
  <2>2. QED
    BY <1>2, <1>9, <2>1, LeftRun
<1>11. /\ h \in [0..n -> V] /\ h[0] = base
       /\ \A i \in 1..n : h[i] = F[<<i, h[i - 1]>>]
  BY <1>10 DEF Runs, RunsTo
<1>12. \A i \in 1..n : h[i] = Consult(h[i - 1], i, record, snapshot, event)
  <2>1. SUFFICES ASSUME NEW i \in 1..n
                 PROVE  h[i] = Consult(h[i - 1], i, record, snapshot, event)
    OBVIOUS
  <2>2. h[i - 1] \in V
    BY <1>2, <1>11
  <2>3. QED
    BY <1>3, <1>5, <1>11, <2>2
<1>13. h \in [0..n -> Asked(setup, values)]
  BY <1>11 DEF V
<1>14. h[n] = ConsultAll(base, record, snapshot, event)
  BY <1>1, <1>3, <1>10 DEF RunsTo
<1>15. QED
  BY <1>2, <1>11, <1>12, <1>13, <1>14

LEMMA ConsultedFacts ==
  ASSUME setup \in Setups, NEW record, NEW values, Closed(values, setup, record),
         NEW base \in Asked(setup, values), NEW event \in Events, IsShaped(event, setup),
         NEW snapshot \in AccountSnapshot
  PROVE  LET q == ConsultAll(base, record, snapshot, event)
             held == snapshot.quantity[event.symbol]
         IN  /\ q \in Asked(setup, values)
             /\ \A old \in Seq(Decisions(setup)) :
                  Sound(base, old, event, held, setup.policy) =>
                    Sound(q, old, event, held, setup.policy)
<1> DEFINE held == snapshot.quantity[event.symbol]
<1>1. PICK n, h :
        /\ n \in Nat
        /\ DOMAIN setup.strategies = 1..n
        /\ h \in [0..n -> Asked(setup, values)] /\ h[0] = base
        /\ \A i \in 1..n : h[i] = Consult(h[i - 1], i, record, snapshot, event)
        /\ h[n] = ConsultAll(base, record, snapshot, event)
  BY ConsultRun
<1>2. ASSUME NEW old \in Seq(Decisions(setup)), Sound(base, old, event, held, setup.policy)
      PROVE  Sound(h[n], old, event, held, setup.policy)
  <2> DEFINE T == {i \in 0..n : Sound(h[i], old, event, held, setup.policy)}
  <2>1. 0 \in T
    BY <1>1, <1>2
  <2>2. ASSUME NEW i \in 1..n, i - 1 \in T
        PROVE  i \in T
    <3>1. /\ h[i - 1] \in Asked(setup, values) /\ i \in DOMAIN setup.strategies
          /\ Sound(h[i - 1], old, event, held, setup.policy)
      BY <1>1, <2>2
    <3>2. Sound(Consult(h[i - 1], i, record, snapshot, event), old, event, held, setup.policy)
      BY <3>1, ConsultFacts
    <3>3. QED
      BY <1>1, <3>2
  <2>3. 0..n \subseteq T
    <3> HIDE DEF T
    <3>1. QED
      BY <1>1, <2>1, <2>2, RunInduction
  <2>4. QED
    BY <1>1, <2>3
<1>3. h[n] \in Asked(setup, values)
  BY <1>1
<1>4. QED
  BY <1>1, <1>2, <1>3
-----------------------------------------------------------------------------
Entries == [fill: Fills, realized_pnl_delta: Int, position_quantity_after: Nat]

(* The buys of a ledger after its first entries. *)
Buys(ledger, n) == {ledger[i].fill : i \in {j \in DOMAIN ledger : j > n /\ ledger[j].fill.side = "BUY"}}

HasUnsized(buys, made) ==
  \E fill \in buys : \E intent \in made[fill.id].approved : intent.quantity = {}

(* The fills of a ledger are finitely many. *)
LEMMA FinitelyMany ==
  ASSUME NEW ledger \in Seq(Entries), NEW S, S \subseteq {ledger[i].fill : i \in DOMAIN ledger}
  PROVE  IsFiniteSet(S)
<1> DEFINE n == Len(ledger)
           all == {ledger[i].fill : i \in DOMAIN ledger}
           f == [i \in 1..n |-> ledger[i].fill]
<1>1. n \in Nat /\ DOMAIN ledger = 1..n
  OBVIOUS
<1> HIDE DEF n
<1>2. f \in Surjection(1..n, all)
  BY <1>1 DEF Surjection
<1>3. IsFiniteSet(1..n)
  BY <1>1, FS_Interval
<1>4. IsFiniteSet(all)
  <2> HIDE DEF all, f
  <2>1. QED
    BY <1>2, <1>3, FS_Surjection
<1>5. QED
  BY <1>4, FS_Subset

LEMMA BuysAppended ==
  ASSUME NEW ledger \in Seq(Entries), NEW entry \in Entries, NEW n \in Nat, n <= Len(ledger)
  PROVE  Buys(Append(ledger, entry), n) =
           Buys(ledger, n) \cup (IF entry.fill.side = "BUY" THEN {entry.fill} ELSE {})
<1> DEFINE more == Append(ledger, entry)
           last == Len(ledger) + 1
<1>1. /\ Len(ledger) \in Nat
      /\ \A i \in DOMAIN ledger : i \in DOMAIN more /\ more[i] = ledger[i]
      /\ \A i \in DOMAIN more : i \in DOMAIN ledger \/ i = last
      /\ more[last] = entry /\ last \in DOMAIN more
  BY Appended
<1>2. last > n
  BY <1>1
<1> HIDE DEF more, last
<1>3. ASSUME NEW fill \in Buys(more, n)
      PROVE  fill \in Buys(ledger, n) \/ (entry.fill.side = "BUY" /\ fill = entry.fill)
  <2>1. PICK i \in DOMAIN more : i > n /\ more[i].fill.side = "BUY" /\ fill = more[i].fill
    BY DEF Buys
  <2>2. QED
    BY <1>1, <2>1 DEF Buys
<1>4. ASSUME NEW fill \in Buys(ledger, n)
      PROVE  fill \in Buys(more, n)
  <2>1. PICK i \in DOMAIN ledger : i > n /\ ledger[i].fill.side = "BUY" /\ fill = ledger[i].fill
    BY DEF Buys
  <2>2. QED
    BY <1>1, <2>1 DEF Buys
<1>5. entry.fill.side = "BUY" => entry.fill \in Buys(more, n)
  BY <1>1, <1>2 DEF Buys
<1>6. QED
  BY <1>3, <1>4, <1>5 DEF more

LEMMA OneMore ==
  ASSUME NEW pos \in Nat, NEW q \in Nat, NEW held \in Nat, NEW price \in Nat, NEW c \in Nat,
         NEW limit \in Nat, pos * price <= c * limit, (held + q) * price <= limit
  PROVE  (pos + q) * price <= (c + 1) * limit
<1>1. /\ pos * price \in Nat /\ q * price \in Nat /\ held * price \in Nat /\ c * limit \in Nat
  OBVIOUS
<1>2. /\ (pos + q) * price = pos * price + q * price
      /\ (held + q) * price = held * price + q * price
      /\ (c + 1) * limit = c * limit + limit
  OBVIOUS
<1> DEFINE a == pos * price
           b == q * price
           d == held * price
           e == c * limit
<1> HIDE DEF a, b, d, e
<1>3. QED
  BY <1>1, <1>2 DEF a, b, d, e

LEMMA Monotone ==
  ASSUME NEW x \in Nat, NEW y \in Nat, NEW z \in Nat, x <= y
  PROVE  x * z <= y * z /\ z * x <= z * y /\ x * z \in Nat /\ y * z \in Nat
<1>1. PICK d \in Nat : y = x + d
  <2>1. y - x \in Nat /\ y = x + (y - x)
    OBVIOUS
  <2>2. QED
    BY <2>1
<1>2. d * z \in Nat /\ x * z \in Nat
  OBVIOUS
<1>3. y * z = x * z + d * z /\ z * x = x * z /\ z * y = y * z
  BY <1>1
<1>4. QED
  BY <1>2, <1>3

(* What is kept while the orders judged together settle together: each is within
   the limits by itself, so the buys together are within as many limits. *)
WithinLimits(buys, made, pos, held, price, policy) ==
  \/ HasUnsized(buys, made)
  \/ buys = {} /\ pos <= held
  \/ /\ buys # {}
     /\ \A limit \in policy.max_position_notional : pos * price <= Cardinality(buys) * limit

Booked(a, base, made, event, price, policy) ==
  LET ledger == a.portfolio.trade_ledger
      first  == base.portfolio.trade_ledger
      symbol == event.symbol
  IN  /\ Extends(first, ledger)
      /\ \A i \in DOMAIN ledger :
           /\ ledger[i].fill.id \in a.portfolio.processed_fill_ids
           /\ i > Len(first) =>
                /\ ledger[i].fill.symbol = symbol /\ ledger[i].fill.filled_at = event.timestamp
                /\ ledger[i].fill.id \in DOMAIN made /\ made[ledger[i].fill.id].price = price
      /\ \A s \in Symbols : s # symbol => a.portfolio.positions[s] = base.portfolio.positions[s]
      /\ WithinLimits(Buys(ledger, Len(first)), made, a.portfolio.positions[symbol].quantity,
                      base.portfolio.positions[symbol].quantity, price, policy)
      /\ Cool(made, a.last_trade_time, policy)

LEMMA AfterFacts ==
  ASSUME NEW p \in Portfolios, NEW fill \in Fills, ~Oversells(p, fill), After(p, fill) \in Position
  PROVE  LET held == p.positions[fill.symbol].quantity
         IN  /\ fill.side = "BUY" => After(p, fill).quantity = held + fill.quantity
             /\ fill.side = "SELL" => After(p, fill).quantity <= held
<1> DEFINE position == p.positions[fill.symbol]
<1>1. /\ position \in Position /\ fill.side \in Side /\ fill.quantity \in Nat \ {0}
      /\ position.quantity \in Nat
  BY DEF Portfolios, Fills, Position
<1>2. CASE fill.side = "BUY"
  BY <1>1, <1>2 DEF After, Bought
<1>3. CASE fill.side = "SELL"
  <2>1. After(p, fill) = Sold(position, fill)
    BY <1>3 DEF After
  <2>2. CASE position.quantity = fill.quantity
    BY <1>1, <1>3, <2>1, <2>2 DEF Sold, NoPosition
  <2>3. CASE position.quantity # fill.quantity
    <3>1. After(p, fill).quantity = position.quantity - fill.quantity
      BY <1>1, <2>1, <2>3 DEF Sold, Position
    <3>2. QED
      BY <1>1, <1>3, <3>1
  <2>4. QED
    BY <2>2, <2>3
<1>4. QED
  BY <1>1, <1>2, <1>3 DEF Side

LEMMA WithinAfterBuy ==
  ASSUME NEW config \in Setups, NEW buys, IsFiniteSet(buys), NEW made, NEW pos \in Nat,
         NEW held \in Nat, NEW price \in Nat, NEW fill \in Fills, fill.side = "BUY",
         fill \notin buys, NEW order \in Orders(config),
         order.id = fill.id, order.intent.side = "BUY",
         order.intent.quantity # {} => order.intent.quantity = {fill.quantity},
         Kept(order, made, price, held, config.policy),
         WithinLimits(buys, made, pos, held, price, config.policy)
  PROVE  WithinLimits(buys \cup {fill}, made, pos + fill.quantity, held, price, config.policy)
<1> DEFINE policy == config.policy
           more == buys \cup {fill}
           q == fill.quantity
<1>1. q \in Nat \ {0}
  BY DEF Fills
<1>2. IsFiniteSet(more) /\ Cardinality(more) = Cardinality(buys) + 1 /\ Cardinality(buys) \in Nat
  BY FS_AddElement, FS_CardinalityType
<1>3. more # {}
  OBVIOUS
<1>4. policy.max_position_notional \subseteq Nat
  BY PolicyFacts DEF IsPolicy, IsLimit
<1>5. CASE HasUnsized(buys, made)
  BY <1>5 DEF HasUnsized, WithinLimits
<1>6. CASE order.intent.quantity = {}
  <2>1. order.intent \in made[fill.id].approved
    BY DEF Kept
  <2>2. HasUnsized(more, made)
    BY <1>6, <2>1 DEF HasUnsized
  <2>3. QED
    BY <2>2 DEF WithinLimits
<1>7. CASE ~HasUnsized(buys, made) /\ order.intent.quantity # {}
  <2>1. SUFFICES ASSUME NEW limit \in policy.max_position_notional
                 PROVE  (pos + q) * price <= Cardinality(more) * limit
    BY <1>3 DEF WithinLimits
  <2>2. limit \in Nat /\ (held + q) * price <= limit
    BY <1>1, <1>4, <1>7 DEF Kept, Limited
  <2>3. CASE buys = {} /\ pos <= held
    <3>1. Cardinality(buys) = 0
      BY <2>3, FS_EmptySet
    <3>2. Cardinality(more) * limit = limit
      BY <1>2, <2>2, <3>1
    <3>3. pos + q <= held + q /\ pos + q \in Nat /\ held + q \in Nat
      BY <1>1, <2>3
    <3>4. (pos + q) * price <= (held + q) * price /\ (pos + q) * price \in Nat
          /\ (held + q) * price \in Nat
      <4> DEFINE x == pos + q
                 y == held + q
      <4> HIDE DEF x, y
      <4>1. x * price <= y * price /\ x * price \in Nat /\ y * price \in Nat
        BY <3>3, Monotone DEF x, y
      <4>2. QED
        BY <4>1 DEF x, y
    <3>5. QED
      BY <2>2, <3>2, <3>4
  <2>4. CASE pos * price <= Cardinality(buys) * limit
    BY <1>1, <1>2, <2>2, <2>4, OneMore
  <2>5. QED
    BY <1>7, <2>3, <2>4 DEF WithinLimits
<1>8. QED
  BY <1>5, <1>6, <1>7

LEMMA WithinAfterSell ==
  ASSUME NEW config \in Setups, NEW buys, IsFiniteSet(buys), NEW made, NEW pos \in Nat,
         NEW less \in Nat, less <= pos, NEW held \in Nat, NEW price \in Nat,
         WithinLimits(buys, made, pos, held, price, config.policy)
  PROVE  WithinLimits(buys, made, less, held, price, config.policy)
<1>1. less * price <= pos * price /\ less * price \in Nat /\ pos * price \in Nat
  BY Monotone
<1>2. Cardinality(buys) \in Nat /\ config.policy.max_position_notional \subseteq Nat
  BY FS_CardinalityType, PolicyFacts DEF IsPolicy, IsLimit
<1>3. \A limit \in config.policy.max_position_notional :
        pos * price <= Cardinality(buys) * limit => less * price <= Cardinality(buys) * limit
  <2>1. SUFFICES ASSUME NEW limit \in config.policy.max_position_notional,
                        pos * price <= Cardinality(buys) * limit
                 PROVE  less * price <= Cardinality(buys) * limit
    OBVIOUS
  <2>2. Cardinality(buys) * limit \in Nat
    BY <1>2
  <2> DEFINE a == less * price
             b == pos * price
             c == Cardinality(buys) * limit
  <2>3. a <= b /\ a \in Nat /\ b \in Nat /\ c \in Nat /\ b <= c
    BY <1>1, <2>1, <2>2
  <2> HIDE DEF a, b, c
  <2>4. a <= c
    BY <2>3
  <2>5. QED
    BY <2>4 DEF a, c
<1>4. QED
  BY <1>3 DEF WithinLimits

LEMMA SettleBooks ==
  ASSUME NEW config \in Setups, NEW a \in Accounts(config), NEW base \in Accounts(config),
         NEW order \in Orders(config), NEW event \in Events, NEW fillPrice \in Nat \ {0},
         NEW made \in Seq(Decisions(config)), Until(made, event.timestamp), NEW price \in Nat,
         Kept(order, made, price, base.portfolio.positions[event.symbol].quantity, config.policy),
         Booked(a, base, made, event, price, config.policy)
  PROVE  Booked(Settle(a, order, event, fillPrice), base, made, event, price, config.policy)
<1> DEFINE q == Settle(a, order, event, fillPrice)
           policy == config.policy
           symbol == event.symbol
           held == base.portfolio.positions[symbol].quantity
           n == Len(base.portfolio.trade_ledger)
           ledger == a.portfolio.trade_ledger
<1>1. q \in Accounts(config)
  BY SettleFacts
<1>2. q = a \/ \E fill \in Fills : FillOf(fill, order, event) /\ Settles(a, q, fill)
  BY SettleFacts
<1> HIDE DEF q
<1>3. SUFFICES ASSUME NEW fill \in Fills, FillOf(fill, order, event), Settles(a, q, fill)
               PROVE  Booked(q, base, made, event, price, policy)
  BY <1>2 DEF q
<1>4. /\ a.portfolio \in Portfolios /\ q.portfolio \in Portfolios
      /\ base.portfolio \in Portfolios /\ symbol \in Symbols
      /\ a.last_trade_time \in Times(config)
  BY <1>1 DEF Accounts, Events
<1>5. /\ ledger \in Seq(Entries) /\ n \in Nat /\ held \in Nat
      /\ a.portfolio.positions \in [Symbols -> Position]
      /\ a.portfolio.positions[symbol].quantity \in Nat
  <2>1. /\ ledger \in Seq(Entries) /\ base.portfolio.trade_ledger \in Seq(Entries)
        /\ a.portfolio.positions \in [Symbols -> Position]
        /\ base.portfolio.positions \in [Symbols -> Position]
    BY <1>4 DEF Portfolios, Entries
  <2>2. \A position \in Position : position.quantity \in Nat
    BY DEF Position
  <2>3. n \in Nat
    BY <2>1
  <2> HIDE DEF n, ledger
  <2>4. QED
    BY <1>4, <2>1, <2>2, <2>3
<1>6. /\ q.portfolio.processed_fill_ids = a.portfolio.processed_fill_ids \cup {fill.id}
      /\ IF fill.id \in a.portfolio.processed_fill_ids \/ Oversells(a.portfolio, fill)
         THEN LeavesBooks(a.portfolio, q.portfolio) ELSE BooksFill(a.portfolio, fill, q.portfolio)
  <2>1. IsPortfolio(a.portfolio, Fills) /\ IsFill(fill)
    BY <1>4, PortfolioType, FillType
  <2>2. q.portfolio = ApplyFill(a.portfolio, fill)
    BY <1>3 DEF Settles
  <2>3. QED
    BY <2>1, <2>2, ApplyFillFacts
<1>7. /\ fill.id = order.id /\ fill.symbol = symbol /\ fill.side = order.intent.side
      /\ fill.filled_at = event.timestamp
      /\ order.intent.quantity # {} => order.intent.quantity = {fill.quantity}
  BY <1>3 DEF FillOf
<1>8. Cool(made, q.last_trade_time, policy)
  <2>1. q.last_trade_time = update_after_fill(a.last_trade_time, fill)
    BY <1>3 DEF Settles
  <2>2. Cool(made, a.last_trade_time, policy) /\ Until(made, fill.filled_at)
    BY <1>7 DEF Booked
  <2>3. QED
    BY <1>4, <2>1, <2>2, CoolAfterFill
<1>9. /\ Extends(base.portfolio.trade_ledger, ledger)
      /\ \A i \in DOMAIN ledger :
           /\ ledger[i].fill.id \in a.portfolio.processed_fill_ids
           /\ i > n =>
                /\ ledger[i].fill.symbol = symbol /\ ledger[i].fill.filled_at = event.timestamp
                /\ ledger[i].fill.id \in DOMAIN made /\ made[ledger[i].fill.id].price = price
      /\ \A s \in Symbols : s # symbol => a.portfolio.positions[s] = base.portfolio.positions[s]
      /\ WithinLimits(Buys(ledger, n), made, a.portfolio.positions[symbol].quantity, held,
                      price, policy)
  BY DEF Booked
<1>10. CASE LeavesBooks(a.portfolio, q.portfolio)
  <2>1. /\ q.portfolio.trade_ledger = ledger
        /\ q.portfolio.positions = a.portfolio.positions
    BY <1>10 DEF LeavesBooks
  <2> HIDE DEF n, held, ledger
  <2>2. QED
    BY <1>6, <1>8, <1>9, <2>1 DEF Booked, n, held
<1>11. CASE BooksFill(a.portfolio, fill, q.portfolio)
  <2>1. PICK entry \in [fill: {fill}, realized_pnl_delta: Int, position_quantity_after: Nat] :
          q.portfolio.trade_ledger = Append(ledger, entry)
    BY <1>11 DEF BooksFill
  <2>2. entry \in Entries /\ entry.fill = fill
    BY DEF Entries
  <2>3. /\ fill.id \notin a.portfolio.processed_fill_ids
        /\ After(a.portfolio, fill) \in Position /\ ~Oversells(a.portfolio, fill)
        /\ q.portfolio.positions = [a.portfolio.positions EXCEPT ![symbol] = After(a.portfolio, fill)]
    BY <1>7, <1>11 DEF BooksFill
  <2> DEFINE more == Append(ledger, entry)
             pos == a.portfolio.positions[symbol].quantity
             buys == Buys(ledger, n)
  <2>4. /\ Len(ledger) \in Nat /\ Len(more) = Len(ledger) + 1
        /\ \A i \in DOMAIN ledger : i \in DOMAIN more /\ more[i] = ledger[i]
        /\ \A i \in DOMAIN more : i \in DOMAIN ledger \/ i = Len(ledger) + 1
        /\ more[Len(ledger) + 1] = entry
    BY <1>5, <2>2, Appended
  <2>5. n <= Len(ledger)
    BY <1>9 DEF Extends
  <2>6. Buys(more, n) = buys \cup (IF fill.side = "BUY" THEN {fill} ELSE {})
    BY <1>5, <2>2, <2>5, BuysAppended
  <2>7. fill \notin buys
    BY <1>9, <2>3 DEF Buys
  <2>8. IsFiniteSet(buys)
    <3>1. buys \subseteq {ledger[i].fill : i \in DOMAIN ledger}
      BY DEF Buys
    <3>2. QED
      BY <1>5, <3>1, FinitelyMany
  <2>9. /\ q.portfolio.positions[symbol] = After(a.portfolio, fill)
        /\ \A s \in Symbols : s # symbol => q.portfolio.positions[s] = a.portfolio.positions[s]
    BY <1>4, <1>5, <2>3
  <2>10. /\ fill.side = "BUY" => After(a.portfolio, fill).quantity = pos + fill.quantity
         /\ fill.side = "SELL" => After(a.portfolio, fill).quantity <= pos
         /\ After(a.portfolio, fill).quantity \in Nat
    <3>1. After(a.portfolio, fill).quantity \in Nat
      BY <2>3 DEF Position
    <3>2. QED
      BY <1>4, <1>7, <2>3, <3>1, AfterFacts
  <2>11. Kept(order, made, price, held, policy)
    OBVIOUS
  <2> HIDE DEF more, pos, buys, held, n, ledger, policy
  <2>12. WithinLimits(Buys(more, n), made, q.portfolio.positions[symbol].quantity, held, price, policy)
    <3>1. WithinLimits(buys, made, pos, held, price, policy) /\ pos \in Nat
      BY <1>5, <1>9 DEF buys, pos
    <3>2. CASE fill.side = "BUY"
      <4>1. WithinLimits(buys \cup {fill}, made, pos + fill.quantity, held, price, policy)
        BY <1>5, <1>7, <2>7, <2>8, <2>11, <3>1, <3>2, WithinAfterBuy DEF policy
      <4>2. QED
        BY <2>6, <2>9, <2>10, <3>2, <4>1
    <3>3. CASE fill.side = "SELL"
      <4>1. WithinLimits(buys, made, After(a.portfolio, fill).quantity, held, price, policy)
        BY ZenonT(40), <1>5, <2>8, <2>10, <3>1, <3>3, WithinAfterSell DEF policy
      <4>2. Buys(more, n) = buys
        BY <2>6, <3>3
      <4>3. QED
        BY <2>9, <4>1, <4>2
    <3>4. QED
      BY <3>2, <3>3 DEF Fills, Side
  <2>13. Extends(base.portfolio.trade_ledger, more)
    <3>1. \A i \in DOMAIN base.portfolio.trade_ledger :
             /\ i \in DOMAIN ledger /\ ledger[i] = base.portfolio.trade_ledger[i]
      BY <1>9 DEF Extends
    <3>2. n <= Len(more)
      BY <1>5, <2>4, <2>5
    <3>3. QED
      BY <2>4, <3>1, <3>2 DEF Extends, n
  <2>14. fill.id \in DOMAIN made /\ made[fill.id].price = price
    BY <1>7, <2>11 DEF Kept
  <2>15. ASSUME NEW i \in DOMAIN more
         PROVE  /\ more[i].fill.id \in q.portfolio.processed_fill_ids
                /\ i > n =>
                     /\ more[i].fill.symbol = symbol /\ more[i].fill.filled_at = event.timestamp
                     /\ more[i].fill.id \in DOMAIN made /\ made[more[i].fill.id].price = price
    <3>1. CASE i \in DOMAIN ledger
      BY <1>6, <1>9, <2>4, <3>1
    <3>2. CASE i = Len(ledger) + 1
      <4>1. more[i].fill = fill
        BY <2>2, <2>4, <3>2
      <4>2. QED
        BY <1>6, <1>7, <2>14, <4>1
    <3>3. QED
      BY <2>4, <3>1, <3>2
  <2>16. q.portfolio.trade_ledger = more
    BY <2>1 DEF more
  <2>17. \A s \in Symbols : s # symbol => q.portfolio.positions[s] = base.portfolio.positions[s]
    BY <1>9, <2>9
  <2>18. QED
    BY <1>8, <2>12, <2>13, <2>15, <2>16, <2>17 DEF Booked, n, held
<1>12. QED
  BY <1>6, <1>10, <1>11

(* The account after the fold, in the words of the model. *)
Before == [portfolio |-> portfolio, last_trade_time |-> last_trade_time]

LEMMA SettledFacts ==
  ASSUME setup \in Setups, Before \in Accounts(setup), NEW event \in Events,
         NEW fillPrice \in Nat \ {0}, decisions \in Seq(Decisions(setup)),
         Until(decisions, event.timestamp), pending \in [Symbols -> Seq(Orders(setup))],
         NEW price \in Nat,
         \A k \in DOMAIN pending[event.symbol] :
           Kept(pending[event.symbol][k], decisions, price,
                portfolio.positions[event.symbol].quantity, setup.policy),
         Booked(Before, Before, decisions, event, price, setup.policy)
  PROVE  /\ Settled(event, fillPrice) \in Accounts(setup)
         /\ Booked(Settled(event, fillPrice), Before, decisions, event, price, setup.policy)
<1> DEFINE orders == pending[event.symbol]
           n == Len(orders)
<1>1. orders \in Seq(Orders(setup)) /\ event.symbol \in Symbols
  BY DEF Events
<1> HIDE DEF orders
<1>2. PICK h \in [0..Len(orders) -> Accounts(setup)] :
        SettlesAlong(h, Before, orders, event, fillPrice)
  BY <1>1, SettledRun
<1>3. /\ h \in [0..n -> Accounts(setup)] /\ h[0] = Before
      /\ \A i \in 1..n : h[i] = Settle(h[i - 1], orders[i], event, fillPrice)
      /\ h[n] = SettleAll(Before, orders, event, fillPrice)
  BY <1>2 DEF SettlesAlong
<1>4. h[n] = Settled(event, fillPrice)
  BY <1>3 DEF Settled, Before, orders
<1>5. n \in Nat /\ DOMAIN orders = 1..n /\ \A i \in 1..n : orders[i] \in Orders(setup)
  BY <1>1
<1>6. Before.portfolio = portfolio
  BY DEF Before
<1> HIDE DEF n
<1> DEFINE T == {i \in 0..n : Booked(h[i], Before, decisions, event, price, setup.policy)}
<1>7. 0 \in T
  BY <1>3, <1>5
<1>8. ASSUME NEW i \in 1..n, i - 1 \in T
      PROVE  i \in T
  <2>1. h[i - 1] \in Accounts(setup) /\ Booked(h[i - 1], Before, decisions, event, price, setup.policy)
    BY <1>3, <1>5, <1>8
  <2>2. Kept(orders[i], decisions, price, Before.portfolio.positions[event.symbol].quantity,
             setup.policy)
    BY <1>5, <1>6 DEF orders
  <2>3. Booked(Settle(h[i - 1], orders[i], event, fillPrice), Before, decisions, event, price,
               setup.policy)
    BY <1>5, <2>1, <2>2, SettleBooks
  <2>4. QED
    BY <1>3, <2>3
<1>9. 0..n \subseteq T
  <2> HIDE DEF T
  <2>1. QED
    BY <1>5, <1>7, <1>8, RunInduction
<1>10. h[n] \in Accounts(setup) /\ Booked(h[n], Before, decisions, event, price, setup.policy)
  BY <1>3, <1>5, <1>9
<1>11. QED
  BY <1>4, <1>10
-----------------------------------------------------------------------------
(* The fills of a symbol in a ledger, those of its last bar, and the bound on the
   position they leave. *)
Own(ledger, symbol) == {i \in DOMAIN ledger : ledger[i].fill.symbol = symbol}

LastTime(ledger, symbol) == Max({ledger[i].fill.filled_at : i \in Own(ledger, symbol)})

LastBuys(ledger, symbol) ==
  {fill \in {ledger[i].fill :
               i \in {j \in Own(ledger, symbol) :
                        ledger[j].fill.filled_at = LastTime(ledger, symbol)}} :
     fill.side = "BUY"}

JudgedAt(buys, made) == Min({made[fill.id].price : fill \in buys})

Bounded(ledger, made, pos, symbol, policy) ==
  LET buys == LastBuys(ledger, symbol)
  IN  Own(ledger, symbol) # {} /\ buys # {} /\ ~HasUnsized(buys, made) =>
        \A limit \in policy.max_position_notional :
          pos * JudgedAt(buys, made) <= Cardinality(buys) * limit

LEMMA LatestIs ==
  ASSUME NEW ledger \in Seq(Entries), NEW symbol, NEW time \in Nat,
         \A i \in DOMAIN ledger : ledger[i].fill.filled_at <= time,
         NEW k \in Own(ledger, symbol), ledger[k].fill.filled_at = time
  PROVE  LastTime(ledger, symbol) = time
<1> DEFINE S == {ledger[i].fill.filled_at : i \in Own(ledger, symbol)}
<1>1. S \subseteq Nat
  <2>1. \A i \in Own(ledger, symbol) : ledger[i] \in Entries
    BY DEF Own
  <2>2. QED
    BY SMTT(20), ZenonT(40), <2>1 DEF Entries, Fills
<1>2. time \in S /\ \A x \in S : x <= time
  BY DEF Own
<1> HIDE DEF S
<1>3. Max(S) \in S /\ \A x \in S : x <= Max(S)
  BY <1>1, <1>2, GreatestBelow
<1>4. Max(S) = time
  <2> DEFINE m == Max(S)
  <2>1. m \in Nat /\ m <= time /\ time <= m
    BY <1>1, <1>2, <1>3
  <2> HIDE DEF m
  <2>2. m = time
    BY <2>1
  <2>3. QED
    BY <2>2 DEF m
<1>5. QED
  BY <1>4 DEF LastTime, S

LEMMA LastBuysAre ==
  ASSUME NEW ledger, NEW symbol, NEW fill
  PROVE  fill \in LastBuys(ledger, symbol) <=>
           \E i \in Own(ledger, symbol) :
             /\ ledger[i].fill = fill /\ fill.side = "BUY"
             /\ fill.filled_at = LastTime(ledger, symbol)
BY DEF LastBuys

(* The decisions for the fills of a ledger keep their place. *)
LEMMA PricesStay ==
  ASSUME NEW buys, NEW made, NEW more, Extends(made, more), \A fill \in buys : fill.id \in DOMAIN made
  PROVE  JudgedAt(buys, more) = JudgedAt(buys, made) /\ HasUnsized(buys, more) = HasUnsized(buys, made)
<1>1. \A fill \in buys : more[fill.id] = made[fill.id]
  BY DEF Extends
<1>2. {more[fill.id].price : fill \in buys} = {made[fill.id].price : fill \in buys}
  BY <1>1
<1>3. HasUnsized(buys, more) <=> HasUnsized(buys, made)
  BY <1>1 DEF HasUnsized
<1>4. HasUnsized(buys, more) \in BOOLEAN /\ HasUnsized(buys, made) \in BOOLEAN
  BY DEF HasUnsized
<1>5. QED
  BY <1>2, <1>3, <1>4 DEF JudgedAt

(* A symbol with no new fill keeps its bound, whatever is decided or filled on
   other symbols. *)
LEMMA BoundKept ==
  ASSUME NEW config \in Setups, NEW ledger \in Seq(Entries), NEW longer \in Seq(Entries),
         NEW symbol, Extends(ledger, longer),
         \A i \in DOMAIN longer : i > Len(ledger) => longer[i].fill.symbol # symbol,
         NEW made \in Seq(Decisions(config)), NEW more, Extends(made, more),
         \A i \in DOMAIN ledger : ledger[i].fill.id \in DOMAIN made,
         NEW pos \in Nat, NEW less \in Nat, less <= pos,
         Bounded(ledger, made, pos, symbol, config.policy)
  PROVE  Bounded(longer, more, less, symbol, config.policy)
<1> DEFINE buys == LastBuys(ledger, symbol)
           price == JudgedAt(buys, made)
<1>1. \A i \in DOMAIN ledger : i \in DOMAIN longer /\ longer[i] = ledger[i]
  BY DEF Extends
<1>2. \A i \in DOMAIN longer : i > Len(ledger) \/ i \in DOMAIN ledger
  OBVIOUS
<1>3. Own(longer, symbol) = Own(ledger, symbol)
  <2>1. \A i \in Own(longer, symbol) : i \in Own(ledger, symbol)
    BY <1>1, <1>2 DEF Own
  <2>2. \A i \in Own(ledger, symbol) : i \in Own(longer, symbol)
    BY <1>1 DEF Own
  <2>3. QED
    BY <2>1, <2>2
<1>4. \A i \in Own(ledger, symbol) : longer[i] = ledger[i] /\ i \in DOMAIN ledger
  BY <1>1 DEF Own
<1>5. LastTime(longer, symbol) = LastTime(ledger, symbol)
  <2>1. {longer[i].fill.filled_at : i \in Own(longer, symbol)}
          = {ledger[i].fill.filled_at : i \in Own(ledger, symbol)}
    BY <1>3, <1>4
  <2>2. QED
    BY <2>1 DEF LastTime
<1>6. LastBuys(longer, symbol) = buys
  <2>1. ASSUME NEW fill
        PROVE  fill \in LastBuys(longer, symbol) <=> fill \in LastBuys(ledger, symbol)
    <3>1. fill \in LastBuys(longer, symbol) <=>
            \E i \in Own(ledger, symbol) :
              /\ longer[i].fill = fill /\ fill.side = "BUY"
              /\ fill.filled_at = LastTime(ledger, symbol)
      BY <1>3, <1>5, LastBuysAre
    <3>2. fill \in LastBuys(ledger, symbol) <=>
            \E i \in Own(ledger, symbol) :
              /\ ledger[i].fill = fill /\ fill.side = "BUY"
              /\ fill.filled_at = LastTime(ledger, symbol)
      BY LastBuysAre
    <3>3. QED
      BY <1>4, <3>1, <3>2
  <2>2. QED
    BY <2>1
<1>7. \A fill \in buys : fill.id \in DOMAIN made
  BY <1>4, LastBuysAre
<1>8. JudgedAt(buys, more) = price /\ HasUnsized(buys, more) = HasUnsized(buys, made)
  <2> HIDE DEF buys
  <2>1. QED
    BY <1>7, PricesStay
<1>9. ASSUME Own(ledger, symbol) # {}, buys # {}, ~HasUnsized(buys, made),
             NEW limit \in config.policy.max_position_notional
      PROVE  less * price <= Cardinality(buys) * limit
  <2>1. pos * price <= Cardinality(buys) * limit
    BY <1>9 DEF Bounded
  <2>2. price \in Nat
    <3>1. {made[fill.id].price : fill \in buys} \subseteq Nat
      <4>1. \A fill \in buys : made[fill.id] \in Decisions(config)
        BY <1>7
      <4>2. QED
        BY <4>1 DEF Decisions
    <3>2. {made[fill.id].price : fill \in buys} # {}
      BY <1>9
    <3>3. QED
      BY <3>1, <3>2, LeastIsMin DEF JudgedAt
  <2>3. Cardinality(buys) \in Nat
    <3>1. buys \subseteq {ledger[i].fill : i \in DOMAIN ledger}
      BY DEF LastBuys, Own
    <3>2. IsFiniteSet(buys)
      BY <3>1, FinitelyMany
    <3>3. QED
      BY <3>2, FS_CardinalityType
  <2>4. limit \in Nat
    BY PolicyFacts DEF IsPolicy, IsLimit
  <2> HIDE DEF price, buys
  <2>5. less * price <= pos * price /\ less * price \in Nat /\ pos * price \in Nat
    BY <2>2, Monotone
  <2>6. Cardinality(buys) * limit \in Nat
    BY <2>3, <2>4
  <2> DEFINE a == less * price
             b == pos * price
             c == Cardinality(buys) * limit
  <2>7. a <= b /\ b <= c /\ a \in Nat /\ b \in Nat /\ c \in Nat
    BY <2>1, <2>5, <2>6
  <2> HIDE DEF a, b, c
  <2>8. a <= c
    BY <2>7
  <2>9. QED
    BY <2>8 DEF a, c
<1> HIDE DEF buys, price
<1>10. QED
  BY <1>3, <1>6, <1>8, <1>9 DEF Bounded

(* The symbol of the bar: its orders have settled within their limits. *)
LEMMA BoundAfterBar ==
  ASSUME NEW config \in Setups, NEW ledger \in Seq(Entries), NEW longer \in Seq(Entries),
         NEW symbol, NEW time \in Nat, Extends(ledger, longer),
         \A i \in DOMAIN longer : longer[i].fill.filled_at <= time,
         NEW made \in Seq(Decisions(config)), NEW price \in Nat,
         \A i \in DOMAIN longer : longer[i].fill.id \in DOMAIN made,
         \A i \in DOMAIN longer : i > Len(ledger) =>
           /\ longer[i].fill.symbol = symbol /\ longer[i].fill.filled_at = time
           /\ made[longer[i].fill.id].price = price,
         NEW pos \in Nat, NEW held \in Nat,
         WithinLimits(Buys(longer, Len(ledger)), made, pos, held, price, config.policy),
         Bounded(ledger, made, held, symbol, config.policy)
  PROVE  Bounded(longer, made, pos, symbol, config.policy)
<1> DEFINE n == Len(ledger)
           new == Buys(longer, n)
           buys == LastBuys(longer, symbol)
           policy == config.policy
<1>1. /\ \A i \in DOMAIN ledger : i \in DOMAIN longer /\ longer[i] = ledger[i]
      /\ \A i \in DOMAIN longer : i > n \/ i \in DOMAIN ledger
  BY DEF Extends
<1>2. CASE \A i \in DOMAIN longer : ~(i > n)
  <2>1. new = {}
    BY <1>2 DEF Buys
  <2>2. pos <= held
    BY <2>1 DEF WithinLimits, HasUnsized
  <2>3. Extends(made, made)
    BY DEF Extends
  <2>4. \A i \in DOMAIN ledger : ledger[i].fill.id \in DOMAIN made
    BY <1>1
  <2>5. QED
    BY <1>2, <2>2, <2>3, <2>4, BoundKept
<1>3. CASE \E i \in DOMAIN longer : i > n
  <2>1. PICK k \in DOMAIN longer : k > n
    BY <1>3
  <2>2. k \in Own(longer, symbol) /\ longer[k].fill.filled_at = time
    BY <2>1 DEF Own
  <2>3. LastTime(longer, symbol) = time
    BY <2>2, LatestIs
  <2>4. \A fill \in new : fill \in buys
    <3>1. SUFFICES ASSUME NEW fill \in new
                   PROVE  fill \in buys
      OBVIOUS
    <3>2. PICK i \in DOMAIN longer : i > n /\ longer[i].fill.side = "BUY" /\ fill = longer[i].fill
      BY DEF Buys
    <3>3. i \in Own(longer, symbol) /\ fill.filled_at = time
      BY <3>2 DEF Own
    <3>4. QED
      BY <2>3, <3>2, <3>3, LastBuysAre
  <2>5. \A fill \in buys : \E i \in DOMAIN longer : longer[i].fill = fill
    BY LastBuysAre DEF Own
  <2>6. IsFiniteSet(buys)
    <3>1. buys \subseteq {longer[i].fill : i \in DOMAIN longer}
      BY <2>5
    <3>2. QED
      BY <3>1, FinitelyMany
  <2>7. SUFFICES ASSUME buys # {}, ~HasUnsized(buys, made),
                        NEW limit \in policy.max_position_notional
                 PROVE  pos * JudgedAt(buys, made) <= Cardinality(buys) * limit
    BY DEF Bounded
  <2>8. limit \in Nat /\ Cardinality(buys) \in Nat
    BY <2>6, FS_CardinalityType, PolicyFacts DEF IsPolicy, IsLimit
  <2>9. JudgedAt(buys, made) \in {made[fill.id].price : fill \in buys}
        /\ \A x \in {made[fill.id].price : fill \in buys} : JudgedAt(buys, made) <= x
    <3>1. {made[fill.id].price : fill \in buys} \subseteq Nat
      <4>1. \A fill \in buys : made[fill.id] \in Decisions(config)
        BY <2>5
      <4>2. QED
        BY <4>1 DEF Decisions
    <3>2. {made[fill.id].price : fill \in buys} # {}
      BY <2>7
    <3>3. QED
      BY <3>1, <3>2, LeastIsMin DEF JudgedAt
  <2>10. JudgedAt(buys, made) \in Nat
    <3>1. PICK fill \in buys : JudgedAt(buys, made) = made[fill.id].price
      BY <2>9
    <3>2. made[fill.id] \in Decisions(config)
      BY <2>5
    <3>3. QED
      BY <3>1, <3>2 DEF Decisions
  <2>11. CASE new = {}
    <3>1. pos <= held
      BY <2>11 DEF WithinLimits, HasUnsized
    <3>2. \A fill \in buys : \E i \in DOMAIN ledger :
             ledger[i].fill = fill /\ fill.symbol = symbol /\ fill.side = "BUY" /\ fill.filled_at = time
      <4>1. SUFFICES ASSUME NEW fill \in buys
                     PROVE  \E i \in DOMAIN ledger :
                              /\ ledger[i].fill = fill /\ fill.symbol = symbol /\ fill.side = "BUY"
                              /\ fill.filled_at = time
        OBVIOUS
      <4>2. PICK i \in Own(longer, symbol) :
              longer[i].fill = fill /\ fill.side = "BUY" /\ fill.filled_at = time
        BY <2>3, LastBuysAre
      <4>3. i \in DOMAIN longer /\ fill.symbol = symbol
        BY <4>2 DEF Own
      <4>4. ~(i > n)
        BY <2>11, <4>2, <4>3 DEF Buys
      <4>5. QED
        BY <1>1, <4>2, <4>3, <4>4
    <3>3. PICK fill \in buys, j \in DOMAIN ledger :
            ledger[j].fill = fill /\ fill.symbol = symbol /\ fill.filled_at = time
      BY <2>7, <3>2
    <3>4. j \in Own(ledger, symbol) /\ ledger[j].fill.filled_at = time
      BY <3>3 DEF Own
    <3>5. \A i \in DOMAIN ledger : ledger[i].fill.filled_at <= time
      BY <1>1
    <3>6. LastTime(ledger, symbol) = time
      BY <3>4, <3>5, LatestIs
    <3>7. LastBuys(ledger, symbol) = buys
      <4>1. ASSUME NEW x \in LastBuys(ledger, symbol)
            PROVE  x \in buys
        <5>0. PICK i \in Own(ledger, symbol) :
                ledger[i].fill = x /\ x.side = "BUY" /\ x.filled_at = LastTime(ledger, symbol)
          BY LastBuysAre
        <5>1. ledger[i].fill = x /\ x.side = "BUY" /\ x.filled_at = time
          BY <3>6, <5>0
        <5>2. i \in Own(longer, symbol) /\ longer[i].fill = x
          BY <1>1, <5>1 DEF Own
        <5>3. QED
          BY <2>3, <5>1, <5>2, LastBuysAre
      <4>2. ASSUME NEW x \in buys
            PROVE  x \in LastBuys(ledger, symbol)
        <5>1. PICK i \in DOMAIN ledger :
                ledger[i].fill = x /\ x.symbol = symbol /\ x.side = "BUY" /\ x.filled_at = time
          BY <3>2
        <5>2. i \in Own(ledger, symbol)
          BY <5>1 DEF Own
        <5>3. QED
          BY <3>6, <5>1, <5>2, LastBuysAre
      <4>3. QED
        BY <4>1, <4>2
    <3>8. held * JudgedAt(buys, made) <= Cardinality(buys) * limit
      BY <2>7, <3>4, <3>7 DEF Bounded
    <3> DEFINE a == pos * JudgedAt(buys, made)
               b == held * JudgedAt(buys, made)
               c == Cardinality(buys) * limit
    <3>9. a <= b /\ a \in Nat /\ b \in Nat
      BY <2>10, <3>1, Monotone
    <3>10. c \in Nat /\ b <= c
      BY <2>8, <3>8
    <3> HIDE DEF a, b, c
    <3>11. a <= c
      BY <3>9, <3>10
    <3>12. QED
      BY <3>11 DEF a, c
  <2>12. CASE new # {}
    <3>1. ~HasUnsized(new, made)
      BY <2>4, <2>7 DEF HasUnsized
    <3>2. pos * price <= Cardinality(new) * limit
      BY <2>12, <3>1 DEF WithinLimits
    <3>3. JudgedAt(buys, made) <= price
      <4>1. PICK i \in DOMAIN longer : i > n /\ longer[i].fill \in new
        BY <2>12 DEF Buys
      <4>2. made[longer[i].fill.id].price = price
        BY <4>1
      <4>3. longer[i].fill \in buys
        BY <2>4, <4>1
      <4>4. QED
        BY <2>9, <4>2, <4>3
    <3>4. Cardinality(new) \in Nat /\ Cardinality(new) <= Cardinality(buys)
      <4>1. new \subseteq buys
        BY <2>4
      <4> HIDE DEF new, buys
      <4>2. IsFiniteSet(new)
        BY <2>6, <4>1, FS_Subset
      <4>3. QED
        BY <2>6, <4>1, <4>2, FS_Subset, FS_CardinalityType
    <3> DEFINE x == pos * JudgedAt(buys, made)
               y == pos * price
               z == Cardinality(new) * limit
               w == Cardinality(buys) * limit
    <3>5. x <= y /\ x \in Nat /\ y \in Nat
      BY <2>10, <3>3, Monotone
    <3>6. z <= w /\ z \in Nat /\ w \in Nat
      BY <2>8, <3>4, Monotone
    <3>7. y <= z
      BY <3>2
    <3> HIDE DEF x, y, z, w
    <3>8. x <= w
      BY <3>5, <3>6, <3>7
    <3>9. QED
      BY <3>8 DEF x, w
  <2>13. QED
    BY <2>11, <2>12
<1>4. QED
  BY <1>2, <1>3
-----------------------------------------------------------------------------
(* What no step changes, and what a step keeps. *)
HistoryFixed ==
  /\ setup \in Setups
  /\ \E shapes \in [DOMAIN setup.slots -> setup.shapes] : history = HistoryOf(setup, shapes)
  /\ cursor \in 0..Len(history)

StateTyped ==
  /\ \E values : memory \in [DOMAIN setup.strategies -> [Symbols -> values]]
  /\ Before \in Accounts(setup)
  /\ pending \in [Symbols -> Seq(Orders(setup))]
  /\ decisions \in Seq(Decisions(setup))

(* The decisions are of events, and none is later than an event to come. *)
DecidedInTime ==
  /\ \A i \in DOMAIN decisions :
       \E k \in DOMAIN setup.slots : decisions[i].request.timestamp = setup.slots[k].timestamp
  /\ \A k \in DOMAIN history : k > cursor => Until(decisions, history[k].timestamp)

(* The decisions are apart, and the risk engine remembers the last of them. *)
Apart == Cool(decisions, last_trade_time, setup.policy)

InSession == Tradable(decisions, setup.policy)

(* The orders of a symbol were judged together, at one price and against what is
   still held. *)
PendingJudged ==
  \A symbol \in Symbols : \E price \in Nat : \A k \in DOMAIN pending[symbol] :
    Kept(pending[symbol][k], decisions, price, portfolio.positions[symbol].quantity, setup.policy)

(* Each booked fill is known by its id, belongs to a decision, and is not later
   than an event to come. *)
FillsDecided ==
  \A i \in DOMAIN portfolio.trade_ledger :
    LET fill == portfolio.trade_ledger[i].fill
    IN  /\ fill.id \in portfolio.processed_fill_ids
        /\ fill.id \in DOMAIN decisions
        /\ \A k \in DOMAIN history : k > cursor => fill.filled_at <= history[k].timestamp

PositionsBounded ==
  \A symbol \in Symbols :
    Bounded(portfolio.trade_ledger, decisions, portfolio.positions[symbol].quantity, symbol,
            setup.policy)

PipelineInv ==
  /\ HistoryFixed
  /\ StateTyped
  /\ DecidedInTime
  /\ Apart
  /\ InSession
  /\ PendingJudged
  /\ FillsDecided
  /\ PositionsBounded

LEMMA HistoryFacts ==
  ASSUME NEW config \in Setups, NEW shapes \in [DOMAIN config.slots -> config.shapes]
  PROVE  LET h == HistoryOf(config, shapes)
         IN  /\ h \in Seq(Events) /\ DOMAIN h = DOMAIN config.slots
             /\ \A i \in DOMAIN h :
                  IsShaped(h[i], config) /\ h[i].timestamp = config.slots[i].timestamp
             /\ \A i, j \in DOMAIN h : i < j => h[i].timestamp <= h[j].timestamp
<1> DEFINE h == HistoryOf(config, shapes)
           n == Len(config.slots)
<1>1. /\ config.slots \in Seq(Slots) /\ config.shapes \subseteq Shapes
      /\ \A i, j \in DOMAIN config.slots :
           i < j => config.slots[i].timestamp <= config.slots[j].timestamp
  BY PipelineAssumption DEF SetupsAssumption
<1>2. n \in Nat /\ DOMAIN config.slots = 1..n /\ \A i \in 1..n : config.slots[i] \in Slots
  BY <1>1
<1> HIDE DEF n
<1>3. ASSUME NEW i \in 1..n
      PROVE  h[i] \in Events /\ IsShaped(h[i], config) /\ h[i].timestamp = config.slots[i].timestamp
  <2>1. config.slots[i] \in Slots /\ shapes[i] \in config.shapes /\ shapes[i] \in Shapes
    BY <1>1, <1>2
  <2>2. h[i] = [symbol |-> config.slots[i].symbol, kind |-> config.slots[i].kind,
                timestamp |-> config.slots[i].timestamp,
                close |-> shapes[i].close, low |-> shapes[i].low, high |-> shapes[i].high,
                volume |-> shapes[i].volume, vwap |-> shapes[i].vwap]
    BY <1>2 DEF HistoryOf
  <2> HIDE DEF h
  <2>3. h[i] \in Events
    BY <2>1, <2>2 DEF Slots, Shapes, Events
  <2>4. h[i].close = shapes[i].close /\ h[i].timestamp = config.slots[i].timestamp
    BY <2>2
  <2>5. QED
    BY <2>1, <2>3, <2>4 DEF IsShaped
<1>4. DOMAIN h = 1..n /\ h = [i \in 1..n |-> h[i]]
  BY <1>2 DEF HistoryOf
<1> HIDE DEF h
<1>5. h \in [1..n -> Events]
  BY <1>3, <1>4
<1>6. h \in Seq(Events)
  BY <1>2, <1>5
<1>7. \A i, j \in DOMAIN h : i < j => h[i].timestamp <= h[j].timestamp
  BY <1>1, <1>2, <1>3, <1>4
<1>8. QED
  BY <1>2, <1>3, <1>4, <1>6, <1>7 DEF h

LEMMA NewPortfolioType == NewPortfolio(StartingCash) \in Portfolios
<1>1. StartingCash \in Int
  BY PipelineAssumption
<1>2. NoPosition \in Position
  BY DEF NoPosition, Position
<1>3. [s \in Symbols |-> NoPosition] \in [Symbols -> Position]
  BY <1>2
<1>4. [cash |-> StartingCash, equity |-> StartingCash, realized_pnl |-> 0, unrealized_pnl |-> 0,
       quantity |-> [s \in Symbols |-> 0]] \in AccountSnapshot
  BY <1>1 DEF AccountSnapshot
<1>5. \A S : <<>> \in Seq(S)
  OBVIOUS
<1>6. QED
  BY <1>1, <1>3, <1>4, <1>5 DEF NewPortfolio, Portfolios

LEMMA PipelineInit ==
  ASSUME Init
  PROVE  PipelineInv
<1>1. PICK shapes \in [DOMAIN setup.slots -> setup.shapes] : history = HistoryOf(setup, shapes)
  BY DEF Init
<1>2. setup \in Setups
  BY DEF Init
<1>3. history \in Seq(Events)
  BY <1>1, <1>2, HistoryFacts
<1>4. HistoryFixed
  <2>1. cursor = 0 /\ Len(history) \in Nat
    BY <1>3 DEF Init
  <2>2. QED
    BY <1>1, <1>2, <2>1 DEF HistoryFixed
<1>5. decisions = <<>> /\ DOMAIN decisions = {}
  BY DEF Init
<1>6. portfolio = NewPortfolio(StartingCash)
  BY DEF Init
<1>7. portfolio.trade_ledger = <<>> /\ DOMAIN portfolio.trade_ledger = {}
  BY <1>6 DEF NewPortfolio
<1>8. /\ pending \in [Symbols -> Seq(Orders(setup))]
      /\ \A symbol \in Symbols : pending[symbol] = <<>>
  <2>1. <<>> \in Seq(Orders(setup))
    OBVIOUS
  <2>2. QED
    BY <2>1 DEF Init
<1>9. StateTyped
  <2>1. memory \in [DOMAIN setup.strategies -> [Symbols -> {{}}]]
    BY DEF Init
  <2>2. last_trade_time \in Times(setup)
    BY DEF Init, Times, Keys, IdsOf, StrategyIds
  <2>3. Before \in Accounts(setup)
    BY <1>6, <2>2, NewPortfolioType DEF Before, Accounts
  <2>4. decisions \in Seq(Decisions(setup))
    BY <1>5
  <2>5. QED
    BY <1>8, <2>1, <2>3, <2>4 DEF StateTyped
<1>10. DecidedInTime /\ Apart /\ InSession
  BY <1>5 DEF DecidedInTime, Apart, InSession, Until, Cool, Tradable
<1>11. PendingJudged
  <2>1. \A symbol \in Symbols : DOMAIN pending[symbol] = {}
    BY <1>8
  <2>2. 0 \in Nat
    OBVIOUS
  <2>3. QED
    BY <2>1, <2>2 DEF PendingJudged
<1>12. FillsDecided
  BY <1>7 DEF FillsDecided
<1>13. PositionsBounded
  BY <1>7 DEF PositionsBounded, Bounded, Own
<1>14. QED
  BY <1>4, <1>9, <1>10, <1>11, <1>12, <1>13 DEF PipelineInv
-----------------------------------------------------------------------------
LEMMA CoolBefore ==
  ASSUME NEW old, NEW made, NEW times, NEW policy, Extends(old, made), Cool(made, times, policy)
  PROVE  Cool(old, times, policy)
<1>1. \A i \in DOMAIN old : i \in DOMAIN made /\ made[i] = old[i]
  BY DEF Extends
<1>2. QED
  BY <1>1 DEF Cool

LEMMA KeptStays ==
  ASSUME NEW order, NEW made, NEW more, NEW price, NEW held, NEW policy,
         Extends(made, more), Kept(order, made, price, held, policy)
  PROVE  Kept(order, more, price, held, policy)
BY DEF Kept, Extends

LEMMA EventFacts ==
  ASSUME PipelineInv, cursor < Len(history)
  PROVE  /\ setup \in Setups /\ cursor + 1 \in 0..Len(history)
         /\ Event \in Events /\ IsShaped(Event, setup)
         /\ \E k \in DOMAIN setup.slots : Event.timestamp = setup.slots[k].timestamp
         /\ Until(decisions, Event.timestamp)
         /\ \A i \in DOMAIN portfolio.trade_ledger :
              portfolio.trade_ledger[i].fill.filled_at <= Event.timestamp
         /\ \A k \in DOMAIN history : k > cursor + 1 => Event.timestamp <= history[k].timestamp
         /\ \A k \in DOMAIN history : k > cursor + 1 => k > cursor
<1>1. HistoryFixed /\ DecidedInTime /\ FillsDecided
  BY DEF PipelineInv
<1>2. PICK shapes \in [DOMAIN setup.slots -> setup.shapes] : history = HistoryOf(setup, shapes)
  BY <1>1 DEF HistoryFixed
<1>3. setup \in Setups /\ cursor \in 0..Len(history)
  BY <1>1 DEF HistoryFixed
<1>4. /\ history \in Seq(Events) /\ DOMAIN history = DOMAIN setup.slots
      /\ \A i \in DOMAIN history :
           IsShaped(history[i], setup) /\ history[i].timestamp = setup.slots[i].timestamp
      /\ \A i, j \in DOMAIN history : i < j => history[i].timestamp <= history[j].timestamp
  BY <1>2, <1>3, HistoryFacts
<1>5. /\ Len(history) \in Nat /\ cursor \in Nat /\ cursor + 1 \in DOMAIN history
      /\ cursor + 1 > cursor /\ DOMAIN history = 1..Len(history)
  BY <1>3, <1>4
<1>6. Event \in Events /\ IsShaped(Event, setup)
  BY <1>4, <1>5 DEF Event
<1>7. cursor + 1 \in DOMAIN setup.slots /\ Event.timestamp = setup.slots[cursor + 1].timestamp
  BY <1>4, <1>5 DEF Event
<1>8. Until(decisions, Event.timestamp)
  BY <1>1, <1>5 DEF DecidedInTime, Event
<1>9. \A i \in DOMAIN portfolio.trade_ledger :
        portfolio.trade_ledger[i].fill.filled_at <= Event.timestamp
  BY <1>1, <1>5 DEF FillsDecided, Event
<1>10. \A k \in DOMAIN history : k > cursor + 1 => Event.timestamp <= history[k].timestamp
  BY <1>4, <1>5 DEF Event
<1>11. \A k \in DOMAIN history : k > cursor + 1 => k > cursor
  BY <1>5
<1>12. QED
  BY <1>3, <1>5, <1>6, <1>7, <1>8, <1>9, <1>10, <1>11

(* A quote changes what the positions are worth, and nothing else. *)
LEMMA AfterQuote ==
  ASSUME PipelineInv, OnQuote
  PROVE  PipelineInv'
<1>1. cursor < Len(history)
  BY DEF OnQuote, Handles
<1>2. /\ setup \in Setups /\ cursor + 1 \in 0..Len(history) /\ Event \in Events
      /\ \A k \in DOMAIN history : k > cursor + 1 => k > cursor
  BY <1>1, EventFacts
<1>3. /\ HistoryFixed /\ StateTyped /\ DecidedInTime /\ Apart /\ InSession /\ PendingJudged
      /\ FillsDecided /\ PositionsBounded
  BY DEF PipelineInv
<1>4. /\ cursor' = cursor + 1 /\ setup' = setup /\ history' = history /\ memory' = memory
      /\ last_trade_time' = last_trade_time /\ pending' = pending /\ decisions' = decisions
      /\ portfolio' = MarkToMarket(portfolio, Event.symbol, (Event.low + Event.high) \div 2)
  BY DEF OnQuote
<1>5. portfolio \in Portfolios /\ last_trade_time \in Times(setup)
  BY <1>3 DEF StateTyped, Accounts, Before
<1>6. Event.symbol \in Symbols /\ (Event.low + Event.high) \div 2 \in Int
  <2>1. Event.symbol \in Symbols /\ Event.low \in Nat /\ Event.high \in Nat
    BY <1>2 DEF Events
  <2>2. QED
    BY <2>1
<1>7. /\ portfolio' \in Portfolios /\ portfolio'.trade_ledger = portfolio.trade_ledger
      /\ portfolio'.processed_fill_ids = portfolio.processed_fill_ids
      /\ \A s \in Symbols : portfolio'.positions[s].quantity = portfolio.positions[s].quantity
  BY <1>4, <1>5, <1>6, MarkedType
<1>8. HistoryFixed'
  BY <1>2, <1>3, <1>4 DEF HistoryFixed
<1>9. StateTyped'
  <2>1. Before' \in Accounts(setup)
    BY <1>4, <1>5, <1>7 DEF Before, Accounts
  <2>2. Accounts(setup') = Accounts(setup) /\ Orders(setup') = Orders(setup)
        /\ Decisions(setup') = Decisions(setup)
    BY <1>4
  <2>3. QED
    BY <1>3, <1>4, <2>1, <2>2 DEF StateTyped
<1>10. DecidedInTime'
  BY <1>2, <1>3, <1>4 DEF DecidedInTime
<1>11. Apart' /\ InSession'
  BY <1>3, <1>4 DEF Apart, InSession
<1>12. PendingJudged'
  BY <1>3, <1>4, <1>7 DEF PendingJudged
<1>13. FillsDecided'
  BY <1>2, <1>3, <1>4, <1>7 DEF FillsDecided
<1>14. PositionsBounded'
  BY <1>3, <1>4, <1>7 DEF PositionsBounded
<1>15. QED
  BY <1>8, <1>9, <1>10, <1>11, <1>12, <1>13, <1>14 DEF PipelineInv

(* The orders of the symbol of a bar settle, each within its limits. *)
LEMMA BarSettles ==
  ASSUME PipelineInv, cursor < Len(history), NEW fillPrice \in Nat \ {0}
  PROVE  LET settled == Settled(Event, fillPrice)
         IN  /\ settled \in Accounts(setup)
             /\ \E price \in Nat :
                  Booked(settled, Before, decisions, Event, price, setup.policy)
<1>1. /\ setup \in Setups /\ Event \in Events /\ Until(decisions, Event.timestamp)
      /\ \A i \in DOMAIN portfolio.trade_ledger :
           portfolio.trade_ledger[i].fill.filled_at <= Event.timestamp
  BY EventFacts
<1>2. StateTyped /\ Apart /\ PendingJudged /\ FillsDecided
  BY DEF PipelineInv
<1>3. /\ Before \in Accounts(setup) /\ decisions \in Seq(Decisions(setup))
      /\ pending \in [Symbols -> Seq(Orders(setup))] /\ portfolio \in Portfolios
  BY <1>2 DEF StateTyped, Accounts, Before
<1>4. Event.symbol \in Symbols
  BY <1>1 DEF Events
<1>5. PICK price \in Nat : \A k \in DOMAIN pending[Event.symbol] :
        Kept(pending[Event.symbol][k], decisions, price,
             portfolio.positions[Event.symbol].quantity, setup.policy)
  BY <1>2, <1>4 DEF PendingJudged
<1>6. /\ Before.portfolio = portfolio /\ Before.last_trade_time = last_trade_time
  BY DEF Before
<1>7. Booked(Before, Before, decisions, Event, price, setup.policy)
  <2> DEFINE ledger == portfolio.trade_ledger
             held == portfolio.positions[Event.symbol].quantity
  <2>1. ledger \in Seq(Entries) /\ portfolio.positions \in [Symbols -> Position]
    BY <1>3 DEF Portfolios, Entries
  <2>2. held \in Nat
    BY <1>4, <2>1 DEF Position
  <2>3. Len(ledger) \in Nat /\ \A i \in DOMAIN ledger : ~(i > Len(ledger))
    BY <2>1
  <2>4. Extends(ledger, ledger)
    BY <2>3 DEF Extends
  <2>5. Buys(ledger, Len(ledger)) = {}
    BY <2>3 DEF Buys
  <2>6. WithinLimits(Buys(ledger, Len(ledger)), decisions, held, held, price, setup.policy)
    BY <2>2, <2>5 DEF WithinLimits
  <2>7. \A i \in DOMAIN ledger : ledger[i].fill.id \in portfolio.processed_fill_ids
    BY <1>2 DEF FillsDecided
  <2>8. Cool(decisions, last_trade_time, setup.policy)
    BY <1>2 DEF Apart
  <2> HIDE DEF ledger, held
  <2>9. QED
    BY <1>6, <2>3, <2>4, <2>6, <2>7, <2>8 DEF Booked, ledger, held
<1>8. /\ Settled(Event, fillPrice) \in Accounts(setup)
      /\ Booked(Settled(Event, fillPrice), Before, decisions, Event, price, setup.policy)
  BY <1>1, <1>3, <1>5, <1>7, SettledFacts
<1>9. QED
  BY <1>8

(* The strategies start from the memory and the decisions the engine has, and
   whatever they make of a record has a place in their memory. *)
Begun(times) ==
  [memory |-> memory, decisions |-> decisions, orders |-> <<>>, raised |-> FALSE,
   last_trade_time |-> times]

LEMMA BegunAsked ==
  ASSUME StateTyped, NEW times \in Times(setup), NEW record
  PROVE  \E values : Closed(values, setup, record) /\ Begun(times) \in Asked(setup, values)
<1>1. PICK old : memory \in [DOMAIN setup.strategies -> [Symbols -> old]]
  BY DEF StateTyped
<1> DEFINE values == old \cup {relation(record, setup.strategies[i]) : i \in DOMAIN setup.strategies}
                       \cup {feature_value(record, <<"rsi", setup.strategies[i].window>>) :
                               i \in DOMAIN setup.strategies}
<1>2. Closed(values, setup, record)
  BY DEF Closed
<1>3. old \subseteq values
  OBVIOUS
<1> HIDE DEF values
<1>4. memory \in [DOMAIN setup.strategies -> [Symbols -> values]]
  BY <1>1, <1>3
<1>5. decisions \in Seq(Decisions(setup)) /\ <<>> \in Seq(Orders(setup))
  BY DEF StateTyped
<1>6. QED
  BY <1>2, <1>4, <1>5 DEF Begun, Asked

(* The strategies are asked, and their requests judged against the account the
   bar left. *)
LEMMA BarConsults ==
  ASSUME PipelineInv, cursor < Len(history), NEW settled \in Accounts(setup),
         Cool(decisions, settled.last_trade_time, setup.policy),
         NEW snapshot \in AccountSnapshot, NEW record
  PROVE  LET run == ConsultAll(Begun(settled.last_trade_time), record, snapshot, Event)
         IN  /\ \E values : run \in Asked(setup, values)
             /\ Sound(run, decisions, Event, snapshot.quantity[Event.symbol], setup.policy)
<1> DEFINE base == Begun(settled.last_trade_time)
           run == ConsultAll(base, record, snapshot, Event)
           held == snapshot.quantity[Event.symbol]
<1>1. /\ setup \in Setups /\ Event \in Events /\ IsShaped(Event, setup)
      /\ Until(decisions, Event.timestamp)
  BY EventFacts
<1>2. StateTyped /\ InSession
  BY DEF PipelineInv
<1>3. decisions \in Seq(Decisions(setup)) /\ settled.last_trade_time \in Times(setup)
  BY <1>2 DEF StateTyped, Accounts
<1>4. PICK values : Closed(values, setup, record) /\ base \in Asked(setup, values)
  BY <1>2, <1>3, BegunAsked
<1>5. Sound(base, decisions, Event, held, setup.policy)
  <2>1. Extends(decisions, decisions) /\ Dated(decisions, decisions, Event.timestamp)
    <3>1. Len(decisions) \in Nat
      BY <1>3
    <3>2. QED
      BY <3>1 DEF Extends, Dated
  <2>2. base.decisions = decisions /\ base.orders = <<>> /\ DOMAIN base.orders = {}
        /\ base.last_trade_time = settled.last_trade_time
    BY DEF Begun
  <2>3. Tradable(decisions, setup.policy)
    BY <1>2 DEF InSession
  <2> HIDE DEF base, held
  <2>4. QED
    BY <1>1, <2>1, <2>2, <2>3 DEF Sound
<1> HIDE DEF base
<1>6. run \in Asked(setup, values) /\ Sound(run, decisions, Event, held, setup.policy)
  BY <1>1, <1>3, <1>4, <1>5, ConsultedFacts
<1>7. QED
  BY <1>6 DEF base

LEMMA AfterBar ==
  ASSUME PipelineInv, OnBar
  PROVE  PipelineInv'
<1>1. cursor < Len(history) /\ cursor' = cursor + 1 /\ setup' = setup /\ history' = history
  BY DEF OnBar, Handles
<1>2. /\ setup \in Setups /\ cursor + 1 \in 0..Len(history) /\ Event \in Events
      /\ \E k \in DOMAIN setup.slots : Event.timestamp = setup.slots[k].timestamp
      /\ \A i \in DOMAIN portfolio.trade_ledger :
           portfolio.trade_ledger[i].fill.filled_at <= Event.timestamp
      /\ \A k \in DOMAIN history : k > cursor + 1 => Event.timestamp <= history[k].timestamp
      /\ \A k \in DOMAIN history : k > cursor + 1 => k > cursor
      /\ Until(decisions, Event.timestamp)
  BY <1>1, EventFacts
<1>3. /\ HistoryFixed /\ StateTyped /\ DecidedInTime /\ Apart /\ InSession /\ PendingJudged
      /\ FillsDecided /\ PositionsBounded
  BY DEF PipelineInv
<1>4. /\ decisions \in Seq(Decisions(setup)) /\ portfolio \in Portfolios
      /\ pending \in [Symbols -> Seq(Orders(setup))]
      /\ Before.portfolio = portfolio
  BY <1>3 DEF StateTyped, Accounts, Before
<1> DEFINE symbol == Event.symbol
           time == Event.timestamp
           policy == setup.policy
<1>5. /\ symbol \in Symbols /\ time \in Nat /\ Event.close \in Nat \ {0}
      /\ Event.low \in Nat \ {0} /\ Event.high \in Nat \ {0}
  BY <1>2 DEF Events
<1> DEFINE settledAt(p) == Settled(Event, p)
           markedAt(p) == MarkToMarket(settledAt(p).portfolio, symbol, Event.close)
           record == update_online(Specs, Append(online_bars, Event), Event)
           runAt(p) == ConsultAll(Begun(settledAt(p).last_trade_time), record,
                                  markedAt(p).last_snapshot, Event)
<1>6. PICK fillPrice \in {Event.low, Event.high} :
        /\ portfolio' = markedAt(fillPrice)
        /\ memory' = runAt(fillPrice).memory
        /\ last_trade_time' = runAt(fillPrice).last_trade_time
        /\ decisions' = IF runAt(fillPrice).raised THEN decisions ELSE runAt(fillPrice).decisions
        /\ pending' = [pending EXCEPT ![symbol] = IF runAt(fillPrice).raised THEN <<>>
                                                  ELSE runAt(fillPrice).orders]
  BY DEF OnBar, Begun
<1> DEFINE settled == settledAt(fillPrice)
           marked == markedAt(fillPrice)
           run == runAt(fillPrice)
           ledger == portfolio.trade_ledger
           longer == settled.portfolio.trade_ledger
           made == decisions'
<1>7. fillPrice \in Nat \ {0}
  BY <1>5
<1>8. /\ settled \in Accounts(setup)
      /\ \E price \in Nat : Booked(settled, Before, decisions, Event, price, policy)
  BY <1>1, <1>7, BarSettles
<1>9. PICK judged \in Nat : Booked(settled, Before, decisions, Event, judged, policy)
  BY <1>8
<1>10. settled.portfolio \in Portfolios /\ settled.last_trade_time \in Times(setup)
  BY <1>8 DEF Accounts
<1> HIDE DEF settledAt
<1>11. /\ marked \in Portfolios /\ marked.trade_ledger = longer
       /\ marked.processed_fill_ids = settled.portfolio.processed_fill_ids
       /\ \A s \in Symbols :
            /\ marked.positions[s].quantity = settled.portfolio.positions[s].quantity
            /\ marked.last_snapshot.quantity[s] = marked.positions[s].quantity
  <2>1. Event.close \in Int
    BY <1>5
  <2> HIDE DEF symbol
  <2>2. QED
    BY <1>5, <1>10, <2>1, MarkedType
<1>12. marked.last_snapshot \in AccountSnapshot
  <2> HIDE DEF markedAt
  <2>1. QED
    BY <1>11 DEF Portfolios
<1> HIDE DEF markedAt
<1> DEFINE held == marked.last_snapshot.quantity[symbol]
<1>13. /\ \E values : run \in Asked(setup, values)
       /\ Sound(run, decisions, Event, held, policy)
  <2>1. Cool(decisions, settled.last_trade_time, policy)
    BY <1>9 DEF Booked
  <2> HIDE DEF record
  <2>2. QED
    BY <1>1, <1>8, <1>12, <2>1, BarConsults
<1>14. PICK values : run \in Asked(setup, values)
  BY <1>13
<1> HIDE DEF runAt
<1>15. /\ made = IF run.raised THEN decisions ELSE run.decisions
       /\ pending' = [pending EXCEPT ![symbol] = IF run.raised THEN <<>> ELSE run.orders]
       /\ memory' = run.memory /\ last_trade_time' = run.last_trade_time /\ portfolio' = marked
  BY <1>6
<1> HIDE DEF settled, marked, run, made, held
<1>16. /\ run.memory \in [DOMAIN setup.strategies -> [Symbols -> values]]
       /\ run.decisions \in Seq(Decisions(setup)) /\ run.orders \in Seq(Orders(setup))
       /\ run.last_trade_time \in Times(setup)
  BY <1>14 DEF Asked
<1>17. /\ Extends(decisions, run.decisions) /\ Dated(decisions, run.decisions, time)
       /\ Until(run.decisions, time) /\ Cool(run.decisions, run.last_trade_time, policy)
       /\ Tradable(run.decisions, policy)
       /\ \A k \in DOMAIN run.orders : Kept(run.orders[k], run.decisions, Event.close, held, policy)
  BY <1>13 DEF Sound
<1>18. /\ made \in Seq(Decisions(setup)) /\ Extends(decisions, made) /\ Dated(decisions, made, time)
       /\ Until(made, time) /\ Cool(made, run.last_trade_time, policy) /\ Tradable(made, policy)
  <2>1. CASE run.raised
    <3>1. Len(decisions) \in Nat
      BY <1>4
    <3>2. Extends(decisions, decisions) /\ Dated(decisions, decisions, time)
      BY <3>1 DEF Extends, Dated
    <3>3. Cool(decisions, run.last_trade_time, policy)
      BY <1>17, CoolBefore
    <3>4. made = decisions
      BY <1>15, <2>1
    <3>5. Tradable(decisions, policy)
      BY <1>3 DEF InSession
    <3>6. QED
      BY <1>2, <1>4, <3>2, <3>3, <3>4, <3>5
  <2>2. CASE ~run.raised
    BY <1>15, <1>16, <1>17, <2>2
  <2>3. QED
    BY <2>1, <2>2
<1>19. /\ pending' \in [Symbols -> Seq(Orders(setup))]
       /\ \A k \in DOMAIN pending'[symbol] :
            Kept(pending'[symbol][k], made, Event.close, held, policy)
       /\ \A s \in Symbols : s # symbol => pending'[s] = pending[s]
  <2>1. <<>> \in Seq(Orders(setup)) /\ DOMAIN (<<>>) = {}
    OBVIOUS
  <2> DEFINE orders == IF run.raised THEN <<>> ELSE run.orders
  <2>2. orders \in Seq(Orders(setup))
    BY <1>16, <2>1
  <2>3. \A k \in DOMAIN orders : Kept(orders[k], made, Event.close, held, policy)
    BY <1>15, <1>17, <2>1
  <2>4. pending' = [pending EXCEPT ![symbol] = orders]
    BY <1>15
  <2> HIDE DEF orders, symbol
  <2>5. pending'[symbol] = orders
    BY <1>4, <1>5, <2>4
  <2>6. pending' \in [Symbols -> Seq(Orders(setup))]
    BY <1>4, <1>5, <2>2, <2>4
  <2>7. \A s \in Symbols : s # symbol => pending'[s] = pending[s]
    BY <1>4, <1>5, <2>4
  <2>8. QED
    BY <2>3, <2>5, <2>6, <2>7
<1>20. /\ Extends(ledger, longer)
       /\ \A i \in DOMAIN longer :
            /\ longer[i].fill.id \in settled.portfolio.processed_fill_ids
            /\ i > Len(ledger) =>
                 /\ longer[i].fill.symbol = symbol /\ longer[i].fill.filled_at = time
                 /\ longer[i].fill.id \in DOMAIN decisions
                 /\ decisions[longer[i].fill.id].price = judged
       /\ \A s \in Symbols :
            s # symbol => settled.portfolio.positions[s] = portfolio.positions[s]
       /\ WithinLimits(Buys(longer, Len(ledger)), decisions,
                       settled.portfolio.positions[symbol].quantity,
                       portfolio.positions[symbol].quantity, judged, policy)
  BY <1>4, <1>9 DEF Booked
<1>21. ledger \in Seq(Entries) /\ longer \in Seq(Entries)
  BY <1>4, <1>10 DEF Portfolios, Entries
<1>22. \A s \in Symbols :
         portfolio.positions[s].quantity \in Nat /\ settled.portfolio.positions[s].quantity \in Nat
  <2>1. /\ portfolio.positions \in [Symbols -> Position]
        /\ settled.portfolio.positions \in [Symbols -> Position]
    BY <1>4, <1>10 DEF Portfolios
  <2>2. \A p \in Position : p.quantity \in Nat
    BY DEF Position
  <2>3. QED
    BY <2>1, <2>2
<1>23. /\ \A i \in DOMAIN longer : i \in DOMAIN ledger \/ i > Len(ledger)
       /\ \A i \in DOMAIN ledger : i \in DOMAIN longer /\ longer[i] = ledger[i]
  BY SMTT(20), <1>20, <1>21 DEF Extends
<1>24. \A i \in DOMAIN longer :
         longer[i].fill.id \in DOMAIN decisions /\ longer[i].fill.filled_at <= time
  <2>1. \A i \in DOMAIN ledger :
          ledger[i].fill.id \in DOMAIN decisions /\ ledger[i].fill.filled_at <= time
    BY <1>2, <1>3, <1>5 DEF FillsDecided
  <2>2. time <= time
    BY <1>5
  <2> HIDE DEF ledger, longer, settled, time, symbol
  <2>3. \A i \in DOMAIN longer : i > Len(ledger) =>
          longer[i].fill.id \in DOMAIN decisions /\ longer[i].fill.filled_at = time
    BY <1>20
  <2>4. SUFFICES ASSUME NEW i \in DOMAIN longer
                 PROVE  longer[i].fill.id \in DOMAIN decisions /\ longer[i].fill.filled_at <= time
    OBVIOUS
  <2>5. CASE i \in DOMAIN ledger
    BY <1>23, <2>1, <2>5
  <2>6. CASE i > Len(ledger)
    BY <2>2, <2>3, <2>6
  <2>7. QED
    BY <1>23, <2>5, <2>6
<1>25. HistoryFixed'
  BY <1>1, <1>2, <1>3 DEF HistoryFixed
<1>26. StateTyped'
  <2>1. Before' \in Accounts(setup)
    BY <1>11, <1>15, <1>16 DEF Before, Accounts
  <2>2. Accounts(setup') = Accounts(setup) /\ Orders(setup') = Orders(setup)
        /\ Decisions(setup') = Decisions(setup) /\ DOMAIN setup'.strategies = DOMAIN setup.strategies
    BY <1>1
  <2>3. memory' \in [DOMAIN setup.strategies -> [Symbols -> values]]
    BY <1>15, <1>16
  <2>4. QED
    BY <1>18, <1>19, <2>1, <2>2, <2>3 DEF StateTyped, made
<1>27. DecidedInTime'
  <2>1. ASSUME NEW i \in DOMAIN made
        PROVE  \E k \in DOMAIN setup.slots : made[i].request.timestamp = setup.slots[k].timestamp
    <3>1. CASE i \in DOMAIN decisions
      BY <1>3, <1>18, <3>1 DEF DecidedInTime, Extends
    <3>2. CASE i \notin DOMAIN decisions
      BY <1>2, <1>18, <2>1, <3>2 DEF Dated
    <3>3. QED
      BY <3>1, <3>2
  <2>2. ASSUME NEW k \in DOMAIN history, k > cursor + 1
        PROVE  Until(made, history[k].timestamp)
    <3>1. SUFFICES ASSUME NEW i \in DOMAIN made
                   PROVE  made[i].request.timestamp <= history[k].timestamp
      BY DEF Until
    <3>2. made[i].request.timestamp \in Nat
      <4>1. made[i] \in Decisions(setup)
        BY <1>18
      <4>2. QED
        BY <1>2, <4>1, DecisionType
    <3>3. made[i].request.timestamp <= time
      BY <1>18 DEF Until
    <3>4. time <= history[k].timestamp /\ history[k].timestamp \in Nat
      <4>1. PICK shapes \in [DOMAIN setup.slots -> setup.shapes] : history = HistoryOf(setup, shapes)
        BY <1>3 DEF HistoryFixed
      <4>2. history \in Seq(Events)
        BY <1>2, <4>1, HistoryFacts
      <4>3. history[k] \in Events
        BY <4>2
      <4>4. QED
        BY <1>2, <2>2, <4>3 DEF Events
    <3>5. QED
      BY <1>5, <3>2, <3>3, <3>4
  <2>3. QED
    BY <1>1, <2>1, <2>2 DEF DecidedInTime, made
<1>28. Apart' /\ InSession'
  BY <1>1, <1>15, <1>18 DEF Apart, InSession, made
<1>29. PendingJudged'
  <2>1. ASSUME NEW s \in Symbols
        PROVE  \E price \in Nat : \A k \in DOMAIN pending'[s] :
                 Kept(pending'[s][k], made, price, portfolio'.positions[s].quantity, policy)
    <3>1. CASE s = symbol
      <4>1. portfolio'.positions[s].quantity = held
        BY <1>5, <1>11, <1>15, <3>1 DEF held
      <4>2. Event.close \in Nat
        BY <1>5
      <4>3. QED
        BY <1>19, <3>1, <4>1, <4>2
    <3>2. CASE s # symbol
      <4>1. portfolio'.positions[s].quantity = portfolio.positions[s].quantity
        BY <1>11, <1>15, <1>20, <3>2
      <4>2. PICK price \in Nat : \A k \in DOMAIN pending[s] :
              Kept(pending[s][k], decisions, price, portfolio.positions[s].quantity, policy)
        BY <1>3 DEF PendingJudged
      <4>3. \A k \in DOMAIN pending[s] :
              Kept(pending[s][k], made, price, portfolio.positions[s].quantity, policy)
        BY <1>18, <4>2, KeptStays
      <4>4. pending'[s] = pending[s]
        BY <1>19, <3>2
      <4>5. QED
        BY <4>1, <4>3, <4>4
    <3>3. QED
      BY <3>1, <3>2
  <2>2. QED
    BY <1>1, <2>1 DEF PendingJudged, made
<1>30. FillsDecided'
  <2>1. portfolio'.trade_ledger = longer
        /\ portfolio'.processed_fill_ids = settled.portfolio.processed_fill_ids
    BY <1>11, <1>15
  <2>2. \A i \in DOMAIN decisions : i \in DOMAIN made
    BY <1>18 DEF Extends
  <2>3. ASSUME NEW i \in DOMAIN longer, NEW k \in DOMAIN history, k > cursor + 1
        PROVE  longer[i].fill.filled_at <= history[k].timestamp
    <3>1. CASE i \in DOMAIN ledger
      BY <1>2, <1>3, <1>23, <2>3, <3>1 DEF FillsDecided
    <3>2. CASE i > Len(ledger)
      BY <1>2, <1>20, <2>3, <3>2
    <3>3. QED
      BY <1>23, <3>1, <3>2
  <2> HIDE DEF longer
  <2>4. QED
    BY <1>1, <1>20, <1>24, <2>1, <2>2, <2>3 DEF FillsDecided, made
<1>31. PositionsBounded'
  <2>1. ASSUME NEW s \in Symbols
        PROVE  Bounded(longer, made, settled.portfolio.positions[s].quantity, s, policy)
    <3>1. Bounded(ledger, decisions, portfolio.positions[s].quantity, s, policy)
      BY <1>3 DEF PositionsBounded
    <3>2. \A i \in DOMAIN ledger : ledger[i].fill.id \in DOMAIN decisions
      BY <1>23, <1>24
    <3> DEFINE pos == settled.portfolio.positions[s].quantity
               was == portfolio.positions[s].quantity
    <3>3. pos \in Nat /\ was \in Nat
      BY <1>22
    <3> HIDE DEF pos, was, ledger, longer
    <3>4. CASE s = symbol
      <4>1. WithinLimits(Buys(longer, Len(ledger)), decisions, pos, was, judged, policy)
        BY <1>20, <3>4 DEF pos, was
      <4>2. \A i \in DOMAIN longer :
              longer[i].fill.id \in DOMAIN decisions /\ longer[i].fill.filled_at <= time
        BY <1>24
      <4>3. \A i \in DOMAIN longer : i > Len(ledger) =>
              /\ longer[i].fill.symbol = s /\ longer[i].fill.filled_at = time
              /\ decisions[longer[i].fill.id].price = judged
        BY <1>20, <3>4
      <4>4. Bounded(ledger, decisions, was, s, policy)
        BY <3>1 DEF was
      <4> HIDE DEF symbol, time
      <4>5. Bounded(longer, decisions, pos, s, policy)
        BY ZenonT(40), <1>2, <1>4, <1>5, <1>20, <1>21, <3>3, <4>1, <4>2, <4>3, <4>4, BoundAfterBar
      <4>6. /\ Extends(longer, longer) /\ \A i \in DOMAIN longer : ~(i > Len(longer))
            /\ pos <= pos
        BY <1>21, <3>3 DEF Extends
      <4>7. \A i \in DOMAIN longer : i > Len(longer) => longer[i].fill.symbol # s
        BY <4>6
      <4>8. Bounded(longer, made, pos, s, policy)
        BY <1>2, <1>4, <1>18, <1>21, <3>3, <4>2, <4>5, <4>6, <4>7, BoundKept
      <4>9. QED
        BY <4>8 DEF pos
    <3>5. CASE s # symbol
      <4>1. pos = was /\ pos <= was
        BY <1>20, <3>3, <3>5 DEF pos, was
      <4>2. \A i \in DOMAIN longer : i > Len(ledger) => longer[i].fill.symbol # s
        BY <1>20, <3>5
      <4>3. Bounded(ledger, decisions, was, s, policy)
        BY <3>1 DEF was
      <4>4. Bounded(longer, made, pos, s, policy)
        BY <1>2, <1>4, <1>18, <1>20, <1>21, <3>2, <3>3, <4>1, <4>2, <4>3, BoundKept
      <4>5. QED
        BY <4>4 DEF pos
    <3>6. QED
      BY <3>4, <3>5
  <2>2. \A s \in Symbols : portfolio'.positions[s].quantity = settled.portfolio.positions[s].quantity
    BY <1>11, <1>15
  <2>3. portfolio'.trade_ledger = longer
    BY <1>11, <1>15
  <2> HIDE DEF longer
  <2>4. QED
    BY <1>1, <2>1, <2>2, <2>3 DEF PositionsBounded, made
<1>32. QED
  BY <1>25, <1>26, <1>27, <1>28, <1>29, <1>30, <1>31 DEF PipelineInv
-----------------------------------------------------------------------------
(* Init and every step keep the invariant. *)
THEOREM PipelineInvariant == Spec => []PipelineInv
<1>1. Init => PipelineInv
  BY PipelineInit
<1>2. PipelineInv /\ [Next]_vars => PipelineInv'
  <2>1. SUFFICES ASSUME PipelineInv, [Next]_vars
                 PROVE  PipelineInv'
    OBVIOUS
  <2>2. CASE OnBar
    BY <2>1, <2>2, AfterBar
  <2>3. CASE OnQuote
    BY <2>1, <2>3, AfterQuote
  <2>4. CASE UNCHANGED vars
    BY <2>1, <2>4
       DEF vars, PipelineInv, HistoryFixed, StateTyped, Before, DecidedInTime, Apart, InSession,
           PendingJudged, FillsDecided, PositionsBounded
  <2>5. QED
    BY <2>1, <2>2, <2>3, <2>4 DEF Next
<1>3. QED
  BY <1>1, <1>2, PTL DEF Spec

(* Two accepted decisions of one strategy on one symbol are a cooldown apart:
   several answers to one bar, several strategies, exceptions between them and
   fills of other orders make no difference. *)
THEOREM DecisionsApart == Spec => []CooldownKept
<1>1. PipelineInv => CooldownKept
  <2>1. SUFFICES ASSUME PipelineInv, NEW i \in Accepted, NEW j \in Accepted, i < j,
                        decisions[i].request.strategy_id = decisions[j].request.strategy_id,
                        decisions[i].request.symbol = decisions[j].request.symbol
                 PROVE  decisions[j].request.timestamp - decisions[i].request.timestamp
                          >= setup.policy.cooldown
    BY DEF CooldownKept
  <2>2. Cool(decisions, last_trade_time, setup.policy)
    BY <2>1 DEF PipelineInv, Apart
  <2>3. /\ i \in DOMAIN decisions /\ j \in DOMAIN decisions
        /\ decisions[i].approved # {} /\ decisions[j].approved # {}
    BY DEF Accepted
  <2>4. KeyOf(decisions[i]) = KeyOf(decisions[j])
    BY <2>1 DEF KeyOf
  <2>5. QED
    BY <2>1, <2>2, <2>3, <2>4 DEF Cool
<1>2. QED
  BY <1>1, PipelineInvariant, PTL

(* An intent is accepted only at a time the session service calls tradable. *)
THEOREM AcceptedWhileTradable == Spec => []InSession
<1>1. PipelineInv => InSession
  BY DEF PipelineInv
<1>2. QED
  BY <1>1, PipelineInvariant, PTL

(* The session service is right about the times of the events. *)
HoursAreOpen ==
  \A config \in Setups : config.policy.session_rules_enabled =>
    \A k \in DOMAIN config.slots :
      LET time == config.slots[k].timestamp
      IN  is_tradable(time, config.policy.market_session) =>
            \E hours \in OpenHours : hours[1] <= time /\ time < hours[2]

(* Where it is, nothing is accepted while the exchange is closed: what a request
   is judged at is the time of the event it answers. *)
THEOREM DecisionsInSession ==
  ASSUME HoursAreOpen
  PROVE  Spec => []AcceptedInSession
<1>1. PipelineInv => AcceptedInSession
  <2>1. SUFFICES ASSUME PipelineInv, NEW i \in Accepted, setup.policy.session_rules_enabled
                 PROVE  \E hours \in OpenHours :
                          /\ hours[1] <= decisions[i].request.timestamp
                          /\ decisions[i].request.timestamp < hours[2]
    BY DEF AcceptedInSession
  <2>2. i \in DOMAIN decisions /\ decisions[i].approved # {}
    BY DEF Accepted
  <2>3. is_tradable(decisions[i].request.timestamp, setup.policy.market_session)
    BY <2>1, <2>2 DEF PipelineInv, InSession, Tradable
  <2>4. PICK k \in DOMAIN setup.slots : decisions[i].request.timestamp = setup.slots[k].timestamp
    BY <2>1, <2>2 DEF PipelineInv, DecidedInTime
  <2>5. setup \in Setups
    BY <2>1 DEF PipelineInv, HistoryFixed
  <2>6. QED
    BY <2>1, <2>3, <2>4, <2>5 DEF HoursAreOpen
<1>2. QED
  BY <1>1, PipelineInvariant, PTL

(* The position the fills of a bar leave is within as many limits as there were
   buys among them, at the lowest price a buy was judged at. *)
THEOREM PositionsLimited == Spec => []PositionsStayLimited
<1>1. PipelineInv => PositionsStayLimited
  <2>1. SUFFICES ASSUME PipelineInv, NEW symbol \in Symbols,
                        \E entry \in Range(portfolio.trade_ledger) : entry.fill.symbol = symbol
                 PROVE  LET buys  == {fill \in LastFills(symbol) : fill.side = "BUY"}
                            price == Min({decisions[fill.id].price : fill \in buys})
                        IN  \A limit \in setup.policy.max_position_notional :
                              buys # {} /\ (\A fill \in buys :
                                              \A intent \in decisions[fill.id].approved :
                                                intent.quantity # {})
                                => portfolio.positions[symbol].quantity * price
                                     <= Cardinality(buys) * limit
    BY DEF PositionsStayLimited
  <2> DEFINE ledger == portfolio.trade_ledger
             buys == LastBuys(ledger, symbol)
  <2>2. {fill \in LastFills(symbol) : fill.side = "BUY"} = buys
    BY DEF LastFills, LastBuys, LastTime, Own
  <2>3. Own(ledger, symbol) # {}
    BY <2>1 DEF Own, Range
  <2>4. Bounded(ledger, decisions, portfolio.positions[symbol].quantity, symbol, setup.policy)
    BY <2>1 DEF PipelineInv, PositionsBounded
  <2> HIDE DEF ledger
  <2>5. ASSUME NEW limit \in setup.policy.max_position_notional, buys # {},
               \A fill \in buys : \A intent \in decisions[fill.id].approved : intent.quantity # {}
        PROVE  portfolio.positions[symbol].quantity * JudgedAt(buys, decisions)
                 <= Cardinality(buys) * limit
    <3>1. ~HasUnsized(buys, decisions)
      BY <2>5 DEF HasUnsized
    <3>2. QED
      BY <2>3, <2>4, <2>5, <3>1 DEF Bounded
  <2> HIDE DEF buys
  <2>6. QED
    BY <2>2, <2>5 DEF JudgedAt
<1>2. QED
  BY <1>1, PipelineInvariant, PTL
-----------------------------------------------------------------------------
(* The sequence of what rows holds at some of its places, in their order: at
   numbers the places. *)
Numbers(at, n, places) ==
  /\ n \in Nat /\ at \in [1..n -> places]
  /\ \A k, l \in 1..n : k < l => at[k] < at[l]
  /\ \A i \in places : \E k \in 1..n : at[k] = i

Lists(q, rows, places) ==
  \E n : \E at : Numbers(at, n, places) /\ q = [k \in 1..n |-> rows[at[k]]]

LEMMA WhereLists ==
  ASSUME NEW rows, NEW places, places \subseteq Int, IsFiniteSet(places)
  PROVE  Lists(Where(rows, places), rows, places)
<1> DEFINE picked == [i \in places |-> rows[i]]
           key == [i \in places |-> <<i, 0>>]
<1>1. key \in [places -> Int \X Int] /\ DOMAIN picked = places
  OBVIOUS
<1>2. \A i, j \in places : key[i] = key[j] => i = j
  OBVIOUS
<1>3. \A i, j \in places : Precedes(key[i], key[j]) => i < j
  BY DEF Precedes
<1>4. Where(rows, places) = SortedBy(picked, key)
  BY DEF Where
<1> HIDE DEF key
<1>5. PICK n \in Nat : \E at \in [1..n -> places] :
        /\ n = Cardinality(places)
        /\ SortedBy(picked, key) = [k \in 1..n |-> picked[at[k]]]
        /\ \A k, l \in 1..n : k < l => Precedes(key[at[k]], key[at[l]])
        /\ \A i \in places : \E k \in 1..n : at[k] = i
  <2>1. IsFiniteSet(DOMAIN picked) /\ key \in [DOMAIN picked -> Int \X Int]
    BY <1>1
  <2>2. \A i, j \in DOMAIN picked : key[i] = key[j] => i = j
    BY <1>1, <1>2
  <2> HIDE DEF picked
  <2>3. \E n \in Nat : \E at \in [1..n -> DOMAIN picked] :
          /\ n = Cardinality(DOMAIN picked)
          /\ SortedBy(picked, key) = [k \in 1..n |-> picked[at[k]]]
          /\ \A k, l \in 1..n : k < l => Precedes(key[at[k]], key[at[l]])
          /\ \A i \in DOMAIN picked : \E k \in 1..n : at[k] = i
    BY SMTT(20), ZenonT(40), <2>1, <2>2, SortedByFacts
  <2>4. QED
    BY <1>1, <2>3
<1>6. PICK at \in [1..n -> places] :
        /\ SortedBy(picked, key) = [k \in 1..n |-> picked[at[k]]]
        /\ \A k, l \in 1..n : k < l => Precedes(key[at[k]], key[at[l]])
        /\ \A i \in places : \E k \in 1..n : at[k] = i
  BY <1>5
<1>7. Where(rows, places) = [k \in 1..n |-> rows[at[k]]]
  BY <1>4, <1>6
<1>8. Numbers(at, n, places)
  BY <1>3, <1>5, <1>6 DEF Numbers
<1>9. QED
  BY <1>7, <1>8 DEF Lists

(* Two numberings of the same places agree as far as the first goes. *)
LEMMA SameNumbers ==
  ASSUME NEW places, places \subseteq Int, NEW n, NEW m, NEW at, NEW bt,
         Numbers(at, n, places), Numbers(bt, m, places), NEW k \in 1..n
  PROVE  k \in 1..m /\ bt[k] = at[k]
<1> DEFINE Wrong == {l \in 1..n : ~(l \in 1..m /\ bt[l] = at[l])}
<1>1. n \in Nat /\ m \in Nat
  BY DEF Numbers
<1>2. SUFFICES ASSUME Wrong # {}
               PROVE  FALSE
  BY <1>2
<1>3. PICK w \in Wrong : \A l \in Wrong : ~(l < w)
  <2>1. Wrong \subseteq Nat
    BY <1>1
  <2> HIDE DEF Wrong
  <2>2. QED
    BY <1>2, <2>1, LeastElement
<1>4. w \in 1..n /\ \A l \in 1..n : l < w => l \in 1..m /\ bt[l] = at[l]
  BY <1>3
<1>5. PICK l \in 1..m : bt[l] = at[w]
  BY <1>4 DEF Numbers
<1>6. ~(l < w)
  <2>1. SUFFICES ASSUME l < w
                 PROVE  FALSE
    OBVIOUS
  <2>2. l \in 1..n
    BY <1>1, <1>4, <1>5, <2>1
  <2>3. at[l] = at[w] /\ at[l] < at[w]
    BY <1>4, <1>5, <2>1, <2>2 DEF Numbers
  <2>4. at[w] \in Int
    BY <1>4 DEF Numbers
  <2>5. QED
    BY <2>3, <2>4
<1>7. w \in 1..m
  BY <1>1, <1>4, <1>5, <1>6
<1>8. PICK j \in 1..n : at[j] = bt[w]
  BY <1>7 DEF Numbers
<1>9. ~(j < w)
  <2>1. SUFFICES ASSUME j < w
                 PROVE  FALSE
    OBVIOUS
  <2>2. j \in 1..m /\ bt[j] = at[j]
    BY <1>4, <1>8, <2>1
  <2>3. bt[j] < bt[w]
    BY <1>7, <2>1, <2>2 DEF Numbers
  <2>4. bt[w] \in Int
    BY <1>7 DEF Numbers
  <2>5. QED
    BY <1>8, <2>2, <2>3, <2>4
<1>10. at[w] \in Int /\ bt[w] \in Int
  BY <1>4, <1>7 DEF Numbers
<1>11. at[w] <= at[j]
  <2>1. w = j \/ w < j
    BY <1>4, <1>8, <1>9
  <2>2. CASE w = j
    BY <1>10, <2>2
  <2>3. CASE w < j
    <3>1. at[w] < at[j] /\ at[j] \in Int
      BY <1>4, <1>8, <2>3 DEF Numbers
    <3>2. QED
      BY <1>10, <3>1
  <2>4. QED
    BY <2>1, <2>2, <2>3
<1>12. bt[w] <= bt[l]
  <2>1. w = l \/ w < l
    BY <1>4, <1>5, <1>6
  <2>2. CASE w = l
    BY <1>10, <2>2
  <2>3. CASE w < l
    <3>1. bt[w] < bt[l] /\ bt[l] \in Int
      BY <1>5, <1>7, <2>3 DEF Numbers
    <3>2. QED
      BY <1>10, <3>1
  <2>4. QED
    BY <2>1, <2>2, <2>3
<1>13. bt[w] = at[w]
  BY <1>5, <1>8, <1>10, <1>11, <1>12
<1>14. QED
  BY <1>3, <1>7, <1>13

(* There is one such list. *)
LEMMA ListedOnce ==
  ASSUME NEW rows, NEW places, places \subseteq Int, NEW q, NEW r,
         Lists(q, rows, places), Lists(r, rows, places)
  PROVE  q = r
<1>1. PICK n, at : Numbers(at, n, places) /\ q = [k \in 1..n |-> rows[at[k]]]
  BY DEF Lists
<1>2. PICK m, bt : Numbers(bt, m, places) /\ r = [k \in 1..m |-> rows[bt[k]]]
  BY DEF Lists
<1>3. \A k \in 1..n : k \in 1..m /\ bt[k] = at[k]
  BY <1>1, <1>2, SameNumbers
<1>4. \A k \in 1..m : k \in 1..n /\ at[k] = bt[k]
  BY <1>1, <1>2, SameNumbers
<1>5. n = m
  <2>1. n \in Nat /\ m \in Nat
    BY <1>1, <1>2 DEF Numbers
  <2>2. n <= m
    BY <1>3, <2>1
  <2>3. m <= n
    BY <1>4, <2>1
  <2>4. QED
    BY <2>1, <2>2, <2>3
<1>6. QED
  BY <1>1, <1>2, <1>3, <1>5

LEMMA ListFacts ==
  ASSUME NEW rows, NEW places, NEW q, Lists(q, rows, places)
  PROVE  /\ Len(q) \in Nat /\ DOMAIN q = 1..Len(q) /\ q = [k \in 1..Len(q) |-> q[k]]
         /\ \E at : Numbers(at, Len(q), places) /\ \A k \in 1..Len(q) : q[k] = rows[at[k]]
<1>1. PICK n, at : Numbers(at, n, places) /\ q = [k \in 1..n |-> rows[at[k]]]
  BY DEF Lists
<1>2. n \in Nat
  BY <1>1 DEF Numbers
<1>3. Len(q) = n
  BY <1>1, <1>2
<1>4. QED
  BY <1>1, <1>2, <1>3

LEMMA ListOf ==
  ASSUME NEW rows, NEW places, NEW n, NEW at, NEW q,
         Numbers(at, n, places), q = [k \in 1..n |-> rows[at[k]]]
  PROVE  Lists(q, rows, places)
BY DEF Lists

(* Some of a list's rows are listed in the same order. *)
LEMMA WhereOfList ==
  ASSUME NEW rows, NEW places, NEW q, NEW n, NEW at, NEW K, NEW chosen, places \subseteq Int,
         Numbers(at, n, places), \A k \in 1..n : q[k] = rows[at[k]], K \subseteq 1..n,
         \A k \in K : at[k] \in chosen, \A i \in chosen : \E k \in K : at[k] = i
  PROVE  Lists(Where(q, K), rows, chosen)
<1>1. n \in Nat /\ K \subseteq Int /\ IsFiniteSet(K)
  <2>1. n \in Nat
    BY DEF Numbers
  <2>2. IsFiniteSet(1..n)
    BY <2>1, FS_Interval
  <2>3. IsFiniteSet(K)
    BY <2>2, FS_Subset
  <2>4. QED
    BY <2>1, <2>3
<1>2. PICK m, bt : Numbers(bt, m, K) /\ Where(q, K) = [k \in 1..m |-> q[bt[k]]]
  <2>1. Lists(Where(q, K), q, K)
    BY <1>1, WhereLists
  <2>2. QED
    BY <2>1 DEF Lists
<1> DEFINE ct == [k \in 1..m |-> at[bt[k]]]
<1>3. m \in Nat /\ \A k \in 1..m : bt[k] \in K /\ bt[k] \in 1..n
  BY <1>2 DEF Numbers
<1>4. Where(q, K) = [k \in 1..m |-> rows[ct[k]]]
  BY <1>2, <1>3
<1>5. ct \in [1..m -> chosen]
  BY <1>3
<1>6. \A k, l \in 1..m : k < l => ct[k] < ct[l]
  <2>1. SUFFICES ASSUME NEW k \in 1..m, NEW l \in 1..m, k < l
                 PROVE  at[bt[k]] < at[bt[l]]
    OBVIOUS
  <2>2. bt[k] < bt[l]
    BY <1>2, <2>1 DEF Numbers
  <2>3. QED
    BY <1>3, <2>2 DEF Numbers
<1>7. \A i \in chosen : \E l \in 1..m : ct[l] = i
  <2>1. TAKE i \in chosen
  <2>2. PICK k \in K : i = at[k]
    OBVIOUS
  <2>3. PICK l \in 1..m : bt[l] = k
    BY <1>2 DEF Numbers
  <2>4. QED
    BY <2>2, <2>3
<1>8. Numbers(ct, m, chosen)
  <2> HIDE DEF ct
  <2>1. QED
    BY <1>3, <1>5, <1>6, <1>7 DEF Numbers
<1> HIDE DEF ct
<1>9. QED
  BY <1>4, <1>8, ListOf

(* The bars of a symbol, and those up to a time. *)
OfSymbol(rows, places, symbol) == {i \in places : rows[i].symbol = symbol}

NotAfter(rows, places, end) == {i \in places : \A t \in end : rows[i].timestamp <= t}

LEMMA BarsOfList ==
  ASSUME NEW rows, NEW places, NEW q, NEW symbol, places \subseteq Int, Lists(q, rows, places)
  PROVE  Lists(BarsOf(q, symbol), rows, OfSymbol(rows, places, symbol))
<1>1. PICK n, at : Numbers(at, n, places) /\ q = [k \in 1..n |-> rows[at[k]]]
  BY DEF Lists
<1> DEFINE K == {k \in DOMAIN q : q[k].symbol = symbol}
<1>2. K \subseteq 1..n
  BY <1>1
<1> DEFINE chosen == {i \in places : rows[i].symbol = symbol}
<1>3. (\A k \in K : at[k] \in chosen) /\ \A i \in chosen : \E k \in K : at[k] = i
  <2>1. \A k \in 1..n : at[k] \in places
    BY <1>1 DEF Numbers
  <2>2. \A i \in places : \E k \in 1..n : at[k] = i
    BY <1>1 DEF Numbers
  <2>3. QED
    BY <1>1, <2>1, <2>2
<1>4. Lists(Where(q, K), rows, chosen)
  <2>1. Numbers(at, n, places) /\ \A k \in 1..n : q[k] = rows[at[k]]
    BY <1>1
  <2>2. \A J, some : /\ J \subseteq 1..n /\ \A k \in J : at[k] \in some
                     /\ \A i \in some : \E k \in J : at[k] = i
                     => Lists(Where(q, J), rows, some)
    BY <2>1, WhereOfList
  <2> HIDE DEF K, chosen
  <2>3. QED
    BY <1>2, <1>3, <2>2
<1>5. QED
  BY <1>4 DEF BarsOf, OfSymbol

LEMMA UpToList ==
  ASSUME NEW rows, NEW places, NEW q, NEW end, places \subseteq Int, Lists(q, rows, places)
  PROVE  Lists(UpTo(q, end), rows, NotAfter(rows, places, end))
<1>1. PICK n, at : Numbers(at, n, places) /\ q = [k \in 1..n |-> rows[at[k]]]
  BY DEF Lists
<1> DEFINE K == {k \in DOMAIN q : \A t \in end : q[k].timestamp <= t}
<1>2. K \subseteq 1..n
  BY <1>1
<1> DEFINE chosen == {i \in places : \A t \in end : rows[i].timestamp <= t}
<1>3. (\A k \in K : at[k] \in chosen) /\ \A i \in chosen : \E k \in K : at[k] = i
  <2>1. \A k \in 1..n : at[k] \in places
    BY <1>1 DEF Numbers
  <2>2. \A i \in places : \E k \in 1..n : at[k] = i
    BY <1>1 DEF Numbers
  <2>3. QED
    BY <1>1, <2>1, <2>2
<1>4. Lists(Where(q, K), rows, chosen)
  <2>1. Numbers(at, n, places) /\ \A k \in 1..n : q[k] = rows[at[k]]
    BY <1>1
  <2>2. \A J, some : /\ J \subseteq 1..n /\ \A k \in J : at[k] \in some
                     /\ \A i \in some : \E k \in J : at[k] = i
                     => Lists(Where(q, J), rows, some)
    BY <2>1, WhereOfList
  <2> HIDE DEF K, chosen
  <2>3. QED
    BY <1>2, <1>3, <2>2
<1>5. QED
  BY <1>4 DEF UpTo, NotAfter

(* One more row, after all others. *)
LEMMA AppendToList ==
  ASSUME NEW rows, NEW places, NEW q, NEW c \in Int, places \subseteq Int,
         Lists(q, rows, places), \A i \in places : i < c
  PROVE  Lists(Append(q, rows[c]), rows, places \cup {c})
<1>1. PICK n, at : Numbers(at, n, places) /\ q = [k \in 1..n |-> rows[at[k]]]
  BY DEF Lists
<1>2. n \in Nat /\ Len(q) = n
  BY <1>1 DEF Numbers
<1> DEFINE bt == [k \in 1..(n + 1) |-> IF k = n + 1 THEN c ELSE at[k]]
<1>3. Append(q, rows[c]) = [k \in 1..(n + 1) |-> rows[bt[k]]]
  <2>1. Append(q, rows[c]) = [k \in 1..(n + 1) |-> IF k = n + 1 THEN rows[c] ELSE q[k]]
    BY <1>1, <1>2
  <2>2. QED
    BY <1>1, <1>2, <2>1
<1>4. \A k \in 1..n : at[k] \in places /\ at[k] < c
  BY <1>1 DEF Numbers
<1>5. \A k, l \in 1..n : k < l => at[k] < at[l]
  BY <1>1 DEF Numbers
<1>6. \A i \in places : \E k \in 1..n : at[k] = i
  BY <1>1 DEF Numbers
<1>7. Numbers(bt, n + 1, places \cup {c})
  <2>1. bt \in [1..(n + 1) -> places \cup {c}]
    BY <1>2, <1>4
  <2>2. \A k, l \in 1..(n + 1) : k < l => bt[k] < bt[l]
    BY <1>2, <1>4, <1>5
  <2>3. \A i \in places \cup {c} : \E k \in 1..(n + 1) : bt[k] = i
    <3>1. bt[n + 1] = c /\ n + 1 \in 1..(n + 1)
      BY <1>2
    <3>2. \A k \in 1..n : k \in 1..(n + 1) /\ bt[k] = at[k]
      BY <1>2
    <3> HIDE DEF bt
    <3>3. QED
      BY <1>6, <3>1, <3>2
  <2>4. n + 1 \in Nat
    BY <1>2
  <2> HIDE DEF bt
  <2>5. QED
    BY <2>1, <2>2, <2>3, <2>4 DEF Numbers
<1> HIDE DEF bt
<1>8. QED
  BY <1>3, <1>7, ListOf

(* All rows but one. *)
LEMMA DropFromList ==
  ASSUME NEW rows, NEW places, NEW q, NEW n, NEW at, places \subseteq Int, NEW d \in 1..n,
         Numbers(at, n, places), q = [k \in 1..n |-> rows[at[k]]]
  PROVE  Lists(SubSeq(q, 1, d - 1) \o SubSeq(q, d + 1, Len(q)), rows, places \ {at[d]})
<1> DEFINE bt == [k \in 1..(n - 1) |-> IF k < d THEN at[k] ELSE at[k + 1]]
           r == SubSeq(q, 1, d - 1) \o SubSeq(q, d + 1, Len(q))
<1>1. n \in Nat /\ n - 1 \in Nat /\ d \in Nat
  BY DEF Numbers
<1>2. Len(q) = n /\ DOMAIN q = 1..n /\ \A k \in 1..n : q[k] = rows[at[k]]
  BY <1>1
<1>3. r = [k \in 1..(n - 1) |-> rows[bt[k]]]
  <2>1. /\ SubSeq(q, 1, d - 1) = [k \in 1..(d - 1) |-> q[k]]
        /\ SubSeq(q, d + 1, n) = [k \in 1..(n - d) |-> q[d + k]]
    BY <1>1, <1>2
  <2>2. Len(SubSeq(q, 1, d - 1)) = d - 1 /\ Len(SubSeq(q, d + 1, n)) = n - d
    BY <1>1, <2>1
  <2>3. r = [k \in 1..((d - 1) + (n - d)) |-> IF k <= d - 1 THEN SubSeq(q, 1, d - 1)[k]
                                             ELSE SubSeq(q, d + 1, n)[k - (d - 1)]]
    <3> DEFINE a == SubSeq(q, 1, d - 1)
               b == SubSeq(q, d + 1, n)
               S == {q[k] : k \in 1..n}
    <3>1. r = a \o b /\ Len(a) = d - 1 /\ Len(b) = n - d
      BY <1>2, <2>2
    <3>2. a \in Seq(S) /\ b \in Seq(S)
      <4>1. a \in [1..(d - 1) -> S] /\ b \in [1..(n - d) -> S]
        <5>1. \A k \in 1..(d - 1) : k \in 1..n
          BY <1>1
        <5>2. \A k \in 1..(n - d) : d + k \in 1..n
          BY <1>1
        <5>3. QED
          BY ZenonT(40), <2>1, <5>1, <5>2
      <4>2. d - 1 \in Nat /\ n - d \in Nat
        BY <1>1
      <4> HIDE DEF a, b, S
      <4>3. QED
        BY SMTT(20), <4>1, <4>2
    <3> HIDE DEF a, b, r, S
    <3>3. a \o b = [k \in 1..(Len(a) + Len(b)) |-> IF k <= Len(a) THEN a[k] ELSE b[k - Len(a)]]
      <4>1. /\ a \o b \in Seq(S) /\ Len(a \o b) = Len(a) + Len(b)
            /\ \A k \in 1..(Len(a) + Len(b)) :
                 (a \o b)[k] = IF k <= Len(a) THEN a[k] ELSE b[k - Len(a)]
        BY <3>2, ConcatProperties
      <4> DEFINE c == a \o b
      <4>2. c = [k \in 1..Len(c) |-> c[k]]
        <5>1. c \in Seq(S)
          BY <4>1
        <5> HIDE DEF c
        <5>2. QED
          BY <5>1
      <4>3. QED
        BY <4>1, <4>2
    <3>4. QED
      BY <3>1, <3>3 DEF a, b
  <2>4. (d - 1) + (n - d) = n - 1
    BY <1>1
  <2>5. \A k \in 1..(n - 1) : k <= d - 1 => SubSeq(q, 1, d - 1)[k] = rows[bt[k]]
    BY <1>1, <1>2, <2>1
  <2>6. \A k \in 1..(n - 1) : ~(k <= d - 1) => SubSeq(q, d + 1, n)[k - (d - 1)] = rows[bt[k]]
    BY <1>1, <1>2, <2>1
  <2> HIDE DEF bt, r
  <2>7. QED
    BY <2>3, <2>4, <2>5, <2>6
<1>4. /\ \A k \in 1..n : at[k] \in places
      /\ \A k, l \in 1..n : k < l => at[k] < at[l]
      /\ \A i \in places : \E k \in 1..n : at[k] = i
  BY DEF Numbers
<1>5. bt \in [1..(n - 1) -> places \ {at[d]}]
  <2>1. \A k \in 1..(n - 1) : k < d => k \in 1..n /\ bt[k] = at[k] /\ at[k] < at[d]
    BY <1>1, <1>4
  <2>2. \A k \in 1..(n - 1) : ~(k < d) => k + 1 \in 1..n /\ bt[k] = at[k + 1] /\ at[d] < at[k + 1]
    BY <1>1, <1>4
  <2>3. \A k \in 1..(n - 1) : bt[k] \in places /\ bt[k] # at[d]
    <3>1. \A k \in 1..n : at[k] \in Int
      BY <1>4
    <3> HIDE DEF bt
    <3>2. QED
      BY <1>4, <2>1, <2>2, <3>1
  <2>4. QED
    BY <2>3
<1>6. \A k, l \in 1..(n - 1) : k < l => bt[k] < bt[l]
  BY <1>1, <1>4
<1>7. \A i \in places \ {at[d]} : \E k \in 1..(n - 1) : bt[k] = i
  <2>1. SUFFICES ASSUME NEW i \in places, i # at[d]
                 PROVE  \E k \in 1..(n - 1) : bt[k] = i
    OBVIOUS
  <2>2. PICK l \in 1..n : at[l] = i
    BY <1>4
  <2>3. CASE l < d
    <3>1. l \in 1..(n - 1) /\ bt[l] = i
      BY <1>1, <2>2, <2>3
    <3>2. QED
      BY <3>1
  <2>4. CASE ~(l < d)
    <3>1. l # d
      BY <2>1, <2>2
    <3>2. l - 1 \in 1..(n - 1) /\ ~(l - 1 < d) /\ (l - 1) + 1 = l
      BY <1>1, <2>4, <3>1
    <3>3. bt[l - 1] = i
      BY <2>2, <3>2
    <3>4. QED
      BY <3>2, <3>3
  <2>5. QED
    BY <2>3, <2>4
<1>8. Numbers(bt, n - 1, places \ {at[d]})
  <2> HIDE DEF bt
  <2>1. QED
    BY <1>1, <1>5, <1>6, <1>7 DEF Numbers
<1> HIDE DEF bt, r
<1>9. Lists(r, rows, places \ {at[d]})
  BY <1>3, <1>8, ListOf
<1>10. QED
  BY <1>9 DEF r

(* p is the end of q. *)
EndOf(p, q) ==
  /\ Len(p) \in Nat /\ p = [k \in 1..Len(p) |-> p[k]]
  /\ Len(q) \in Nat /\ q = [k \in 1..Len(q) |-> q[k]]
  /\ Len(p) <= Len(q)
  /\ \A k \in 1..Len(p) : p[k] = q[Len(q) - Len(p) + k]

LEMMA EndIsSuffix ==
  ASSUME NEW p, NEW q, EndOf(p, q)
  PROVE  IsSuffix(p, q)
<1> DEFINE m == Len(p)
           n == Len(q)
<1>1. m \in Nat /\ n \in Nat /\ m <= n /\ \A k \in 1..m : p[k] = q[n - m + k]
  BY DEF EndOf
<1>2. Reverse(p) = [i \in 1..m |-> p[(m - i) + 1]] /\ Reverse(q) = [i \in 1..n |-> q[(n - i) + 1]]
  BY DEF Reverse
<1>3. Len(Reverse(p)) = m /\ Len(Reverse(q)) = n
  BY <1>1, <1>2
<1>4. \A i \in 1..m : Reverse(p)[i] = Reverse(q)[i]
  <2>1. TAKE i \in 1..m
  <2>2. (m - i) + 1 \in 1..m /\ i \in 1..n /\ n - m + ((m - i) + 1) = (n - i) + 1
    BY <1>1
  <2>3. p[(m - i) + 1] = q[n - m + ((m - i) + 1)]
    BY <1>1, <2>2
  <2> HIDE DEF m, n
  <2>4. QED
    BY <1>2, <2>2, <2>3
<1>5. /\ SubSeq(Reverse(p), 1, m) = [i \in 1..m |-> Reverse(p)[i]]
      /\ SubSeq(Reverse(q), 1, m) = [i \in 1..m |-> Reverse(q)[i]]
  <2> HIDE DEF m, n
  <2>1. QED
    BY <1>1
<1>6. QED
  <2>1. SubSeq(Reverse(p), 1, m) = SubSeq(Reverse(q), 1, m)
    <3> HIDE DEF m, n
    <3>1. QED
      BY <1>4, <1>5
  <2>2. QED
    BY <1>1, <1>3, <2>1 DEF IsSuffix, IsPrefix

(* What lies at the last of the places is the end of the list. *)
LEMMA LastPlaces ==
  ASSUME NEW rows, NEW places, NEW q, NEW last, NEW p, places \subseteq Int, last \subseteq places,
         Lists(q, rows, places), Lists(p, rows, last),
         \A i \in last, j \in places : i < j => j \in last
  PROVE  EndOf(p, q)
<1>1. PICK n, at : Numbers(at, n, places) /\ q = [k \in 1..n |-> rows[at[k]]]
  BY DEF Lists
<1>2. PICK m, bt : Numbers(bt, m, last) /\ p = [k \in 1..m |-> rows[bt[k]]]
  BY DEF Lists
<1>3. /\ n \in Nat /\ m \in Nat /\ Len(q) = n /\ Len(p) = m
      /\ q = [k \in 1..n |-> q[k]] /\ p = [k \in 1..m |-> p[k]]
  BY <1>1, <1>2 DEF Numbers
<1>4. CASE m = 0
  BY <1>3, <1>4 DEF EndOf
<1>5. CASE m # 0
  <2>1. 1 \in 1..m /\ bt[1] \in last /\ bt[1] \in places
    <3>1. 1 \in 1..m
      BY <1>3, <1>5
    <3>2. QED
      BY <1>2, <3>1 DEF Numbers
  <2>2. PICK f \in 1..n : at[f] = bt[1]
    BY <1>1, <2>1 DEF Numbers
  <2>3. \A i \in last : bt[1] <= i
    <3>1. TAKE i \in last
    <3>2. PICK k \in 1..m : bt[k] = i
      BY <1>2 DEF Numbers
    <3>3. k = 1 \/ 1 < k
      BY <1>3
    <3>4. bt[1] \in Int /\ i \in Int
      BY <2>1
    <3>5. 1 < k => bt[1] < bt[k]
      BY <1>2, <2>1 DEF Numbers
    <3>6. QED
      BY <3>2, <3>3, <3>4, <3>5
  <2> DEFINE l == n - f + 1
             ct == [k \in 1..l |-> at[f - 1 + k]]
  <2>4. l \in Nat /\ f \in Nat /\ f >= 1 /\ f <= n
    BY <1>3
  <2>5. \A k \in 1..l : f - 1 + k \in 1..n /\ (k = 1 \/ f < f - 1 + k)
    BY <1>3, <2>4
  <2>6. /\ \A k \in 1..n : at[k] \in places
        /\ \A j, k \in 1..n : j < k => at[j] < at[k]
        /\ \A i \in places : \E k \in 1..n : at[k] = i
    BY <1>1 DEF Numbers
  <2>7. ct \in [1..l -> last]
    <3>1. \A k \in 1..l : at[f - 1 + k] \in last
      <4>1. TAKE k \in 1..l
      <4>2. CASE k = 1
        BY <2>1, <2>2, <2>4, <4>2
      <4>3. CASE k # 1
        <5>1. f - 1 + k \in 1..n /\ f < f - 1 + k
          BY <2>5, <4>3
        <5>2. at[f] < at[f - 1 + k] /\ at[f - 1 + k] \in places
          BY <2>6, <5>1
        <5>3. QED
          BY <2>1, <2>2, <5>2
      <4>4. QED
        BY <4>2, <4>3
    <3>2. QED
      BY <3>1
  <2>8. \A j, k \in 1..l : j < k => ct[j] < ct[k]
    <3>1. SUFFICES ASSUME NEW j \in 1..l, NEW k \in 1..l, j < k
                   PROVE  at[f - 1 + j] < at[f - 1 + k]
      OBVIOUS
    <3>2. f - 1 + j \in 1..n /\ f - 1 + k \in 1..n /\ f - 1 + j < f - 1 + k
      BY <2>4, <2>5, <3>1
    <3>3. QED
      BY <2>6, <3>2
  <2>9. \A i \in last : \E k \in 1..l : ct[k] = i
    <3>1. TAKE i \in last
    <3>2. PICK k \in 1..n : at[k] = i
      BY <2>6
    <3>3. ~(k < f)
      <4>1. SUFFICES ASSUME k < f
                     PROVE  FALSE
        OBVIOUS
      <4>2. at[k] < at[f] /\ at[f] <= i
        BY <2>2, <2>3, <2>6, <4>1
      <4>3. i \in Int /\ at[f] \in Int
        BY <2>6
      <4>4. QED
        BY <3>2, <4>2, <4>3
    <3>4. k - f + 1 \in 1..l /\ f - 1 + (k - f + 1) = k
      BY <1>3, <2>4, <3>3
    <3>5. ct[k - f + 1] = i
      BY <3>2, <3>4
    <3>6. QED
      BY <3>4, <3>5
  <2>10. Numbers(ct, l, last)
    <3> HIDE DEF l, ct
    <3>1. QED
      BY <2>4, <2>7, <2>8, <2>9 DEF Numbers
  <2>11. \A k \in 1..l : k \in 1..m /\ bt[k] = ct[k]
    <3> HIDE DEF l, ct
    <3>1. last \subseteq Int
      OBVIOUS
    <3>2. QED
      BY <1>2, <2>10, <3>1, SameNumbers
  <2>12. \A k \in 1..m : k \in 1..l /\ ct[k] = bt[k]
    <3> HIDE DEF l, ct
    <3>1. last \subseteq Int
      OBVIOUS
    <3>2. QED
      BY <1>2, <2>10, <3>1, SameNumbers
  <2>13. m = l
    <3> HIDE DEF l, ct
    <3>1. l <= m
      BY <1>3, <2>4, <2>11
    <3>2. m <= l
      BY <1>3, <2>4, <2>12
    <3>3. QED
      BY <1>3, <2>4, <3>1, <3>2
  <2>14. \A k \in 1..m : p[k] = q[n - m + k]
    <3>1. TAKE k \in 1..m
    <3>2. n - m + k = f - 1 + k /\ f - 1 + k \in 1..n
      BY <1>3, <2>4, <2>5, <2>13
    <3>3. bt[k] = at[f - 1 + k]
      BY <2>12, <2>13
    <3>4. QED
      BY <1>1, <1>2, <3>2, <3>3
  <2>15. m <= n
    BY <1>3, <2>4, <2>13
  <2> HIDE DEF l, ct
  <2>16. QED
    BY <1>3, <2>14, <2>15 DEF EndOf
<1>6. QED
  BY <1>4, <1>5

(* The last rows of an end are the last rows of the whole. *)
LEMMA LatestOfEnd ==
  ASSUME NEW p, NEW q, EndOf(p, q), NEW lookback, lookback = {} \/ \E n \in Nat \ {0} : lookback = {n}
  PROVE  EndOf(Latest(p, lookback), Latest(q, lookback))
<1>1. CASE lookback = {}
  BY <1>1 DEF Latest
<1>2. CASE lookback # {}
  <2>1. PICK n \in Nat \ {0} : lookback = {n}
    BY <1>2
  <2>2. Max(lookback) = n
    BY <2>1, GreatestOfOne
  <2> DEFINE From(l) == IF l - n + 1 > 1 THEN l - n + 1 ELSE 1
  <2>3. \A l \in Nat : Max({1, l - n + 1}) = From(l)
    <3>1. TAKE l \in Nat
    <3>2. /\ From(l) \in {1, l - n + 1}
          /\ \A x \in {1, l - n + 1} : From(l) >= x /\ x \in Int
      OBVIOUS
    <3>3. \A x \in {1, l - n + 1} : (\A y \in {1, l - n + 1} : x >= y) => x = From(l)
      BY <3>2
    <3> HIDE DEF From
    <3>4. QED
      BY <3>2, <3>3 DEF Max
  <2>4. /\ Len(p) \in Nat /\ p = [k \in 1..Len(p) |-> p[k]]
        /\ Len(q) \in Nat /\ q = [k \in 1..Len(q) |-> q[k]]
        /\ Len(p) <= Len(q)
        /\ \A k \in 1..Len(p) : p[k] = q[Len(q) - Len(p) + k]
    BY DEF EndOf
  <2>5. ASSUME NEW s, Len(s) \in Nat
        PROVE  LET a == From(Len(s))
               IN  /\ Latest(s, lookback) = [k \in 1..(Len(s) - a + 1) |-> s[a + k - 1]]
                   /\ Len(Latest(s, lookback)) = Len(s) - a + 1 /\ Len(s) - a + 1 \in Nat
    <3>1. Latest(s, lookback) = SubSeq(s, From(Len(s)), Len(s))
      BY <1>2, <2>2, <2>3, <2>5 DEF Latest
    <3>2. From(Len(s)) \in Nat /\ Len(s) - From(Len(s)) + 1 \in Nat
      BY <2>5
    <3> HIDE DEF From
    <3>3. SubSeq(s, From(Len(s)), Len(s))
            = [k \in 1..(Len(s) - From(Len(s)) + 1) |-> s[From(Len(s)) + k - 1]]
      BY <2>5, <3>2
    <3>4. QED
      BY <3>1, <3>2, <3>3
  <2> DEFINE a == From(Len(p))
             b == From(Len(q))
             pp == Latest(p, lookback)
             qq == Latest(q, lookback)
  <2>6. /\ pp = [k \in 1..(Len(p) - a + 1) |-> p[a + k - 1]] /\ Len(pp) = Len(p) - a + 1
        /\ qq = [k \in 1..(Len(q) - b + 1) |-> q[b + k - 1]] /\ Len(qq) = Len(q) - b + 1
        /\ Len(p) - a + 1 \in Nat /\ Len(q) - b + 1 \in Nat
    BY <2>4, <2>5
  <2>7. /\ a \in Nat /\ a >= 1 /\ b \in Nat /\ b >= 1
        /\ Len(p) - a + 1 <= Len(q) - b + 1
    <3> DEFINE x == Len(p)
               y == Len(q)
    <3>1. x \in Nat /\ y \in Nat /\ x <= y
      BY <2>4
    <3>2. /\ a = (IF x - n + 1 > 1 THEN x - n + 1 ELSE 1)
          /\ b = (IF y - n + 1 > 1 THEN y - n + 1 ELSE 1)
      BY DEF a, b, From
    <3>3. n \in Nat
      OBVIOUS
    <3> HIDE DEF From, a, b, x, y
    <3>4. /\ a \in Nat /\ a >= 1 /\ b \in Nat /\ b >= 1
          /\ x - a + 1 <= y - b + 1
      BY ONLY <3>1, <3>2, <3>3
    <3>5. QED
      BY <3>4 DEF x, y
  <2>8. \A k \in 1..(Len(p) - a + 1) :
          /\ a + k - 1 \in 1..Len(p)
          /\ (Len(q) - b + 1) - (Len(p) - a + 1) + k \in 1..(Len(q) - b + 1)
          /\ b + ((Len(q) - b + 1) - (Len(p) - a + 1) + k) - 1 = Len(q) - Len(p) + (a + k - 1)
    <3>1. Len(p) - a + 1 \in Nat /\ Len(q) - b + 1 \in Nat
      BY <2>6
    <3> DEFINE x == Len(p)
               y == Len(q)
    <3>2. /\ x \in Nat /\ y \in Nat /\ x <= y /\ a \in Nat /\ a >= 1 /\ b \in Nat /\ b >= 1
          /\ x - a + 1 \in Nat /\ y - b + 1 \in Nat /\ x - a + 1 <= y - b + 1
      BY <2>4, <2>7, <3>1
    <3> HIDE DEF From, a, b, x, y
    <3>3. \A k \in 1..(x - a + 1) :
            /\ a + k - 1 \in 1..x
            /\ (y - b + 1) - (x - a + 1) + k \in 1..(y - b + 1)
            /\ b + ((y - b + 1) - (x - a + 1) + k) - 1 = y - x + (a + k - 1)
      BY <3>2
    <3>4. QED
      BY <3>3 DEF x, y
  <2> HIDE DEF From, a, b, pp, qq
  <2>9. \A k \in 1..Len(pp) : pp[k] = qq[Len(qq) - Len(pp) + k]
    <3>1. TAKE k \in 1..Len(pp)
    <3>2. pp[k] = p[a + k - 1] /\ p[a + k - 1] = q[Len(q) - Len(p) + (a + k - 1)]
      BY <2>4, <2>6, <2>8
    <3>3. qq[Len(qq) - Len(pp) + k] = q[b + (Len(qq) - Len(pp) + k) - 1]
      BY <2>6, <2>8
    <3>4. QED
      BY <2>6, <2>8, <3>2, <3>3
  <2>10. QED
    BY <2>6, <2>7, <2>9 DEF EndOf, pp, qq
<1>3. QED
  BY <1>1, <1>2
-----------------------------------------------------------------------------
(* The places of the bars among the first n events. *)
BarPlaces(events, n) == {i \in 1..n : events[i].kind = "bar"}

(* The places of the bars a portal kept: of each symbol the last ones. *)
KeptPlaces(places, events, n, max_bars) ==
  /\ places \subseteq BarPlaces(events, n)
  /\ \A i \in places, j \in BarPlaces(events, n) :
       i < j /\ events[i].symbol = events[j].symbol => j \in places
  /\ max_bars = {} => places = BarPlaces(events, n)

(* What a live portal is after the first n events. *)
KeepsUp(portal, events, n, max_bars) ==
  /\ portal = [bars |-> portal.bars, max_bars_per_symbol |-> max_bars]
  /\ \E places : KeptPlaces(places, events, n, max_bars) /\ Lists(portal.bars, events, places)

ReplayFollows ==
  replay_portal = [history |-> AllBars,
                   visible_until |-> IF cursor = 0 THEN {} ELSE {history[cursor].timestamp}]

RuntimeFollows == KeepsUp(runtime_portal, history, cursor, setup.max_bars)

PortalInv == HistoryFixed /\ ReplayFollows /\ RuntimeFollows

(* What is known of the history. *)
LEMMA PastFacts ==
  ASSUME HistoryFixed
  PROVE  /\ setup \in Setups /\ history \in Seq(Events) /\ Len(history) \in Nat
         /\ DOMAIN history = 1..Len(history) /\ cursor \in Nat /\ cursor <= Len(history)
         /\ DOMAIN setup.slots = DOMAIN history
         /\ \A i \in DOMAIN history : /\ history[i].timestamp \in Nat
                                      /\ history[i].timestamp = setup.slots[i].timestamp
                                      /\ history[i].symbol = setup.slots[i].symbol
                                      /\ history[i].kind = setup.slots[i].kind
         /\ \A i, j \in DOMAIN history : i <= j => history[i].timestamp <= history[j].timestamp
<1>1. PICK shapes \in [DOMAIN setup.slots -> setup.shapes] : history = HistoryOf(setup, shapes)
  BY DEF HistoryFixed
<1>2. setup \in Setups /\ cursor \in 0..Len(history)
  BY DEF HistoryFixed
<1>3. /\ history \in Seq(Events) /\ DOMAIN history = DOMAIN setup.slots
      /\ \A i \in DOMAIN history : history[i].timestamp = setup.slots[i].timestamp
      /\ \A i, j \in DOMAIN history : i < j => history[i].timestamp <= history[j].timestamp
  BY <1>1, <1>2, HistoryFacts
<1>4. \A i \in DOMAIN setup.slots :
        history[i].symbol = setup.slots[i].symbol /\ history[i].kind = setup.slots[i].kind
  BY <1>1 DEF HistoryOf
<1>5. \A i \in DOMAIN history : history[i].timestamp \in Nat
  <2>1. \A i \in DOMAIN history : history[i] \in Events
    BY <1>3
  <2>2. QED
    BY <2>1 DEF Events
<1>6. /\ Len(history) \in Nat /\ DOMAIN history = 1..Len(history)
      /\ cursor \in Nat /\ cursor <= Len(history)
  BY <1>2, <1>3
<1>7. \A i, j \in DOMAIN history : i <= j => history[i].timestamp <= history[j].timestamp
  BY <1>3, <1>5, <1>6
<1>8. QED
  BY <1>2, <1>3, <1>4, <1>5, <1>6, <1>7

LEMMA AllBarsList ==
  ASSUME HistoryFixed
  PROVE  Lists(AllBars, history, BarPlaces(history, Len(history)))
<1>1. Len(history) \in Nat /\ DOMAIN history = 1..Len(history)
  BY PastFacts
<1> DEFINE places == BarPlaces(history, Len(history))
<1>2. places = {i \in DOMAIN history : history[i].kind = "bar"}
  BY <1>1 DEF BarPlaces
<1>3. places \subseteq Int /\ IsFiniteSet(places)
  <2>1. IsFiniteSet(1..Len(history))
    BY <1>1, FS_Interval
  <2>2. places \subseteq 1..Len(history)
    BY DEF BarPlaces
  <2>3. IsFiniteSet(places)
    BY <2>1, <2>2, FS_Subset
  <2>4. QED
    BY <1>1, <2>2, <2>3
<1>4. QED
  BY <1>2, <1>3, WhereLists DEF AllBars, BarsIn

LEMMA PortalsBegin ==
  ASSUME Init
  PROVE  PortalInv
<1>1. HistoryFixed
  <2>1. PipelineInv
    BY PipelineInit
  <2>2. QED
    BY <2>1 DEF PipelineInv
<1>2. cursor = 0 /\ ReplayFollows
  BY DEF Init, ReplayFollows, NewReplayPortal, AllBars
<1>3. /\ runtime_portal = [bars |-> <<>>, max_bars_per_symbol |-> setup.max_bars]
  BY DEF Init, NewRuntimePortal
<1>4. BarPlaces(history, cursor) = {}
  BY <1>2 DEF BarPlaces
<1>5. KeptPlaces({}, history, cursor, setup.max_bars)
  BY <1>4 DEF KeptPlaces
<1>6. Lists(<<>>, history, {})
  <2>1. Numbers(<<>>, 0, {})
    BY DEF Numbers
  <2>2. <<>> = [k \in 1..0 |-> history[<<>>[k]]]
    OBVIOUS
  <2>3. QED
    BY <2>1, <2>2 DEF Lists
<1>7. QED
  BY <1>1, <1>2, <1>3, <1>5, <1>6 DEF PortalInv, RuntimeFollows, KeepsUp

(* Time passes for the portal of a backtest. *)
LEMMA ReplayAdvances ==
  ASSUME PortalInv, cursor < Len(history), cursor' = cursor + 1, setup' = setup,
         history' = history, replay_portal' = replay_advance(replay_portal, Event)
  PROVE  HistoryFixed' /\ ReplayFollows'
<1>1. HistoryFixed /\ ReplayFollows
  BY DEF PortalInv
<1>2. /\ Len(history) \in Nat /\ DOMAIN history = 1..Len(history) /\ cursor \in Nat
      /\ \A i \in DOMAIN history : history[i].timestamp \in Nat
      /\ \A i, j \in DOMAIN history : i <= j => history[i].timestamp <= history[j].timestamp
  BY <1>1, PastFacts
<1>3. HistoryFixed'
  BY <1>1, <1>2 DEF HistoryFixed
<1>4. Event.timestamp \in Nat /\ Event = history[cursor + 1] /\ cursor + 1 \in DOMAIN history
  BY <1>2 DEF Event
<1>5. Max(replay_portal.visible_until \cup {Event.timestamp}) = Event.timestamp
  <2>1. CASE cursor = 0
    <3>1. replay_portal.visible_until \cup {Event.timestamp} = {Event.timestamp}
      BY <1>1, <2>1 DEF ReplayFollows
    <3>2. QED
      BY <1>4, <3>1, GreatestOfOne
  <2>2. CASE cursor # 0
    <3> DEFINE before == history[cursor].timestamp
               now == Event.timestamp
    <3>1. replay_portal.visible_until \cup {now} = {before, now}
      BY <1>1, <2>2 DEF ReplayFollows
    <3>2. before \in Nat /\ before <= now /\ now \in Nat
      BY <1>2, <1>4, <2>2
    <3> HIDE DEF before, now
    <3>3. \A x \in {before, now} : (\A y \in {before, now} : x >= y) => x = now
      BY <3>2
    <3>4. \A y \in {before, now} : now >= y
      BY <3>2
    <3>5. Max({before, now}) = now
      BY <3>3, <3>4 DEF Max
    <3>6. QED
      BY <3>1, <3>5 DEF now
  <2>3. QED
    BY <2>1, <2>2
<1>6. replay_portal' = [history |-> AllBars, visible_until |-> {Event.timestamp}]
  BY <1>1, <1>5 DEF replay_advance, ReplayFollows
<1>7. AllBars' = AllBars
  BY DEF AllBars, BarsIn
<1>8. cursor' # 0 /\ history'[cursor'] = Event
  BY <1>2, <1>4
<1>9. QED
  BY <1>3, <1>6, <1>7, <1>8 DEF ReplayFollows

(* The portal of a live engine passes over what is not a bar. *)
LEMMA KeepsUpQuote ==
  ASSUME NEW portal, NEW events, NEW n \in Nat, NEW max_bars, events[n + 1].kind # "bar",
         KeepsUp(portal, events, n, max_bars)
  PROVE  KeepsUp(portal, events, n + 1, max_bars)
<1>1. BarPlaces(events, n + 1) = BarPlaces(events, n)
  <2>1. 1..(n + 1) = 1..n \cup {n + 1}
    OBVIOUS
  <2>2. QED
    BY <2>1 DEF BarPlaces
<1>2. QED
  BY <1>1 DEF KeepsUp, KeptPlaces

(* A bar joins the kept ones, and the oldest of its symbol may leave. *)
LEMMA KeepsUpBar ==
  ASSUME NEW portal, NEW events, NEW n \in Nat, NEW max_bars, events[n + 1].kind = "bar",
         KeepsUp(portal, events, n, max_bars)
  PROVE  KeepsUp(append_bar(portal, events[n + 1]), events, n + 1, max_bars)
<1> DEFINE c == n + 1
           bar == events[n + 1]
           old == BarPlaces(events, n)
           new == BarPlaces(events, n + 1)
<1>1. PICK places : /\ KeptPlaces(places, events, n, max_bars)
                    /\ Lists(portal.bars, events, places)
  BY DEF KeepsUp
<1>2. new = old \cup {c} /\ old \subseteq Int /\ c \in Int /\ \A i \in old : i < c
  <2>1. 1..(n + 1) = 1..n \cup {n + 1}
    OBVIOUS
  <2>2. QED
    BY <2>1 DEF BarPlaces
<1>3. /\ places \subseteq old
      /\ \A i \in places, j \in old :
           i < j /\ events[i].symbol = events[j].symbol => j \in places
      /\ max_bars = {} => places = old
  BY <1>1 DEF KeptPlaces
<1> DEFINE bars == Append(portal.bars, bar)
<1> HIDE DEF c, old, new
<1>4. PICK more : more = places \cup {c}
  OBVIOUS
<1>5. /\ more \subseteq new /\ more \subseteq Int /\ c \in more /\ new \subseteq Int
      /\ \A i \in more, j \in new :
           i < j /\ events[i].symbol = events[j].symbol => j \in more
      /\ max_bars = {} => more = new
  BY <1>2, <1>3, <1>4
<1>6. Lists(bars, events, more)
  <2>1. \A x \in Int : (\A i \in places : i < x)
          => Lists(Append(portal.bars, events[x]), events, places \cup {x})
    <3>1. places \subseteq Int
      BY <1>2, <1>3
    <3>2. QED
      BY <1>1, <3>1, AppendToList
  <2>2. bar = events[c]
    BY DEF c
  <2>3. QED
    BY <1>2, <1>3, <1>4, <2>1, <2>2
<1> DEFINE full == \E max \in max_bars : Len(BarsOf(bars, bar.symbol)) > max
<1>7. append_bar(portal, bar)
        = [bars |-> IF full THEN DropFirst(bars, bar.symbol) ELSE bars,
           max_bars_per_symbol |-> max_bars]
  <2>1. portal = [bars |-> portal.bars, max_bars_per_symbol |-> max_bars]
    BY DEF KeepsUp
  <2>2. portal.max_bars_per_symbol = max_bars
    BY <2>1
  <2>3. append_bar(portal, bar)
          = [portal EXCEPT !.bars = IF full THEN DropFirst(bars, bar.symbol) ELSE bars]
    BY <2>2 DEF append_bar
  <2> HIDE DEF full, bars, bar
  <2>4. QED
    BY <2>1, <2>3
<1>8. SUFFICES \E kept : /\ KeptPlaces(kept, events, c, max_bars)
                         /\ Lists(append_bar(portal, bar).bars, events, kept)
  <2> HIDE DEF full, bars, bar
  <2>1. append_bar(portal, bar) = [bars |-> append_bar(portal, bar).bars,
                                   max_bars_per_symbol |-> max_bars]
    BY <1>7
  <2>2. QED
    BY <1>8, <2>1 DEF KeepsUp, c, bar
<1>9. CASE ~full
  <2>1. append_bar(portal, bar).bars = bars
    <3> HIDE DEF full, bars, bar
    <3>1. QED
      BY <1>7, <1>9
  <2>2. KeptPlaces(more, events, c, max_bars)
    BY <1>5 DEF KeptPlaces, new, c
  <2>3. QED
    BY <1>6, <2>1, <2>2
<1>10. CASE full
  <2> HIDE DEF bars
  <2>1. PICK m, at : Numbers(at, m, more) /\ bars = [k \in 1..m |-> events[at[k]]]
    BY <1>6 DEF Lists
  <2> DEFINE own == {k \in DOMAIN bars : bars[k].symbol = bar.symbol}
             first == Min(own)
  <2>2. m \in Nat /\ Len(bars) = m /\ DOMAIN bars = 1..m
    <3>1. m \in Nat
      BY <2>1 DEF Numbers
    <3>2. QED
      BY <2>1, <3>1
  <2>3. PICK l \in 1..m : at[l] = c
    BY <1>5, <2>1 DEF Numbers
  <2>4. first \in own /\ \A k \in own : first <= k
    <3>1. l \in own
      BY <2>1, <2>2, <2>3 DEF c
    <3>2. own \subseteq Nat
      BY <2>2
    <3> HIDE DEF own
    <3>3. QED
      BY <3>1, <3>2, LeastIsMin
  <2>5. first \in 1..m /\ bars[first].symbol = bar.symbol
    <3> HIDE DEF first
    <3>1. QED
      BY <2>2, <2>4
  <2>6. \A k \in 1..m : bars[k].symbol = bar.symbol => first <= k
    <3> HIDE DEF first
    <3>1. QED
      BY <2>2, <2>4
  <2>7. PICK d \in 1..m : d = first
    BY <2>5
  <2> HIDE DEF own, first
  <2>8. events[at[d]].symbol = bar.symbol
    BY <2>1, <2>5, <2>7
  <2>9. \A k \in 1..m : at[k] \in Int
    BY <1>5, <2>1 DEF Numbers
  <2>10. \A i \in more : events[i].symbol = bar.symbol => at[d] <= i
    <3>1. SUFFICES ASSUME NEW i \in more, events[i].symbol = bar.symbol
                   PROVE  at[d] <= i
      OBVIOUS
    <3>2. PICK k \in 1..m : at[k] = i
      BY <2>1 DEF Numbers
    <3>3. bars[k].symbol = bar.symbol
      BY <2>1, <3>1, <3>2
    <3>4. d <= k
      BY <2>6, <2>7, <3>3
    <3>5. d < k => at[d] < at[k]
      BY <2>1 DEF Numbers
    <3>6. d = k \/ d < k
      BY <2>2, <3>4
    <3>7. QED
      BY <2>9, <3>2, <3>5, <3>6
  <2>11. PICK less : less = more \ {at[d]}
    OBVIOUS
  <2>12. append_bar(portal, bar).bars = DropFirst(bars, bar.symbol)
    <3> HIDE DEF full, bar
    <3>1. QED
      BY <1>7, <1>10
  <2>13. Lists(DropFirst(bars, bar.symbol), events, less)
    <3>1. \A x \in 1..m : Lists(SubSeq(bars, 1, x - 1) \o SubSeq(bars, x + 1, Len(bars)),
                                events, more \ {at[x]})
      <4>1. more \subseteq Int
        BY <1>5
      <4>2. QED
        BY <2>1, <4>1, DropFromList
    <3>2. DropFirst(bars, bar.symbol)
            = SubSeq(bars, 1, first - 1) \o SubSeq(bars, first + 1, Len(bars))
      BY DEF DropFirst, first, own
    <3>3. QED
      BY <2>7, <2>11, <3>1, <3>2
  <2>14. KeptPlaces(less, events, c, max_bars)
    <3>1. less \subseteq new
      BY <1>5, <2>11
    <3>2. max_bars # {}
      BY <1>10
    <3>3. \A i \in less, j \in new :
            i < j /\ events[i].symbol = events[j].symbol => j \in less
      <4>1. SUFFICES ASSUME NEW i \in less, NEW j \in new, i < j,
                            events[i].symbol = events[j].symbol
                     PROVE  j \in less
        OBVIOUS
      <4>2. j \in more /\ i \in more
        BY <1>5, <2>11, <4>1
      <4>3. j # at[d]
        <5>1. SUFFICES ASSUME j = at[d]
                       PROVE  FALSE
          OBVIOUS
        <5>2. events[i].symbol = bar.symbol
          BY <2>8, <4>1, <5>1
        <5>3. j <= i
          BY <2>10, <4>2, <5>1, <5>2
        <5>4. i \in Int /\ j \in Int
          BY <1>5, <4>2
        <5>5. QED
          BY <4>1, <5>3, <5>4
      <4>4. QED
        BY <2>11, <4>2, <4>3
    <3>4. QED
      BY <3>1, <3>2, <3>3 DEF KeptPlaces, new, c
  <2>15. QED
    BY <2>12, <2>13, <2>14
<1>11. QED
  BY <1>9, <1>10

LEMMA PortalsAfter ==
  ASSUME PortalInv, Next
  PROVE  PortalInv'
<1>1. /\ cursor < Len(history) /\ cursor' = cursor + 1 /\ setup' = setup /\ history' = history
      /\ replay_portal' = replay_advance(replay_portal, Event)
      /\ \/ Event.kind = "bar" /\ runtime_portal' = append_bar(runtime_portal, Event)
         \/ Event.kind = "quote" /\ runtime_portal' = runtime_portal
  BY DEF Next, OnBar, OnQuote, Handles
<1>2. HistoryFixed' /\ ReplayFollows'
  BY <1>1, ReplayAdvances
<1>3. HistoryFixed /\ KeepsUp(runtime_portal, history, cursor, setup.max_bars)
  BY DEF PortalInv, RuntimeFollows
<1>4. cursor \in Nat /\ Event = history[cursor + 1]
  BY <1>3, PastFacts DEF Event
<1>5. KeepsUp(runtime_portal', history, cursor + 1, setup.max_bars)
  <2>1. CASE Event.kind = "bar" /\ runtime_portal' = append_bar(runtime_portal, Event)
    BY <1>3, <1>4, <2>1, KeepsUpBar
  <2>2. CASE Event.kind = "quote" /\ runtime_portal' = runtime_portal
    BY <1>3, <1>4, <2>2, KeepsUpQuote
  <2>3. QED
    BY <1>1, <2>1, <2>2
<1>6. RuntimeFollows'
  <2>1. KeepsUp(runtime_portal', history', cursor', setup'.max_bars)
    BY <1>1, <1>5
  <2>2. QED
    BY <2>1 DEF RuntimeFollows
<1>7. QED
  BY <1>2, <1>6 DEF PortalInv
LEMMA PortalInvariant == Spec => []PortalInv
<1>1. Init => PortalInv
  BY PortalsBegin
<1>2. PortalInv /\ [Next]_vars => PortalInv'
  <2>1. SUFFICES ASSUME PortalInv, [Next]_vars
                 PROVE  PortalInv'
    OBVIOUS
  <2>2. CASE Next
    BY <2>1, <2>2, PortalsAfter
  <2>3. CASE UNCHANGED vars
    <3>1. UNCHANGED <<setup, history, cursor, replay_portal, runtime_portal>>
      BY <2>3 DEF vars
    <3>2. HistoryFixed' /\ ReplayFollows'
      BY <2>1, <3>1 DEF PortalInv, HistoryFixed, ReplayFollows, AllBars, BarsIn
    <3>3. KeepsUp(runtime_portal', history', cursor', setup'.max_bars)
      BY <2>1, <3>1 DEF PortalInv, RuntimeFollows
    <3>4. RuntimeFollows'
      BY <3>3 DEF RuntimeFollows
    <3>5. QED
      BY <3>2, <3>4 DEF PortalInv
  <2>4. QED
    BY <2>1, <2>2, <2>3
<1>3. QED
  BY <1>1, <1>2, PTL DEF Spec

(* What may be asked of a portal: so many bars or all, up to a time or the last. *)
Lookbacks == {{}} \cup {{n} : n \in Nat \ {0}}

EndTimes == {{}} \cup {{t} : t \in Nat}

(* The end a replay portal looks up to is its own time or an earlier one. *)
LEMMA BoundedEnd ==
  ASSUME NEW end \in EndTimes, NEW now \in Nat
  PROVE  \A t \in Nat : t <= Min(end \cup {now}) <=> t <= now /\ \A e \in end : t <= e
<1>1. end \cup {now} \subseteq Nat /\ end \cup {now} # {}
  BY DEF EndTimes
<1> DEFINE both == end \cup {now}
<1>2. both \subseteq Nat /\ both # {}
  BY <1>1
<1>3. Min(both) \in both /\ \A x \in both : Min(both) <= x
  <2> HIDE DEF both
  <2>1. QED
    BY <1>2, LeastIsMin
<1>4. PICK least \in Nat : least = Min(both)
  BY <1>2, <1>3
<1>5. least \in both /\ \A x \in both : least <= x
  BY <1>3, <1>4
<1>6. \A t \in Nat : t <= least <=> t <= now /\ \A e \in end : t <= e
  BY <1>2, <1>5
<1>7. QED
  BY <1>4, <1>6

LEMMA SameView ==
  ASSUME PortalInv, BarsComeFirst, cursor > 0, NEW lookback \in Lookbacks, NEW end \in EndTimes
  PROVE  LET seen == runtime_get_bars(runtime_portal, history[cursor].symbol, lookback, end)
             told == replay_get_bars(replay_portal, history[cursor].symbol, lookback, end)
         IN  IsSuffix(seen, told) /\ (setup.max_bars = {} => seen = told)
<1> DEFINE symbol == history[cursor].symbol
           now    == history[cursor].timestamp
           until  == {Min(end \cup {now})}
           p      == UpTo(BarsOf(runtime_portal.bars, symbol), end)
           q      == UpTo(BarsOf(AllBars, symbol), until)
<1>1. /\ HistoryFixed /\ ReplayFollows
      /\ KeepsUp(runtime_portal, history, cursor, setup.max_bars)
  BY DEF PortalInv, RuntimeFollows
<1>2. /\ setup \in Setups /\ DOMAIN history = 1..Len(history) /\ Len(history) \in Nat
      /\ cursor \in Nat /\ cursor <= Len(history) /\ DOMAIN setup.slots = DOMAIN history
      /\ \A i \in DOMAIN history : /\ history[i].timestamp \in Nat
                                   /\ history[i].timestamp = setup.slots[i].timestamp
                                   /\ history[i].symbol = setup.slots[i].symbol
                                   /\ history[i].kind = setup.slots[i].kind
      /\ \A i, j \in DOMAIN history : i <= j => history[i].timestamp <= history[j].timestamp
  BY <1>1, PastFacts
<1>3. now \in Nat /\ cursor \in 1..Len(history)
  BY <1>2
<1>4. /\ replay_get_bars(replay_portal, symbol, lookback, end) = Latest(q, lookback)
      /\ runtime_get_bars(runtime_portal, symbol, lookback, end) = Latest(p, lookback)
  <2>1. replay_portal.history = AllBars /\ replay_portal.visible_until = {now}
    BY <1>1, <1>3 DEF ReplayFollows
  <2>2. bounded_end(replay_portal, end) = until
    BY <2>1 DEF bounded_end
  <2>3. until # {}
    OBVIOUS
  <2> HIDE DEF until, now, symbol
  <2>4. QED
    BY <2>1, <2>2, <2>3 DEF replay_get_bars, runtime_get_bars
<1> DEFINE all   == BarPlaces(history, Len(history))
           past  == BarPlaces(history, cursor)
           wanted(i) == history[i].symbol = symbol /\ \A t \in end : history[i].timestamp <= t
<1>5. PICK places : /\ KeptPlaces(places, history, cursor, setup.max_bars)
                    /\ Lists(runtime_portal.bars, history, places)
  BY <1>1 DEF KeepsUp
<1>6. PICK last : last = {i \in places : wanted(i)}
  OBVIOUS
<1>7. PICK told : told = {i \in past : wanted(i)}
  OBVIOUS
<1>8. /\ all \subseteq Int /\ past \subseteq Int /\ past \subseteq all
      /\ past = {i \in all : i <= cursor} /\ all \subseteq DOMAIN history
  BY <1>2 DEF BarPlaces
<1>9. places \subseteq past /\ places \subseteq Int
  BY <1>5, <1>8 DEF KeptPlaces
<1>10. Lists(p, history, last)
  <2> DEFINE own == OfSymbol(history, places, symbol)
  <2>1. Lists(BarsOf(runtime_portal.bars, symbol), history, own)
    <3> HIDE DEF symbol
    <3>1. QED
      BY <1>5, <1>9, BarsOfList
  <2>2. own \subseteq Int
    BY <1>9 DEF OfSymbol
  <2>3. Lists(p, history, NotAfter(history, own, end))
    <3> HIDE DEF own, symbol
    <3>1. QED
      BY <2>1, <2>2, UpToList
  <2>4. last = NotAfter(history, own, end)
    BY <1>6 DEF OfSymbol, NotAfter
  <2>5. QED
    BY <2>3, <2>4
<1>11. \A i \in all : history[i].symbol = symbol =>
         ((\A t \in until : history[i].timestamp <= t)
            <=> i \in past /\ \A t \in end : history[i].timestamp <= t)
  <2>1. SUFFICES ASSUME NEW i \in all, history[i].symbol = symbol
                 PROVE  (\A t \in until : history[i].timestamp <= t)
                          <=> i \in past /\ \A t \in end : history[i].timestamp <= t
    OBVIOUS
  <2>2. i \in DOMAIN history /\ history[i].timestamp \in Nat /\ history[i].kind = "bar" /\ i \in Nat
    BY <1>2, <1>8, <2>1 DEF BarPlaces
  <2>3. (\A t \in until : history[i].timestamp <= t)
          <=> history[i].timestamp <= now /\ \A t \in end : history[i].timestamp <= t
    <3>1. \A t \in Nat : t <= Min(end \cup {now}) <=> t <= now /\ \A e \in end : t <= e
      BY <1>3, BoundedEnd
    <3> HIDE DEF now
    <3>2. QED
      BY <2>2, <3>1
  <2>4. i <= cursor => history[i].timestamp <= now
    BY <1>2, <1>3, <2>2
  <2>5. history[i].timestamp <= now => i <= cursor
    <3>1. SUFFICES ASSUME history[i].timestamp <= now, ~(i <= cursor)
                   PROVE  FALSE
      OBVIOUS
    <3>2. cursor < i
      BY <1>2, <2>2, <3>1
    <3>3. now <= history[i].timestamp
      BY <1>2, <1>3, <2>2, <3>2
    <3>4. history[i].timestamp = now
      BY <1>3, <2>2, <3>1, <3>3
    <3>5. /\ setup.slots[i].symbol = setup.slots[cursor].symbol
          /\ setup.slots[i].timestamp = setup.slots[cursor].timestamp
          /\ setup.slots[i].kind = "bar" /\ i \in DOMAIN setup.slots /\ cursor \in DOMAIN setup.slots
      BY <1>2, <1>3, <2>1, <2>2, <3>4
    <3>6. QED
      BY <1>2, <3>2, <3>5 DEF BarsComeFirst
  <2>6. QED
    <3> HIDE DEF all, past, until, now, symbol
    <3>1. i \in past <=> i <= cursor
      BY <1>8, <2>1
    <3>2. QED
      BY <2>3, <2>4, <2>5, <3>1
<1>12. Lists(q, history, told)
  <2> DEFINE own == OfSymbol(history, all, symbol)
  <2>1. Lists(BarsOf(AllBars, symbol), history, own)
    <3>1. Lists(AllBars, history, all)
      BY <1>1, AllBarsList
    <3> HIDE DEF all, symbol
    <3>2. QED
      BY <1>8, <3>1, BarsOfList
  <2>2. own \subseteq Int
    BY <1>8 DEF OfSymbol
  <2>3. Lists(q, history, NotAfter(history, own, until))
    <3> HIDE DEF own, symbol, until
    <3>1. QED
      BY <2>1, <2>2, UpToList
  <2>4. told = NotAfter(history, own, until)
    <3> HIDE DEF all, past, until, symbol
    <3>1. QED
      BY <1>7, <1>8, <1>11 DEF OfSymbol, NotAfter
  <2>5. QED
    BY <2>3, <2>4
<1>13. /\ told \subseteq Int /\ last \subseteq told
       /\ \A i \in last, j \in told : i < j => j \in last
       /\ setup.max_bars = {} => last = told
  <2>1. /\ \A i \in places, j \in past :
             i < j /\ history[i].symbol = history[j].symbol => j \in places
        /\ setup.max_bars = {} => places = past
    BY <1>5 DEF KeptPlaces
  <2> HIDE DEF past, symbol
  <2>2. QED
    BY <1>6, <1>7, <1>8, <1>9, <2>1
<1> HIDE DEF p, q
<1>14. EndOf(Latest(p, lookback), Latest(q, lookback))
  <2>1. EndOf(p, q)
    BY <1>10, <1>12, <1>13, LastPlaces
  <2>2. lookback = {} \/ \E n \in Nat \ {0} : lookback = {n}
    BY DEF Lookbacks
  <2>3. QED
    BY <2>1, <2>2, LatestOfEnd
<1>15. setup.max_bars = {} => p = q
  BY <1>10, <1>12, <1>13, ListedOnce
<1>16. IsSuffix(Latest(p, lookback), Latest(q, lookback))
  BY <1>14, EndIsSuffix
<1>17. QED
  <2> HIDE DEF symbol
  <2>1. /\ IsSuffix(runtime_get_bars(runtime_portal, symbol, lookback, end),
                    replay_get_bars(replay_portal, symbol, lookback, end))
        /\ setup.max_bars = {} => runtime_get_bars(runtime_portal, symbol, lookback, end)
                                    = replay_get_bars(replay_portal, symbol, lookback, end)
    BY <1>4, <1>15, <1>16
  <2>2. QED
    BY <2>1 DEF symbol

(* Whatever a strategy asks its portal for, a backtest over a feed that has a bar
   before anything else of its symbol and time shows it what a live engine that
   received the same events shows, and of what is still to come nothing. *)
THEOREM PortalsShowTheSame ==
  ASSUME BarsComeFirst
  PROVE  Spec => []PortalsAgree
<1>1. ASSUME PortalInv
      PROVE  PortalsAgree
  <2>1. SUFFICES ASSUME cursor > 0,
                        NEW lookback \in {{}, {1}, {2}},
                        NEW end \in {{}} \cup {{history[i].timestamp} : i \in DOMAIN history}
                 PROVE  LET seen == runtime_get_bars(runtime_portal, history[cursor].symbol,
                                                     lookback, end)
                            told == replay_get_bars(replay_portal, history[cursor].symbol,
                                                    lookback, end)
                        IN  /\ IsSuffix(seen, told)
                            /\ setup.max_bars = {} => seen = told
    BY DEF PortalsAgree
  <2>2. lookback \in Lookbacks
    BY DEF Lookbacks
  <2>3. end \in EndTimes
    <3>1. \A i \in DOMAIN history : history[i].timestamp \in Nat
      BY <1>1, PastFacts DEF PortalInv
    <3>2. QED
      BY <3>1 DEF EndTimes
  <2>4. QED
    BY <1>1, <2>1, <2>2, <2>3, SameView
<1>2. QED
  BY <1>1, PortalInvariant, PTL

-----------------------------------------------------------------------------
(* A list that goes on as another one. *)
Begins(p, q) ==
  /\ Len(p) \in Nat /\ p = [k \in 1..Len(p) |-> p[k]]
  /\ Len(q) \in Nat /\ q = [k \in 1..Len(q) |-> q[k]]
  /\ Len(p) <= Len(q)
  /\ \A k \in 1..Len(p) : p[k] = q[k]

(* Series over two lists, of which the second goes on as the first. *)
Follow(s, t, p, q) == Begins(s, t) /\ Len(s) = Len(p) /\ Len(t) = Len(q)

LEMMA BeginsDomain ==
  ASSUME NEW p, NEW q, Begins(p, q)
  PROVE  /\ DOMAIN p = 1..Len(p) /\ DOMAIN q = 1..Len(q)
         /\ Len(p) \in Nat /\ Len(q) \in Nat /\ Len(p) <= Len(q)
         /\ \A k \in 1..Len(p) : k \in 1..Len(q) /\ p[k] = q[k] /\ k \in Int
<1> DEFINE n == Len(p)
           m == Len(q)
<1>1. /\ n \in Nat /\ p = [k \in 1..n |-> p[k]]
      /\ m \in Nat /\ q = [k \in 1..m |-> q[k]]
      /\ n <= m /\ \A k \in 1..n : p[k] = q[k]
  BY DEF Begins
<1> HIDE DEF n, m
<1>2. DOMAIN p = 1..n /\ DOMAIN q = 1..m
  BY <1>1, Zenon
<1>3. \A k \in 1..n : k \in 1..m /\ k \in Int
  BY <1>1
<1>4. QED
  BY <1>1, <1>2, <1>3 DEF n, m

LEMMA LenOf ==
  ASSUME NEW n \in Nat, NEW f, f = [k \in 1..n |-> f[k]]
  PROVE  Len(f) = n
OBVIOUS

(* A part of a list is the part of one that goes on as it. *)
LEMMA SamePart ==
  ASSUME NEW p, NEW q, Begins(p, q), NEW m \in Nat \ {0}, NEW n \in Int, n <= Len(p)
  PROVE  SubSeq(p, m, n) = SubSeq(q, m, n)
<1> DEFINE l == n - m + 1
<1>1. l \in Int /\ m \in Int
  OBVIOUS
<1>2. \A k \in 1..l : k + m - 1 \in 1..Len(p)
  BY BeginsDomain
<1>3. \A k \in 1..l : p[k + m - 1] = q[k + m - 1]
  BY <1>2, BeginsDomain
<1>4. SubSeq(p, m, n) = [k \in 1..l |-> p[k + m - 1]]
  OBVIOUS
<1>5. SubSeq(q, m, n) = [k \in 1..l |-> q[k + m - 1]]
  OBVIOUS
<1> HIDE DEF l
<1>6. [k \in 1..l |-> p[k + m - 1]] = [k \in 1..l |-> q[k + m - 1]]
  BY <1>3
<1>7. QED
  BY <1>4, <1>5, <1>6, Zenon

LEMMA Placewise ==
  ASSUME NEW p, NEW q, Begins(p, q), NEW s, NEW t,
         s = [i \in DOMAIN p |-> s[i]], t = [i \in DOMAIN q |-> t[i]],
         \A i \in 1..Len(p) : s[i] = t[i]
  PROVE  Follow(s, t, p, q)
<1> DEFINE n == Len(p)
           m == Len(q)
<1>1. DOMAIN p = 1..n /\ DOMAIN q = 1..m /\ n \in Nat /\ m \in Nat /\ n <= m
  BY BeginsDomain
<1>2. s = [i \in 1..n |-> s[i]] /\ t = [i \in 1..m |-> t[i]]
  BY <1>1, Zenon
<1>3. \A i \in 1..n : s[i] = t[i]
  OBVIOUS
<1>4. DOMAIN s = 1..n /\ DOMAIN t = 1..m
  BY <1>2, Zenon
<1>5. Len(s) = n /\ Len(t) = m
  BY <1>1, <1>2, LenOf, Zenon
<1> HIDE DEF n, m
<1>6. Begins(s, t)
  BY <1>1, <1>2, <1>3, <1>5, Zenon DEF Begins
<1>7. QED
  BY <1>5, <1>6 DEF Follow, n, m

LEMMA SeriesBegin ==
  ASSUME NEW p, NEW q, Begins(p, q), NEW f, NEW g,
         \A i \in 1..Len(p) : /\ i \in DOMAIN f <=> i \in DOMAIN g
                              /\ i \in DOMAIN f => f[i] = g[i]
  PROVE  Follow(Series(p, f), Series(q, g), p, q)
<1> DEFINE s == Series(p, f)
           t == Series(q, g)
<1>1. /\ s = [i \in DOMAIN p |-> s[i]] /\ t = [i \in DOMAIN q |-> t[i]]
      /\ \A i \in DOMAIN p : s[i] = IF i \in DOMAIN f THEN {f[i]} ELSE {}
      /\ \A i \in DOMAIN q : t[i] = IF i \in DOMAIN g THEN {g[i]} ELSE {}
  BY DEF Series
<1> HIDE DEF s, t
<1>2. \A i \in 1..Len(p) : i \in DOMAIN p /\ i \in DOMAIN q
  BY BeginsDomain, Zenon
<1>3. \A i \in 1..Len(p) : s[i] = t[i]
  BY <1>1, <1>2
<1>4. QED
  BY <1>1, <1>3, Placewise, Zenon DEF s, t
LEMMA FollowFacts ==
  ASSUME NEW p, NEW q, Begins(p, q), NEW s, NEW t, Follow(s, t, p, q)
  PROVE  /\ Begins(s, t) /\ Len(s) = Len(p) /\ Len(t) = Len(q)
         /\ DOMAIN s = 1..Len(p) /\ DOMAIN t = 1..Len(q)
         /\ \A i \in 1..Len(p) : s[i] = t[i] /\ i \in 1..Len(q)
BY BeginsDomain DEF Follow

LEMMA SameWindow ==
  ASSUME NEW p, NEW q, Begins(p, q), NEW w \in Nat \ {0}
  PROVE  \A i \in 1..Len(p) :
           /\ i \in w..Len(p) <=> i \in w..Len(q)
           /\ i \in w..Len(p) => /\ Window(p, i, w) = Window(q, i, w)
                                 /\ Window(p, w, w) = Window(q, w, w)
                                 /\ SubSeq(p, w + 1, i) = SubSeq(q, w + 1, i)
<1> SUFFICES ASSUME NEW i \in 1..Len(p)
             PROVE  /\ i \in w..Len(p) <=> i \in w..Len(q)
                    /\ i \in w..Len(p) => /\ Window(p, i, w) = Window(q, i, w)
                                          /\ Window(p, w, w) = Window(q, w, w)
                                          /\ SubSeq(p, w + 1, i) = SubSeq(q, w + 1, i)
  OBVIOUS
<1>1. Len(p) \in Nat /\ Len(q) \in Nat /\ Len(p) <= Len(q) /\ i \in Int /\ i <= Len(p)
  BY BeginsDomain
<1>2. i \in w..Len(p) <=> i \in w..Len(q)
  BY <1>1
<1>3. ASSUME i \in w..Len(p)
      PROVE  /\ Window(p, i, w) = Window(q, i, w)
             /\ Window(p, w, w) = Window(q, w, w)
             /\ SubSeq(p, w + 1, i) = SubSeq(q, w + 1, i)
  <2>1. /\ i - w + 1 \in Nat \ {0} /\ w - w + 1 \in Nat \ {0} /\ w + 1 \in Nat \ {0}
        /\ w \in Int /\ w <= Len(p)
    BY <1>1, <1>3
  <2>2. SubSeq(p, i - w + 1, i) = SubSeq(q, i - w + 1, i)
    BY <1>1, <2>1, SamePart
  <2>3. SubSeq(p, w - w + 1, w) = SubSeq(q, w - w + 1, w)
    BY <1>1, <2>1, SamePart
  <2>4. SubSeq(p, w + 1, i) = SubSeq(q, w + 1, i)
    BY <1>1, <2>1, SamePart
  <2>5. QED
    BY <2>2, <2>3, <2>4, Zenon DEF Window
<1>4. QED
  BY <1>2, <1>3, Zenon

LEMMA ClosesBegin ==
  ASSUME NEW p, NEW q, Begins(p, q)
  PROVE  Follow(Closes(p), Closes(q), p, q) /\ Follow(Volumes(p), Volumes(q), p, q)
<1>1. \A i \in 1..Len(p) : i \in DOMAIN p /\ i \in DOMAIN q /\ p[i] = q[i]
  BY BeginsDomain
<1>2. \A s \in {p, q} : /\ Closes(s) = [i \in DOMAIN s |-> Closes(s)[i]]
                        /\ Volumes(s) = [i \in DOMAIN s |-> Volumes(s)[i]]
                        /\ \A i \in DOMAIN s : /\ Closes(s)[i] = s[i].close * Unit
                                               /\ Volumes(s)[i] = s[i].volume * Unit
  BY DEF Closes, Volumes
<1>3. \A i \in 1..Len(p) : Closes(p)[i] = Closes(q)[i] /\ Volumes(p)[i] = Volumes(q)[i]
  BY <1>1, <1>2
<1>4. QED
  BY <1>2, <1>3, Placewise, Zenon

(* One lemma for each indicator: over a list and one that goes on as it, its series
   do, so that no bar to come changes a value that is there. *)
LEMMA SmaBegins ==
  ASSUME NEW p, NEW q, Begins(p, q), NEW w \in Nat \ {0}
  PROVE  Follow(sma(p, w), sma(q, w), p, q)
<1> DEFINE f == [i \in w..Len(p) |-> Mean(Window(p, i, w))]
           g == [i \in w..Len(q) |-> Mean(Window(q, i, w))]
<1>1. \A i \in 1..Len(p) : /\ i \in DOMAIN f <=> i \in DOMAIN g
                           /\ i \in DOMAIN f => f[i] = g[i]
  BY SameWindow, ZenonT(40)
<1>2. sma(p, w) = Series(p, f) /\ sma(q, w) = Series(q, g)
  BY DEF sma
<1> HIDE DEF f, g
<1>3. QED
  BY <1>1, <1>2, SeriesBegin, Zenon

LEMMA EmaBegins ==
  ASSUME NEW p, NEW q, Begins(p, q), NEW w \in Nat \ {0}
  PROVE  Follow(ema(p, w), ema(q, w), p, q)
<1> DEFINE f == [i \in w..Len(p) |-> Exponential(Mean(Window(p, w, w)), SubSeq(p, w + 1, i), w)]
           g == [i \in w..Len(q) |-> Exponential(Mean(Window(q, w, w)), SubSeq(q, w + 1, i), w)]
<1>1. \A i \in 1..Len(p) : /\ i \in DOMAIN f <=> i \in DOMAIN g
                           /\ i \in DOMAIN f => f[i] = g[i]
  <2>1. SUFFICES ASSUME NEW i \in 1..Len(p)
                 PROVE  /\ i \in w..Len(p) <=> i \in w..Len(q)
                        /\ i \in w..Len(p) =>
                             Exponential(Mean(Window(p, w, w)), SubSeq(p, w + 1, i), w)
                               = Exponential(Mean(Window(q, w, w)), SubSeq(q, w + 1, i), w)
    BY Zenon
  <2>2. i \in w..Len(p) <=> i \in w..Len(q)
    BY SameWindow, Zenon
  <2>3. ASSUME i \in w..Len(p)
        PROVE  /\ Window(p, w, w) = Window(q, w, w)
               /\ SubSeq(p, w + 1, i) = SubSeq(q, w + 1, i)
    BY <2>3, SameWindow
  <2>4. QED
    BY <2>2, <2>3, Zenon
<1>2. ema(p, w) = Series(p, f) /\ ema(q, w) = Series(q, g)
  BY DEF ema
<1> HIDE DEF f, g
<1>3. QED
  BY <1>1, <1>2, SeriesBegin, Zenon

LEMMA SmoothedAgree ==
  ASSUME NEW p, NEW q, Begins(p, q), NEW w \in Nat \ {0}
  PROVE  \A i \in 1..Len(p) :
           /\ i \in DOMAIN Smoothed(p, w) <=> i \in DOMAIN Smoothed(q, w)
           /\ i \in DOMAIN Smoothed(p, w) => Smoothed(p, w)[i] = Smoothed(q, w)[i]
<1> DEFINE f == [i \in w..Len(p) |-> Wilder(Mean(Window(p, w, w)), SubSeq(p, w + 1, i), w)]
           g == [i \in w..Len(q) |-> Wilder(Mean(Window(q, w, w)), SubSeq(q, w + 1, i), w)]
<1>1. \A i \in 1..Len(p) : /\ i \in DOMAIN f <=> i \in DOMAIN g
                           /\ i \in DOMAIN f => f[i] = g[i]
  <2>1. SUFFICES ASSUME NEW i \in 1..Len(p)
                 PROVE  /\ i \in w..Len(p) <=> i \in w..Len(q)
                        /\ i \in w..Len(p) =>
                             Wilder(Mean(Window(p, w, w)), SubSeq(p, w + 1, i), w)
                               = Wilder(Mean(Window(q, w, w)), SubSeq(q, w + 1, i), w)
    BY Zenon
  <2>2. i \in w..Len(p) <=> i \in w..Len(q)
    BY SameWindow, Zenon
  <2>3. ASSUME i \in w..Len(p)
        PROVE  /\ Window(p, w, w) = Window(q, w, w)
               /\ SubSeq(p, w + 1, i) = SubSeq(q, w + 1, i)
    BY <2>3, SameWindow
  <2>4. QED
    BY <2>2, <2>3, Zenon
<1>2. Smoothed(p, w) = f /\ Smoothed(q, w) = g
  BY DEF Smoothed
<1> HIDE DEF f, g
<1>3. QED
  BY <1>1, <1>2, Zenon

Rises(p) == [i \in 1..(Len(p) - 1) |-> Max({p[i + 1] - p[i], 0})]

Falls(p) == [i \in 1..(Len(p) - 1) |-> Max({p[i] - p[i + 1], 0})]

LEMMA ChangesBegin ==
  ASSUME NEW p, NEW q, Begins(p, q), Len(p) # 0
  PROVE  /\ Begins(Rises(p), Rises(q)) /\ Len(Rises(p)) = Len(p) - 1
         /\ Begins(Falls(p), Falls(q)) /\ Len(Falls(p)) = Len(p) - 1
<1> DEFINE n == Len(p) - 1
           m == Len(q) - 1
<1>1. n \in Nat /\ m \in Nat /\ n <= m
  BY BeginsDomain
<1>2. \A i \in 1..n : p[i] = q[i] /\ p[i + 1] = q[i + 1]
  BY BeginsDomain
<1>3. /\ Rises(p) = [i \in 1..n |-> Rises(p)[i]] /\ Rises(q) = [i \in 1..m |-> Rises(q)[i]]
      /\ Falls(p) = [i \in 1..n |-> Falls(p)[i]] /\ Falls(q) = [i \in 1..m |-> Falls(q)[i]]
  BY DEF Rises, Falls
<1>4. \A i \in 1..n : /\ Rises(p)[i] = Max({p[i + 1] - p[i], 0})
                      /\ Falls(p)[i] = Max({p[i] - p[i + 1], 0})
  BY DEF Rises, Falls
<1>5. \A i \in 1..m : /\ Rises(q)[i] = Max({q[i + 1] - q[i], 0})
                      /\ Falls(q)[i] = Max({q[i] - q[i + 1], 0})
  BY DEF Rises, Falls
<1> HIDE DEF n, m
<1>6. \A i \in 1..n : i \in 1..m
  BY <1>1
<1>7. \A i \in 1..n : Rises(p)[i] = Rises(q)[i] /\ Falls(p)[i] = Falls(q)[i]
  <2>1. SUFFICES ASSUME NEW i \in 1..n
                 PROVE  Rises(p)[i] = Rises(q)[i] /\ Falls(p)[i] = Falls(q)[i]
    BY Zenon
  <2>2. p[i] = q[i] /\ p[i + 1] = q[i + 1]
    BY <1>2
  <2>3. QED
    BY <1>4, <1>5, <1>6, <2>2, Zenon
<1>8. /\ Len(Rises(p)) = n /\ Len(Rises(q)) = m /\ Len(Falls(p)) = n /\ Len(Falls(q)) = m
  BY <1>1, <1>3, LenOf, Zenon
<1>9. Begins(Rises(p), Rises(q)) /\ Begins(Falls(p), Falls(q))
  BY <1>1, <1>3, <1>7, <1>8, Zenon DEF Begins
<1>10. QED
  BY <1>8, <1>9 DEF n

LEMMA RsiBegins ==
  ASSUME NEW p, NEW q, Begins(p, q), NEW w \in Nat \ {0}
  PROVE  Follow(rsi(p, w), rsi(q, w), p, q)
<1> DEFINE f == [i \in (w + 1)..Len(p) |-> rsi_from_averages(Smoothed(Rises(p), w)[i - 1],
                                                             Smoothed(Falls(p), w)[i - 1])]
           g == [i \in (w + 1)..Len(q) |-> rsi_from_averages(Smoothed(Rises(q), w)[i - 1],
                                                             Smoothed(Falls(q), w)[i - 1])]
<1>1. rsi(p, w) = Series(p, f) /\ rsi(q, w) = Series(q, g)
  BY DEF rsi, Rises, Falls
<1>2. Len(p) \in Nat /\ Len(q) \in Nat /\ Len(p) <= Len(q)
  BY BeginsDomain
<1>3. \A i \in 1..Len(p) : /\ i \in DOMAIN f <=> i \in DOMAIN g
                           /\ i \in DOMAIN f => f[i] = g[i]
  <2>1. SUFFICES ASSUME NEW i \in 1..Len(p)
                 PROVE  /\ i \in DOMAIN f <=> i \in DOMAIN g
                        /\ i \in DOMAIN f => f[i] = g[i]
    BY Zenon
  <2>2. i \in (w + 1)..Len(p) <=> i \in (w + 1)..Len(q)
    BY <1>2
  <2>3. ASSUME i \in (w + 1)..Len(p)
        PROVE  /\ Smoothed(Rises(p), w)[i - 1] = Smoothed(Rises(q), w)[i - 1]
               /\ Smoothed(Falls(p), w)[i - 1] = Smoothed(Falls(q), w)[i - 1]
    <3>1. Len(p) # 0 /\ i - 1 \in 1..(Len(p) - 1) /\ i - 1 \in w..(Len(p) - 1)
      BY <1>2, <2>3
    <3>2. /\ Begins(Rises(p), Rises(q)) /\ Len(Rises(p)) = Len(p) - 1
          /\ Begins(Falls(p), Falls(q)) /\ Len(Falls(p)) = Len(p) - 1
      BY <3>1, ChangesBegin, Zenon
    <3>3. DOMAIN Smoothed(Rises(p), w) = w..(Len(p) - 1)
          /\ DOMAIN Smoothed(Falls(p), w) = w..(Len(p) - 1)
      BY <3>2, Zenon DEF Smoothed
    <3>4. i - 1 \in 1..Len(Rises(p)) /\ i - 1 \in 1..Len(Falls(p))
      BY <3>1, <3>2
    <3>5. i - 1 \in DOMAIN Smoothed(Rises(p), w) /\ i - 1 \in DOMAIN Smoothed(Falls(p), w)
      BY <3>1, <3>3
    <3>6. /\ \A k \in 1..Len(Rises(p)) : k \in DOMAIN Smoothed(Rises(p), w) =>
               Smoothed(Rises(p), w)[k] = Smoothed(Rises(q), w)[k]
          /\ \A k \in 1..Len(Falls(p)) : k \in DOMAIN Smoothed(Falls(p), w) =>
               Smoothed(Falls(p), w)[k] = Smoothed(Falls(q), w)[k]
      BY <3>2, SmoothedAgree
    <3>7. QED
      BY <3>4, <3>5, <3>6, Zenon
  <2>4. QED
    BY <2>2, <2>3, Zenon
<1> HIDE DEF f, g
<1>4. QED
  BY <1>1, <1>3, SeriesBegin, Zenon

LEMMA FromFirstBegins ==
  ASSUME NEW p, NEW q, Begins(p, q), NEW w
  PROVE  Follow(ema_from_first(p, w), ema_from_first(q, w), p, q)
<1> DEFINE s == ema_from_first(p, w)
           t == ema_from_first(q, w)
<1>1. /\ s = [i \in DOMAIN p |-> s[i]] /\ t = [i \in DOMAIN q |-> t[i]]
      /\ \A i \in DOMAIN p : s[i] = Exponential(p[1], SubSeq(p, 2, i), w)
      /\ \A i \in DOMAIN q : t[i] = Exponential(q[1], SubSeq(q, 2, i), w)
  BY Zenon DEF ema_from_first
<1> HIDE DEF s, t
<1>2. \A i \in 1..Len(p) : s[i] = t[i]
  <2>1. SUFFICES ASSUME NEW i \in 1..Len(p)
                 PROVE  s[i] = t[i]
    OBVIOUS
  <2>2. i \in DOMAIN p /\ i \in DOMAIN q
    BY BeginsDomain
  <2>3. i \in Int /\ i <= Len(p) /\ 2 \in Nat \ {0} /\ 1 \in 1..Len(p)
    BY BeginsDomain
  <2>4. p[1] = q[1]
    BY <2>3 DEF Begins
  <2>5. SubSeq(p, 2, i) = SubSeq(q, 2, i)
    BY <2>3, SamePart, Zenon
  <2>6. QED
    BY <1>1, <2>2, <2>4, <2>5, Zenon
<1>3. QED
  BY <1>1, <1>2, Placewise, Zenon DEF s, t

LEMMA MacdBegins ==
  ASSUME NEW p, NEW q, Begins(p, q), NEW fast, NEW slow, NEW signal
  PROVE  \A k \in 1..3 : Follow(macd(p, fast, slow, signal)[k], macd(q, fast, slow, signal)[k], p, q)
<1> DEFINE line(v)   == [i \in DOMAIN v |-> ema_from_first(v, fast)[i] - ema_from_first(v, slow)[i]]
           smooth(v) == ema_from_first(line(v), signal)
           hist(v)   == [i \in DOMAIN v |-> line(v)[i] - smooth(v)[i]]
<1>1. \A v \in {p, q} :
        macd(v, fast, slow, signal) = <<Series(v, line(v)), Series(v, smooth(v)), Series(v, hist(v))>>
  BY DEF macd
<1>2. \A v \in {p, q} :
        /\ line(v) = [i \in DOMAIN v |-> line(v)[i]] /\ hist(v) = [i \in DOMAIN v |-> hist(v)[i]]
        /\ \A i \in DOMAIN v :
             /\ line(v)[i] = ema_from_first(v, fast)[i] - ema_from_first(v, slow)[i]
             /\ hist(v)[i] = line(v)[i] - smooth(v)[i]
  BY Zenon
<1>3. /\ DOMAIN p = 1..Len(p) /\ DOMAIN q = 1..Len(q)
      /\ \A i \in 1..Len(p) : i \in 1..Len(q)
  BY BeginsDomain
<1> HIDE DEF line, hist
<1>4. \A i \in 1..Len(p) : line(p)[i] = line(q)[i]
  <2>1. \A i \in 1..Len(p) : /\ ema_from_first(p, fast)[i] = ema_from_first(q, fast)[i]
                             /\ ema_from_first(p, slow)[i] = ema_from_first(q, slow)[i]
    <3>1. /\ Follow(ema_from_first(p, fast), ema_from_first(q, fast), p, q)
          /\ Follow(ema_from_first(p, slow), ema_from_first(q, slow), p, q)
      BY FromFirstBegins, Zenon
    <3>2. \A i \in 1..Len(p) : ema_from_first(p, fast)[i] = ema_from_first(q, fast)[i]
      BY <3>1, FollowFacts
    <3>3. \A i \in 1..Len(p) : ema_from_first(p, slow)[i] = ema_from_first(q, slow)[i]
      BY <3>1, FollowFacts
    <3>4. QED
      BY <3>2, <3>3, Zenon
  <2>2. QED
    BY <1>2, <1>3, <2>1
<1>5. Follow(line(p), line(q), p, q)
  BY <1>2, <1>4, Placewise, Zenon
<1>6. Begins(line(p), line(q)) /\ Len(line(p)) = Len(p)
  BY <1>5, FollowFacts, Zenon
<1>7. Follow(smooth(p), smooth(q), line(p), line(q))
  BY <1>6, FromFirstBegins, Zenon
<1>8. \A i \in 1..Len(p) : smooth(p)[i] = smooth(q)[i]
  <2>1. \A i \in 1..Len(line(p)) : smooth(p)[i] = smooth(q)[i]
    BY <1>6, <1>7, FollowFacts, Zenon
  <2>2. QED
    BY <1>6, <2>1
<1>9. /\ DOMAIN smooth(p) = 1..Len(p) /\ DOMAIN line(p) = 1..Len(p) /\ DOMAIN hist(p) = 1..Len(p)
      /\ DOMAIN smooth(q) = 1..Len(q) /\ DOMAIN line(q) = 1..Len(q) /\ DOMAIN hist(q) = 1..Len(q)
  <2>1. DOMAIN line(p) = DOMAIN p /\ DOMAIN hist(p) = DOMAIN p
        /\ DOMAIN line(q) = DOMAIN q /\ DOMAIN hist(q) = DOMAIN q
    BY <1>2, Zenon
  <2>2. DOMAIN smooth(p) = DOMAIN line(p) /\ DOMAIN smooth(q) = DOMAIN line(q)
    BY Zenon DEF ema_from_first
  <2>3. QED
    BY <1>3, <2>1, <2>2
<1> HIDE DEF smooth
<1>10. \A i \in 1..Len(p) : hist(p)[i] = hist(q)[i]
  BY <1>2, <1>3, <1>4, <1>8, SMTT(30)
<1>11. /\ Follow(Series(p, line(p)), Series(q, line(q)), p, q)
       /\ Follow(Series(p, smooth(p)), Series(q, smooth(q)), p, q)
       /\ Follow(Series(p, hist(p)), Series(q, hist(q)), p, q)
  <2>1. \A i \in 1..Len(p) : /\ i \in DOMAIN line(p) <=> i \in DOMAIN line(q)
                             /\ i \in DOMAIN smooth(p) <=> i \in DOMAIN smooth(q)
                             /\ i \in DOMAIN hist(p) <=> i \in DOMAIN hist(q)
    BY <1>3, <1>9, Zenon
  <2>2. QED
    BY <1>4, <1>8, <1>10, <2>1, SeriesBegin, Zenon
<1>12. SUFFICES ASSUME NEW k \in 1..3
                PROVE  Follow(macd(p, fast, slow, signal)[k], macd(q, fast, slow, signal)[k], p, q)
  OBVIOUS
<1>13. k = 1 \/ k = 2 \/ k = 3
  OBVIOUS
<1>14. \A v \in {p, q} : /\ macd(v, fast, slow, signal)[1] = Series(v, line(v))
                         /\ macd(v, fast, slow, signal)[2] = Series(v, smooth(v))
                         /\ macd(v, fast, slow, signal)[3] = Series(v, hist(v))
  BY <1>1
<1>15. QED
  BY <1>11, <1>13, <1>14

LEMMA BandsBegin ==
  ASSUME NEW p, NEW q, Begins(p, q), NEW w \in Nat \ {0}, NEW stdevs
  PROVE  \A k \in 1..3 : Follow(bollinger_bands(p, w, stdevs)[k], bollinger_bands(q, w, stdevs)[k], p, q)
<1> DEFINE width(chunk, sign) == Mean(chunk) + sign * stdevs * Deviation(chunk, Mean(chunk))
           edge(v, sign) == [i \in w..Len(v) |-> width(Window(v, i, w), sign)]
<1>1. \A v \in {p, q} :
        bollinger_bands(v, w, stdevs) =
          <<sma(v, w), Series(v, edge(v, 1)), Series(v, edge(v, -1))>>
  BY DEF bollinger_bands
<1>2. \A sign : \A i \in 1..Len(p) :
        /\ i \in DOMAIN edge(p, sign) <=> i \in DOMAIN edge(q, sign)
        /\ i \in DOMAIN edge(p, sign) => edge(p, sign)[i] = edge(q, sign)[i]
  <2> HIDE DEF width
  <2>1. QED
    BY SameWindow, ZenonT(40)
<1> HIDE DEF edge
<1>3. /\ Follow(sma(p, w), sma(q, w), p, q)
      /\ \A sign : Follow(Series(p, edge(p, sign)), Series(q, edge(q, sign)), p, q)
  BY <1>2, SmaBegins, SeriesBegin, Zenon
<1>4. SUFFICES ASSUME NEW k \in 1..3
               PROVE  Follow(bollinger_bands(p, w, stdevs)[k], bollinger_bands(q, w, stdevs)[k], p, q)
  OBVIOUS
<1>5. k = 1 \/ k = 2 \/ k = 3
  OBVIOUS
<1>6. \A v \in {p, q} : /\ bollinger_bands(v, w, stdevs)[1] = sma(v, w)
                        /\ bollinger_bands(v, w, stdevs)[2] = Series(v, edge(v, 1))
                        /\ bollinger_bands(v, w, stdevs)[3] = Series(v, edge(v, -1))
  BY <1>1
<1>7. QED
  BY <1>3, <1>5, <1>6

LEMMA AtrBegins ==
  ASSUME NEW p, NEW q, Begins(p, q), NEW w \in Nat \ {0}
  PROVE  Follow(atr(p, w), atr(q, w), p, q)
<1> DEFINE ranges(v) == [i \in DOMAIN v |-> true_range(v, i)]
<1>1. \A i \in 1..Len(p) : true_range(p, i) = true_range(q, i)
  <2>1. SUFFICES ASSUME NEW i \in 1..Len(p)
                 PROVE  true_range(p, i) = true_range(q, i)
    OBVIOUS
  <2>2. p[i] = q[i]
    BY BeginsDomain
  <2>3. i # 1 => p[i - 1] = q[i - 1]
    <3>1. i # 1 => i - 1 \in 1..Len(p)
      BY BeginsDomain
    <3>2. QED
      BY <3>1, BeginsDomain
  <2>4. CASE i = 1
    BY <2>2, <2>4, Zenon DEF true_range
  <2>5. CASE i # 1
    BY <2>2, <2>3, <2>5, Zenon DEF true_range
  <2>6. QED
    BY <2>4, <2>5
<1>2. \A v \in {p, q} : ranges(v) = [i \in DOMAIN v |-> ranges(v)[i]]
                        /\ \A i \in DOMAIN v : ranges(v)[i] = true_range(v, i)
  BY Zenon
<1>3. \A v \in {p, q} : atr(v, w) = Series(v, Smoothed(ranges(v), w))
  BY DEF atr
<1> HIDE DEF ranges
<1>4. \A i \in 1..Len(p) : ranges(p)[i] = ranges(q)[i]
  <2>1. \A i \in 1..Len(p) : i \in DOMAIN p /\ i \in DOMAIN q
    BY BeginsDomain
  <2>2. QED
    BY <1>1, <1>2, <2>1, Zenon
<1>5. Begins(ranges(p), ranges(q)) /\ Len(ranges(p)) = Len(p)
  <2>1. Follow(ranges(p), ranges(q), p, q)
    BY <1>2, <1>4, Placewise, Zenon
  <2>2. QED
    BY <2>1, Zenon DEF Follow
<1>6. \A i \in 1..Len(p) :
        /\ i \in DOMAIN Smoothed(ranges(p), w) <=> i \in DOMAIN Smoothed(ranges(q), w)
        /\ i \in DOMAIN Smoothed(ranges(p), w) =>
             Smoothed(ranges(p), w)[i] = Smoothed(ranges(q), w)[i]
  BY <1>5, SmoothedAgree
<1>7. Follow(Series(p, Smoothed(ranges(p), w)), Series(q, Smoothed(ranges(q), w)), p, q)
  BY <1>6, SeriesBegin, Zenon
<1>8. QED
  BY <1>3, <1>7

VwapPrice(bar) == IF bar.vwap = {} THEN (bar.high + bar.low + bar.close) \div 3 ELSE Max(bar.vwap)

VwapVolume(bars, i) == Total([j \in 1..i |-> bars[j].volume])

VwapTurnover(bars, i) == Total([j \in 1..i |-> VwapPrice(bars[j]) * bars[j].volume])

LEMMA VwapBegins ==
  ASSUME NEW p, NEW q, Begins(p, q)
  PROVE  Follow(vwap(p), vwap(q), p, q)
<1> DEFINE point(v, i) == IF VwapVolume(v, i) = 0 THEN {}
                          ELSE {(Unit * VwapTurnover(v, i)) \div VwapVolume(v, i)}
<1>1. \A v \in {p, q} : vwap(v) = [i \in DOMAIN v |-> point(v, i)]
  BY DEF vwap, VwapPrice, VwapVolume, VwapTurnover
<1>2. \A i \in 1..Len(p) : VwapVolume(p, i) = VwapVolume(q, i) /\ VwapTurnover(p, i) = VwapTurnover(q, i)
  <2>1. SUFFICES ASSUME NEW i \in 1..Len(p)
                 PROVE  VwapVolume(p, i) = VwapVolume(q, i) /\ VwapTurnover(p, i) = VwapTurnover(q, i)
    OBVIOUS
  <2>2. \A j \in 1..i : j \in 1..Len(p)
    BY BeginsDomain
  <2>3. \A j \in 1..i : p[j] = q[j]
    BY <2>2, BeginsDomain
  <2>4. [j \in 1..i |-> p[j].volume] = [j \in 1..i |-> q[j].volume]
    BY <2>3
  <2>5. [j \in 1..i |-> VwapPrice(p[j]) * p[j].volume] = [j \in 1..i |-> VwapPrice(q[j]) * q[j].volume]
    BY <2>3
  <2>6. QED
    BY <2>4, <2>5, Zenon DEF VwapVolume, VwapTurnover
<1>3. \A i \in 1..Len(p) : i \in DOMAIN p /\ i \in DOMAIN q
  BY BeginsDomain
<1>4. \A i \in 1..Len(p) : point(p, i) = point(q, i)
  BY <1>2, Zenon
<1> HIDE DEF point
<1>5. /\ vwap(p) = [i \in DOMAIN p |-> vwap(p)[i]] /\ vwap(q) = [i \in DOMAIN q |-> vwap(q)[i]]
      /\ \A i \in DOMAIN p : vwap(p)[i] = point(p, i)
      /\ \A i \in DOMAIN q : vwap(q)[i] = point(q, i)
  BY <1>1
<1>6. \A i \in 1..Len(p) : vwap(p)[i] = vwap(q)[i]
  BY <1>3, <1>4, <1>5, Zenon
<1>7. QED
  BY <1>5, <1>6, Placewise, Zenon

LEMMA ReturnsBegin ==
  ASSUME NEW p, NEW q, Begins(p, q), NEW w \in Nat \ {0}
  PROVE  Follow(returns(p, w), returns(q, w), p, q)
<1> DEFINE point(v, i) == IF i <= w \/ v[i - w] = 0 THEN {}
                          ELSE {(Unit * v[i]) \div v[i - w] - Unit}
<1>1. \A v \in {p, q} : returns(v, w) = [i \in DOMAIN v |-> point(v, i)]
  BY DEF returns
<1>2. \A i \in 1..Len(p) : point(p, i) = point(q, i)
  <2>1. SUFFICES ASSUME NEW i \in 1..Len(p), ~(i <= w)
                 PROVE  p[i] = q[i] /\ p[i - w] = q[i - w]
    BY Zenon
  <2>2. i - w \in 1..Len(p)
    BY <2>1, BeginsDomain
  <2>3. QED
    BY <2>2, BeginsDomain
<1>3. \A i \in 1..Len(p) : i \in DOMAIN p /\ i \in DOMAIN q
  BY BeginsDomain
<1> HIDE DEF point
<1>4. /\ returns(p, w) = [i \in DOMAIN p |-> returns(p, w)[i]]
      /\ returns(q, w) = [i \in DOMAIN q |-> returns(q, w)[i]]
      /\ \A i \in DOMAIN p : returns(p, w)[i] = point(p, i)
      /\ \A i \in DOMAIN q : returns(q, w)[i] = point(q, i)
  BY <1>1
<1>5. \A i \in 1..Len(p) : returns(p, w)[i] = returns(q, w)[i]
  BY <1>2, <1>3, <1>4, Zenon
<1>6. QED
  BY <1>4, <1>5, Placewise, Zenon

LEMMA VolatilityBegins ==
  ASSUME NEW p, NEW q, Begins(p, q), NEW w \in Nat \ {0}, NEW r \in Nat \ {0}
  PROVE  Follow(volatility(p, w, r), volatility(q, w, r), p, q)
<1> DEFINE of(chunk) == IF \E j \in 1..w : chunk[j] = {} THEN {}
                        ELSE LET known == [j \in 1..w |-> Max(chunk[j])]
                             IN  {Deviation(known, Mean(known))}
           point(v, i) == IF i < w THEN {} ELSE of(Window(returns(v, r), i, w))
<1>1. \A v \in {p, q} : volatility(v, w, r) = [i \in DOMAIN v |-> point(v, i)]
  BY DEF volatility
<1> HIDE DEF of
<1>2. Begins(returns(p, r), returns(q, r)) /\ Len(returns(p, r)) = Len(p)
  BY ReturnsBegin, Zenon DEF Follow
<1>3. \A i \in 1..Len(p) : point(p, i) = point(q, i)
  <2>1. SUFFICES ASSUME NEW i \in 1..Len(p), ~(i < w)
                 PROVE  Window(returns(p, r), i, w) = Window(returns(q, r), i, w)
    BY Zenon
  <2>2. i \in 1..Len(returns(p, r)) /\ i \in w..Len(returns(p, r))
    BY <1>2, <2>1, BeginsDomain
  <2>3. QED
    BY <1>2, <2>2, SameWindow
<1>4. \A i \in 1..Len(p) : i \in DOMAIN p /\ i \in DOMAIN q
  BY BeginsDomain
<1> HIDE DEF point
<1>5. /\ volatility(p, w, r) = [i \in DOMAIN p |-> volatility(p, w, r)[i]]
      /\ volatility(q, w, r) = [i \in DOMAIN q |-> volatility(q, w, r)[i]]
      /\ \A i \in DOMAIN p : volatility(p, w, r)[i] = point(p, i)
      /\ \A i \in DOMAIN q : volatility(q, w, r)[i] = point(q, i)
  BY <1>1
<1>6. \A i \in 1..Len(p) : volatility(p, w, r)[i] = volatility(q, w, r)[i]
  BY <1>3, <1>4, <1>5, Zenon
<1>7. QED
  BY <1>5, <1>6, Placewise, Zenon

LEMMA RatioBegins ==
  ASSUME NEW p, NEW q, Begins(p, q), NEW w \in Nat \ {0}
  PROVE  Follow(volume_ratio(p, w), volume_ratio(q, w), p, q)
<1> DEFINE of(bar, means) == {(Unit * Unit * bar.volume) \div mean : mean \in means \ {0}}
           point(v, i) == of(v[i], sma(Volumes(v), w)[i])
<1>1. \A v \in {p, q} : volume_ratio(v, w) = [i \in DOMAIN v |-> point(v, i)]
  BY DEF volume_ratio
<1> HIDE DEF of
<1>2. Begins(Volumes(p), Volumes(q)) /\ Len(Volumes(p)) = Len(p)
  BY ClosesBegin, Zenon DEF Follow
<1>3. \A i \in 1..Len(p) : sma(Volumes(p), w)[i] = sma(Volumes(q), w)[i]
  <2>1. Follow(sma(Volumes(p), w), sma(Volumes(q), w), Volumes(p), Volumes(q))
    BY <1>2, SmaBegins, Zenon
  <2>2. \A i \in 1..Len(Volumes(p)) : sma(Volumes(p), w)[i] = sma(Volumes(q), w)[i]
    BY <1>2, <2>1, FollowFacts
  <2>3. QED
    BY <1>2, <2>2
<1>4. \A i \in 1..Len(p) : i \in DOMAIN p /\ i \in DOMAIN q /\ p[i] = q[i]
  BY BeginsDomain
<1>5. \A i \in 1..Len(p) : point(p, i) = point(q, i)
  BY <1>3, <1>4, Zenon
<1> HIDE DEF point
<1>6. /\ volume_ratio(p, w) = [i \in DOMAIN p |-> volume_ratio(p, w)[i]]
      /\ volume_ratio(q, w) = [i \in DOMAIN q |-> volume_ratio(q, w)[i]]
      /\ \A i \in DOMAIN p : volume_ratio(p, w)[i] = point(p, i)
      /\ \A i \in DOMAIN q : volume_ratio(q, w)[i] = point(q, i)
  BY <1>1
<1>7. \A i \in 1..Len(p) : volume_ratio(p, w)[i] = volume_ratio(q, w)[i]
  BY <1>4, <1>5, <1>6, Zenon
<1>8. QED
  BY <1>6, <1>7, Placewise, Zenon

(* The indicators never look ahead: the series over the first bars of a list are the
   beginnings of those over all of it. *)
LEMMA IndicatorBegins ==
  ASSUME NEW p, NEW q, Begins(p, q), NEW spec, IsSpec(spec)
  PROVE  /\ DOMAIN compute_indicator(spec, p) = DOMAIN compute_indicator(spec, q)
         /\ \A name \in DOMAIN compute_indicator(spec, p) :
              Follow(compute_indicator(spec, p)[name], compute_indicator(spec, q)[name], p, q)
<1> DEFINE w == spec.window
           one(series) == [name \in {<<spec.name, spec.window>>} |-> series]
           three(names, series) ==
             [name \in Range(names) |-> series[CHOOSE k \in 1..3 : names[k] = name]]
           Agree(f, g) == DOMAIN f = DOMAIN g /\ \A name \in DOMAIN f : Follow(f[name], g[name], p, q)
           macds == <<<<"macd", spec.fast, spec.slow, spec.signal>>,
                      <<"macd_signal", spec.fast, spec.slow, spec.signal>>,
                      <<"macd_hist", spec.fast, spec.slow, spec.signal>>>>
           bands == <<<<"bollinger_mid", w>>, <<"bollinger_upper", w>>, <<"bollinger_lower", w>>>>
<1>1. spec.name \in Windowed \/ spec.name = "vwap" \/ spec.name = "macd"
  BY DEF IsSpec
<1>2. spec.name \in Windowed => w \in Nat \ {0}
  BY DEF IsSpec
<1>3. \A s, t : Follow(s, t, p, q) => Agree(one(s), one(t))
  BY Zenon
<1>4. ASSUME NEW names, \A name \in Range(names) : \E k \in 1..3 : names[k] = name,
             NEW s, NEW t, \A k \in 1..3 : Follow(s[k], t[k], p, q)
      PROVE  Agree(three(names, s), three(names, t))
  BY <1>4, Zenon
<1>5. /\ Range(macds) = {macds[1], macds[2], macds[3]} /\ Range(bands) = {bands[1], bands[2], bands[3]}
  BY DEF Range
<1>6. /\ \A name \in Range(macds) : \E k \in 1..3 : macds[k] = name
      /\ \A name \in Range(bands) : \E k \in 1..3 : bands[k] = name
  <2> HIDE DEF macds, bands
  <2>1. 1 \in 1..3 /\ 2 \in 1..3 /\ 3 \in 1..3
    OBVIOUS
  <2>2. QED
    BY <1>5, <2>1, Zenon
<1>7. \A v \in {p, q} :
        /\ spec.name = "sma" => compute_indicator(spec, v) = one(sma(Closes(v), w))
        /\ spec.name = "ema" => compute_indicator(spec, v) = one(ema(Closes(v), w))
        /\ spec.name = "rsi" => compute_indicator(spec, v) = one(rsi(Closes(v), w))
        /\ spec.name = "atr" => compute_indicator(spec, v) = one(atr(v, w))
        /\ spec.name = "returns" => compute_indicator(spec, v) = one(returns(Closes(v), w))
        /\ spec.name = "volatility" =>
             compute_indicator(spec, v) = one(volatility(Closes(v), w, spec.return_window))
        /\ spec.name = "volume_mean" => compute_indicator(spec, v) = one(sma(Volumes(v), w))
        /\ spec.name = "volume_ratio" => compute_indicator(spec, v) = one(volume_ratio(v, w))
        /\ spec.name = "vwap" => compute_indicator(spec, v) = [name \in {<<"vwap">>} |-> vwap(v)]
        /\ spec.name = "macd" =>
             compute_indicator(spec, v) =
               three(macds, macd(Closes(v), spec.fast, spec.slow, spec.signal))
        /\ spec.name = "bollinger" =>
             compute_indicator(spec, v) = three(bands, bollinger_bands(Closes(v), w, spec.stdevs))
  <2> HIDE DEF one, three, macds, bands
  <2> TAKE v \in {p, q}
  <2>1. /\ spec.name = "sma" => compute_indicator(spec, v) = one(sma(Closes(v), w))
        /\ spec.name = "ema" => compute_indicator(spec, v) = one(ema(Closes(v), w))
        /\ spec.name = "rsi" => compute_indicator(spec, v) = one(rsi(Closes(v), w))
        /\ spec.name = "atr" => compute_indicator(spec, v) = one(atr(v, w))
    BY DEF compute_indicator, one, three, macds, bands
  <2>2. /\ spec.name = "returns" => compute_indicator(spec, v) = one(returns(Closes(v), w))
        /\ spec.name = "volatility" =>
             compute_indicator(spec, v) = one(volatility(Closes(v), w, spec.return_window))
        /\ spec.name = "volume_mean" => compute_indicator(spec, v) = one(sma(Volumes(v), w))
        /\ spec.name = "volume_ratio" => compute_indicator(spec, v) = one(volume_ratio(v, w))
    BY DEF compute_indicator, one, three, macds, bands
  <2>3. /\ spec.name = "vwap" => compute_indicator(spec, v) = [name \in {<<"vwap">>} |-> vwap(v)]
        /\ spec.name = "macd" =>
             compute_indicator(spec, v) =
               three(macds, macd(Closes(v), spec.fast, spec.slow, spec.signal))
        /\ spec.name = "bollinger" =>
             compute_indicator(spec, v) = three(bands, bollinger_bands(Closes(v), w, spec.stdevs))
    BY DEF compute_indicator, one, three, macds, bands
  <2>4. QED
    BY <2>1, <2>2, <2>3
<1> HIDE DEF macds, bands, one, three
<1>8. /\ Follow(Closes(p), Closes(q), p, q) /\ Begins(Closes(p), Closes(q))
      /\ Follow(Volumes(p), Volumes(q), p, q) /\ Begins(Volumes(p), Volumes(q))
  BY ClosesBegin, Zenon DEF Follow
<1>9. \A s, t : /\ Follow(s, t, Closes(p), Closes(q)) => Follow(s, t, p, q)
                /\ Follow(s, t, Volumes(p), Volumes(q)) => Follow(s, t, p, q)
  BY <1>8 DEF Follow
<1>10. Agree(compute_indicator(spec, p), compute_indicator(spec, q))
  <2> HIDE DEF Agree
  <2>1. CASE spec.name = "sma"
    BY <1>2, <1>3, <1>7, <1>8, <1>9, <2>1, SmaBegins DEF Windowed
  <2>2. CASE spec.name = "ema"
    BY <1>2, <1>3, <1>7, <1>8, <1>9, <2>2, EmaBegins DEF Windowed
  <2>3. CASE spec.name = "rsi"
    BY <1>2, <1>3, <1>7, <1>8, <1>9, <2>3, RsiBegins DEF Windowed
  <2>4. CASE spec.name = "atr"
    BY <1>2, <1>3, <1>7, <2>4, AtrBegins DEF Windowed
  <2>5. CASE spec.name = "returns"
    BY <1>2, <1>3, <1>7, <1>8, <1>9, <2>5, ReturnsBegin DEF Windowed
  <2>6. CASE spec.name = "volatility"
    <3>1. spec.return_window \in Nat \ {0}
      BY <2>6 DEF IsSpec
    <3>2. QED
      BY <1>2, <1>3, <1>7, <1>8, <1>9, <2>6, <3>1, VolatilityBegins DEF Windowed
  <2>7. CASE spec.name = "volume_mean"
    BY <1>2, <1>3, <1>7, <1>8, <1>9, <2>7, SmaBegins DEF Windowed
  <2>8. CASE spec.name = "volume_ratio"
    BY <1>2, <1>3, <1>7, <2>8, RatioBegins DEF Windowed
  <2>9. CASE spec.name = "vwap"
    <3>1. compute_indicator(spec, p) = [name \in {<<"vwap">>} |-> vwap(p)]
          /\ compute_indicator(spec, q) = [name \in {<<"vwap">>} |-> vwap(q)]
      BY <1>7, <2>9
    <3>2. Follow(vwap(p), vwap(q), p, q)
      BY VwapBegins
    <3>3. QED
      BY <3>1, <3>2, Zenon DEF Agree
  <2>10. CASE spec.name = "macd"
    <3>1. \A k \in 1..3 : Follow(macd(Closes(p), spec.fast, spec.slow, spec.signal)[k],
                                 macd(Closes(q), spec.fast, spec.slow, spec.signal)[k], p, q)
      BY <1>8, <1>9, MacdBegins
    <3>2. QED
      BY <1>4, <1>6, <1>7, <2>10, <3>1
  <2>11. CASE spec.name = "bollinger"
    <3>1. \A k \in 1..3 : Follow(bollinger_bands(Closes(p), w, spec.stdevs)[k],
                                 bollinger_bands(Closes(q), w, spec.stdevs)[k], p, q)
      BY <1>2, <1>8, <1>9, <2>11, BandsBegin DEF Windowed
    <3>2. QED
      BY <1>4, <1>6, <1>7, <2>11, <3>1
  <2>12. QED
    BY <1>1, <2>1, <2>2, <2>3, <2>4, <2>5, <2>6, <2>7, <2>8, <2>9, <2>10, <2>11 DEF Windowed
<1>11. QED
  BY <1>10

(* Some places, before which there is no other. *)
ComeFirst(first, places) ==
  first \subseteq places /\ \A i \in first : \A j \in places : j < i => j \in first

(* The numbers of the places that come first. *)
LEMMA FirstNumbers ==
  ASSUME NEW places, NEW first, NEW n, NEW m, NEW at, NEW bt, places \subseteq Int,
         ComeFirst(first, places), Numbers(at, n, first), Numbers(bt, m, places), NEW k \in 1..n
  PROVE  k \in 1..m /\ bt[k] = at[k]
<1> DEFINE Wrong == {l \in 1..n : ~(l \in 1..m /\ bt[l] = at[l])}
<1>1. n \in Nat /\ m \in Nat
  BY DEF Numbers
<1> USE DEF ComeFirst
<1>2. SUFFICES ASSUME Wrong # {}
               PROVE  FALSE
  BY <1>2
<1>3. PICK w \in Wrong : \A l \in Wrong : ~(l < w)
  <2>1. Wrong \subseteq Nat
    BY <1>1
  <2> HIDE DEF Wrong
  <2>2. QED
    BY <1>2, <2>1, LeastElement
<1>4. w \in 1..n /\ \A l \in 1..n : l < w => l \in 1..m /\ bt[l] = at[l]
  BY <1>3
<1>5. PICK l \in 1..m : bt[l] = at[w]
  BY <1>4 DEF Numbers
<1>6. ~(l < w)
  <2>1. SUFFICES ASSUME l < w
                 PROVE  FALSE
    OBVIOUS
  <2>2. l \in 1..n
    BY <1>1, <1>4, <1>5, <2>1
  <2>3. at[l] = at[w] /\ at[l] < at[w]
    BY <1>4, <1>5, <2>1, <2>2 DEF Numbers
  <2>4. at[w] \in Int
    BY <1>4 DEF Numbers
  <2>5. QED
    BY <2>3, <2>4
<1>7. w \in 1..m
  BY <1>1, <1>4, <1>5, <1>6
<1>8. PICK j \in 1..n : at[j] = bt[w]
  <2>1. bt[w] \in first
    <3>1. at[w] \in first /\ bt[w] \in places
      BY <1>4, <1>7 DEF Numbers
    <3>2. w = l \/ w < l
      BY <1>4, <1>5, <1>6
    <3>3. w < l => bt[w] < at[w]
      BY <1>5, <1>7 DEF Numbers
    <3>4. QED
      BY <1>5, <3>1, <3>2, <3>3
  <2>2. QED
    BY <2>1 DEF Numbers
<1>9. ~(j < w)
  <2>1. SUFFICES ASSUME j < w
                 PROVE  FALSE
    OBVIOUS
  <2>2. j \in 1..m /\ bt[j] = at[j]
    BY <1>4, <1>8, <2>1
  <2>3. bt[j] < bt[w]
    BY <1>7, <2>1, <2>2 DEF Numbers
  <2>4. bt[w] \in Int
    BY <1>7 DEF Numbers
  <2>5. QED
    BY <1>8, <2>2, <2>3, <2>4
<1>10. at[w] \in Int /\ bt[w] \in Int
  BY <1>4, <1>7 DEF Numbers
<1>11. at[w] <= at[j]
  <2>1. w = j \/ w < j
    BY <1>4, <1>8, <1>9
  <2>2. CASE w = j
    BY <1>10, <2>2
  <2>3. CASE w < j
    <3>1. at[w] < at[j] /\ at[j] \in Int
      BY <1>4, <1>8, <2>3 DEF Numbers
    <3>2. QED
      BY <1>10, <3>1
  <2>4. QED
    BY <2>1, <2>2, <2>3
<1>12. bt[w] <= bt[l]
  <2>1. w = l \/ w < l
    BY <1>4, <1>5, <1>6
  <2>2. CASE w = l
    BY <1>10, <2>2
  <2>3. CASE w < l
    <3>1. bt[w] < bt[l] /\ bt[l] \in Int
      BY <1>5, <1>7, <2>3 DEF Numbers
    <3>2. QED
      BY <1>10, <3>1
  <2>4. QED
    BY <2>1, <2>2, <2>3
<1>13. bt[w] = at[w]
  BY <1>5, <1>8, <1>10, <1>11, <1>12
<1>14. QED
  BY <1>3, <1>7, <1>13

LEMMA FirstPlaces ==
  ASSUME NEW rows, NEW places, NEW q, NEW first, NEW p, places \subseteq Int,
         ComeFirst(first, places), Lists(q, rows, places), Lists(p, rows, first)
  PROVE  Begins(p, q)
<1>1. PICK n, at : Numbers(at, n, first) /\ p = [k \in 1..n |-> rows[at[k]]]
  BY DEF Lists
<1>2. PICK m, bt : Numbers(bt, m, places) /\ q = [k \in 1..m |-> rows[bt[k]]]
  BY DEF Lists
<1>3. \A k \in 1..n : k \in 1..m /\ bt[k] = at[k]
  <2>1. Numbers(at, n, first) /\ Numbers(bt, m, places)
    BY <1>1, <1>2
  <2>2. QED
    BY <2>1, FirstNumbers, Zenon
<1>4. n \in Nat /\ m \in Nat
  BY <1>1, <1>2 DEF Numbers
<1>5. n <= m
  BY <1>3, <1>4
<1>6. p = [k \in 1..n |-> p[k]] /\ q = [k \in 1..m |-> q[k]]
  BY <1>1, <1>2, Zenon
<1>7. Len(p) = n /\ Len(q) = m
  BY <1>4, <1>6, LenOf, Zenon
<1>8. \A k \in 1..n : p[k] = q[k]
  BY <1>1, <1>2, <1>3
<1>9. QED
  BY <1>4, <1>5, <1>6, <1>7, <1>8, Zenon DEF Begins

(* Specs that compute_indicator takes. *)
AreSpecs(specs) == \E n \in Nat : DOMAIN specs = 1..n /\ \A k \in 1..n : IsSpec(specs[k])

(* All that is computed over some bars is the beginning of what is computed over more. *)
LEMMA ComputedBegins ==
  ASSUME NEW p, NEW q, Begins(p, q), NEW specs, AreSpecs(specs)
  PROVE  /\ DOMAIN computed(specs, p) = DOMAIN computed(specs, q)
         /\ \A name \in DOMAIN computed(specs, p) :
              Follow(computed(specs, p)[name], computed(specs, q)[name], p, q)
<1> DEFINE series(v) == [k \in DOMAIN specs |-> compute_indicator(specs[k], v)]
           having(v, name) == {k \in DOMAIN specs : name \in DOMAIN series(v)[k]}
           names(v) == UNION {DOMAIN series(v)[k] : k \in DOMAIN specs}
<1>1. PICK n \in Nat : DOMAIN specs = 1..n /\ \A k \in 1..n : IsSpec(specs[k])
  BY DEF AreSpecs
<1>2. \A v \in {p, q} :
        computed(specs, v) = [name \in names(v) |-> series(v)[Max(having(v, name))][name]]
  BY DEF computed, Merged
<1>3. \A k \in 1..n :
        /\ DOMAIN series(p)[k] = DOMAIN series(q)[k]
        /\ \A name \in DOMAIN series(p)[k] : Follow(series(p)[k][name], series(q)[k][name], p, q)
  <2>1. SUFFICES ASSUME NEW k \in 1..n
                 PROVE  /\ DOMAIN compute_indicator(specs[k], p) = DOMAIN compute_indicator(specs[k], q)
                        /\ \A name \in DOMAIN compute_indicator(specs[k], p) :
                             Follow(compute_indicator(specs[k], p)[name],
                                    compute_indicator(specs[k], q)[name], p, q)
    BY <1>1
  <2>2. QED
    BY <1>1, IndicatorBegins
<1> HIDE DEF series
<1>4. names(p) = names(q) /\ \A name : having(p, name) = having(q, name)
  BY <1>1, <1>3
<1>5. DOMAIN computed(specs, p) = names(p) /\ DOMAIN computed(specs, q) = names(p)
  BY <1>2, <1>4
<1>6. ASSUME NEW name \in names(p)
      PROVE  Follow(computed(specs, p)[name], computed(specs, q)[name], p, q)
  <2>1. having(p, name) \in (SUBSET (1..n)) \ {{}}
    BY <1>1
  <2>2. Max(having(p, name)) \in having(p, name)
    <3> HIDE DEF having
    <3>1. QED
      BY <2>1, GreatestElement
  <2>3. Max(having(p, name)) \in 1..n /\ name \in DOMAIN series(p)[Max(having(p, name))]
    BY <1>1, <2>2
  <2>4. /\ computed(specs, p)[name] = series(p)[Max(having(p, name))][name]
        /\ computed(specs, q)[name] = series(q)[Max(having(p, name))][name]
    <3> HIDE DEF having
    <3>1. QED
      BY <1>2, <1>4
  <2> HIDE DEF having, names
  <2>5. QED
    BY <1>3, <2>3, <2>4
<1>7. QED
  BY <1>5, <1>6

(* The rows of a symbol over the bars it had by some time are the first of its rows
   over all of them. *)
LEMMA RowsBegin ==
  ASSUME NEW a, NEW b, NEW symbol, NEW specs, AreSpecs(specs),
         Begins(ByTime(BarsOf(a, symbol)), ByTime(BarsOf(b, symbol)))
  PROVE  Follow(RowsOf(specs, a, symbol), RowsOf(specs, b, symbol),
                ByTime(BarsOf(a, symbol)), ByTime(BarsOf(b, symbol)))
<1> DEFINE p == ByTime(BarsOf(a, symbol))
           q == ByTime(BarsOf(b, symbol))
           row(v, i) == [symbol |-> symbol, timestamp |-> v[i].timestamp,
                         values |-> [name \in DOMAIN computed(specs, v) |-> computed(specs, v)[name][i]]]
           s == RowsOf(specs, a, symbol)
           t == RowsOf(specs, b, symbol)
<1>1. s = [i \in DOMAIN p |-> row(p, i)] /\ t = [i \in DOMAIN q |-> row(q, i)]
  BY Zenon DEF RowsOf, RowsFrom
<1> HIDE DEF p, q, s, t
<1>2. Begins(p, q)
  BY DEF p, q
<1>3. DOMAIN computed(specs, p) = DOMAIN computed(specs, q)
  BY <1>2, ComputedBegins
<1>4. \A name \in DOMAIN computed(specs, p) :
        Follow(computed(specs, p)[name], computed(specs, q)[name], p, q)
  BY <1>2, ComputedBegins
<1>5. \A i \in 1..Len(p) : i \in DOMAIN p /\ i \in DOMAIN q /\ p[i] = q[i]
  BY <1>2, BeginsDomain
<1>6. \A i \in 1..Len(p) : row(p, i) = row(q, i)
  <2>1. SUFFICES ASSUME NEW i \in 1..Len(p)
                 PROVE  row(p, i) = row(q, i)
    BY Zenon
  <2>2. \A name \in DOMAIN computed(specs, p) : computed(specs, p)[name][i] = computed(specs, q)[name][i]
    BY <1>2, <1>4, FollowFacts
  <2>3. [name \in DOMAIN computed(specs, p) |-> computed(specs, p)[name][i]]
          = [name \in DOMAIN computed(specs, q) |-> computed(specs, q)[name][i]]
    BY <1>3, <2>2
  <2>4. p[i] = q[i]
    BY <1>5
  <2>5. QED
    BY <2>3, <2>4, Zenon
<1> HIDE DEF row
<1>7. s = [i \in DOMAIN p |-> s[i]] /\ t = [i \in DOMAIN q |-> t[i]]
  BY <1>1
<1>8. \A i \in 1..Len(p) : s[i] = t[i]
  BY <1>1, <1>5, <1>6, Zenon
<1>9. Follow(s, t, p, q)
  BY <1>2, <1>7, <1>8, Placewise, Zenon
<1>10. QED
  BY <1>9 DEF p, q, s, t

InOrder(key, places) == \A i, j \in places : Precedes(key[i], key[j]) => i < j

(* A sort by keys that are in order already lists what there is. *)
LEMMA SortedLists ==
  ASSUME NEW rows, IsFiniteSet(DOMAIN rows), NEW key \in [DOMAIN rows -> Int \X Int],
         \A i, j \in DOMAIN rows : key[i] = key[j] => i = j, InOrder(key, DOMAIN rows)
  PROVE  Lists(SortedBy(rows, key), rows, DOMAIN rows)
<1>1. PICK n \in Nat : \E at \in [1..n -> DOMAIN rows] :
        /\ n = Cardinality(DOMAIN rows)
        /\ SortedBy(rows, key) = [k \in 1..n |-> rows[at[k]]]
        /\ \A k, l \in 1..n : k < l => Precedes(key[at[k]], key[at[l]])
        /\ \A i \in DOMAIN rows : \E k \in 1..n : at[k] = i
  BY SMTT(20), ZenonT(40), SortedByFacts
<1>2. PICK at \in [1..n -> DOMAIN rows] :
        /\ SortedBy(rows, key) = [k \in 1..n |-> rows[at[k]]]
        /\ \A k, l \in 1..n : k < l => Precedes(key[at[k]], key[at[l]])
        /\ \A i \in DOMAIN rows : \E k \in 1..n : at[k] = i
  BY <1>1
<1>3. Numbers(at, n, DOMAIN rows)
  BY <1>2 DEF Numbers, InOrder
<1>4. QED
  BY <1>2, <1>3, ListOf

LEMMA ListsItself ==
  ASSUME NEW bars, NEW n \in Nat, bars = [k \in 1..n |-> bars[k]]
  PROVE  Lists(bars, bars, 1..n)
<1> DEFINE id == [k \in 1..n |-> k]
<1>1. Numbers(id, n, 1..n)
  BY DEF Numbers
<1>2. bars = [k \in 1..n |-> bars[id[k]]]
  OBVIOUS
<1> HIDE DEF id
<1>3. QED
  BY <1>1, <1>2, ListOf

(* Bars in the order of their times are left in their order. *)
LEMMA ByTimeIs ==
  ASSUME NEW bars, NEW n \in Nat, bars = [k \in 1..n |-> bars[k]],
         \A k \in 1..n : bars[k].timestamp \in Int,
         \A k, l \in 1..n : k <= l => bars[k].timestamp <= bars[l].timestamp
  PROVE  ByTime(bars) = bars
<1> DEFINE key == [i \in 1..n |-> <<bars[i].timestamp, i>>]
<1>1. DOMAIN bars = 1..n
  BY Zenon
<1>2. ByTime(bars) = SortedBy(bars, key)
  BY <1>1, Zenon DEF ByTime
<1>3. key \in [1..n -> Int \X Int] /\ IsFiniteSet(1..n)
  BY FS_Interval
<1>4. \A i, j \in 1..n : key[i] = key[j] => i = j
  OBVIOUS
<1>5. \A i, j \in 1..n : Precedes(key[i], key[j]) => i < j
  <2>1. SUFFICES ASSUME NEW i \in 1..n, NEW j \in 1..n,
                        bars[i].timestamp < bars[j].timestamp
                          \/ (bars[i].timestamp = bars[j].timestamp /\ i < j),
                        ~(i < j)
                 PROVE  FALSE
    BY DEF Precedes
  <2>2. j <= i
    BY <2>1
  <2>3. bars[j].timestamp <= bars[i].timestamp /\ bars[j].timestamp \in Int
        /\ bars[i].timestamp \in Int
    BY <2>2
  <2>4. QED
    BY <2>1, <2>3
<1> HIDE DEF key
<1>6. Lists(SortedBy(bars, key), bars, 1..n)
  <2>1. /\ IsFiniteSet(DOMAIN bars) /\ key \in [DOMAIN bars -> Int \X Int]
        /\ \A i, j \in DOMAIN bars : key[i] = key[j] => i = j
        /\ InOrder(key, DOMAIN bars)
    BY <1>1, <1>3, <1>4, <1>5 DEF InOrder
  <2>2. Lists(SortedBy(bars, key), bars, DOMAIN bars)
    BY <2>1, SortedLists, Zenon
  <2>3. QED
    BY <1>1, <2>2
<1>7. Lists(bars, bars, 1..n)
  BY ListsItself
<1>8. 1..n \subseteq Int
  OBVIOUS
<1>9. QED
  BY <1>2, <1>6, <1>7, <1>8, ListedOnce
-----------------------------------------------------------------------------
(* What the engine has after the first n events: the bars, those of a symbol, and
   their rows. *)
BarsUpTo(n) == BarsIn(SubSeq(history, 1, n))

OwnPlaces(n, symbol) == OfSymbol(history, BarPlaces(history, n), symbol)

OwnBars(n, symbol) == BarsOf(BarsUpTo(n), symbol)

Rows(n, symbol) == RowsOf(Specs, BarsUpTo(n), symbol)

LEMMA SpecsType ==
  ASSUME setup \in Setups
  PROVE  AreSpecs(Specs)
<1>1. Specs \in Seq(ToSet(Specs)) /\ \A k \in DOMAIN Specs : IsSpec(Specs[k])
  BY PipelineAssumption DEF SetupsAssumption, Specs
<1>2. Len(Specs) \in Nat /\ DOMAIN Specs = 1..Len(Specs)
  BY <1>1
<1>3. QED
  BY <1>1, <1>2, Zenon DEF AreSpecs

LEMMA BarsUpToList ==
  ASSUME HistoryFixed, NEW n \in Nat, n <= Len(history)
  PROVE  Lists(BarsUpTo(n), history, BarPlaces(history, n))
<1> DEFINE rows == SubSeq(history, 1, n)
           places == BarPlaces(history, n)
<1>1. history \in Seq(Events) /\ Len(history) \in Nat
  BY PastFacts
<1>2. rows = [k \in 1..n |-> history[k]]
  BY <1>1
<1>3. places = {i \in DOMAIN rows : rows[i].kind = "bar"}
  <2> HIDE DEF rows
  <2>1. QED
    BY <1>2 DEF BarPlaces
<1>4. places \subseteq 1..n
  BY DEF BarPlaces
<1>5. places \subseteq Int /\ IsFiniteSet(places)
  <2>1. IsFiniteSet(1..n)
    BY FS_Interval
  <2>2. IsFiniteSet(places)
    BY <1>4, <2>1, FS_Subset
  <2>3. QED
    BY <1>4, <2>2
<1> HIDE DEF rows, places
<1>6. Lists(Where(rows, places), rows, places)
  BY <1>5, WhereLists
<1>7. PICK m, at : Numbers(at, m, places) /\ Where(rows, places) = [k \in 1..m |-> rows[at[k]]]
  BY <1>6 DEF Lists
<1>8. \A k \in 1..m : rows[at[k]] = history[at[k]]
  <2>1. \A k \in 1..m : at[k] \in 1..n
    BY <1>4, <1>7 DEF Numbers
  <2>2. QED
    BY <1>2, <2>1
<1>9. Where(rows, places) = [k \in 1..m |-> history[at[k]]]
  BY <1>7, <1>8
<1>10. Lists(Where(rows, places), history, places)
  BY <1>7, <1>9, ListOf
<1>11. BarsUpTo(n) = Where(rows, places)
  BY <1>3 DEF BarsUpTo, BarsIn, rows
<1>12. QED
  BY <1>10, <1>11 DEF places

(* The bars of a symbol, in the order they came in, are in the order of their times. *)
LEMMA OwnList ==
  ASSUME HistoryFixed, NEW n \in Nat, n <= Len(history), NEW symbol
  PROVE  /\ Lists(OwnBars(n, symbol), history, OwnPlaces(n, symbol))
         /\ ByTime(OwnBars(n, symbol)) = OwnBars(n, symbol)
         /\ OwnPlaces(n, symbol) \subseteq Int
<1> DEFINE own == OwnBars(n, symbol)
           places == OwnPlaces(n, symbol)
<1>1. /\ Len(history) \in Nat /\ DOMAIN history = 1..Len(history)
      /\ \A i \in DOMAIN history : history[i].timestamp \in Nat
      /\ \A i, j \in DOMAIN history : i <= j => history[i].timestamp <= history[j].timestamp
  BY PastFacts
<1>2. BarPlaces(history, n) \subseteq Int /\ places \subseteq DOMAIN history /\ places \subseteq Int
  <2>1. BarPlaces(history, n) \subseteq 1..n /\ places \subseteq BarPlaces(history, n)
    BY DEF BarPlaces, OwnPlaces, OfSymbol
  <2>2. QED
    BY <1>1, <2>1
<1>3. Lists(own, history, places)
  BY <1>2, BarsUpToList, BarsOfList DEF OwnBars, OwnPlaces
<1> HIDE DEF own, places
<1>4. PICK m, at : Numbers(at, m, places) /\ own = [k \in 1..m |-> history[at[k]]]
  BY <1>3 DEF Lists
<1>5. m \in Nat /\ own = [k \in 1..m |-> own[k]] /\ \A k \in 1..m : own[k] = history[at[k]]
  BY <1>4 DEF Numbers
<1>6. \A k \in 1..m : at[k] \in DOMAIN history /\ at[k] \in Int
  BY <1>2, <1>4 DEF Numbers
<1>7. \A k \in 1..m : own[k].timestamp \in Int
  BY <1>1, <1>5, <1>6
<1>8. \A k, l \in 1..m : k <= l => own[k].timestamp <= own[l].timestamp
  <2>1. SUFFICES ASSUME NEW k \in 1..m, NEW l \in 1..m, k <= l
                 PROVE  history[at[k]].timestamp <= history[at[l]].timestamp
    BY <1>5
  <2>2. k < l => at[k] < at[l]
    BY <1>4 DEF Numbers
  <2>3. at[k] <= at[l]
    BY <1>6, <2>1, <2>2
  <2>4. QED
    BY <1>1, <1>6, <2>3
<1>9. ByTime(own) = own
  BY <1>5, <1>7, <1>8, ByTimeIs
<1>10. QED
  BY <1>2, <1>3, <1>9 DEF own, places

LEMMA OwnBegin ==
  ASSUME HistoryFixed, NEW n \in Nat, NEW m \in Nat, n <= m, m <= Len(history), NEW symbol
  PROVE  /\ Begins(OwnBars(n, symbol), OwnBars(m, symbol))
         /\ ComeFirst(OwnPlaces(n, symbol), OwnPlaces(m, symbol))
<1>1. Len(history) \in Nat /\ n <= Len(history)
  BY PastFacts
<1>2. ComeFirst(OwnPlaces(n, symbol), OwnPlaces(m, symbol))
  BY DEF ComeFirst, OwnPlaces, OfSymbol, BarPlaces
<1>3. /\ Lists(OwnBars(n, symbol), history, OwnPlaces(n, symbol))
      /\ Lists(OwnBars(m, symbol), history, OwnPlaces(m, symbol))
      /\ OwnPlaces(m, symbol) \subseteq Int
  BY <1>1, OwnList
<1>4. QED
  BY <1>2, <1>3, FirstPlaces

(* The rows over a prefix of the history begin the rows over a longer one. *)
LEMMA RowsFollow ==
  ASSUME HistoryFixed, NEW n \in Nat, NEW m \in Nat, n <= m, m <= Len(history), NEW symbol
  PROVE  Follow(Rows(n, symbol), Rows(m, symbol), OwnBars(n, symbol), OwnBars(m, symbol))
<1>1. Len(history) \in Nat /\ n <= Len(history) /\ setup \in Setups
  BY PastFacts
<1>2. ByTime(OwnBars(n, symbol)) = OwnBars(n, symbol) /\ ByTime(OwnBars(m, symbol)) = OwnBars(m, symbol)
  BY <1>1, OwnList
<1>3. Begins(OwnBars(n, symbol), OwnBars(m, symbol))
  BY OwnBegin
<1>4. AreSpecs(Specs)
  BY <1>1, SpecsType
<1>5. Begins(ByTime(BarsOf(BarsUpTo(n), symbol)), ByTime(BarsOf(BarsUpTo(m), symbol)))
  BY <1>2, <1>3 DEF OwnBars
<1>6. Follow(RowsOf(Specs, BarsUpTo(n), symbol), RowsOf(Specs, BarsUpTo(m), symbol),
             ByTime(BarsOf(BarsUpTo(n), symbol)), ByTime(BarsOf(BarsUpTo(m), symbol)))
  BY <1>4, <1>5, RowsBegin
<1>7. QED
  BY <1>2, <1>6 DEF OwnBars, Rows

IsRow(row, symbol, bar) ==
  /\ row.symbol = symbol /\ row.timestamp = bar.timestamp
  /\ row = [symbol |-> symbol, timestamp |-> bar.timestamp, values |-> row.values]

(* There is a row for each bar, of its symbol and its time. *)
LEMMA RowFacts ==
  ASSUME HistoryFixed, NEW n \in Nat, n <= Len(history), NEW symbol
  PROVE  /\ Len(OwnBars(n, symbol)) \in Nat /\ Len(Rows(n, symbol)) = Len(OwnBars(n, symbol))
         /\ DOMAIN Rows(n, symbol) = 1..Len(OwnBars(n, symbol))
         /\ DOMAIN OwnBars(n, symbol) = 1..Len(OwnBars(n, symbol))
         /\ \A j \in 1..Len(OwnBars(n, symbol)) :
              IsRow(Rows(n, symbol)[j], symbol, OwnBars(n, symbol)[j])
<1> DEFINE own == OwnBars(n, symbol)
           rows == Rows(n, symbol)
<1>1. Follow(rows, rows, own, own) /\ Begins(own, own)
  <2>1. n <= n
    OBVIOUS
  <2>2. Follow(Rows(n, symbol), Rows(n, symbol), OwnBars(n, symbol), OwnBars(n, symbol))
    BY <2>1, RowsFollow
  <2>3. Begins(OwnBars(n, symbol), OwnBars(n, symbol))
    BY <2>1, OwnBegin
  <2>4. QED
    BY <2>2, <2>3
<1>2. ByTime(own) = own
  BY OwnList
<1>3. rows = [i \in DOMAIN own |-> [symbol |-> symbol, timestamp |-> own[i].timestamp,
                                    values |-> [name \in DOMAIN computed(Specs, own) |->
                                                  computed(Specs, own)[name][i]]]]
  <2>1. rows = [i \in DOMAIN ByTime(own) |->
                  [symbol |-> symbol, timestamp |-> ByTime(own)[i].timestamp,
                   values |-> [name \in DOMAIN computed(Specs, ByTime(own)) |->
                                 computed(Specs, ByTime(own))[name][i]]]]
    BY Zenon DEF Rows, RowsOf, RowsFrom, OwnBars
  <2> HIDE DEF own
  <2>2. QED
    BY <1>2, <2>1, Zenon
<1>4. Len(own) \in Nat /\ DOMAIN own = 1..Len(own) /\ Len(rows) = Len(own)
  BY <1>1, FollowFacts, BeginsDomain
<1> HIDE DEF own, rows
<1>5. DOMAIN rows = 1..Len(own)
  BY <1>3, <1>4
<1>6. \A j \in 1..Len(own) : IsRow(rows[j], symbol, own[j])
  BY <1>3, <1>4 DEF IsRow
<1>7. QED
  BY <1>4, <1>5, <1>6, Zenon DEF own, rows

(* A bar of the symbol brings one row more, any other event brings none. *)
LEMMA OwnGrow ==
  ASSUME HistoryFixed, NEW n \in Nat, n < Len(history), NEW symbol
  PROVE  IF history[n + 1].kind = "bar" /\ history[n + 1].symbol = symbol
         THEN /\ OwnPlaces(n + 1, symbol) = OwnPlaces(n, symbol) \cup {n + 1}
              /\ Len(OwnBars(n + 1, symbol)) = Len(OwnBars(n, symbol)) + 1
              /\ OwnBars(n + 1, symbol)[Len(OwnBars(n, symbol)) + 1] = history[n + 1]
         ELSE /\ OwnPlaces(n + 1, symbol) = OwnPlaces(n, symbol)
              /\ OwnBars(n + 1, symbol) = OwnBars(n, symbol)
<1> DEFINE own == OwnBars(n, symbol)
           more == OwnBars(n + 1, symbol)
           fits == history[n + 1].kind = "bar" /\ history[n + 1].symbol = symbol
<1>1. Len(history) \in Nat /\ n <= Len(history) /\ n + 1 <= Len(history) /\ n + 1 \in Nat
  BY PastFacts
<1>2. BarPlaces(history, n + 1) =
        BarPlaces(history, n) \cup (IF history[n + 1].kind = "bar" THEN {n + 1} ELSE {})
  BY DEF BarPlaces
<1>3. OwnPlaces(n + 1, symbol) = OwnPlaces(n, symbol) \cup (IF fits THEN {n + 1} ELSE {})
  BY <1>2 DEF OwnPlaces, OfSymbol
<1>4. /\ Lists(own, history, OwnPlaces(n, symbol)) /\ OwnPlaces(n, symbol) \subseteq Int
      /\ Lists(more, history, OwnPlaces(n + 1, symbol)) /\ OwnPlaces(n + 1, symbol) \subseteq Int
  BY <1>1, OwnList
<1>5. CASE ~fits
  <2>1. OwnPlaces(n + 1, symbol) = OwnPlaces(n, symbol)
    BY <1>3, <1>5
  <2>2. more = own
    BY <1>4, <2>1, ListedOnce
  <2>3. QED
    BY <1>5, <2>1, <2>2
<1>6. CASE fits
  <2>1. OwnPlaces(n + 1, symbol) = OwnPlaces(n, symbol) \cup {n + 1}
    BY <1>3, <1>6
  <2>2. \A i \in OwnPlaces(n, symbol) : i < n + 1
    BY DEF OwnPlaces, OfSymbol, BarPlaces
  <2>3. Lists(Append(own, history[n + 1]), history, OwnPlaces(n, symbol) \cup {n + 1})
    <3>1. n + 1 \in Int
      BY <1>1
    <3>2. QED
      BY <1>4, <2>2, <3>1, AppendToList, Zenon
  <2>4. more = Append(own, history[n + 1])
    BY <1>4, <2>1, <2>3, ListedOnce
  <2> DEFINE S == {own[k] : k \in 1..Len(own)} \cup {history[n + 1]}
  <2>5. own \in Seq(S) /\ history[n + 1] \in S
    <3>1. Len(own) \in Nat /\ own = [k \in 1..Len(own) |-> own[k]]
      BY <1>4, ListFacts
    <3>2. \A k \in 1..Len(own) : own[k] \in S
      OBVIOUS
    <3> HIDE DEF own
    <3>3. own \in [1..Len(own) -> S]
      <4> HIDE DEF S
      <4>1. QED
        BY <3>1, <3>2, Zenon
    <3>4. QED
      BY <3>1, <3>3
  <2> HIDE DEF S, own
  <2>6. /\ Len(Append(own, history[n + 1])) = Len(own) + 1
        /\ Append(own, history[n + 1])[Len(own) + 1] = history[n + 1]
    BY <2>5, Appended
  <2>7. QED
    BY <1>6, <2>1, <2>4, <2>6 DEF own
<1>7. QED
  BY <1>5, <1>6

(* A bar adds one row to those of its symbol, and nothing changes another row. *)
LEMMA RowsGrow ==
  ASSUME HistoryFixed, NEW n \in Nat, n < Len(history), NEW symbol
  PROVE  IF history[n + 1].kind = "bar" /\ history[n + 1].symbol = symbol
         THEN /\ Len(Rows(n, symbol)) \in Nat /\ Len(Rows(n + 1, symbol)) = Len(Rows(n, symbol)) + 1
              /\ \A j \in 1..Len(Rows(n, symbol)) : Rows(n + 1, symbol)[j] = Rows(n, symbol)[j]
              /\ Rows(n + 1, symbol)[Len(Rows(n, symbol)) + 1].timestamp = history[n + 1].timestamp
         ELSE Rows(n + 1, symbol) = Rows(n, symbol)
<1> DEFINE own == OwnBars(n, symbol)
           more == OwnBars(n + 1, symbol)
           rows == Rows(n, symbol)
           next == Rows(n + 1, symbol)
<1>1. /\ Len(history) \in Nat /\ n <= Len(history) /\ n + 1 <= Len(history) /\ n + 1 \in Nat
      /\ n <= n + 1
  BY PastFacts
<1>2. CASE history[n + 1].kind = "bar" /\ history[n + 1].symbol = symbol
  <2>1. Len(more) = Len(own) + 1 /\ more[Len(own) + 1] = history[n + 1]
    BY <1>2, OwnGrow
  <2>2. Follow(rows, next, own, more) /\ Begins(own, more)
    BY <1>1, RowsFollow, OwnBegin
  <2>3. /\ Len(own) \in Nat /\ Len(rows) = Len(own) /\ Len(next) = Len(more)
        /\ \A j \in 1..Len(own) : rows[j] = next[j]
    BY <2>2, FollowFacts, BeginsDomain
  <2>4. \A j \in 1..Len(more) : next[j].timestamp = more[j].timestamp
    <3> DEFINE m == n + 1
    <3>1. m \in Nat /\ m <= Len(history)
      BY <1>1
    <3> HIDE DEF m
    <3>2. \A j \in 1..Len(OwnBars(m, symbol)) : IsRow(Rows(m, symbol)[j], symbol, OwnBars(m, symbol)[j])
      BY <3>1, RowFacts, Zenon
    <3>3. QED
      BY <3>2 DEF m, IsRow
  <2> HIDE DEF own, more, rows, next
  <2>5. Len(own) + 1 \in 1..Len(more)
    BY <2>1, <2>3
  <2>6. next[Len(rows) + 1].timestamp = history[n + 1].timestamp
    BY <2>1, <2>3, <2>4, <2>5
  <2>7. QED
    BY <1>2, <2>1, <2>3, <2>6 DEF rows, next
<1>3. CASE ~(history[n + 1].kind = "bar" /\ history[n + 1].symbol = symbol)
  <2>1. OwnBars(n + 1, symbol) = OwnBars(n, symbol)
    BY <1>3, OwnGrow
  <2>2. \A k \in {n, n + 1} :
          Rows(k, symbol) =
            [i \in DOMAIN ByTime(OwnBars(k, symbol)) |->
               [symbol |-> symbol, timestamp |-> ByTime(OwnBars(k, symbol))[i].timestamp,
                values |-> [name \in DOMAIN computed(Specs, ByTime(OwnBars(k, symbol))) |->
                              computed(Specs, ByTime(OwnBars(k, symbol)))[name][i]]]]
    BY Zenon DEF Rows, RowsOf, RowsFrom, OwnBars
  <2>3. next = rows
    BY <2>1, <2>2, Zenon
  <2>4. QED
    BY <1>3, <2>3
<1>4. QED
  BY <1>2, <1>3

LEMMA BarsUpToGrow ==
  ASSUME HistoryFixed, NEW n \in Nat, n < Len(history)
  PROVE  BarsUpTo(n + 1) = IF history[n + 1].kind = "bar" THEN Append(BarsUpTo(n), history[n + 1])
                           ELSE BarsUpTo(n)
<1>1. Len(history) \in Nat /\ n <= Len(history) /\ n + 1 <= Len(history) /\ n + 1 \in Nat
  BY PastFacts
<1>2. BarPlaces(history, n + 1) =
        BarPlaces(history, n) \cup (IF history[n + 1].kind = "bar" THEN {n + 1} ELSE {})
  BY DEF BarPlaces
<1>3. /\ Lists(BarsUpTo(n), history, BarPlaces(history, n))
      /\ Lists(BarsUpTo(n + 1), history, BarPlaces(history, n + 1))
  BY <1>1, BarsUpToList
<1>4. BarPlaces(history, n) \subseteq Int /\ BarPlaces(history, n + 1) \subseteq Int
  BY DEF BarPlaces
<1>5. CASE history[n + 1].kind # "bar"
  <2>1. BarPlaces(history, n + 1) = BarPlaces(history, n)
    BY <1>2, <1>5
  <2>2. QED
    BY <1>3, <1>4, <1>5, <2>1, ListedOnce
<1>6. CASE history[n + 1].kind = "bar"
  <2>1. BarPlaces(history, n + 1) = BarPlaces(history, n) \cup {n + 1}
    BY <1>2, <1>6
  <2>2. \A i \in BarPlaces(history, n) : i < n + 1
    BY DEF BarPlaces
  <2>3. n + 1 \in Int
    BY <1>1
  <2>4. Lists(Append(BarsUpTo(n), history[n + 1]), history, BarPlaces(history, n) \cup {n + 1})
    BY <1>3, <1>4, <2>2, <2>3, AppendToList, Zenon
  <2>5. QED
    BY <1>3, <1>4, <1>6, <2>1, <2>4, ListedOnce
<1>7. QED
  BY <1>5, <1>6

LEMMA AllBarsAre ==
  ASSUME HistoryFixed
  PROVE  AllBars = BarsUpTo(Len(history))
<1>1. Len(history) \in Nat /\ Len(history) <= Len(history)
  BY PastFacts
<1>2. Lists(BarsUpTo(Len(history)), history, BarPlaces(history, Len(history)))
  BY <1>1, BarsUpToList
<1>3. BarPlaces(history, Len(history)) \subseteq Int
  BY DEF BarPlaces
<1>4. QED
  BY <1>2, <1>3, AllBarsList, ListedOnce

(* Every row the engine may compute is in the batch over the complete history. *)
LEMMA RowsInBatch ==
  ASSUME HistoryFixed, NEW n \in Nat, n <= Len(history), NEW symbol,
         NEW j \in 1..Len(Rows(n, symbol))
  PROVE  Rows(n, symbol)[j] \in transform_batch(Specs, AllBars)
<1> DEFINE N == Len(history)
<1>1. N \in Nat /\ N <= Len(history) /\ AllBars = BarsUpTo(N)
  BY PastFacts, AllBarsAre
<1>2. Follow(Rows(n, symbol), Rows(N, symbol), OwnBars(n, symbol), OwnBars(N, symbol))
      /\ Begins(OwnBars(n, symbol), OwnBars(N, symbol))
  BY <1>1, RowsFollow, OwnBegin
<1>3. Begins(Rows(n, symbol), Rows(N, symbol)) /\ Len(Rows(N, symbol)) = Len(OwnBars(N, symbol))
  BY <1>2, FollowFacts
<1>4. j \in 1..Len(Rows(N, symbol)) /\ j \in DOMAIN Rows(N, symbol)
      /\ Rows(N, symbol)[j] = Rows(n, symbol)[j]
  BY <1>3, BeginsDomain
<1>5. Rows(N, symbol) = RowsOf(Specs, AllBars, symbol)
  BY <1>1 DEF Rows
<1>6. symbol \in {AllBars[i].symbol : i \in DOMAIN AllBars}
  <2> DEFINE places == {i \in DOMAIN AllBars : AllBars[i].symbol = symbol}
  <2>1. Len(AllBars) \in Nat /\ DOMAIN AllBars = 1..Len(AllBars)
    BY AllBarsList, ListFacts
  <2>2. places \subseteq Int /\ IsFiniteSet(places)
    <3>1. IsFiniteSet(1..Len(AllBars))
      BY <2>1, FS_Interval
    <3>2. places \subseteq 1..Len(AllBars)
      BY <2>1
    <3>3. IsFiniteSet(places)
      BY <3>1, <3>2, FS_Subset
    <3>4. QED
      BY <2>1, <3>2, <3>3
  <2>3. OwnBars(N, symbol) = Where(AllBars, places)
    BY <1>1 DEF OwnBars, BarsOf
  <2> HIDE DEF places
  <2>4. Lists(OwnBars(N, symbol), AllBars, places)
    BY <2>2, <2>3, WhereLists
  <2>5. PICK at : Numbers(at, Len(OwnBars(N, symbol)), places)
    BY <2>4, ListFacts
  <2>6. at[j] \in places
    BY <1>3, <1>4, <2>5 DEF Numbers
  <2>7. QED
    BY <2>6 DEF places
<1>7. Rows(n, symbol)[j] \in ToSet(RowsOf(Specs, AllBars, symbol))
  BY <1>4, <1>5 DEF ToSet
<1>8. QED
  BY <1>6, <1>7 DEF transform_batch

(* The record of a bar is the last of the rows so far. *)
LEMMA RecordIsRow ==
  ASSUME HistoryFixed, cursor < Len(history), Event.kind = "bar", online_bars = BarsUpTo(cursor)
  PROVE  LET rows == Rows(cursor + 1, Event.symbol)
         IN  /\ Len(rows) \in Nat \ {0}
             /\ update_online(Specs, Append(online_bars, Event), Event) = rows[Len(rows)]
<1> DEFINE symbol == Event.symbol
           n == cursor + 1
           rows == Rows(n, symbol)
<1>1. /\ cursor \in Nat /\ Len(history) \in Nat /\ n \in Nat /\ n <= Len(history)
      /\ Event = history[n] /\ history[n].kind = "bar" /\ history[n].symbol = symbol
  BY PastFacts DEF Event
<1>2. Append(online_bars, Event) = BarsUpTo(n)
  BY <1>1, BarsUpToGrow
<1>3. RowsOf(Specs, Append(online_bars, Event), Event.symbol) = rows
  BY <1>2, Zenon DEF Rows
<1>4. /\ Len(OwnBars(n, symbol)) = Len(OwnBars(cursor, symbol)) + 1
      /\ OwnBars(n, symbol)[Len(OwnBars(cursor, symbol)) + 1] = Event
  BY <1>1, OwnGrow
<1> HIDE DEF n, symbol
<1>5. /\ Len(OwnBars(n, symbol)) \in Nat /\ Len(rows) = Len(OwnBars(n, symbol))
      /\ \A j \in 1..Len(OwnBars(n, symbol)) : IsRow(rows[j], symbol, OwnBars(n, symbol)[j])
  BY <1>1, RowFacts, Zenon
<1>6. Len(OwnBars(cursor, symbol)) \in Nat
  <2>1. cursor <= Len(history)
    BY <1>1
  <2>2. QED
    BY <1>1, <2>1, RowFacts, Zenon
<1> HIDE DEF rows
<1>7. Len(rows) \in Nat \ {0} /\ Len(rows) \in 1..Len(OwnBars(n, symbol))
  BY <1>4, <1>5, <1>6
<1>8. IsRow(rows[Len(rows)], symbol, Event)
  BY <1>4, <1>5, <1>7
<1>9. update_online(Specs, Append(online_bars, Event), Event) =
        [symbol |-> symbol, timestamp |-> Event.timestamp, values |-> rows[Len(rows)].values]
  BY <1>3, Zenon DEF update_online, Last, symbol
<1>10. update_online(Specs, Append(online_bars, Event), Event) = rows[Len(rows)]
  BY <1>8, <1>9, Zenon DEF IsRow
<1>11. QED
  BY <1>7, <1>10 DEF rows, n, symbol

-----------------------------------------------------------------------------
(* What has been asked for in some decisions. *)
Asks(made) == {made[i].request : i \in DOMAIN made}

(* Unless it raised, a run has kept the memory and asked for some requests more. *)
Tells(q, r, requests) ==
  ~q.raised => /\ ~r.raised /\ q.memory = r.memory
               /\ Asks(q.decisions) = Asks(r.decisions) \cup requests

LEMMA AsksAppended ==
  ASSUME NEW S, NEW made \in Seq(S), NEW d
  PROVE  Asks(Append(made, d)) = Asks(made) \cup {d.request}
<1> DEFINE T == S \cup {d}
           n == Len(made)
           more == Append(made, d)
<1>1. made \in Seq(T) /\ d \in T
  <2>1. S \subseteq T
    OBVIOUS
  <2> HIDE DEF T
  <2>2. made \in Seq(T)
    BY <2>1
  <2>3. QED
    BY <2>2 DEF T
<1> HIDE DEF T
<1>2. /\ DOMAIN more = 1..(n + 1) /\ more[n + 1] = d
      /\ \A i \in DOMAIN made : i \in DOMAIN more /\ more[i] = made[i]
      /\ \A i \in DOMAIN more : i \in DOMAIN made \/ i = n + 1
  BY <1>1, Appended
<1>3. n + 1 \in DOMAIN more
  <2>1. n \in Nat
    OBVIOUS
  <2>2. QED
    BY <1>2, <2>1
<1> HIDE DEF more, n
<1>4. QED
  BY <1>2, <1>3 DEF Asks, more

(* A request that is judged has been asked for, whatever the verdict. *)
LEMMA JudgeTells ==
  ASSUME NEW values, NEW r \in Asked(setup, values), NEW request, NEW snapshot, NEW event
  PROVE  Tells(Judge(r, request, snapshot, event), r, {request})
<1> DEFINE approved == evaluate(request, snapshot, event.timestamp, event.close,
                                r.last_trade_time, setup.policy)
           intent == CHOOSE candidate \in approved : TRUE
           d == [request |-> request, approved |-> approved, price |-> event.close]
           order == [id |-> Len(r.decisions) + 1, intent |-> intent]
           made == Append(r.decisions, d)
           q == Judge(r, request, snapshot, event)
<1>1. d.request = request
  OBVIOUS
<1>2. r.decisions \in Seq(Decisions(setup)) /\ r.raised \in BOOLEAN
  BY DEF Asked
<1>3. Asks(made) = Asks(r.decisions) \cup {request}
  <2> HIDE DEF d
  <2>1. QED
    BY <1>1, <1>2, AsksAppended
<1>4. CASE r.raised
  <2>1. q = r
    BY <1>4 DEF Judge
  <2>2. QED
    BY <1>4, <2>1 DEF Tells
<1>5. CASE ~r.raised /\ Raises(request, snapshot, setup.policy)
  <2>1. q = [r EXCEPT !.raised = TRUE]
    BY <1>5 DEF Judge
  <2> HIDE DEF q
  <2>2. q.raised
    BY <2>1 DEF Asked
  <2>3. QED
    BY <2>2 DEF Tells, q
<1>6. CASE ~r.raised /\ ~Raises(request, snapshot, setup.policy) /\ approved = {}
  <2>1. q = [r EXCEPT !.decisions = made]
    BY <1>6 DEF Judge
  <2> HIDE DEF q, made
  <2>2. q.decisions = made /\ q.memory = r.memory
    BY <2>1 DEF Asked
  <2>3. QED
    BY <1>3, <1>6, <2>2 DEF Tells, q
<1>7. CASE ~r.raised /\ ~Raises(request, snapshot, setup.policy) /\ approved # {}
  <2> DEFINE orders == Append(r.orders, order)
             times == record_intent(r.last_trade_time, intent)
  <2>1. q = [r EXCEPT !.decisions = made, !.orders = orders, !.last_trade_time = times]
    BY <1>7 DEF Judge
  <2> HIDE DEF q, made, orders, times
  <2>2. q.decisions = made /\ q.memory = r.memory
    BY <2>1 DEF Asked
  <2>3. QED
    BY <1>3, <1>7, <2>2 DEF Tells, q
<1>8. QED
  BY <1>2, <1>4, <1>5, <1>6, <1>7

LEMMA JudgedTells ==
  ASSUME setup \in Setups, NEW values, NEW base \in Asked(setup, values), NEW event \in Events,
         NEW snapshot \in AccountSnapshot,
         NEW requests \in Seq(Requests(IdsOf(setup), {event.symbol}, {event.timestamp}))
  PROVE  Tells(JudgeAll(base, requests, snapshot, event), base, ToSet(requests))
<1> DEFINE n == Len(requests)
           first(i) == {requests[j] : j \in 1..i}
<1>1. PICK h : /\ h \in [0..n -> Asked(setup, values)] /\ h[0] = base
               /\ \A i \in 1..n : h[i] = Judge(h[i - 1], requests[i], snapshot, event)
               /\ h[n] = JudgeAll(base, requests, snapshot, event)
  BY JudgeRun
<1>2. n \in Nat /\ ToSet(requests) = first(n)
  BY DEF ToSet
<1> HIDE DEF n
<1> DEFINE T == {i \in 0..n : Tells(h[i], base, first(i))}
<1>3. 0 \in T
  <2>1. first(0) = {}
    OBVIOUS
  <2>2. Tells(base, base, {})
    BY DEF Tells
  <2>3. 0 \in 0..n
    BY <1>2
  <2> HIDE DEF first
  <2>4. Tells(h[0], base, first(0))
    BY <1>1, <2>1, <2>2, Zenon
  <2>5. QED
    BY <2>3, <2>4
<1>4. ASSUME NEW i \in 1..n, i - 1 \in T
      PROVE  i \in T
  <2>1. h[i - 1] \in Asked(setup, values) /\ Tells(h[i - 1], base, first(i - 1)) /\ i \in 0..n
    BY <1>1, <1>2, <1>4
  <2>2. Tells(h[i], h[i - 1], {requests[i]})
    BY <1>1, <2>1, JudgeTells
  <2>3. first(i) = first(i - 1) \cup {requests[i]}
    <3>1. 1..i = 1..(i - 1) \cup {i}
      BY <1>2
    <3>2. QED
      BY <3>1
  <2> HIDE DEF first
  <2>4. Tells(h[i], base, first(i))
    BY <2>1, <2>2, <2>3 DEF Tells
  <2>5. QED
    BY <2>1, <2>4
<1>5. 0..n \subseteq T
  <2> HIDE DEF T
  <2>1. QED
    BY <1>2, <1>3, <1>4, RunInduction
<1>6. Tells(h[n], base, first(n))
  <2>1. n \in 0..n
    BY <1>2
  <2>2. n \in T
    BY <1>5, <2>1, Zenon
  <2> HIDE DEF first
  <2>3. QED
    BY <2>2
<1>7. QED
  BY <1>1, <1>2, <1>6

-----------------------------------------------------------------------------
(* What has been asked for by one strategy. *)
OwnAsks(made, id) == {request \in Asks(made) : request.strategy_id = id}

(* A run that is not at its end because of strategy i. *)
Ignores(q, r, i) ==
  ~q.raised => /\ ~r.raised /\ q.memory[i] = r.memory[i]
               /\ OwnAsks(q.decisions, setup.strategies[i].id)
                    = OwnAsks(r.decisions, setup.strategies[i].id)

(* What strategy i was asked, answered and remembers. *)
Heeds(q, r, i, record, event) ==
  LET answer == on_data(setup.strategies[i], event, record, r.memory[i][event.symbol])
  IN  ~q.raised => /\ ~r.raised /\ ~MissesFeature(setup.strategies[i], record)
                   /\ q.memory[i] = [r.memory[i] EXCEPT ![event.symbol] = answer.memory]
                   /\ OwnAsks(q.decisions, setup.strategies[i].id)
                        = OwnAsks(r.decisions, setup.strategies[i].id) \cup ToSet(answer.requests)

(* Asking a strategy adds its own requests and changes its own memory, and no other. *)
LEMMA ConsultTells ==
  ASSUME DistinctStrategies, setup \in Setups, NEW i \in DOMAIN setup.strategies,
         NEW j \in DOMAIN setup.strategies, NEW record, NEW values,
         Closed(values, setup, record), NEW run \in Asked(setup, values), NEW event \in Events,
         IsShaped(event, setup), NEW snapshot \in AccountSnapshot
  PROVE  LET q == Consult(run, j, record, snapshot, event)
         IN  IF j = i /\ event.symbol \in setup.strategies[i].symbols
             THEN Heeds(q, run, i, record, event) ELSE Ignores(q, run, i)
<1> DEFINE strategy == setup.strategies[j]
           symbol == event.symbol
           answer == on_data(strategy, event, record, run.memory[j][symbol])
           memories == [run.memory EXCEPT ![j][symbol] = answer.memory]
           asked == [run EXCEPT !.memory[j][symbol] = answer.memory]
           q == Consult(run, j, record, snapshot, event)
<1>1. /\ run.memory \in [DOMAIN setup.strategies -> [Symbols -> values]]
      /\ symbol \in Symbols /\ run.raised \in BOOLEAN
  BY DEF Asked, Events
<1>2. run.memory[j][symbol] \in values
  BY <1>1
<1>3. /\ answer.memory \in values
      /\ answer.requests \in Seq(Requests({strategy.id}, {event.symbol}, {event.timestamp}))
  BY <1>2, OnDataFacts
<1>4. answer.requests \in Seq(Requests(IdsOf(setup), {event.symbol}, {event.timestamp}))
  <2>1. strategy.id \in IdsOf(setup)
    BY DEF IdsOf
  <2>2. QED
    BY <1>2, <2>1, OnDataFacts
<1>5. \A request \in ToSet(answer.requests) : request.strategy_id = strategy.id
  <2>1. \A request \in Requests({strategy.id}, {event.symbol}, {event.timestamp}) :
          request.strategy_id = strategy.id
    BY DEF Requests
  <2> DEFINE requests == answer.requests
             R == Requests({strategy.id}, {event.symbol}, {event.timestamp})
  <2>2. requests \in Seq(R) /\ \A request \in R : request.strategy_id = strategy.id
    BY <1>3, <2>1
  <2> HIDE DEF requests, R
  <2>3. \A request \in ToSet(requests) : request.strategy_id = strategy.id
    BY <2>2 DEF ToSet
  <2>4. QED
    BY <2>3 DEF requests
<1>6. CASE run.raised
  <2>1. q = run
    BY <1>6 DEF Consult
  <2>2. QED
    BY <1>6, <2>1 DEF Ignores, Heeds
<1>7. CASE ~run.raised /\ symbol \notin strategy.symbols
  <2>1. q = run
    BY <1>7 DEF Consult
  <2>2. QED
    BY <1>7, <2>1 DEF Ignores
<1>8. CASE ~run.raised /\ symbol \in strategy.symbols /\ MissesFeature(strategy, record)
  <2>1. q = [run EXCEPT !.raised = TRUE]
    BY <1>8 DEF Consult
  <2> HIDE DEF q
  <2>2. q.raised
    BY <2>1 DEF Asked
  <2>3. QED
    BY <2>2 DEF Ignores, Heeds, q
<1>9. CASE ~run.raised /\ symbol \in strategy.symbols /\ ~MissesFeature(strategy, record)
  <2>1. q = JudgeAll(asked, answer.requests, snapshot, event)
    BY <1>9 DEF Consult
  <2>2. asked = [run EXCEPT !.memory = memories]
    BY DEF Asked
  <2> HIDE DEF answer
  <2>3. memories \in [DOMAIN setup.strategies -> [Symbols -> values]]
    BY <1>1, <1>3
  <2>4. /\ memories[j] = [run.memory[j] EXCEPT ![symbol] = answer.memory]
        /\ i # j => memories[i] = run.memory[i]
    BY <1>1
  <2> HIDE DEF asked, memories, q
  <2>5. /\ asked \in Asked(setup, values) /\ asked.memory = memories
        /\ asked.decisions = run.decisions /\ asked.raised = run.raised
    BY <2>2, <2>3 DEF Asked
  <2>6. Tells(q, asked, ToSet(answer.requests))
    BY <1>4, <2>1, <2>5, JudgedTells
  <2>7. ~q.raised => /\ ~run.raised /\ q.memory = memories
                     /\ Asks(q.decisions) = Asks(run.decisions) \cup ToSet(answer.requests)
    BY <2>5, <2>6 DEF Tells
  <2>8. CASE j = i
    <3>1. ~q.raised => OwnAsks(q.decisions, strategy.id)
                         = OwnAsks(run.decisions, strategy.id) \cup ToSet(answer.requests)
      BY <1>5, <2>7 DEF OwnAsks
    <3>2. Heeds(q, run, i, record, event)
      BY <1>9, <2>4, <2>7, <2>8, <3>1 DEF Heeds, answer
    <3>3. QED
      BY <1>9, <2>8, <3>2 DEF q
  <2>9. CASE j # i
    <3>1. setup.strategies[i].id # strategy.id
      BY <2>9 DEF DistinctStrategies
    <3>2. ~q.raised => OwnAsks(q.decisions, setup.strategies[i].id)
                         = OwnAsks(run.decisions, setup.strategies[i].id)
      BY <1>5, <2>7, <3>1 DEF OwnAsks
    <3>3. Ignores(q, run, i)
      BY <2>4, <2>7, <2>9, <3>2 DEF Ignores
    <3>4. QED
      BY <2>9, <3>3 DEF q
  <2>10. QED
    BY <2>8, <2>9
<1>10. QED
  BY <1>1, <1>6, <1>7, <1>8, <1>9

(* Of all strategies, only strategy i speaks for itself. *)
LEMMA ConsultedTells ==
  ASSUME DistinctStrategies, setup \in Setups, NEW i \in DOMAIN setup.strategies,
         NEW record, NEW values, Closed(values, setup, record),
         NEW base \in Asked(setup, values), NEW event \in Events, IsShaped(event, setup),
         NEW snapshot \in AccountSnapshot
  PROVE  LET q == ConsultAll(base, record, snapshot, event)
         IN  IF event.symbol \in setup.strategies[i].symbols
             THEN Heeds(q, base, i, record, event) ELSE Ignores(q, base, i)
<1>1. PICK n, h :
        /\ n \in Nat
        /\ DOMAIN setup.strategies = 1..n
        /\ h \in [0..n -> Asked(setup, values)] /\ h[0] = base
        /\ \A k \in 1..n : h[k] = Consult(h[k - 1], k, record, snapshot, event)
        /\ h[n] = ConsultAll(base, record, snapshot, event)
  BY ConsultRun
<1> DEFINE follows == event.symbol \in setup.strategies[i].symbols
           Told(k) == IF i <= k /\ follows THEN Heeds(h[k], base, i, record, event)
                      ELSE Ignores(h[k], base, i)
           T == {k \in 0..n : Told(k)}
<1>2. i \in 1..n
  BY <1>1
<1>3. 0 \in T
  <2>1. Ignores(base, base, i)
    BY DEF Ignores
  <2>2. Told(0)
    BY <1>1, <1>2, <2>1
  <2>3. 0 \in 0..n
    BY <1>1
  <2>4. QED
    BY <2>2, <2>3
<1>4. ASSUME NEW k \in 1..n, k - 1 \in T
      PROVE  k \in T
  <2>1. /\ h[k - 1] \in Asked(setup, values) /\ k \in DOMAIN setup.strategies /\ k \in 0..n
        /\ Told(k - 1) /\ h[k] = Consult(h[k - 1], k, record, snapshot, event)
    BY <1>1, <1>4
  <2>2. IF k = i /\ follows THEN Heeds(h[k], h[k - 1], i, record, event)
        ELSE Ignores(h[k], h[k - 1], i)
    BY <2>1, ConsultTells
  <2>3. CASE i <= k - 1 /\ follows
    <3>1. k # i /\ i <= k /\ Heeds(h[k - 1], base, i, record, event)
      BY <1>2, <2>1, <2>3
    <3>2. Ignores(h[k], h[k - 1], i)
      BY <2>2, <3>1
    <3>3. Heeds(h[k], base, i, record, event)
      BY <3>1, <3>2 DEF Heeds, Ignores
    <3>4. QED
      BY <2>1, <2>3, <3>1, <3>3
  <2>4. CASE k = i /\ follows
    <3>1. ~(i <= k - 1) /\ i <= k
      BY <1>2, <2>4
    <3>2. Ignores(h[k - 1], base, i)
      BY <2>1, <3>1
    <3>3. Heeds(h[k], h[k - 1], i, record, event)
      BY <2>2, <2>4
    <3>4. Heeds(h[k], base, i, record, event)
      BY <3>2, <3>3 DEF Heeds, Ignores
    <3>5. QED
      BY <2>1, <2>4, <3>1, <3>4
  <2>5. CASE ~follows \/ k < i
    <3>1. ~(i <= k - 1 /\ follows) /\ ~(k = i /\ follows) /\ ~(i <= k /\ follows)
      BY <1>2, <2>5
    <3>2. Ignores(h[k - 1], base, i)
      BY <2>1, <3>1
    <3>3. Ignores(h[k], h[k - 1], i)
      BY <2>2, <3>1
    <3>4. Ignores(h[k], base, i)
      BY <3>2, <3>3 DEF Ignores
    <3>5. QED
      BY <2>1, <3>1, <3>4
  <2>6. QED
    BY <1>2, <2>3, <2>4, <2>5
<1>5. 0..n \subseteq T
  <2> HIDE DEF T
  <2>1. QED
    BY <1>1, <1>3, <1>4, RunInduction
<1>6. n \in 0..n /\ i <= n
  BY <1>1, <1>2
<1>7. Told(n)
  BY <1>5, <1>6
<1>8. QED
  BY <1>1, <1>6, <1>7

-----------------------------------------------------------------------------
(* An average is known from the bar on that fills its window. *)
LEMMA SmaValues ==
  ASSUME NEW n \in Nat, NEW values \in [1..n -> Int], NEW w \in Nat \ {0}
  PROVE  \A i \in 1..n : IF i < w THEN sma(values, w)[i] = {}
                         ELSE \E x \in Int : sma(values, w)[i] = {x}
<1> DEFINE f == [i \in w..Len(values) |-> Mean(Window(values, i, w))]
<1>1. Len(values) = n /\ DOMAIN values = 1..n
  OBVIOUS
<1>2. ASSUME NEW i \in w..n
      PROVE  Mean(Window(values, i, w)) \in Int
  <2> DEFINE part == Window(values, i, w)
  <2> DEFINE a == i - w + 1
  <2>1. part = SubSeq(values, a, i) /\ a \in 1..n /\ i \in 1..n /\ i - a + 1 = w
    BY DEF Window
  <2>2. part \in [1..w -> Int] /\ Len(part) = w
    <3>1. values \in Seq(Int)
      OBVIOUS
    <3> HIDE DEF part, a
    <3>2. Len(part) = w /\ part \in Seq(Int)
      BY <1>1, <2>1, <3>1
    <3>3. QED
      BY <3>2
  <2> HIDE DEF part
  <2>3. Total(part) \in Int
    <3>1. IsFiniteSet(1..w)
      BY FS_Interval
    <3>2. QED
      BY <2>2, <3>1, SumType DEF Total
  <2>4. Mean(part) \in Int
    BY <2>2, <2>3 DEF Mean
  <2>5. QED
    BY <2>4 DEF part
<1>3. sma(values, w) = [i \in 1..n |-> IF i \in w..n THEN {f[i]} ELSE {}]
  BY <1>1 DEF sma, Series
<1>4. \A i \in w..n : f[i] \in Int
  BY <1>1, <1>2
<1> HIDE DEF f
<1>5. SUFFICES ASSUME NEW i \in 1..n
               PROVE  IF i < w THEN sma(values, w)[i] = {}
                      ELSE \E x \in Int : sma(values, w)[i] = {x}
  BY Zenon
<1>6. sma(values, w)[i] = IF i \in w..n THEN {f[i]} ELSE {}
  BY <1>3
<1>7. CASE i < w
  <2>1. i \notin w..n
    BY <1>7
  <2>2. QED
    BY <1>6, <1>7, <2>1
<1>8. CASE ~(i < w)
  <2>1. i \in w..n
    BY <1>8
  <2>2. QED
    BY <1>4, <1>6, <1>8, <2>1, Zenon
<1>9. QED
  BY <1>7, <1>8

(* The name of a moving average names nothing else. *)
LEMMA AverageOf ==
  ASSUME NEW spec, IsSpec(spec), NEW bars, NEW w,
         <<"sma", w>> \in DOMAIN compute_indicator(spec, bars)
  PROVE  /\ w \in Nat \ {0}
         /\ compute_indicator(spec, bars)[<<"sma", w>>] = sma(Closes(bars), w)
<1> DEFINE name == <<"sma", w>>
           one(series) == [nm \in {<<spec.name, spec.window>>} |-> series]
           three(names, series) ==
             [nm \in Range(names) |-> series[CHOOSE k \in 1..3 : names[k] = nm]]
           macds == <<<<"macd", spec.fast, spec.slow, spec.signal>>,
                      <<"macd_signal", spec.fast, spec.slow, spec.signal>>,
                      <<"macd_hist", spec.fast, spec.slow, spec.signal>>>>
           bands == <<<<"bollinger_mid", spec.window>>, <<"bollinger_upper", spec.window>>,
                      <<"bollinger_lower", spec.window>>>>
           its == compute_indicator(spec, bars)
<1>1. name[1] = "sma" /\ name[2] = w
  OBVIOUS
<1>2. CASE spec.name = "sma"
  <2>1. its = one(sma(Closes(bars), spec.window))
    BY <1>2 DEF compute_indicator
  <2> HIDE DEF its
  <2>2. name = <<spec.name, spec.window>>
    BY <2>1 DEF its
  <2>3. w = spec.window
    BY <2>2
  <2>4. its[name] = sma(Closes(bars), w)
    BY <2>1, <2>2, <2>3
  <2>5. w \in Nat \ {0}
    BY <1>2, <2>3 DEF IsSpec, Windowed
  <2>6. QED
    BY <2>4, <2>5 DEF its
<1>3. CASE spec.name \in Windowed \ {"sma", "bollinger"}
  <2>1. DOMAIN its = {<<spec.name, spec.window>>}
    BY <1>3 DEF compute_indicator, Windowed
  <2>2. name = <<spec.name, spec.window>>
    BY <2>1
  <2>3. spec.name = "sma"
    BY <2>2
  <2>4. QED
    BY <1>3, <2>3
<1>4. CASE spec.name = "vwap"
  <2>1. DOMAIN its = {<<"vwap">>}
    BY <1>4 DEF compute_indicator
  <2>2. name = <<"vwap">>
    BY <2>1
  <2>3. QED
    BY <2>2
<1>5. CASE spec.name = "macd"
  <2>1. its = three(macds, macd(Closes(bars), spec.fast, spec.slow, spec.signal))
    BY <1>5 DEF compute_indicator
  <2>2. DOMAIN its = Range(macds)
    <3> HIDE DEF its, macds
    <3>1. QED
      BY <2>1
  <2>3. Range(macds) = {macds[1], macds[2], macds[3]}
    BY DEF Range
  <2>4. macds[1][1] = "macd" /\ macds[2][1] = "macd_signal" /\ macds[3][1] = "macd_hist"
    OBVIOUS
  <2> HIDE DEF macds, its
  <2>5. name = macds[1] \/ name = macds[2] \/ name = macds[3]
    BY <2>2, <2>3 DEF its
  <2> HIDE DEF name
  <2>6. QED
    BY <1>1, <2>4, <2>5
<1>6. CASE spec.name = "bollinger"
  <2>1. its = three(bands, bollinger_bands(Closes(bars), spec.window, spec.stdevs))
    BY <1>6 DEF compute_indicator
  <2>2. DOMAIN its = Range(bands)
    <3> HIDE DEF its, bands
    <3>1. QED
      BY <2>1
  <2>3. Range(bands) = {bands[1], bands[2], bands[3]}
    BY DEF Range
  <2>4. /\ bands[1][1] = "bollinger_mid" /\ bands[2][1] = "bollinger_upper"
        /\ bands[3][1] = "bollinger_lower"
    OBVIOUS
  <2> HIDE DEF bands, its
  <2>5. name = bands[1] \/ name = bands[2] \/ name = bands[3]
    BY <2>2, <2>3 DEF its
  <2> HIDE DEF name
  <2>6. QED
    BY <1>1, <2>4, <2>5
<1>7. QED
  BY <1>2, <1>3, <1>4, <1>5, <1>6 DEF IsSpec

(* The column of a moving average is that of its window, whatever other specs there are. *)
LEMMA AverageComputed ==
  ASSUME NEW specs, AreSpecs(specs), NEW bars, NEW w, <<"sma", w>> \in DOMAIN computed(specs, bars)
  PROVE  /\ w \in Nat \ {0}
         /\ computed(specs, bars)[<<"sma", w>>] = sma(Closes(bars), w)
<1> DEFINE series == [k \in DOMAIN specs |-> compute_indicator(specs[k], bars)]
           name == <<"sma", w>>
           having == {k \in DOMAIN specs : name \in DOMAIN series[k]}
<1>1. PICK n \in Nat : DOMAIN specs = 1..n /\ \A k \in 1..n : IsSpec(specs[k])
  BY DEF AreSpecs
<1>2. /\ DOMAIN computed(specs, bars) = UNION {DOMAIN series[k] : k \in DOMAIN specs}
      /\ name \in DOMAIN computed(specs, bars) =>
           computed(specs, bars)[name] = series[Max(having)][name]
  BY DEF computed, Merged
<1>3. having \in (SUBSET (1..n)) \ {{}}
  <2> HIDE DEF series, name
  <2>1. QED
    BY <1>1, <1>2 DEF name
<1>4. Max(having) \in having
  <2> HIDE DEF having
  <2>1. QED
    BY <1>1, <1>3, GreatestElement
<1>5. Max(having) \in 1..n /\ name \in DOMAIN series[Max(having)]
  BY <1>1, <1>4
<1> DEFINE k == Max(having)
<1> HIDE DEF having, k
<1>6. k \in 1..n /\ IsSpec(specs[k]) /\ name \in DOMAIN compute_indicator(specs[k], bars)
      /\ computed(specs, bars)[name] = compute_indicator(specs[k], bars)[name]
  BY <1>1, <1>2, <1>5 DEF k
<1>7. QED
  BY <1>6, AverageOf

(* Of the rows of a symbol each has at most one value of an average, and once there
   is one, the later ones have one. *)
LEMMA Averages ==
  ASSUME HistoryFixed, NEW n \in Nat, n <= Len(history), NEW symbol, NEW w
  PROVE  LET rows == Rows(n, symbol)
             value(j) == feature_value(rows[j], <<"sma", w>>)
         IN  /\ \A j \in 1..Len(rows) : value(j) = {} \/ \E x \in Int : value(j) = {x}
             /\ \A j, k \in 1..Len(rows) : j < k /\ value(j) # {} => value(k) # {}
<1> DEFINE own == OwnBars(n, symbol)
           rows == Rows(n, symbol)
           m == Len(own)
           name == <<"sma", w>>
           value(j) == feature_value(rows[j], name)
           names == DOMAIN computed(Specs, own)
<1>1. m \in Nat /\ Len(rows) = m /\ DOMAIN own = 1..m
  BY RowFacts
<1>2. ByTime(own) = own
  BY OwnList
<1>3. rows = [i \in DOMAIN own |-> [symbol |-> symbol, timestamp |-> own[i].timestamp,
                                    values |-> [nm \in names |-> computed(Specs, own)[nm][i]]]]
  <2>1. rows = [i \in DOMAIN ByTime(own) |->
                  [symbol |-> symbol, timestamp |-> ByTime(own)[i].timestamp,
                   values |-> [nm \in DOMAIN computed(Specs, ByTime(own)) |->
                                 computed(Specs, ByTime(own))[nm][i]]]]
    BY Zenon DEF Rows, RowsOf, RowsFrom, OwnBars
  <2> HIDE DEF own
  <2>2. QED
    BY <1>2, <2>1, Zenon
<1>4. own \in [1..m -> Events]
  <2>1. PICK l, at : Numbers(at, l, OwnPlaces(n, symbol)) /\ own = [k \in 1..l |-> history[at[k]]]
    <3>1. Lists(own, history, OwnPlaces(n, symbol))
      BY OwnList
    <3>2. QED
      BY <3>1, Zenon DEF Lists
  <2>2. \A k \in 1..l : at[k] \in DOMAIN history
    <3>1. OwnPlaces(n, symbol) \subseteq 1..n
      BY DEF OwnPlaces, OfSymbol, BarPlaces
    <3>2. 1..n \subseteq DOMAIN history
      BY PastFacts
    <3>3. QED
      BY <2>1, <3>1, <3>2 DEF Numbers
  <2>3. history \in Seq(Events)
    BY PastFacts
  <2>4. \A k \in 1..l : history[at[k]] \in Events
    BY <2>2, <2>3
  <2>5. own \in [1..l -> Events]
    <3> HIDE DEF own
    <3>1. QED
      BY <2>1, <2>4
  <2> HIDE DEF own
  <2>6. QED
    BY <1>1, <2>5
<1> HIDE DEF own, m, rows
<1>5. Closes(own) \in [1..m -> Int]
  <2>1. \A k \in 1..m : own[k].close \in Nat
    <3>1. \A e \in Events : e.close \in Nat
      BY DEF Events
    <3>2. QED
      BY <1>4, <3>1
  <2>2. \A k \in 1..m : own[k].close * Unit \in Int
    BY <2>1, UnitAssumption
  <2>3. QED
    BY <1>1, <2>2 DEF Closes
<1>6. \A j \in 1..m : value(j) = IF name \in names THEN computed(Specs, own)[name][j] ELSE {}
  <2> HIDE DEF name, names
  <2>1. QED
    BY <1>1, <1>3 DEF feature_value
<1>7. CASE name \notin names
  BY <1>1, <1>6, <1>7 DEF rows
<1>8. CASE name \in names
  <2>1. AreSpecs(Specs)
    BY PastFacts, SpecsType
  <2>2. w \in Nat \ {0} /\ computed(Specs, own)[name] = sma(Closes(own), w)
    BY <1>8, <2>1, AverageComputed
  <2>3. \A i \in 1..m : IF i < w THEN sma(Closes(own), w)[i] = {}
                        ELSE \E x \in Int : sma(Closes(own), w)[i] = {x}
    <3> DEFINE closes == Closes(own)
    <3>1. m \in Nat /\ w \in Nat \ {0} /\ closes \in [1..m -> Int]
      BY <1>1, <1>5, <2>2
    <3> HIDE DEF closes
    <3>2. \A i \in 1..m : IF i < w THEN sma(closes, w)[i] = {}
                          ELSE \E x \in Int : sma(closes, w)[i] = {x}
      BY ONLY <3>1, SmaValues
    <3>3. QED
      BY <3>2, Zenon DEF closes
  <2> HIDE DEF name, names
  <2>4. \A i \in 1..m : IF i < w THEN value(i) = {} ELSE \E x \in Int : value(i) = {x}
    BY <1>6, <1>8, <2>2, <2>3
  <2>5. \A j, k \in 1..m : j < k /\ ~(j < w) => ~(k < w)
    BY <1>1, <2>2
  <2> HIDE DEF value
  <2>6. /\ \A j \in 1..m : value(j) = {} \/ \E x \in Int : value(j) = {x}
        /\ \A j, k \in 1..m : j < k /\ value(j) # {} => value(k) # {}
    BY <2>4, <2>5
  <2>7. QED
    BY <1>1, <2>6 DEF value, rows, name
<1>9. QED
  BY <1>7, <1>8

-----------------------------------------------------------------------------
(* What a bar with a row is to strategy i. *)
Heard(i, row) ==
  LET strategy == setup.strategies[i]
      answer   == on_data(strategy, Event, row, memory[i][Event.symbol])
  IN  IF Event.symbol \in strategy.symbols
      THEN /\ ~MissesFeature(strategy, row)
           /\ memory'[i] = [memory[i] EXCEPT ![Event.symbol] = answer.memory]
           /\ OwnAsks(decisions', strategy.id)
                = OwnAsks(decisions, strategy.id) \cup ToSet(answer.requests)
      ELSE /\ memory'[i] = memory[i]
           /\ OwnAsks(decisions', strategy.id) = OwnAsks(decisions, strategy.id)

OnlineFollows == online_bars = BarsUpTo(cursor)

(* A bar leaves as record the last row of its symbol, and each strategy hears that row. *)
LEMMA BarHeard ==
  ASSUME PipelineInv, OnlineFollows, OnBar
  PROVE  LET rows == Rows(cursor + 1, Event.symbol)
             row  == rows[Len(rows)]
         IN  /\ features' = {row} /\ OnlineFollows'
             /\ DistinctStrategies /\ ~raised' => \A i \in DOMAIN setup.strategies : Heard(i, row)
<1> DEFINE rows == Rows(cursor + 1, Event.symbol)
           row == rows[Len(rows)]
           record == update_online(Specs, Append(online_bars, Event), Event)
           settledAt(p) == Settled(Event, p)
           markedAt(p) == MarkToMarket(settledAt(p).portfolio, Event.symbol, Event.close)
           runAt(p) == ConsultAll(Begun(settledAt(p).last_trade_time), record,
                                  markedAt(p).last_snapshot, Event)
<1>1. /\ cursor < Len(history) /\ cursor' = cursor + 1 /\ history' = history /\ setup' = setup
      /\ Event.kind = "bar" /\ ~raised
  BY DEF OnBar, Handles
<1>2. HistoryFixed /\ StateTyped
  BY DEF PipelineInv
<1>3. record = row
  BY <1>1, <1>2, RecordIsRow DEF OnlineFollows
<1>4. PICK price \in {Event.low, Event.high} :
        /\ memory' = runAt(price).memory
        /\ raised' = runAt(price).raised
        /\ decisions' = IF runAt(price).raised THEN decisions ELSE runAt(price).decisions
  BY DEF OnBar, Begun
<1>5. features' = {row} /\ online_bars' = Append(online_bars, Event)
  BY <1>3 DEF OnBar
<1>6. OnlineFollows'
  <2>1. cursor \in Nat
    BY <1>2, PastFacts
  <2>2. BarsUpTo(cursor + 1) = Append(BarsUpTo(cursor), Event)
    BY <1>1, <1>2, <2>1, BarsUpToGrow DEF Event
  <2>3. BarsUpTo(cursor)' = BarsUpTo(cursor + 1)
    BY <1>1 DEF BarsUpTo
  <2>4. QED
    BY <1>5, <2>2, <2>3 DEF OnlineFollows
<1>7. /\ setup \in Setups /\ Event \in Events /\ IsShaped(Event, setup)
  BY <1>1, EventFacts
<1>8. /\ price \in Nat \ {0} /\ Event.symbol \in Symbols /\ Event.close \in Int
  BY <1>7 DEF Events
<1> DEFINE settled == settledAt(price)
           marked == markedAt(price)
           run == runAt(price)
<1>9. settled \in Accounts(setup)
  BY <1>1, <1>8, BarSettles
<1>10. settled.portfolio \in Portfolios /\ settled.last_trade_time \in Times(setup)
  BY <1>9 DEF Accounts
<1> HIDE DEF settledAt, record, row
<1>11. marked.last_snapshot \in AccountSnapshot
  <2>1. marked \in Portfolios
    BY <1>8, <1>10, MarkedType
  <2> HIDE DEF markedAt
  <2>2. QED
    BY <2>1 DEF Portfolios
<1> HIDE DEF markedAt
<1>12. PICK values : Closed(values, setup, record)
                     /\ Begun(settled.last_trade_time) \in Asked(setup, values)
  BY <1>2, <1>10, BegunAsked
<1>13. ASSUME DistinctStrategies, ~raised', NEW i \in DOMAIN setup.strategies
       PROVE  Heard(i, row)
  <2> DEFINE base == Begun(settled.last_trade_time)
             follows == Event.symbol \in setup.strategies[i].symbols
  <2>1. base.memory = memory /\ base.decisions = decisions
    BY DEF Begun
  <2>2. IF follows THEN Heeds(run, base, i, record, Event) ELSE Ignores(run, base, i)
    BY <1>7, <1>11, <1>12, <1>13, ConsultedTells
  <2>3. ~run.raised /\ memory' = run.memory /\ decisions' = run.decisions
    BY <1>4, <1>13
  <2> HIDE DEF base, run
  <2>4. CASE follows
    <3>1. Heeds(run, base, i, row, Event)
      BY <1>3, <2>2, <2>4
    <3>2. QED
      BY <2>1, <2>3, <2>4, <3>1 DEF Heeds, Heard
  <2>5. CASE ~follows
    BY <2>1, <2>2, <2>3, <2>5 DEF Ignores, Heard
  <2>6. QED
    BY <2>4, <2>5
<1>14. QED
  BY <1>5, <1>6, <1>13 DEF row

-----------------------------------------------------------------------------
AtMostOne(S) == S = {} \/ \E x \in Int : S = {x}

(* What relation tells of the two averages. *)
LEMMA RelationIs ==
  ASSUME NEW row, NEW strategy, NEW a, NEW b, a = <<"sma", strategy.fast_window>>,
         b = <<"sma", strategy.slow_window>>,
         AtMostOne(feature_value(row, a)), AtMostOne(feature_value(row, b))
  PROVE  \/ relation(row, strategy) = {} /\ ~Known(row, {a, b})
         \/ relation(row, strategy) = {1} /\ Known(row, {a, b})
              /\ Above(row, a, b) /\ ~Above(row, b, a)
         \/ relation(row, strategy) = {-1} /\ Known(row, {a, b})
              /\ ~Above(row, a, b) /\ Above(row, b, a)
         \/ relation(row, strategy) = {0} /\ Known(row, {a, b})
              /\ ~Above(row, a, b) /\ ~Above(row, b, a)
<1> DEFINE A == feature_value(row, a)
           B == feature_value(row, b)
           sign(x, y) == CASE x > y -> 1 [] x < y -> -1 [] x = y -> 0
<1>1. relation(row, strategy) = {sign(x, y) : x \in A, y \in B}
  BY DEF relation
<1>2. /\ Known(row, {a, b}) <=> A # {} /\ B # {}
      /\ Above(row, a, b) <=> \E x \in A, y \in B : x > y
      /\ Above(row, b, a) <=> \E y \in B, x \in A : y > x
  BY DEF Known, Above
<1>3. AtMostOne(A) /\ AtMostOne(B)
  OBVIOUS
<1> HIDE DEF A, B, sign
<1>4. CASE A = {} \/ B = {}
  BY <1>1, <1>2, <1>4
<1>5. CASE A # {} /\ B # {}
  <2>1. PICK x \in Int : A = {x}
    BY <1>3, <1>5 DEF AtMostOne
  <2>2. PICK y \in Int : B = {y}
    BY <1>3, <1>5 DEF AtMostOne
  <2>3. relation(row, strategy) = {sign(x, y)}
    BY <1>1, <2>1, <2>2
  <2>4. /\ Known(row, {a, b}) /\ (Above(row, a, b) <=> x > y) /\ (Above(row, b, a) <=> y > x)
    BY <1>2, <2>1, <2>2
  <2>5. CASE x > y
    <3>1. sign(x, y) = 1 /\ ~(y > x)
      BY <2>5 DEF sign
    <3>2. QED
      BY <2>3, <2>4, <2>5, <3>1
  <2>6. CASE x < y
    <3>1. sign(x, y) = -1 /\ ~(x > y) /\ y > x
      BY <2>6 DEF sign
    <3>2. QED
      BY <2>3, <2>4, <3>1
  <2>7. CASE x = y
    <3>1. sign(x, y) = 0 /\ ~(x > y) /\ ~(y > x)
      BY <2>7 DEF sign
    <3>2. QED
      BY <2>3, <2>4, <3>1
  <2>8. QED
    BY <2>5, <2>6, <2>7
<1>6. QED
  BY <1>4, <1>5

(* The average a is above b in a row and was not in the row before. *)
Crosses(before, now, a, b) ==
  Known(before, {a, b}) /\ ~Above(before, a, b) /\ Above(now, a, b)

(* The answer of a strategy that tells of the crosses. *)
TellsCrosses(answer, strategy, bar, before, now, a, b) ==
  /\ answer.memory = relation(now, strategy)
  /\ answer.requests = Signals(strategy, bar, Crosses(before, now, a, b), Crosses(before, now, b, a))
  /\ ~(Crosses(before, now, a, b) /\ Crosses(before, now, b, a))

(* A strategy that remembers the relation of the row before signals the crosses. *)
LEMMA SmaAnswers ==
  ASSUME NEW strategy, strategy.type = "sma_crossover", NEW before, NEW now, NEW bar, NEW a, NEW b,
         a = <<"sma", strategy.fast_window>>, b = <<"sma", strategy.slow_window>>,
         AtMostOne(feature_value(now, a)), AtMostOne(feature_value(now, b)),
         AtMostOne(feature_value(before, a)), AtMostOne(feature_value(before, b)),
         Known(before, {a, b}) => Known(now, {a, b})
  PROVE  TellsCrosses(on_data(strategy, bar, now, relation(before, strategy)), strategy, bar,
                      before, now, a, b)
<1> DEFINE p == relation(before, strategy)
           q == relation(now, strategy)
           rising == \E x \in p, y \in q : x <= 0 /\ 0 < y
           falling == \E x \in p, y \in q : x >= 0 /\ 0 > y
           answer == on_data(strategy, bar, now, p)
<1>1. /\ answer.memory = IF q = {} THEN p ELSE q
      /\ answer.requests = Signals(strategy, bar, rising, falling)
  BY DEF on_data, sma_crossover, Remember
<1>2. \/ p = {} /\ ~Known(before, {a, b})
      \/ p = {1} /\ Known(before, {a, b}) /\ Above(before, a, b) /\ ~Above(before, b, a)
      \/ p = {-1} /\ Known(before, {a, b}) /\ ~Above(before, a, b) /\ Above(before, b, a)
      \/ p = {0} /\ Known(before, {a, b}) /\ ~Above(before, a, b) /\ ~Above(before, b, a)
  BY RelationIs
<1>3. \/ q = {} /\ ~Known(now, {a, b})
      \/ q = {1} /\ Known(now, {a, b}) /\ Above(now, a, b) /\ ~Above(now, b, a)
      \/ q = {-1} /\ Known(now, {a, b}) /\ ~Above(now, a, b) /\ Above(now, b, a)
      \/ q = {0} /\ Known(now, {a, b}) /\ ~Above(now, a, b) /\ ~Above(now, b, a)
  BY RelationIs
<1>4. {b, a} = {a, b}
  OBVIOUS
<1>5. Above(now, a, b) => q = {1}
  <2>1. CASE Known(now, {a, b})
    BY <1>3, <2>1
  <2>2. CASE ~Known(now, {a, b})
    BY <2>2 DEF Known, Above
  <2>3. QED
    BY <2>1, <2>2
<1>6. Above(now, b, a) => q = {-1}
  <2>1. CASE Known(now, {a, b})
    BY <1>3, <2>1
  <2>2. CASE ~Known(now, {a, b})
    BY <2>2 DEF Known, Above
  <2>3. QED
    BY <2>1, <2>2
<1> HIDE DEF p, q, answer
<1>7. rising <=> Crosses(before, now, a, b)
  BY <1>2, <1>3, <1>5 DEF Crosses
<1>8. falling <=> Crosses(before, now, b, a)
  BY <1>2, <1>3, <1>4, <1>6 DEF Crosses
<1>9. ~(rising /\ falling)
  BY <1>3
<1>10. answer.memory = q
  BY <1>1, <1>2, <1>3
<1> HIDE DEF rising, falling
<1>11. answer.requests = Signals(strategy, bar, Crosses(before, now, a, b), Crosses(before, now, b, a))
  <2>1. rising = Crosses(before, now, a, b) /\ falling = Crosses(before, now, b, a)
    BY <1>7, <1>8 DEF rising, falling, Crosses
  <2>2. QED
    BY <1>1, <2>1, Zenon
<1>12. QED
  BY <1>7, <1>8, <1>9, <1>10, <1>11 DEF p, q, answer, TellsCrosses

(* The times of the signals of a direction among some requests. *)
Told(made, id, symbol, direction) ==
  {request.timestamp : request \in {r \in OwnAsks(made, id) :
                                      r.symbol = symbol /\ r.direction = direction}}

(* The times of a signal, as the property names them. *)
LEMMA SignalTimesAre ==
  ASSUME NEW strategy, NEW symbol, NEW direction
  PROVE  SignalTimes(strategy, symbol, direction) = Told(decisions, strategy.id, symbol, direction)
<1> DEFINE S == SignalTimes(strategy, symbol, direction)
           T == Told(decisions, strategy.id, symbol, direction)
<1>1. ASSUME NEW t \in S
      PROVE  t \in T
  <2>1. PICK j \in DOMAIN decisions : /\ decisions[j].request.strategy_id = strategy.id
                                      /\ decisions[j].request.symbol = symbol
                                      /\ decisions[j].request.direction = direction
                                      /\ t = decisions[j].request.timestamp
    BY DEF SignalTimes
  <2>2. decisions[j].request \in OwnAsks(decisions, strategy.id)
    BY <2>1 DEF OwnAsks, Asks
  <2>3. QED
    BY <2>1, <2>2 DEF Told
<1>2. ASSUME NEW t \in T
      PROVE  t \in S
  <2>1. PICK r \in OwnAsks(decisions, strategy.id) :
          r.symbol = symbol /\ r.direction = direction /\ t = r.timestamp
    BY DEF Told
  <2>2. PICK j \in DOMAIN decisions : r = decisions[j].request /\ r.strategy_id = strategy.id
    BY DEF OwnAsks, Asks
  <2>3. QED
    BY <2>1, <2>2 DEF SignalTimes
<1>3. QED
  BY <1>1, <1>2

(* One signal more, if it was given. *)
Adds(made, more, id, symbol, direction, given, timestamp) ==
  Told(more, id, symbol, direction) =
    Told(made, id, symbol, direction) \cup (IF given THEN {timestamp} ELSE {})

(* What a bar adds to the signals of a symbol. *)
LEMMA SignalsTold ==
  ASSUME NEW made, NEW more, NEW strategy, NEW bar, NEW rising \in BOOLEAN, NEW falling \in BOOLEAN,
         OwnAsks(more, strategy.id) =
           OwnAsks(made, strategy.id) \cup ToSet(Signals(strategy, bar, rising, falling)),
         NEW symbol
  PROVE  /\ Adds(made, more, strategy.id, symbol, "BUY",
                 rising /\ bar.symbol = symbol, bar.timestamp)
         /\ Adds(made, more, strategy.id, symbol, "SELL",
                 ~rising /\ falling /\ bar.symbol = symbol, bar.timestamp)
<1> DEFINE buy == Signal(strategy, bar, "BUY")
           sell == Signal(strategy, bar, "SELL")
<1>1. /\ buy.symbol = bar.symbol /\ buy.timestamp = bar.timestamp /\ buy.direction = "BUY"
      /\ sell.symbol = bar.symbol /\ sell.timestamp = bar.timestamp /\ sell.direction = "SELL"
  BY DEF Signal
<1> HIDE DEF buy, sell
<1>2. \A x : ToSet(<<x>>) = {x}
  BY DEF ToSet
<1>3. ToSet(<<>>) = {}
  BY DEF ToSet
<1>4. ToSet(Signals(strategy, bar, rising, falling)) =
        IF rising THEN {buy} ELSE IF falling THEN {sell} ELSE {}
  <2>1. Signals(strategy, bar, rising, falling) =
          IF rising THEN <<buy>> ELSE IF falling THEN <<sell>> ELSE <<>>
    BY DEF Signals, buy, sell
  <2>2. QED
    BY <1>2, <1>3, <2>1
<1>5. CASE rising
  BY <1>1, <1>4, <1>5 DEF Told, Adds
<1>6. CASE ~rising /\ falling
  BY <1>1, <1>4, <1>6 DEF Told, Adds
<1>7. CASE ~rising /\ ~falling
  BY <1>4, <1>7 DEF Told, Adds
<1>8. QED
  BY <1>5, <1>6, <1>7

(* The times of the rows at which average a crosses above b. *)
CrossesIn(rows, a, b) ==
  {rows[i].timestamp : i \in {j \in 2..Len(rows) : Crosses(rows[j - 1], rows[j], a, b)}}

(* One row more adds the cross at that row, when there is one, and no other. *)
LEMMA CrossesGrow ==
  ASSUME NEW rows, NEW next, NEW m \in Nat, Len(rows) = m, Len(next) = m + 1,
         \A j \in 1..m : next[j] = rows[j], NEW a, NEW b
  PROVE  CrossesIn(next, a, b) =
           CrossesIn(rows, a, b)
             \cup (IF m > 0 /\ Crosses(next[m], next[m + 1], a, b) THEN {next[m + 1].timestamp} ELSE {})
<1> DEFINE old == {j \in 2..m : Crosses(rows[j - 1], rows[j], a, b)}
           new == {j \in 2..(m + 1) : Crosses(next[j - 1], next[j], a, b)}
           last == IF m > 0 /\ Crosses(next[m], next[m + 1], a, b) THEN {m + 1} ELSE {}
<1>1. \A j \in 2..m : j \in 1..m /\ j - 1 \in 1..m /\ next[j] = rows[j] /\ next[j - 1] = rows[j - 1]
  BY SMT
<1>2. 2..(m + 1) = 2..m \cup (IF m > 0 THEN {m + 1} ELSE {}) /\ (m + 1) - 1 = m
  BY SMT
<1>3. new = old \cup last
  <2>1. \A j \in 2..m : j \in new <=> j \in old
    BY <1>1, <1>2
  <2>2. m > 0 => (m + 1 \in new <=> m + 1 \in last)
    BY <1>2
  <2>3. \A j \in old : j \in 2..m
    OBVIOUS
  <2>4. \A j \in new : j \in 2..m \/ (m > 0 /\ j = m + 1)
    BY <1>2
  <2>5. \A j \in last : m > 0 /\ j = m + 1
    OBVIOUS
  <2> HIDE DEF new, old, last
  <2>6. QED
    BY <2>1, <2>2, <2>3, <2>4, <2>5
<1>4. CrossesIn(next, a, b) = {next[i].timestamp : i \in new}
      /\ CrossesIn(rows, a, b) = {rows[i].timestamp : i \in old}
  BY DEF CrossesIn
<1>5. \A j \in old : next[j] = rows[j]
  BY <1>1
<1> HIDE DEF new, old
<1>6. {next[i].timestamp : i \in new} =
        {rows[i].timestamp : i \in old} \cup {next[i].timestamp : i \in last}
  BY <1>3, <1>5
<1>7. QED
  BY <1>4, <1>6

LEMMA SmaFirst ==
  ASSUME NEW strategy, strategy.type = "sma_crossover", NEW bar, NEW row
  PROVE  LET answer == on_data(strategy, bar, row, {})
         IN  /\ answer.memory = relation(row, strategy)
             /\ answer.requests = Signals(strategy, bar, FALSE, FALSE)
<1> DEFINE answer == on_data(strategy, bar, row, {})
           q == relation(row, strategy)
           rising == \E x \in {}, y \in q : x <= 0 /\ 0 < y
           falling == \E x \in {}, y \in q : x >= 0 /\ 0 > y
<1>1. /\ answer.memory = IF q = {} THEN {} ELSE q
      /\ answer.requests = Signals(strategy, bar, rising, falling)
  BY DEF on_data, sma_crossover, Remember
<1>2. rising = FALSE /\ falling = FALSE
  OBVIOUS
<1> HIDE DEF answer, q, rising, falling
<1>3. answer.requests = Signals(strategy, bar, FALSE, FALSE)
  BY <1>1, <1>2, Zenon
<1>4. answer.memory = q
  BY <1>1
<1>5. QED
  BY <1>3, <1>4 DEF answer, q

Fast(strategy) == <<"sma", strategy.fast_window>>

Slow(strategy) == <<"sma", strategy.slow_window>>

(* What a moving-average strategy has told of a symbol, and remembers of it. *)
Tracks(i, symbol) ==
  LET strategy == setup.strategies[i]
      rows     == Rows(cursor, symbol)
  IN  /\ symbol \in Symbols =>
           memory[i][symbol] = IF Len(rows) = 0 THEN {} ELSE relation(rows[Len(rows)], strategy)
      /\ Told(decisions, strategy.id, symbol, "BUY") = CrossesIn(rows, Fast(strategy), Slow(strategy))
      /\ Told(decisions, strategy.id, symbol, "SELL") = CrossesIn(rows, Slow(strategy), Fast(strategy))

(* A bar keeps what a moving-average strategy remembers and has told in step with the rows. *)
LEMMA TracksBar ==
  ASSUME PipelineInv, OnBar, NEW i \in DOMAIN setup.strategies,
         setup.strategies[i].type = "sma_crossover",
         NEW symbol \in setup.strategies[i].symbols, Tracks(i, symbol),
         LET rows == Rows(cursor + 1, Event.symbol)
         IN  Heard(i, rows[Len(rows)])
  PROVE  Tracks(i, symbol)'
<1> DEFINE strategy == setup.strategies[i]
           id == strategy.id
           rows == Rows(cursor, symbol)
           next == Rows(cursor + 1, symbol)
           m == Len(rows)
           a == Fast(strategy)
           b == Slow(strategy)
<1>1. /\ cursor < Len(history) /\ cursor' = cursor + 1 /\ history' = history /\ setup' = setup
      /\ Event.kind = "bar"
  BY DEF OnBar, Handles
<1>2. HistoryFixed /\ StateTyped
  BY DEF PipelineInv
<1>3. /\ cursor \in Nat /\ Len(history) \in Nat /\ cursor <= Len(history)
      /\ cursor + 1 \in Nat /\ cursor + 1 <= Len(history)
  BY <1>1, <1>2, PastFacts
<1>4. /\ Rows(cursor, symbol)' = next /\ strategy' = strategy /\ a' = a /\ b' = b
  BY <1>1 DEF Rows, BarsUpTo, Specs, Fast, Slow
<1>5. PICK values : memory \in [DOMAIN setup.strategies -> [Symbols -> values]]
  BY <1>2 DEF StateTyped
<1>6. memory[i] \in [Symbols -> values]
  BY <1>5
<1>7. /\ symbol \in Symbols =>
           memory[i][symbol] = IF m = 0 THEN {} ELSE relation(rows[m], strategy)
      /\ Told(decisions, id, symbol, "BUY") = CrossesIn(rows, a, b)
      /\ Told(decisions, id, symbol, "SELL") = CrossesIn(rows, b, a)
  BY DEF Tracks
<1>8. SUFFICES /\ symbol \in Symbols =>
                    memory'[i][symbol] = IF Len(next) = 0 THEN {} ELSE relation(next[Len(next)], strategy)
               /\ Told(decisions', id, symbol, "BUY") = CrossesIn(next, a, b)
               /\ Told(decisions', id, symbol, "SELL") = CrossesIn(next, b, a)
  BY <1>1, <1>4 DEF Tracks
<1>9. IF Event.symbol = symbol
      THEN /\ m \in Nat /\ Len(next) = m + 1
           /\ \A j \in 1..m : next[j] = rows[j]
           /\ next[m + 1].timestamp = Event.timestamp
      ELSE next = rows
  BY <1>1, <1>2, <1>3, RowsGrow DEF Event
<1> DEFINE row == Rows(cursor + 1, Event.symbol)[Len(Rows(cursor + 1, Event.symbol))]
           answer == on_data(strategy, Event, row, memory[i][Event.symbol])
<1>10. Heard(i, row)
  OBVIOUS
<1>11. Event \in Events /\ Event.symbol \in Symbols
  <2>1. Event \in Events
    BY <1>1, EventFacts
  <2>2. QED
    BY <2>1 DEF Events
<1>12. CASE Event.symbol # symbol
  <2>1. CASE Event.symbol \notin strategy.symbols
    <3>1. memory'[i] = memory[i] /\ OwnAsks(decisions', id) = OwnAsks(decisions, id)
      BY <1>10, <2>1 DEF Heard
    <3>2. Told(decisions', id, symbol, "BUY") = Told(decisions, id, symbol, "BUY")
          /\ Told(decisions', id, symbol, "SELL") = Told(decisions, id, symbol, "SELL")
      BY <3>1 DEF Told
    <3> HIDE DEF next, rows, id, a, b
    <3>3. QED
      BY <1>7, <1>9, <1>12, <3>1, <3>2
  <2>2. CASE Event.symbol \in strategy.symbols
    <3>1. /\ memory'[i] = [memory[i] EXCEPT ![Event.symbol] = answer.memory]
          /\ OwnAsks(decisions', id) = OwnAsks(decisions, id) \cup ToSet(answer.requests)
      BY <1>10, <2>2 DEF Heard
    <3> DEFINE p == memory[i][Event.symbol]
               q == relation(row, strategy)
               rising == \E x \in p, y \in q : x <= 0 /\ 0 < y
               falling == \E x \in p, y \in q : x >= 0 /\ 0 > y
    <3>2. answer.requests = Signals(strategy, Event, rising, falling)
      BY DEF on_data, sma_crossover, Remember
    <3>3. rising \in BOOLEAN /\ falling \in BOOLEAN
      OBVIOUS
    <3> HIDE DEF rising, falling, answer
    <3>4. OwnAsks(decisions', strategy.id) = OwnAsks(decisions, strategy.id)
            \cup ToSet(Signals(strategy, Event, rising, falling))
      BY <3>1, <3>2, Zenon
    <3>5. Told(decisions', id, symbol, "BUY") = Told(decisions, id, symbol, "BUY")
          /\ Told(decisions', id, symbol, "SELL") = Told(decisions, id, symbol, "SELL")
      <4> DEFINE new == decisions'
                 old == decisions
      <4>1. OwnAsks(new, strategy.id) = OwnAsks(old, strategy.id)
              \cup ToSet(Signals(strategy, Event, rising, falling))
        BY <3>4
      <4> HIDE DEF new, old, strategy, id
      <4>2. /\ Adds(old, new, strategy.id, symbol, "BUY",
                    rising /\ Event.symbol = symbol, Event.timestamp)
            /\ Adds(old, new, strategy.id, symbol, "SELL",
                    ~rising /\ falling /\ Event.symbol = symbol, Event.timestamp)
        BY <3>3, <4>1, SignalsTold, Zenon
      <4>3. QED
        BY <1>12, <4>2 DEF new, old, id, Adds
    <3>6. symbol \in Symbols => memory'[i][symbol] = memory[i][symbol]
      BY <1>6, <1>12, <3>1
    <3> HIDE DEF next, rows, id, a, b
    <3>7. QED
      BY <1>7, <1>9, <1>12, <3>5, <3>6
  <2>3. QED
    BY <2>1, <2>2
<1>13. CASE Event.symbol = symbol
  <2>1. /\ m \in Nat /\ Len(next) = m + 1 /\ \A j \in 1..m : next[j] = rows[j]
        /\ next[m + 1].timestamp = Event.timestamp
    BY <1>9, <1>13
  <2>2. row = next[m + 1] /\ symbol \in Symbols
    BY <1>11, <1>13, <2>1
  <2>3. /\ memory'[i] = [memory[i] EXCEPT ![symbol] = answer.memory]
        /\ OwnAsks(decisions', id) = OwnAsks(decisions, id) \cup ToSet(answer.requests)
    BY <1>10, <1>13 DEF Heard
  <2>4. memory'[i][symbol] = answer.memory
    <3> HIDE DEF answer
    <3>1. QED
      BY <1>6, <2>2, <2>3
  <2> DEFINE rising == m > 0 /\ Crosses(next[m], next[m + 1], a, b)
             falling == m > 0 /\ Crosses(next[m], next[m + 1], b, a)
  <2>5. /\ answer.memory = relation(next[m + 1], strategy)
        /\ answer.requests = Signals(strategy, Event, rising, falling)
        /\ ~(rising /\ falling)
    <3>1. CASE m = 0
      <4>1. memory[i][Event.symbol] = {}
        BY <1>7, <1>13, <2>2, <3>1
      <4>2. /\ answer.memory = relation(row, strategy)
            /\ answer.requests = Signals(strategy, Event, FALSE, FALSE)
        <5> DEFINE first == on_data(strategy, Event, row, {})
        <5>1. answer = first
          BY <4>1
        <5>2. /\ first.memory = relation(row, strategy)
              /\ first.requests = Signals(strategy, Event, FALSE, FALSE)
          BY SmaFirst
        <5> HIDE DEF first, answer
        <5>3. QED
          BY <5>1, <5>2
      <4>3. rising = FALSE /\ falling = FALSE
        BY <3>1
      <4> HIDE DEF rising, falling, answer, next, m
      <4>4. QED
        BY <2>2, <4>2, <4>3, Zenon
    <3>2. CASE m > 0
      <4>1. m \in 1..m /\ m \in 1..(m + 1) /\ m + 1 \in 1..(m + 1) /\ m < m + 1
        BY <2>1, <3>2
      <4>2. memory[i][Event.symbol] = relation(next[m], strategy)
        BY <1>7, <1>13, <2>1, <2>2, <3>2, <4>1
      <4>3. \A w : LET value(j) == feature_value(next[j], <<"sma", w>>)
                   IN  /\ \A j \in 1..Len(next) : value(j) = {} \/ \E x \in Int : value(j) = {x}
                       /\ \A j, k \in 1..Len(next) : j < k /\ value(j) # {} => value(k) # {}
        <5> DEFINE n == cursor + 1
        <5>1. n \in Nat /\ n <= Len(history)
          BY <1>3
        <5> HIDE DEF n
        <5>2. \A w : LET value(j) == feature_value(Rows(n, symbol)[j], <<"sma", w>>)
                     IN  /\ \A j \in 1..Len(Rows(n, symbol)) : value(j) = {} \/ \E x \in Int : value(j) = {x}
                         /\ \A j, k \in 1..Len(Rows(n, symbol)) : j < k /\ value(j) # {} => value(k) # {}
          BY <1>2, <5>1, Averages
        <5>3. QED
          BY <5>2 DEF n
      <4>4. \A w : /\ AtMostOne(feature_value(next[m], <<"sma", w>>))
                   /\ AtMostOne(feature_value(next[m + 1], <<"sma", w>>))
                   /\ feature_value(next[m], <<"sma", w>>) # {} =>
                        feature_value(next[m + 1], <<"sma", w>>) # {}
        <5> HIDE DEF next, m
        <5>1. QED
          BY <2>1, <4>1, <4>3 DEF AtMostOne
      <4>5. a = <<"sma", strategy.fast_window>> /\ b = <<"sma", strategy.slow_window>>
        BY DEF Fast, Slow
      <4> DEFINE before == next[m]
                 now == next[m + 1]
      <4> HIDE DEF next, m
      <4>6. /\ AtMostOne(feature_value(now, a)) /\ AtMostOne(feature_value(now, b))
            /\ AtMostOne(feature_value(before, a)) /\ AtMostOne(feature_value(before, b))
            /\ Known(before, {a, b}) => Known(now, {a, b})
        BY <4>4, <4>5 DEF Known
      <4> DEFINE reply == on_data(strategy, Event, now, relation(before, strategy))
      <4> HIDE DEF before, now, a, b
      <4>7. TellsCrosses(reply, strategy, Event, before, now, a, b)
        <5>1. strategy.type = "sma_crossover"
          OBVIOUS
        <5> HIDE DEF strategy
        <5>2. QED
          BY <4>5, <4>6, <5>1, SmaAnswers, Zenon
      <4>8. answer = reply
        BY <2>2, <4>2 DEF before, now
      <4>9. rising = Crosses(before, now, a, b) /\ falling = Crosses(before, now, b, a)
        BY <3>2 DEF before, now, Crosses
      <4> HIDE DEF rising, falling, reply, answer
      <4>10. QED
        BY <4>7, <4>8, <4>9 DEF now, TellsCrosses
    <3>3. QED
      BY <2>1, <3>1, <3>2
  <2>6. rising \in BOOLEAN /\ falling \in BOOLEAN
    BY DEF Crosses
  <2>7. /\ CrossesIn(next, a, b) = CrossesIn(rows, a, b)
             \cup (IF rising THEN {next[m + 1].timestamp} ELSE {})
        /\ CrossesIn(next, b, a) = CrossesIn(rows, b, a)
             \cup (IF falling THEN {next[m + 1].timestamp} ELSE {})
    <3> DEFINE k == m
    <3>1. Len(rows) = k /\ k \in Nat /\ Len(next) = k + 1 /\ \A j \in 1..k : next[j] = rows[j]
      BY <2>1
    <3>2. \A c, d : CrossesIn(next, c, d) =
            CrossesIn(rows, c, d)
              \cup (IF k > 0 /\ Crosses(next[k], next[k + 1], c, d) THEN {next[k + 1].timestamp} ELSE {})
      <4> HIDE DEF k, rows, next
      <4>1. QED
        BY <3>1, CrossesGrow
    <3>3. QED
      BY <3>2
  <2> HIDE DEF rising, falling, answer, next, rows, m, a, b
  <2>8. OwnAsks(decisions', strategy.id) = OwnAsks(decisions, strategy.id)
          \cup ToSet(Signals(strategy, Event, rising, falling))
    BY <2>3, <2>5, Zenon
  <2>9. /\ Told(decisions', id, symbol, "BUY") =
             Told(decisions, id, symbol, "BUY") \cup (IF rising THEN {Event.timestamp} ELSE {})
        /\ Told(decisions', id, symbol, "SELL") =
             Told(decisions, id, symbol, "SELL") \cup (IF falling THEN {Event.timestamp} ELSE {})
    <3> DEFINE new == decisions'
               old == decisions
    <3>1. OwnAsks(new, strategy.id) = OwnAsks(old, strategy.id)
            \cup ToSet(Signals(strategy, Event, rising, falling))
      BY <2>8
    <3> HIDE DEF new, old, strategy, id
    <3>2. /\ Adds(old, new, strategy.id, symbol, "BUY",
                  rising /\ Event.symbol = symbol, Event.timestamp)
          /\ Adds(old, new, strategy.id, symbol, "SELL",
                  ~rising /\ falling /\ Event.symbol = symbol, Event.timestamp)
      BY <2>6, <3>1, SignalsTold, Zenon
    <3>3. QED
      BY <1>13, <2>5, <3>2 DEF new, old, id, Adds
  <2>10. Len(next) # 0
    BY <2>1
  <2>11. QED
    BY <1>7, <2>1, <2>4, <2>5, <2>7, <2>9, <2>10
<1>14. QED
  BY <1>12, <1>13

-----------------------------------------------------------------------------
(* The model calls for a trade in a row, strongly enough for the strategy. *)
CalledFor(strategy, row, direction) ==
  IF direction = "BUY"
  THEN predict_record(strategy.model, row).label = "UP"
         /\ score(strategy.model, row) >= strategy.buy_threshold
  ELSE predict_record(strategy.model, row).label = "DOWN"
         /\ score(strategy.model, row) <= strategy.sell_threshold

CalledIn(rows, strategy, direction) ==
  {rows[i].timestamp : i \in {j \in 1..Len(rows) : CalledFor(strategy, rows[j], direction)}}

LEMMA CalledGrow ==
  ASSUME NEW rows, NEW next, NEW m \in Nat, Len(rows) = m, Len(next) = m + 1,
         \A j \in 1..m : next[j] = rows[j], NEW strategy, NEW direction
  PROVE  CalledIn(next, strategy, direction) =
           CalledIn(rows, strategy, direction)
             \cup (IF CalledFor(strategy, next[m + 1], direction) THEN {next[m + 1].timestamp} ELSE {})
<1> DEFINE old == {j \in 1..m : CalledFor(strategy, rows[j], direction)}
           new == {j \in 1..(m + 1) : CalledFor(strategy, next[j], direction)}
           last == IF CalledFor(strategy, next[m + 1], direction) THEN {m + 1} ELSE {}
<1>1. 1..(m + 1) = 1..m \cup {m + 1}
  BY SMT
<1>2. new = old \cup last
  BY <1>1
<1>3. CalledIn(next, strategy, direction) = {next[i].timestamp : i \in new}
      /\ CalledIn(rows, strategy, direction) = {rows[i].timestamp : i \in old}
  BY DEF CalledIn
<1>4. \A j \in old : next[j] = rows[j]
  OBVIOUS
<1> HIDE DEF new, old
<1>5. {next[i].timestamp : i \in new} =
        {rows[i].timestamp : i \in old} \cup {next[i].timestamp : i \in last}
  BY <1>2, <1>4
<1>6. QED
  BY <1>3, <1>5

(* A signal of a direction other than these two tells neither. *)
LEMMA ModelTold ==
  ASSUME NEW made, NEW more, NEW strategy, strategy.type = "ml_directional", NEW bar, NEW row,
         NEW previous,
         LET answer == on_data(strategy, bar, row, previous)
         IN  OwnAsks(more, strategy.id) = OwnAsks(made, strategy.id) \cup ToSet(answer.requests),
         NEW symbol
  PROVE  /\ Adds(made, more, strategy.id, symbol, "BUY",
                 CalledFor(strategy, row, "BUY") /\ bar.symbol = symbol, bar.timestamp)
         /\ Adds(made, more, strategy.id, symbol, "SELL",
                 CalledFor(strategy, row, "SELL") /\ bar.symbol = symbol, bar.timestamp)
<1> DEFINE buy == Signal(strategy, bar, "BUY")
           sell == Signal(strategy, bar, "SELL")
           hold == Signal(strategy, bar, "HOLD")
           up == CalledFor(strategy, row, "BUY")
           down == CalledFor(strategy, row, "SELL")
           selected == predict_record(strategy.model, row)
           requests == on_data(strategy, bar, row, previous).requests
<1>1. /\ buy.symbol = bar.symbol /\ buy.timestamp = bar.timestamp /\ buy.direction = "BUY"
      /\ sell.symbol = bar.symbol /\ sell.timestamp = bar.timestamp /\ sell.direction = "SELL"
      /\ hold.direction = "HOLD"
  BY DEF Signal
<1>2. selected.score = score(strategy.model, row)
  BY DEF predict_record
<1>3. requests = ml_directional(strategy, bar, row)
  BY DEF on_data, Remember
<1>4. /\ up <=> selected.label = "UP" /\ selected.score >= strategy.buy_threshold
      /\ down <=> selected.label = "DOWN" /\ selected.score <= strategy.sell_threshold
  BY <1>2 DEF CalledFor
<1>5. up \in BOOLEAN /\ down \in BOOLEAN /\ ~(up /\ down)
  <2>1. up \in BOOLEAN /\ down \in BOOLEAN
    BY DEF CalledFor
  <2>2. ~(selected.label = "UP" /\ selected.label = "DOWN")
    OBVIOUS
  <2> HIDE DEF up, down, selected
  <2>3. QED
    BY <1>4, <2>1, <2>2
<1> HIDE DEF up, down, selected
<1>6. requests = IF up THEN <<buy>> ELSE IF down THEN <<sell>>
                 ELSE IF strategy.emit_hold THEN <<hold>> ELSE <<>>
  BY <1>3, <1>4, <1>5 DEF ml_directional, selected, buy, sell, hold
<1>7. (\A x : ToSet(<<x>>) = {x}) /\ ToSet(<<>>) = {}
  BY DEF ToSet
<1> HIDE DEF buy, sell, hold, requests
<1>8. \/ up /\ ~down /\ ToSet(requests) = {buy}
      \/ ~up /\ down /\ ToSet(requests) = {sell}
      \/ ~up /\ ~down /\ (ToSet(requests) = {hold} \/ ToSet(requests) = {})
  BY <1>5, <1>6, <1>7
<1>9. OwnAsks(more, strategy.id) = OwnAsks(made, strategy.id) \cup ToSet(requests)
  BY DEF requests
<1>10. CASE up /\ ~down /\ ToSet(requests) = {buy}
  BY <1>1, <1>9, <1>10 DEF Told, Adds, up, down
<1>11. CASE ~up /\ down /\ ToSet(requests) = {sell}
  BY <1>1, <1>9, <1>11 DEF Told, Adds, up, down
<1>12. CASE ~up /\ ~down /\ ToSet(requests) = {hold}
  BY <1>1, <1>9, <1>12 DEF Told, Adds, up, down
<1>13. CASE ~up /\ ~down /\ ToSet(requests) = {}
  BY <1>9, <1>13 DEF Told, Adds, up, down
<1>14. QED
  BY <1>8, <1>10, <1>11, <1>12, <1>13

(* What a strategy with a model has told of a symbol. *)
Serves(i, symbol) ==
  LET strategy == setup.strategies[i]
  IN  \A direction \in {"BUY", "SELL"} :
        Told(decisions, strategy.id, symbol, direction)
          = CalledIn(Rows(cursor, symbol), strategy, direction)

(* A bar keeps what a strategy with a model has told in step with the rows. *)
LEMMA ServesBar ==
  ASSUME PipelineInv, OnBar, NEW i \in DOMAIN setup.strategies,
         setup.strategies[i].type = "ml_directional",
         NEW symbol \in setup.strategies[i].symbols, Serves(i, symbol),
         LET rows == Rows(cursor + 1, Event.symbol)
         IN  Heard(i, rows[Len(rows)])
  PROVE  Serves(i, symbol)'
<1> DEFINE strategy == setup.strategies[i]
           rows == Rows(cursor, symbol)
           next == Rows(cursor + 1, symbol)
           m == Len(rows)
           row == Rows(cursor + 1, Event.symbol)[Len(Rows(cursor + 1, Event.symbol))]
           answer == on_data(strategy, Event, row, memory[i][Event.symbol])
           old == decisions
           new == decisions'
<1>1. /\ cursor < Len(history) /\ cursor' = cursor + 1 /\ history' = history /\ setup' = setup
      /\ Event.kind = "bar"
  BY DEF OnBar, Handles
<1>2. HistoryFixed
  BY DEF PipelineInv
<1>3. cursor \in Nat
  BY <1>2, PastFacts
<1>4. Rows(cursor, symbol)' = next /\ strategy' = strategy
  BY <1>1 DEF Rows, BarsUpTo, Specs
<1>5. SUFFICES ASSUME NEW direction \in {"BUY", "SELL"}
               PROVE  Told(new, strategy.id, symbol, direction) = CalledIn(next, strategy, direction)
  BY <1>1, <1>4 DEF Serves
<1>6. Told(old, strategy.id, symbol, direction) = CalledIn(rows, strategy, direction)
  BY DEF Serves
<1>7. IF Event.symbol = symbol
      THEN /\ m \in Nat /\ Len(next) = m + 1
           /\ \A j \in 1..m : next[j] = rows[j]
           /\ next[m + 1].timestamp = Event.timestamp
      ELSE next = rows
  BY <1>1, <1>2, <1>3, RowsGrow DEF Event
<1>8. Heard(i, row)
  OBVIOUS
<1>9. CASE Event.symbol \notin strategy.symbols
  <2>1. OwnAsks(new, strategy.id) = OwnAsks(old, strategy.id) /\ Event.symbol # symbol
    BY <1>8, <1>9 DEF Heard
  <2>2. Told(new, strategy.id, symbol, direction) = Told(old, strategy.id, symbol, direction)
    BY <2>1 DEF Told
  <2>3. QED
    BY <1>6, <1>7, <2>1, <2>2
<1>10. CASE Event.symbol \in strategy.symbols
  <2>1. OwnAsks(new, strategy.id) = OwnAsks(old, strategy.id) \cup ToSet(answer.requests)
    BY <1>8, <1>10 DEF Heard
  <2>2. Adds(old, new, strategy.id, symbol, direction,
             CalledFor(strategy, row, direction) /\ Event.symbol = symbol, Event.timestamp)
    <3>1. strategy.type = "ml_directional"
      OBVIOUS
    <3> DEFINE previous == memory[i][Event.symbol]
    <3> HIDE DEF previous, strategy, old, new, row
    <3>2. OwnAsks(new, strategy.id) = OwnAsks(old, strategy.id)
            \cup ToSet(on_data(strategy, Event, row, previous).requests)
      BY <2>1 DEF previous
    <3>3. /\ Adds(old, new, strategy.id, symbol, "BUY",
                  CalledFor(strategy, row, "BUY") /\ Event.symbol = symbol, Event.timestamp)
          /\ Adds(old, new, strategy.id, symbol, "SELL",
                  CalledFor(strategy, row, "SELL") /\ Event.symbol = symbol, Event.timestamp)
      BY <3>1, <3>2, ModelTold, Zenon
    <3>4. QED
      BY <3>3
  <2>3. CASE Event.symbol # symbol
    <3>1. Told(new, strategy.id, symbol, direction) = Told(old, strategy.id, symbol, direction)
      BY <2>2, <2>3 DEF Adds
    <3>2. QED
      BY <1>6, <1>7, <2>3, <3>1
  <2>4. CASE Event.symbol = symbol
    <3> DEFINE k == m
    <3>1. /\ Len(rows) = k /\ k \in Nat /\ Len(next) = k + 1 /\ \A j \in 1..k : next[j] = rows[j]
          /\ next[k + 1].timestamp = Event.timestamp
      BY <1>7, <2>4
    <3>2. row = next[k + 1]
      BY <2>4, <3>1
    <3> HIDE DEF k, rows, next, row, strategy, old, new
    <3>3. CalledIn(next, strategy, direction) = CalledIn(rows, strategy, direction)
            \cup (IF CalledFor(strategy, next[k + 1], direction) THEN {next[k + 1].timestamp} ELSE {})
      BY <3>1, CalledGrow
    <3>4. QED
      BY <1>6, <2>2, <2>4, <3>1, <3>2, <3>3 DEF Adds
  <2>5. QED
    BY <2>3, <2>4
<1>11. QED
  BY <1>9, <1>10

-----------------------------------------------------------------------------
(* The record in hand is one of the batch over the complete history, and the
   strategies have told and remember what the rows so far call for. *)
ServingInv ==
  /\ OnlineFollows
  /\ features \subseteq transform_batch(Specs, AllBars)
  /\ DistinctStrategies /\ ~raised =>
       \A i \in DOMAIN setup.strategies : \A symbol \in setup.strategies[i].symbols :
         /\ setup.strategies[i].type = "sma_crossover" => Tracks(i, symbol)
         /\ setup.strategies[i].type = "ml_directional" => Serves(i, symbol)

LEMMA NoRowsAtFirst ==
  ASSUME HistoryFixed, NEW symbol
  PROVE  Len(Rows(0, symbol)) = 0
<1>1. 0 <= Len(history) /\ 0 \in Nat
  BY PastFacts
<1>2. Lists(OwnBars(0, symbol), history, OwnPlaces(0, symbol))
  BY <1>1, OwnList
<1>3. OwnPlaces(0, symbol) = {}
  BY DEF OwnPlaces, OfSymbol, BarPlaces
<1>4. PICK n, at : Numbers(at, n, {}) /\ OwnBars(0, symbol) = [k \in 1..n |-> history[at[k]]]
  BY <1>2, <1>3 DEF Lists
<1>5. n = 0
  <2>1. n \in Nat /\ at \in [1..n -> {}]
    BY <1>4 DEF Numbers
  <2>2. CASE n > 0
    <3>1. 1 \in 1..n
      BY <2>1, <2>2
    <3>2. at[1] \in {}
      BY <2>1, <3>1
    <3>3. QED
      BY <3>2
  <2>3. QED
    BY <2>1, <2>2
<1>6. Len(OwnBars(0, symbol)) = 0
  BY <1>4, <1>5
<1>7. QED
  BY <1>1, <1>6, RowFacts

LEMMA ServingInit ==
  ASSUME Init
  PROVE  ServingInv
<1>1. HistoryFixed
  BY PipelineInit DEF PipelineInv
<1>2. cursor = 0 /\ decisions = <<>> /\ DOMAIN decisions = {} /\ features = {} /\ online_bars = <<>>
      /\ memory = [i \in DOMAIN setup.strategies |-> [s \in Symbols |-> {}]]
  BY DEF Init
<1>3. OnlineFollows
  <2>1. 0 \in Nat /\ 0 <= Len(history)
    BY <1>1, PastFacts
  <2>2. Lists(BarsUpTo(0), history, BarPlaces(history, 0))
    BY <1>1, <2>1, BarsUpToList
  <2>3. BarPlaces(history, 0) = {}
    BY DEF BarPlaces
  <2>4. Lists(<<>>, history, {})
    <3> DEFINE at == [k \in 1..0 |-> k]
    <3>1. Numbers(at, 0, {}) /\ <<>> = [k \in 1..0 |-> history[at[k]]]
      BY DEF Numbers
    <3> HIDE DEF at
    <3>2. QED
      BY <3>1 DEF Lists
  <2>5. {} \subseteq Int
    OBVIOUS
  <2>6. QED
    BY <1>2, <2>2, <2>3, <2>4, <2>5, ListedOnce DEF OnlineFollows
<1>4. ASSUME NEW i \in DOMAIN setup.strategies, NEW symbol
      PROVE  Tracks(i, symbol) /\ Serves(i, symbol)
  <2> DEFINE rows == Rows(cursor, symbol)
  <2>1. Len(rows) = 0
    BY <1>1, <1>2, NoRowsAtFirst
  <2>2. \A id, direction : Told(decisions, id, symbol, direction) = {}
    BY <1>2 DEF Told, OwnAsks, Asks
  <2>3. 2..0 = {} /\ 1..0 = {}
    OBVIOUS
  <2>4. /\ \A a, b : CrossesIn(rows, a, b) = {}
        /\ \A strategy, direction : CalledIn(rows, strategy, direction) = {}
    <3> HIDE DEF rows
    <3>1. QED
      BY <2>1, <2>3 DEF CrossesIn, CalledIn
  <2>5. symbol \in Symbols => memory[i][symbol] = {}
    BY <1>2
  <2> HIDE DEF rows
  <2>6. QED
    BY <2>1, <2>2, <2>4, <2>5 DEF Tracks, Serves, rows
<1>5. QED
  BY <1>2, <1>3, <1>4 DEF ServingInv

LEMMA ServingBar ==
  ASSUME PipelineInv, ServingInv, OnBar
  PROVE  ServingInv'
<1> DEFINE rows == Rows(cursor + 1, Event.symbol)
           row == rows[Len(rows)]
<1>1. /\ features' = {row} /\ OnlineFollows'
      /\ DistinctStrategies /\ ~raised' => \A i \in DOMAIN setup.strategies : Heard(i, row)
  BY BarHeard DEF ServingInv
<1>2. /\ cursor < Len(history) /\ history' = history /\ setup' = setup /\ Event.kind = "bar" /\ ~raised
  BY DEF OnBar, Handles
<1>3. HistoryFixed
  BY DEF PipelineInv
<1>4. row \in transform_batch(Specs, AllBars)
  <2> DEFINE n == cursor + 1
  <2>1. n \in Nat /\ n <= Len(history)
    BY <1>2, <1>3, PastFacts
  <2>2. Len(rows) \in 1..Len(rows)
    <3>1. Len(rows) \in Nat \ {0}
      BY <1>2, <1>3, RecordIsRow DEF ServingInv, OnlineFollows
    <3> HIDE DEF rows
    <3>2. QED
      BY <3>1
  <2> HIDE DEF n
  <2>3. \A j \in 1..Len(Rows(n, Event.symbol)) :
          Rows(n, Event.symbol)[j] \in transform_batch(Specs, AllBars)
    BY <1>3, <2>1, RowsInBatch
  <2>4. QED
    BY <2>2, <2>3 DEF n
<1>5. transform_batch(Specs, AllBars)' = transform_batch(Specs, AllBars)
  BY <1>2 DEF Specs, AllBars
<1> HIDE DEF row
<1>6. features' \subseteq transform_batch(Specs, AllBars)'
  BY <1>1, <1>4, <1>5
<1>7. ASSUME DistinctStrategies, ~raised', NEW i \in DOMAIN setup.strategies,
             NEW symbol \in setup.strategies[i].symbols
      PROVE  /\ setup.strategies[i].type = "sma_crossover" => Tracks(i, symbol)'
             /\ setup.strategies[i].type = "ml_directional" => Serves(i, symbol)'
  <2>1. LET list == Rows(cursor + 1, Event.symbol)
        IN  Heard(i, list[Len(list)])
    BY <1>1, <1>7 DEF row
  <2>2. ASSUME setup.strategies[i].type = "sma_crossover"
        PROVE  Tracks(i, symbol)'
    <3>1. Tracks(i, symbol)
      BY <1>2, <1>7, <2>2 DEF ServingInv
    <3>2. QED
      BY <2>1, <2>2, <3>1, TracksBar
  <2>3. ASSUME setup.strategies[i].type = "ml_directional"
        PROVE  Serves(i, symbol)'
    <3>1. Serves(i, symbol)
      BY <1>2, <1>7, <2>3 DEF ServingInv
    <3>2. QED
      BY <2>1, <2>3, <3>1, ServesBar
  <2>4. QED
    BY <2>2, <2>3
<1>8. QED
  BY <1>1, <1>2, <1>6, <1>7 DEF ServingInv

LEMMA ServingQuote ==
  ASSUME PipelineInv, ServingInv, OnQuote
  PROVE  ServingInv'
<1>1. /\ cursor < Len(history) /\ cursor' = cursor + 1 /\ history' = history /\ setup' = setup
      /\ Event.kind = "quote" /\ online_bars' = online_bars /\ features' = features
      /\ memory' = memory /\ decisions' = decisions /\ raised' = raised
  BY DEF OnQuote, Handles
<1>2. HistoryFixed
  BY DEF PipelineInv
<1>3. cursor \in Nat /\ Event.kind # "bar" /\ Event = history[cursor + 1]
  BY <1>1, <1>2, PastFacts DEF Event
<1>4. BarsUpTo(cursor)' = BarsUpTo(cursor)
  <2>1. BarsUpTo(cursor + 1) = BarsUpTo(cursor)
    BY <1>1, <1>2, <1>3, BarsUpToGrow
  <2>2. BarsUpTo(cursor)' = BarsUpTo(cursor + 1)
    BY <1>1 DEF BarsUpTo
  <2>3. QED
    BY <2>1, <2>2
<1>5. \A symbol : Rows(cursor, symbol)' = Rows(cursor, symbol)
  BY <1>1, <1>4 DEF Rows, Specs
<1>6. OnlineFollows'
  BY <1>1, <1>4 DEF OnlineFollows, ServingInv
<1>7. features' \subseteq transform_batch(Specs, AllBars)'
  BY <1>1 DEF ServingInv, Specs, AllBars
<1>8. \A i, symbol : (Tracks(i, symbol) => Tracks(i, symbol)') /\ (Serves(i, symbol) => Serves(i, symbol)')
  BY <1>1, <1>5 DEF Tracks, Serves
<1>9. QED
  BY <1>1, <1>6, <1>7, <1>8 DEF ServingInv

LEMMA ServingInvariant == Spec => []ServingInv
<1>1. Init => ServingInv
  BY ServingInit
<1>2. PipelineInv /\ ServingInv /\ [Next]_vars => ServingInv'
  <2>1. SUFFICES ASSUME PipelineInv, ServingInv, [Next]_vars
                 PROVE  ServingInv'
    OBVIOUS
  <2>2. CASE OnBar
    BY <2>1, <2>2, ServingBar
  <2>3. CASE OnQuote
    BY <2>1, <2>3, ServingQuote
  <2>4. CASE UNCHANGED vars
    BY <2>1, <2>4
       DEF vars, ServingInv, OnlineFollows, BarsUpTo, Specs, AllBars, Tracks, Serves, Rows
  <2>5. QED
    BY <2>1, <2>2, <2>3, <2>4 DEF Next
<1>3. QED
  BY <1>1, <1>2, PipelineInvariant, PTL DEF Spec

(* If no two strategies have one id, a moving-average strategy tells each cross,
   once, and nothing else, whatever bars of other symbols, quotes and other
   strategies come between: what it remembers of a symbol is the relation in the row
   before. *)
THEOREM CrossesAreTold ==
  ASSUME DistinctStrategies
  PROVE  Spec => []SignalsAreCrosses
<1>2. ServingInv => SignalsAreCrosses
  <2>1. SUFFICES ASSUME ServingInv, ~raised, NEW i \in DOMAIN setup.strategies,
                        setup.strategies[i].type = "sma_crossover",
                        NEW symbol \in setup.strategies[i].symbols
                 PROVE  LET strategy == setup.strategies[i]
                            fast     == <<"sma", strategy.fast_window>>
                            slow     == <<"sma", strategy.slow_window>>
                        IN  /\ SignalTimes(strategy, symbol, "BUY") =
                                 CrossTimes(symbol, LAMBDA before, now :
                                   /\ Known(before, {fast, slow})
                                   /\ ~Above(before, fast, slow)
                                   /\ Above(now, fast, slow))
                            /\ SignalTimes(strategy, symbol, "SELL") =
                                 CrossTimes(symbol, LAMBDA before, now :
                                   /\ Known(before, {fast, slow})
                                   /\ ~Above(before, slow, fast)
                                   /\ Above(now, slow, fast))
    BY DEF SignalsAreCrosses
  <2> DEFINE strategy == setup.strategies[i]
             fast == <<"sma", strategy.fast_window>>
             slow == <<"sma", strategy.slow_window>>
             rows == Rows(cursor, symbol)
             rises(j) == /\ Known(rows[j - 1], {fast, slow})
                         /\ ~Above(rows[j - 1], fast, slow) /\ Above(rows[j], fast, slow)
             falls(j) == /\ Known(rows[j - 1], {fast, slow})
                         /\ ~Above(rows[j - 1], slow, fast) /\ Above(rows[j], slow, fast)
  <2>2. Tracks(i, symbol)
    BY <2>1 DEF ServingInv
  <2>3. /\ Told(decisions, strategy.id, symbol, "BUY") = CrossesIn(rows, fast, slow)
        /\ Told(decisions, strategy.id, symbol, "SELL") = CrossesIn(rows, slow, fast)
    BY <2>2 DEF Tracks, Fast, Slow
  <2>4. \A direction : SignalTimes(strategy, symbol, direction)
                         = Told(decisions, strategy.id, symbol, direction)
    BY SignalTimesAre
  <2>5. RowsOf(Specs, BarsIn(Handled), symbol) = rows
    BY Zenon DEF Rows, BarsUpTo, Handled
  <2>6. {slow, fast} = {fast, slow}
    OBVIOUS
  <2>7. /\ CrossesIn(rows, fast, slow) = {rows[k].timestamp : k \in {j \in 2..Len(rows) : rises(j)}}
        /\ CrossesIn(rows, slow, fast) = {rows[k].timestamp : k \in {j \in 2..Len(rows) : falls(j)}}
    <3> HIDE DEF rows, fast, slow
    <3>1. QED
      BY <2>6 DEF CrossesIn, Crosses
  <2>8. /\ CrossTimes(symbol, LAMBDA before, now :
                        /\ Known(before, {fast, slow})
                        /\ ~Above(before, fast, slow)
                        /\ Above(now, fast, slow))
             = {rows[k].timestamp : k \in {j \in 2..Len(rows) : rises(j)}}
        /\ CrossTimes(symbol, LAMBDA before, now :
                        /\ Known(before, {fast, slow})
                        /\ ~Above(before, slow, fast)
                        /\ Above(now, slow, fast))
             = {rows[k].timestamp : k \in {j \in 2..Len(rows) : falls(j)}}
    <3> HIDE DEF rows, fast, slow
    <3>1. QED
      BY <2>5 DEF CrossTimes
  <2> HIDE DEF rises, falls, rows
  <2>9. QED
    BY <2>3, <2>4, <2>7, <2>8
<1>3. QED
  BY <1>2, ServingInvariant, PTL

(* The rows of the handled bars of a symbol in the batch over the complete history
   are the rows the engine had for them. *)
LEMMA RowsServed ==
  ASSUME HistoryFixed, BarsComeFirst, NEW symbol
  PROVE  {row \in transform_batch(Specs, AllBars) :
            /\ row.symbol = symbol
            /\ \E k \in DOMAIN Handled :
                 /\ Handled[k].kind = "bar" /\ Handled[k].symbol = symbol
                 /\ Handled[k].timestamp = row.timestamp}
         = {Rows(cursor, symbol)[j] : j \in 1..Len(Rows(cursor, symbol))}
<1> DEFINE N == Len(history)
           own == OwnBars(cursor, symbol)
           all == OwnBars(N, symbol)
           rows == Rows(cursor, symbol)
           batch == Rows(N, symbol)
           seen(row) == \E k \in DOMAIN Handled : /\ Handled[k].kind = "bar"
                                                  /\ Handled[k].symbol = symbol
                                                  /\ Handled[k].timestamp = row.timestamp
<1>1. /\ setup \in Setups /\ N \in Nat /\ N <= Len(history) /\ cursor \in Nat /\ cursor <= N
      /\ DOMAIN history = 1..N /\ DOMAIN setup.slots = 1..N /\ history \in Seq(Events)
      /\ \A i \in 1..N : /\ history[i].timestamp \in Nat
                         /\ history[i].timestamp = setup.slots[i].timestamp
                         /\ history[i].symbol = setup.slots[i].symbol
                         /\ history[i].kind = setup.slots[i].kind
  BY PastFacts
<1>2. DOMAIN Handled = 1..cursor /\ \A k \in 1..cursor : Handled[k] = history[k]
  BY <1>1 DEF Handled
<1>3. PICK n, at : Numbers(at, n, OwnPlaces(cursor, symbol)) /\ own = [k \in 1..n |-> history[at[k]]]
  <2>1. Lists(own, history, OwnPlaces(cursor, symbol))
    BY <1>1, OwnList
  <2>2. QED
    BY <2>1, Zenon DEF Lists
<1>4. PICK m, bt : Numbers(bt, m, OwnPlaces(N, symbol)) /\ all = [k \in 1..m |-> history[bt[k]]]
  <2>1. Lists(all, history, OwnPlaces(N, symbol))
    BY <1>1, OwnList
  <2>2. QED
    BY <2>1, Zenon DEF Lists
<1>5. /\ Len(rows) = n /\ \A j \in 1..n : rows[j].symbol = symbol /\ rows[j].timestamp = own[j].timestamp
  <2>1. Len(own) = n
    <3>1. n \in Nat /\ own = [k \in 1..n |-> own[k]]
      BY <1>3 DEF Numbers
    <3>2. QED
      BY <3>1, LenOf, Zenon
  <2>2. cursor <= Len(history)
    BY <1>1
  <2>3. Len(rows) = Len(own) /\ \A j \in 1..Len(own) : IsRow(rows[j], symbol, own[j])
    BY <1>1, <2>2, RowFacts, Zenon
  <2>4. QED
    BY <2>1, <2>3 DEF IsRow
<1>6. /\ Len(batch) = m /\ DOMAIN batch = 1..m
      /\ \A j \in 1..m : batch[j].symbol = symbol /\ batch[j].timestamp = all[j].timestamp
  <2>1. Len(all) = m
    <3>1. m \in Nat /\ all = [k \in 1..m |-> all[k]]
      BY <1>4 DEF Numbers
    <3>2. QED
      BY <3>1, LenOf, Zenon
  <2>2. /\ Len(batch) = Len(all) /\ DOMAIN batch = 1..Len(all)
        /\ \A j \in 1..Len(all) : IsRow(batch[j], symbol, all[j])
    BY <1>1, RowFacts, Zenon
  <2>3. QED
    BY <2>1, <2>2 DEF IsRow
<1>7. \A k \in 1..n : k \in 1..m /\ bt[k] = at[k] /\ batch[k] = rows[k]
  <2> DEFINE first == OwnPlaces(cursor, symbol)
             places == OwnPlaces(N, symbol)
  <2>1. places \subseteq Int /\ ComeFirst(first, places)
    BY <1>1, OwnBegin, OwnList
  <2>2. Numbers(at, n, first) /\ Numbers(bt, m, places)
    BY <1>3, <1>4
  <2>3. \A k \in 1..n : k \in 1..m /\ bt[k] = at[k]
    <3> HIDE DEF first, places, N, own, all, rows, batch, seen
    <3>1. QED
      BY <2>1, <2>2, FirstNumbers, Zenon
  <2>4. Follow(rows, batch, own, all) /\ Begins(own, all)
    BY <1>1, RowsFollow, OwnBegin
  <2>5. Begins(rows, batch)
    BY <2>4, FollowFacts
  <2>6. \A k \in 1..n : batch[k] = rows[k]
    BY <1>5, <2>5, BeginsDomain
  <2>7. QED
    BY <2>3, <2>6
<1>8. ASSUME NEW row \in transform_batch(Specs, AllBars), row.symbol = symbol, seen(row)
      PROVE  \E j \in 1..n : row = rows[j]
  <2>1. PICK s : row \in ToSet(RowsOf(Specs, AllBars, s))
    BY DEF transform_batch
  <2>2. RowsOf(Specs, AllBars, s) = Rows(N, s)
    BY <1>1, AllBarsAre DEF Rows
  <2>3. PICK j \in DOMAIN Rows(N, s) : row = Rows(N, s)[j]
    BY <2>1, <2>2 DEF ToSet
  <2>4. s = symbol
    <3>1. /\ DOMAIN Rows(N, s) = 1..Len(OwnBars(N, s))
          /\ \A l \in 1..Len(OwnBars(N, s)) : IsRow(Rows(N, s)[l], s, OwnBars(N, s)[l])
      BY <1>1, RowFacts, Zenon
    <3>2. row.symbol = s
      BY <2>3, <3>1 DEF IsRow
    <3>3. QED
      BY <1>8, <3>2
  <2>5. j \in 1..m /\ row = batch[j]
    BY <1>6, <2>3, <2>4
  <2>6. PICK k \in 1..cursor : /\ history[k].kind = "bar" /\ history[k].symbol = symbol
                               /\ history[k].timestamp = row.timestamp
    BY <1>2, <1>8
  <2>7. /\ bt[j] \in 1..N /\ history[bt[j]].kind = "bar" /\ history[bt[j]].symbol = symbol
        /\ history[bt[j]].timestamp = row.timestamp
    <3>1. bt[j] \in OwnPlaces(N, symbol)
      BY <1>4, <2>5 DEF Numbers
    <3>2. all[j] = history[bt[j]]
      BY <1>4, <2>5
    <3>3. QED
      BY <1>6, <2>5, <3>1, <3>2 DEF OwnPlaces, OfSymbol, BarPlaces
  <2>8. bt[j] = k
    <3> DEFINE i == bt[j]
    <3>1. i \in 1..N /\ k \in 1..N
      BY <1>1, <2>7
    <3>2. \A x, y \in 1..N :
            /\ x < y /\ setup.slots[x].symbol = setup.slots[y].symbol
            /\ setup.slots[x].timestamp = setup.slots[y].timestamp
            => setup.slots[y].kind # "bar"
      BY <1>1 DEF BarsComeFirst
    <3>3. /\ setup.slots[i].symbol = setup.slots[k].symbol
          /\ setup.slots[i].timestamp = setup.slots[k].timestamp
          /\ setup.slots[i].kind = "bar" /\ setup.slots[k].kind = "bar"
      BY <1>1, <2>6, <2>7, <3>1
    <3> HIDE DEF i
    <3>4. ~(i < k) /\ ~(k < i)
      BY <3>1, <3>2, <3>3
    <3>5. i = k
      BY <1>1, <3>1, <3>4
    <3>6. QED
      BY <3>5 DEF i
  <2>9. k \in OwnPlaces(cursor, symbol)
    BY <2>6 DEF OwnPlaces, OfSymbol, BarPlaces
  <2>10. PICK l \in 1..n : at[l] = k
    BY <1>3, <2>9 DEF Numbers
  <2>11. l \in 1..m /\ bt[l] = bt[j]
    BY <1>7, <2>8, <2>10
  <2>12. l = j
    <3>1. m \in Nat /\ \A x, y \in 1..m : x < y => bt[x] < bt[y]
      BY <1>4 DEF Numbers
    <3>2. bt[j] \in Int
      BY <2>7
    <3>3. ~(l < j) /\ ~(j < l)
      BY <2>5, <2>11, <3>1, <3>2
    <3>4. QED
      BY <2>5, <2>11, <3>1, <3>3
  <2>13. row = rows[l]
    BY <1>7, <2>5, <2>10, <2>12
  <2>14. QED
    BY <2>13
<1>9. ASSUME NEW j \in 1..n
      PROVE  rows[j] \in transform_batch(Specs, AllBars) /\ rows[j].symbol = symbol /\ seen(rows[j])
  <2>1. rows[j] \in transform_batch(Specs, AllBars)
    <3>1. cursor <= Len(history)
      BY <1>1
    <3>2. \A l \in 1..Len(Rows(cursor, symbol)) :
            Rows(cursor, symbol)[l] \in transform_batch(Specs, AllBars)
      BY <1>1, <3>1, RowsInBatch
    <3>3. QED
      BY <1>5, <3>2
  <2>2. at[j] \in OwnPlaces(cursor, symbol) /\ own[j] = history[at[j]]
    BY <1>3 DEF Numbers
  <2>3. /\ at[j] \in 1..cursor /\ history[at[j]].kind = "bar" /\ history[at[j]].symbol = symbol
    BY <2>2 DEF OwnPlaces, OfSymbol, BarPlaces
  <2>4. seen(rows[j])
    BY <1>2, <1>5, <2>2, <2>3
  <2>5. QED
    BY <1>5, <2>1, <2>4
<1> HIDE DEF rows, seen
<1>10. {row \in transform_batch(Specs, AllBars) : row.symbol = symbol /\ seen(row)}
         = {rows[j] : j \in 1..n}
  BY <1>8, <1>9
<1>11. QED
  BY <1>5, <1>10 DEF rows, seen

-----------------------------------------------------------------------------
(* A list that is the end of another one, which has d more before it. *)
Ends(p, q, d) ==
  /\ Len(p) \in Nat /\ p = [k \in 1..Len(p) |-> p[k]]
  /\ Len(q) \in Nat /\ q = [k \in 1..Len(q) |-> q[k]]
  /\ d \in Nat /\ Len(q) = d + Len(p)
  /\ \A k \in 1..Len(p) : p[k] = q[k + d]

(* A series over the end that has no other value than the one over the whole list. *)
Served(s, t, p, d) == \A i \in 1..Len(p) : s[i] \in {{}, t[i + d]}

LEMMA EndsDomain ==
  ASSUME NEW p, NEW q, NEW d, Ends(p, q, d)
  PROVE  /\ DOMAIN p = 1..Len(p) /\ DOMAIN q = 1..Len(q) /\ Len(q) = d + Len(p)
         /\ Len(p) \in Nat /\ Len(q) \in Nat /\ d \in Nat
         /\ \A k \in 1..Len(p) : k \in DOMAIN p /\ k + d \in DOMAIN q /\ p[k] = q[k + d] /\ k \in Int
<1> DEFINE n == Len(p)
           m == Len(q)
<1>1. /\ n \in Nat /\ p = [k \in 1..n |-> p[k]]
      /\ m \in Nat /\ q = [k \in 1..m |-> q[k]]
      /\ d \in Nat /\ m = d + n /\ \A k \in 1..n : p[k] = q[k + d]
  BY DEF Ends
<1> HIDE DEF n, m
<1>2. DOMAIN p = 1..n /\ DOMAIN q = 1..m
  BY <1>1, Zenon
<1>3. \A k \in 1..n : k \in DOMAIN p /\ k + d \in DOMAIN q /\ k \in Int
  BY <1>1, <1>2
<1>4. QED
  BY <1>1, <1>2, <1>3 DEF n, m

(* A full window of the end is a window of the whole. *)
LEMMA EndWindow ==
  ASSUME NEW p, NEW q, NEW d, NEW w, NEW i,
         Ends(p, q, d), w \in Nat \ {0}, i \in 1..Len(p), w <= i
  PROVE  Window(p, i, w) = Window(q, i + d, w) /\ i + d \in w..Len(q)
<1>1. Len(p) \in Nat /\ Len(q) \in Nat /\ d \in Nat /\ Len(q) = d + Len(p) /\ i \in Int /\ w \in Int
  BY EndsDomain
<1>2. /\ i + d \in w..Len(q)
      /\ \A j \in 1..w : /\ i - w + j \in 1..Len(p)
                         /\ j + (i - w + 1) - 1 = i - w + j
                         /\ j + (i + d - w + 1) - 1 = (i - w + j) + d
  BY <1>1
<1>3. i - (i - w + 1) + 1 = w /\ (i + d) - (i + d - w + 1) + 1 = w
      /\ i - w + 1 \in Int /\ i + d - w + 1 \in Int /\ i + d \in Int
  BY <1>1
<1>4. Window(p, i, w) = [j \in 1..w |-> p[j + (i - w + 1) - 1]]
  <2>1. Window(p, i, w) = [j \in 1..(i - (i - w + 1) + 1) |-> p[j + (i - w + 1) - 1]]
    BY <1>1, <1>3 DEF Window
  <2>2. QED
    BY <1>3, <2>1, Zenon
<1>5. Window(q, i + d, w) = [j \in 1..w |-> q[j + (i + d - w + 1) - 1]]
  <2>1. Window(q, i + d, w) =
          [j \in 1..((i + d) - (i + d - w + 1) + 1) |-> q[j + (i + d - w + 1) - 1]]
    BY <1>1, <1>3 DEF Window
  <2>2. QED
    BY <1>3, <2>1, Zenon
<1>6. Window(p, i, w) = [j \in 1..w |-> p[i - w + j]]
  BY <1>2, <1>4
<1>7. Window(q, i + d, w) = [j \in 1..w |-> q[(i - w + j) + d]]
  BY <1>2, <1>5
<1>8. \A j \in 1..w : p[i - w + j] = q[(i - w + j) + d]
  <2>1. \A k \in 1..Len(p) : p[k] = q[k + d]
    BY DEF Ends
  <2>2. QED
    BY <1>2, <2>1, Zenon
<1>9. Window(p, i, w) = Window(q, i + d, w)
  BY <1>6, <1>7, <1>8
<1>10. QED
  BY <1>2, <1>9

LEMMA EndSeries ==
  ASSUME NEW p, NEW q, NEW d, Ends(p, q, d), NEW f, NEW g,
         \A i \in 1..Len(p) : i \in DOMAIN f => i + d \in DOMAIN g /\ f[i] = g[i + d]
  PROVE  Served(Series(p, f), Series(q, g), p, d)
<1>1. SUFFICES ASSUME NEW i \in 1..Len(p)
               PROVE  Series(p, f)[i] \in {{}, Series(q, g)[i + d]}
  BY DEF Served
<1>2. i \in DOMAIN p /\ i + d \in DOMAIN q
  BY EndsDomain
<1>3. /\ Series(p, f)[i] = IF i \in DOMAIN f THEN {f[i]} ELSE {}
      /\ Series(q, g)[i + d] = IF i + d \in DOMAIN g THEN {g[i + d]} ELSE {}
  BY <1>2, Zenon DEF Series
<1>4. QED
  BY <1>3

LEMMA ClosesEnd ==
  ASSUME NEW p, NEW q, NEW d, Ends(p, q, d)
  PROVE  /\ Ends(Closes(p), Closes(q), d) /\ Len(Closes(p)) = Len(p)
         /\ Ends(Volumes(p), Volumes(q), d) /\ Len(Volumes(p)) = Len(p)
<1> DEFINE n == Len(p)
           m == Len(q)
<1>1. /\ DOMAIN p = 1..n /\ DOMAIN q = 1..m /\ n \in Nat /\ m \in Nat /\ d \in Nat /\ m = d + n
      /\ \A i \in 1..n : i \in 1..n /\ i + d \in 1..m /\ p[i] = q[i + d]
  BY EndsDomain
<1> HIDE DEF n, m
<1>2. /\ Closes(p) = [i \in 1..n |-> Closes(p)[i]] /\ Volumes(p) = [i \in 1..n |-> Volumes(p)[i]]
      /\ Closes(q) = [i \in 1..m |-> Closes(q)[i]] /\ Volumes(q) = [i \in 1..m |-> Volumes(q)[i]]
      /\ \A i \in 1..n : Closes(p)[i] = p[i].close * Unit /\ Volumes(p)[i] = p[i].volume * Unit
      /\ \A i \in 1..m : Closes(q)[i] = q[i].close * Unit /\ Volumes(q)[i] = q[i].volume * Unit
  BY <1>1 DEF Closes, Volumes
<1>3. Len(Closes(p)) = n /\ Len(Volumes(p)) = n /\ Len(Closes(q)) = m /\ Len(Volumes(q)) = m
  BY <1>1, <1>2, LenOf, Zenon
<1>4. \A i \in 1..n : Closes(p)[i] = Closes(q)[i + d] /\ Volumes(p)[i] = Volumes(q)[i + d]
  <2>1. SUFFICES ASSUME NEW i \in 1..n
                 PROVE  Closes(p)[i] = Closes(q)[i + d] /\ Volumes(p)[i] = Volumes(q)[i + d]
    BY Zenon
  <2>2. i + d \in 1..m /\ p[i] = q[i + d]
    BY <1>1, Zenon
  <2>3. /\ Closes(p)[i] = p[i].close * Unit /\ Volumes(p)[i] = p[i].volume * Unit
        /\ Closes(q)[i + d] = q[i + d].close * Unit /\ Volumes(q)[i + d] = q[i + d].volume * Unit
    BY <1>2, <2>2, Zenon
  <2>4. QED
    BY <2>2, <2>3, Zenon
<1>5. Ends(Closes(p), Closes(q), d) /\ Ends(Volumes(p), Volumes(q), d)
  BY <1>1, <1>2, <1>3, <1>4, Zenon DEF Ends
<1>6. QED
  BY <1>3, <1>5 DEF n

(* One lemma for each of the features that look back over a number of bars: over a
   list that begins later its series has no other values. *)
LEMMA SmaEnds ==
  ASSUME NEW p, NEW q, NEW d, Ends(p, q, d), NEW w \in Nat \ {0}
  PROVE  Served(sma(p, w), sma(q, w), p, d)
<1> DEFINE f == [i \in w..Len(p) |-> Mean(Window(p, i, w))]
           g == [i \in w..Len(q) |-> Mean(Window(q, i, w))]
<1>1. ASSUME NEW i \in 1..Len(p), i \in DOMAIN f
      PROVE  i + d \in DOMAIN g /\ f[i] = g[i + d]
  <2>1. i \in w..Len(p) /\ w <= i
    BY <1>1
  <2>2. Window(p, i, w) = Window(q, i + d, w) /\ i + d \in w..Len(q)
    BY <2>1, EndWindow, Zenon
  <2>3. QED
    BY <2>1, <2>2, Zenon
<1>2. sma(p, w) = Series(p, f) /\ sma(q, w) = Series(q, g)
  BY DEF sma
<1> HIDE DEF f, g
<1>3. QED
  BY <1>1, <1>2, EndSeries, Zenon

LEMMA BandsEnd ==
  ASSUME NEW p, NEW q, NEW d, Ends(p, q, d), NEW w \in Nat \ {0}, NEW stdevs
  PROVE  \A k \in 1..3 : Served(bollinger_bands(p, w, stdevs)[k], bollinger_bands(q, w, stdevs)[k], p, d)
<1> DEFINE width(chunk, sign) == Mean(chunk) + sign * stdevs * Deviation(chunk, Mean(chunk))
           edge(v, sign) == [i \in w..Len(v) |-> width(Window(v, i, w), sign)]
<1>1. \A v \in {p, q} :
        bollinger_bands(v, w, stdevs) =
          <<sma(v, w), Series(v, edge(v, 1)), Series(v, edge(v, -1))>>
  BY DEF bollinger_bands
<1> HIDE DEF width
<1>2. ASSUME NEW sign, NEW i \in 1..Len(p), i \in DOMAIN edge(p, sign)
      PROVE  i + d \in DOMAIN edge(q, sign) /\ edge(p, sign)[i] = edge(q, sign)[i + d]
  <2>1. i \in w..Len(p) /\ w <= i
    BY <1>2
  <2>2. Window(p, i, w) = Window(q, i + d, w) /\ i + d \in w..Len(q)
    BY <2>1, EndWindow, Zenon
  <2>3. QED
    BY <2>1, <2>2, Zenon
<1> HIDE DEF edge
<1>3. Served(sma(p, w), sma(q, w), p, d)
      /\ \A sign : Served(Series(p, edge(p, sign)), Series(q, edge(q, sign)), p, d)
  BY <1>2, SmaEnds, EndSeries, Zenon
<1>4. \A v \in {p, q} : /\ bollinger_bands(v, w, stdevs)[1] = sma(v, w)
                        /\ bollinger_bands(v, w, stdevs)[2] = Series(v, edge(v, 1))
                        /\ bollinger_bands(v, w, stdevs)[3] = Series(v, edge(v, -1))
  BY <1>1
<1>5. \A k \in 1..3 : k = 1 \/ k = 2 \/ k = 3
  OBVIOUS
<1>6. QED
  BY <1>3, <1>4, <1>5

LEMMA ReturnsEnd ==
  ASSUME NEW p, NEW q, NEW d, Ends(p, q, d), NEW w \in Nat \ {0}
  PROVE  /\ Served(returns(p, w), returns(q, w), p, d)
         /\ returns(p, w) = [i \in 1..Len(p) |-> returns(p, w)[i]]
         /\ returns(q, w) = [i \in 1..Len(q) |-> returns(q, w)[i]]
<1> DEFINE point(v, i) == IF i <= w \/ v[i - w] = 0 THEN {}
                          ELSE {(Unit * v[i]) \div v[i - w] - Unit}
<1>1. \A v \in {p, q} : returns(v, w) = [i \in DOMAIN v |-> point(v, i)]
  BY DEF returns
<1>2. ASSUME NEW i \in 1..Len(p)
      PROVE  point(p, i) \in {{}, point(q, i + d)}
  <2>1. CASE i <= w
    BY <2>1
  <2>2. CASE ~(i <= w)
    <3>1. i \in Int /\ Len(p) \in Nat /\ d \in Nat
      BY EndsDomain
    <3>2. i - w \in 1..Len(p) /\ (i + d) - w = (i - w) + d /\ ~(i + d <= w)
      BY <2>2, <3>1
    <3>3. p[i] = q[i + d] /\ p[i - w] = q[(i - w) + d]
      <4>1. \A k \in 1..Len(p) : p[k] = q[k + d]
        BY DEF Ends
      <4>2. QED
        BY <3>2, <4>1, Zenon
    <3>4. point(p, i) = point(q, i + d)
      BY <2>2, <3>2, <3>3, Zenon
    <3>5. QED
      BY <3>4, Zenon
  <2>3. QED
    BY <2>1, <2>2
<1>3. /\ \A i \in 1..Len(p) : i \in DOMAIN p /\ i + d \in DOMAIN q
      /\ DOMAIN p = 1..Len(p) /\ DOMAIN q = 1..Len(q)
  BY EndsDomain
<1> HIDE DEF point
<1>4. /\ returns(p, w) = [i \in DOMAIN p |-> returns(p, w)[i]]
      /\ returns(q, w) = [i \in DOMAIN q |-> returns(q, w)[i]]
      /\ \A i \in DOMAIN p : returns(p, w)[i] = point(p, i)
      /\ \A i \in DOMAIN q : returns(q, w)[i] = point(q, i)
  BY <1>1
<1>5. \A i \in 1..Len(p) : returns(p, w)[i] \in {{}, returns(q, w)[i + d]}
  BY <1>2, <1>3, <1>4, Zenon
<1>6. QED
  BY <1>3, <1>4, <1>5, Zenon DEF Served

LEMMA VolatilityEnds ==
  ASSUME NEW p, NEW q, NEW d, Ends(p, q, d), NEW w \in Nat \ {0}, NEW r \in Nat \ {0}
  PROVE  Served(volatility(p, w, r), volatility(q, w, r), p, d)
<1> DEFINE of(chunk) == IF \E j \in 1..w : chunk[j] = {} THEN {}
                        ELSE LET known == [j \in 1..w |-> Max(chunk[j])]
                             IN  {Deviation(known, Mean(known))}
           ret(v) == returns(v, r)
           point(v, i) == IF i < w THEN {} ELSE of(Window(ret(v), i, w))
<1>1. \A v \in {p, q} : volatility(v, w, r) = [i \in DOMAIN v |-> point(v, i)]
  BY DEF volatility
<1>2. /\ \A i \in 1..Len(p) : i \in DOMAIN p /\ i + d \in DOMAIN q /\ i \in Int
      /\ Len(p) \in Nat /\ Len(q) \in Nat /\ d \in Nat /\ Len(q) = d + Len(p)
  BY EndsDomain
<1>3. /\ Served(ret(p), ret(q), p, d)
      /\ ret(p) = [i \in 1..Len(p) |-> ret(p)[i]] /\ ret(q) = [i \in 1..Len(q) |-> ret(q)[i]]
  BY ReturnsEnd
<1> HIDE DEF ret
<1>4. ASSUME NEW i \in 1..Len(p)
      PROVE  point(p, i) \in {{}, point(q, i + d)}
  <2>1. CASE i < w
    BY <2>1
  <2>2. CASE ~(i < w)
    <3> DEFINE a == Window(ret(p), i, w)
               b == Window(ret(q), i + d, w)
    <3>1. \A j \in 1..w : i - w + j \in 1..Len(p)
      BY <1>2, <2>2
    <3>2. a = [j \in 1..w |-> ret(p)[i - w + j]] /\ b = [j \in 1..w |-> ret(q)[(i - w + j) + d]]
      BY <1>2, <2>2 DEF Window
    <3>3. ~(i + d < w)
      BY <1>2, <2>2
    <3> HIDE DEF a, b
    <3>4. CASE \E j \in 1..w : a[j] = {}
      <4>1. of(a) = {}
        BY <3>4, Zenon
      <4>2. point(p, i) = {}
        BY <2>2, <4>1, Zenon DEF a
      <4>3. QED
        BY <4>2, Zenon
    <3>5. CASE \A j \in 1..w : a[j] # {}
      <4>1. \A j \in 1..w : a[j] \in {{}, b[j]}
        BY <1>3, <3>1, <3>2, Zenon DEF Served
      <4>2. \A j \in 1..w : a[j] = b[j]
        BY <3>5, <4>1
      <4>3. a = b
        BY <3>2, <4>2
      <4>4. point(p, i) = point(q, i + d)
        BY <2>2, <3>3, <4>3, Zenon DEF a, b
      <4>5. QED
        BY <4>4, Zenon
    <3>6. QED
      BY <3>4, <3>5, Zenon
  <2>3. QED
    BY <2>1, <2>2, Zenon
<1> HIDE DEF point
<1>5. /\ \A i \in DOMAIN p : volatility(p, w, r)[i] = point(p, i)
      /\ \A i \in DOMAIN q : volatility(q, w, r)[i] = point(q, i)
  BY <1>1
<1>6. QED
  BY <1>2, <1>4, <1>5, Zenon DEF Served

LEMMA RatioEnds ==
  ASSUME NEW p, NEW q, NEW d, Ends(p, q, d), NEW w \in Nat \ {0}
  PROVE  Served(volume_ratio(p, w), volume_ratio(q, w), p, d)
<1> DEFINE of(bar, means) == {(Unit * Unit * bar.volume) \div mean : mean \in means \ {0}}
           point(v, i) == of(v[i], sma(Volumes(v), w)[i])
<1>1. \A v \in {p, q} : volume_ratio(v, w) = [i \in DOMAIN v |-> point(v, i)]
  BY DEF volume_ratio
<1>2. of(p[1], {}) = {} /\ \A bar : of(bar, {}) = {}
  OBVIOUS
<1> HIDE DEF of
<1>3. Ends(Volumes(p), Volumes(q), d) /\ Len(Volumes(p)) = Len(p)
  BY ClosesEnd
<1>4. Served(sma(Volumes(p), w), sma(Volumes(q), w), Volumes(p), d)
  BY <1>3, SmaEnds
<1>5. \A i \in 1..Len(p) : sma(Volumes(p), w)[i] \in {{}, sma(Volumes(q), w)[i + d]}
  BY <1>3, <1>4, Zenon DEF Served
<1>6. \A i \in 1..Len(p) : i \in DOMAIN p /\ i + d \in DOMAIN q /\ p[i] = q[i + d]
  BY EndsDomain
<1>7. ASSUME NEW i \in 1..Len(p)
      PROVE  point(p, i) \in {{}, point(q, i + d)}
  <2>1. sma(Volumes(p), w)[i] = {} \/ sma(Volumes(p), w)[i] = sma(Volumes(q), w)[i + d]
    BY <1>5, Zenon
  <2>2. point(p, i) = {} \/ point(p, i) = point(q, i + d)
    BY <1>2, <1>6, <2>1, Zenon
  <2>3. QED
    BY <2>2, Zenon
<1> HIDE DEF point
<1>8. /\ \A i \in DOMAIN p : volume_ratio(p, w)[i] = point(p, i)
      /\ \A i \in DOMAIN q : volume_ratio(q, w)[i] = point(q, i)
  BY <1>1
<1>9. QED
  BY <1>6, <1>7, <1>8, Zenon DEF Served

(* The same for whatever spec gave a feature of that kind. *)
LEMMA IndicatorEnds ==
  ASSUME NEW p, NEW q, NEW d, Ends(p, q, d), NEW spec, IsSpec(spec)
  PROVE  /\ DOMAIN compute_indicator(spec, p) = DOMAIN compute_indicator(spec, q)
         /\ \A name \in DOMAIN compute_indicator(spec, p) :
              name[1] \in WindowFeatures =>
                Served(compute_indicator(spec, p)[name], compute_indicator(spec, q)[name], p, d)
<1> DEFINE w == spec.window
           one(series) == [name \in {<<spec.name, spec.window>>} |-> series]
           three(names, series) ==
             [name \in Range(names) |-> series[CHOOSE k \in 1..3 : names[k] = name]]
           Agree(f, g) ==
             /\ DOMAIN f = DOMAIN g
             /\ \A name \in DOMAIN f : name[1] \in WindowFeatures => Served(f[name], g[name], p, d)
           macds == <<<<"macd", spec.fast, spec.slow, spec.signal>>,
                      <<"macd_signal", spec.fast, spec.slow, spec.signal>>,
                      <<"macd_hist", spec.fast, spec.slow, spec.signal>>>>
           bands == <<<<"bollinger_mid", w>>, <<"bollinger_upper", w>>, <<"bollinger_lower", w>>>>
<1>1. spec.name \in Windowed \/ spec.name = "vwap" \/ spec.name = "macd"
  BY DEF IsSpec
<1>2. spec.name \in Windowed => w \in Nat \ {0}
  BY DEF IsSpec
<1>3. \A s, t : (spec.name \in WindowFeatures => Served(s, t, p, d)) => Agree(one(s), one(t))
  <2>1. <<spec.name, spec.window>>[1] = spec.name
    OBVIOUS
  <2>2. QED
    BY <2>1, Zenon
<1>4. ASSUME NEW names, \A name \in Range(names) : \E k \in 1..3 : names[k] = name,
             NEW s, NEW t,
             \A name \in Range(names) : name[1] \in WindowFeatures =>
               \A k \in 1..3 : Served(s[k], t[k], p, d)
      PROVE  Agree(three(names, s), three(names, t))
  BY <1>4, Zenon
<1>5. /\ Range(macds) = {macds[1], macds[2], macds[3]} /\ Range(bands) = {bands[1], bands[2], bands[3]}
  BY DEF Range
<1>6. /\ \A name \in Range(macds) : \E k \in 1..3 : macds[k] = name
      /\ \A name \in Range(bands) : \E k \in 1..3 : bands[k] = name
  <2> HIDE DEF macds, bands
  <2>1. 1 \in 1..3 /\ 2 \in 1..3 /\ 3 \in 1..3
    OBVIOUS
  <2>2. QED
    BY <1>5, <2>1, Zenon
<1>7. \A v \in {p, q} :
        /\ spec.name = "sma" => compute_indicator(spec, v) = one(sma(Closes(v), w))
        /\ spec.name = "ema" => compute_indicator(spec, v) = one(ema(Closes(v), w))
        /\ spec.name = "rsi" => compute_indicator(spec, v) = one(rsi(Closes(v), w))
        /\ spec.name = "atr" => compute_indicator(spec, v) = one(atr(v, w))
        /\ spec.name = "returns" => compute_indicator(spec, v) = one(returns(Closes(v), w))
        /\ spec.name = "volatility" =>
             compute_indicator(spec, v) = one(volatility(Closes(v), w, spec.return_window))
        /\ spec.name = "volume_mean" => compute_indicator(spec, v) = one(sma(Volumes(v), w))
        /\ spec.name = "volume_ratio" => compute_indicator(spec, v) = one(volume_ratio(v, w))
        /\ spec.name = "vwap" => compute_indicator(spec, v) = [name \in {<<"vwap">>} |-> vwap(v)]
        /\ spec.name = "macd" =>
             compute_indicator(spec, v) =
               three(macds, macd(Closes(v), spec.fast, spec.slow, spec.signal))
        /\ spec.name = "bollinger" =>
             compute_indicator(spec, v) = three(bands, bollinger_bands(Closes(v), w, spec.stdevs))
  <2> HIDE DEF one, three, macds, bands
  <2> TAKE v \in {p, q}
  <2>1. /\ spec.name = "sma" => compute_indicator(spec, v) = one(sma(Closes(v), w))
        /\ spec.name = "ema" => compute_indicator(spec, v) = one(ema(Closes(v), w))
        /\ spec.name = "rsi" => compute_indicator(spec, v) = one(rsi(Closes(v), w))
        /\ spec.name = "atr" => compute_indicator(spec, v) = one(atr(v, w))
    BY DEF compute_indicator, one, three, macds, bands
  <2>2. /\ spec.name = "returns" => compute_indicator(spec, v) = one(returns(Closes(v), w))
        /\ spec.name = "volatility" =>
             compute_indicator(spec, v) = one(volatility(Closes(v), w, spec.return_window))
        /\ spec.name = "volume_mean" => compute_indicator(spec, v) = one(sma(Volumes(v), w))
        /\ spec.name = "volume_ratio" => compute_indicator(spec, v) = one(volume_ratio(v, w))
    BY DEF compute_indicator, one, three, macds, bands
  <2>3. /\ spec.name = "vwap" => compute_indicator(spec, v) = [name \in {<<"vwap">>} |-> vwap(v)]
        /\ spec.name = "macd" =>
             compute_indicator(spec, v) =
               three(macds, macd(Closes(v), spec.fast, spec.slow, spec.signal))
        /\ spec.name = "bollinger" =>
             compute_indicator(spec, v) = three(bands, bollinger_bands(Closes(v), w, spec.stdevs))
    BY DEF compute_indicator, one, three, macds, bands
  <2>4. QED
    BY <2>1, <2>2, <2>3
<1>8. \A name \in Range(macds) : name[1] \notin WindowFeatures
  <2>1. /\ macds[1][1] \notin WindowFeatures /\ macds[2][1] \notin WindowFeatures
        /\ macds[3][1] \notin WindowFeatures
    BY DEF WindowFeatures
  <2> HIDE DEF macds
  <2>2. QED
    BY <1>5, <2>1, Zenon
<1> HIDE DEF macds, bands, one, three
<1>9. /\ Ends(Closes(p), Closes(q), d) /\ Ends(Volumes(p), Volumes(q), d)
      /\ Len(Closes(p)) = Len(p) /\ Len(Volumes(p)) = Len(p)
  BY ClosesEnd
<1>10. \A s, t : /\ Served(s, t, Closes(p), d) => Served(s, t, p, d)
                 /\ Served(s, t, Volumes(p), d) => Served(s, t, p, d)
  BY <1>9 DEF Served
<1>11. Agree(compute_indicator(spec, p), compute_indicator(spec, q))
  <2> HIDE DEF Agree
  <2>1. CASE spec.name = "sma"
    <3>1. Served(sma(Closes(p), w), sma(Closes(q), w), p, d)
      BY <1>2, <1>9, <1>10, <2>1, SmaEnds DEF Windowed
    <3>2. QED
      BY <1>3, <1>7, <2>1, <3>1
  <2>2. CASE spec.name \in {"ema", "rsi", "atr"}
    <3>1. spec.name \notin WindowFeatures
      BY <2>2 DEF WindowFeatures
    <3>2. QED
      BY <1>3, <1>7, <2>2, <3>1
  <2>5. CASE spec.name = "returns"
    <3>1. Served(returns(Closes(p), w), returns(Closes(q), w), p, d)
      BY <1>2, <1>9, <1>10, <2>5, ReturnsEnd DEF Windowed
    <3>2. QED
      BY <1>3, <1>7, <2>5, <3>1
  <2>6. CASE spec.name = "volatility"
    <3>1. spec.return_window \in Nat \ {0}
      BY <2>6 DEF IsSpec
    <3>2. Served(volatility(Closes(p), w, spec.return_window),
                 volatility(Closes(q), w, spec.return_window), p, d)
      BY <1>2, <1>9, <1>10, <2>6, <3>1, VolatilityEnds DEF Windowed
    <3>3. QED
      BY <1>3, <1>7, <2>6, <3>2
  <2>7. CASE spec.name = "volume_mean"
    <3>1. Served(sma(Volumes(p), w), sma(Volumes(q), w), p, d)
      BY <1>2, <1>9, <1>10, <2>7, SmaEnds DEF Windowed
    <3>2. QED
      BY <1>3, <1>7, <2>7, <3>1
  <2>8. CASE spec.name = "volume_ratio"
    <3>1. Served(volume_ratio(p, w), volume_ratio(q, w), p, d)
      BY <1>2, <2>8, RatioEnds DEF Windowed
    <3>2. QED
      BY <1>3, <1>7, <2>8, <3>1
  <2>9. CASE spec.name = "vwap"
    <3>1. compute_indicator(spec, p) = [name \in {<<"vwap">>} |-> vwap(p)]
          /\ compute_indicator(spec, q) = [name \in {<<"vwap">>} |-> vwap(q)]
      BY <1>7, <2>9
    <3>2. <<"vwap">>[1] \notin WindowFeatures
      BY DEF WindowFeatures
    <3>3. QED
      BY <3>1, <3>2, Zenon DEF Agree
  <2>10. CASE spec.name = "macd"
    BY <1>4, <1>6, <1>7, <1>8, <2>10
  <2>11. CASE spec.name = "bollinger"
    <3>1. \A k \in 1..3 : Served(bollinger_bands(Closes(p), w, spec.stdevs)[k],
                                 bollinger_bands(Closes(q), w, spec.stdevs)[k], Closes(p), d)
      BY <1>2, <1>9, <2>11, BandsEnd DEF Windowed
    <3>2. \A k \in 1..3 : Served(bollinger_bands(Closes(p), w, spec.stdevs)[k],
                                 bollinger_bands(Closes(q), w, spec.stdevs)[k], p, d)
      BY <1>10, <3>1, Zenon
    <3>3. QED
      BY <1>4, <1>6, <1>7, <2>11, <3>2
  <2>12. QED
    BY <1>1, <2>1, <2>2, <2>5, <2>6, <2>7, <2>8, <2>9, <2>10, <2>11 DEF Windowed
<1>12. QED
  BY <1>11

LEMMA ComputedEnds ==
  ASSUME NEW p, NEW q, NEW d, Ends(p, q, d), NEW specs, AreSpecs(specs)
  PROVE  /\ DOMAIN computed(specs, p) = DOMAIN computed(specs, q)
         /\ \A name \in DOMAIN computed(specs, p) :
              name[1] \in WindowFeatures =>
                Served(computed(specs, p)[name], computed(specs, q)[name], p, d)
<1> DEFINE series(v) == [k \in DOMAIN specs |-> compute_indicator(specs[k], v)]
           having(v, name) == {k \in DOMAIN specs : name \in DOMAIN series(v)[k]}
           names(v) == UNION {DOMAIN series(v)[k] : k \in DOMAIN specs}
<1>1. PICK n \in Nat : DOMAIN specs = 1..n /\ \A k \in 1..n : IsSpec(specs[k])
  BY DEF AreSpecs
<1>2. \A v \in {p, q} :
        computed(specs, v) = [name \in names(v) |-> series(v)[Max(having(v, name))][name]]
  BY DEF computed, Merged
<1>3. \A k \in 1..n :
        /\ DOMAIN series(p)[k] = DOMAIN series(q)[k]
        /\ \A name \in DOMAIN series(p)[k] :
             name[1] \in WindowFeatures => Served(series(p)[k][name], series(q)[k][name], p, d)
  <2>1. SUFFICES ASSUME NEW k \in 1..n
                 PROVE  /\ DOMAIN compute_indicator(specs[k], p) = DOMAIN compute_indicator(specs[k], q)
                        /\ \A name \in DOMAIN compute_indicator(specs[k], p) :
                             name[1] \in WindowFeatures =>
                               Served(compute_indicator(specs[k], p)[name],
                                      compute_indicator(specs[k], q)[name], p, d)
    BY <1>1
  <2>2. QED
    BY <1>1, IndicatorEnds
<1> HIDE DEF series
<1>4. names(p) = names(q) /\ \A name : having(p, name) = having(q, name)
  BY <1>1, <1>3
<1>5. DOMAIN computed(specs, p) = names(p) /\ DOMAIN computed(specs, q) = names(p)
  BY <1>2, <1>4
<1>6. ASSUME NEW name \in names(p), name[1] \in WindowFeatures
      PROVE  Served(computed(specs, p)[name], computed(specs, q)[name], p, d)
  <2>1. having(p, name) \in (SUBSET (1..n)) \ {{}}
    BY <1>1
  <2>2. Max(having(p, name)) \in having(p, name)
    <3> HIDE DEF having
    <3>1. QED
      BY <2>1, GreatestElement
  <2>3. Max(having(p, name)) \in 1..n /\ name \in DOMAIN series(p)[Max(having(p, name))]
    BY <1>1, <2>2
  <2>4. /\ computed(specs, p)[name] = series(p)[Max(having(p, name))][name]
        /\ computed(specs, q)[name] = series(q)[Max(having(p, name))][name]
    <3> HIDE DEF having
    <3>1. QED
      BY <1>2, <1>4
  <2> HIDE DEF having, names
  <2>5. QED
    BY <1>3, <1>6, <2>3, <2>4
<1>7. QED
  BY <1>5, <1>6

(* Each row over the bars of an engine has its row over bars that began earlier. *)
RowServed(record, row) ==
  /\ row.symbol = record.symbol
  /\ row.timestamp = record.timestamp
  /\ DOMAIN row.values = DOMAIN record.values
  /\ \A name \in DOMAIN record.values :
       name[1] \in WindowFeatures => record.values[name] \in {{}, row.values[name]}

LEMMA RowsEnd ==
  ASSUME NEW a, NEW b, NEW d, NEW symbol, NEW specs, AreSpecs(specs),
         Ends(ByTime(BarsOf(a, symbol)), ByTime(BarsOf(b, symbol)), d),
         NEW i \in DOMAIN RowsOf(specs, a, symbol)
  PROVE  /\ i + d \in DOMAIN RowsOf(specs, b, symbol)
         /\ RowServed(RowsOf(specs, a, symbol)[i], RowsOf(specs, b, symbol)[i + d])
<1> DEFINE p == ByTime(BarsOf(a, symbol))
           q == ByTime(BarsOf(b, symbol))
           row(v, k) == [symbol |-> symbol, timestamp |-> v[k].timestamp,
                         values |-> [name \in DOMAIN computed(specs, v) |-> computed(specs, v)[name][k]]]
           s == RowsOf(specs, a, symbol)
           t == RowsOf(specs, b, symbol)
<1>1. s = [k \in DOMAIN p |-> row(p, k)] /\ t = [k \in DOMAIN q |-> row(q, k)]
  BY Zenon DEF RowsOf, RowsFrom
<1> HIDE DEF p, q, s, t
<1>2. Ends(p, q, d)
  BY DEF p, q
<1>3. /\ DOMAIN computed(specs, p) = DOMAIN computed(specs, q)
      /\ \A name \in DOMAIN computed(specs, p) :
           name[1] \in WindowFeatures =>
             Served(computed(specs, p)[name], computed(specs, q)[name], p, d)
  BY <1>2, ComputedEnds
<1>4. i \in DOMAIN p
  <2>1. i \in DOMAIN s
    BY DEF s
  <2>2. QED
    BY <1>1, <2>1
<1>5. i \in 1..Len(p) /\ i + d \in DOMAIN q /\ p[i] = q[i + d]
  <2>1. /\ DOMAIN p = 1..Len(p)
        /\ \A k \in 1..Len(p) : k + d \in DOMAIN q /\ p[k] = q[k + d]
    BY <1>2, EndsDomain
  <2>2. i \in 1..Len(p)
    BY <1>4, <2>1, Zenon
  <2>3. QED
    BY <2>1, <2>2, Zenon
<1>6. i + d \in DOMAIN t /\ s[i] = row(p, i) /\ t[i + d] = row(q, i + d)
  BY <1>1, <1>4, <1>5
<1>7. \A name \in DOMAIN computed(specs, p) : name[1] \in WindowFeatures =>
        computed(specs, p)[name][i] \in {{}, computed(specs, q)[name][i + d]}
  BY <1>3, <1>5, Zenon DEF Served
<1>8. /\ row(p, i).symbol = symbol /\ row(q, i + d).symbol = symbol
      /\ row(p, i).timestamp = row(q, i + d).timestamp
      /\ DOMAIN row(p, i).values = DOMAIN computed(specs, p)
      /\ DOMAIN row(q, i + d).values = DOMAIN computed(specs, p)
      /\ \A name \in DOMAIN computed(specs, p) :
           /\ row(p, i).values[name] = computed(specs, p)[name][i]
           /\ row(q, i + d).values[name] = computed(specs, q)[name][i + d]
  BY <1>3, <1>5
<1> HIDE DEF row
<1>9. RowServed(row(p, i), row(q, i + d))
  BY <1>7, <1>8, Zenon DEF RowServed
<1>10. QED
  BY <1>6, <1>9 DEF s, t

IsList(a, n) == n \in Nat /\ a = [k \in 1..n |-> a[k]]

Joins(c, a, b, n, m) ==
  /\ IsList(c, n + m)
  /\ \A k \in 1..(n + m) : /\ k <= n => c[k] = a[k]
                           /\ ~(k <= n) => c[k] = b[k - n]

LEMMA ConcatIs ==
  ASSUME NEW n, NEW m, NEW a, NEW b, IsList(a, n), IsList(b, m)
  PROVE  Joins(a \o b, a, b, n, m)
<1>1. n \in Nat /\ m \in Nat /\ a = [k \in 1..n |-> a[k]] /\ b = [k \in 1..m |-> b[k]]
  BY DEF IsList
<1>2. Len(a) = n /\ Len(b) = m
  BY <1>1
<1>3. a \o b = [k \in 1..(Len(a) + Len(b)) |-> IF k <= Len(a) THEN a[k] ELSE b[k - Len(a)]]
  BY <1>1
<1>4. a \o b = [k \in 1..(n + m) |-> IF k <= n THEN a[k] ELSE b[k - n]]
  BY <1>2, <1>3, Zenon
<1>5. n + m \in Nat
  BY <1>1
<1>6. QED
  BY <1>4, <1>5 DEF Joins, IsList

(* One list after another, and what each lists of it. *)
LEMMA ConcatLists ==
  ASSUME NEW x, NEW y, NEW L, NEW M, NEW a, NEW b, NEW places, NEW others,
         L \in Nat, M \in Nat, x = [k \in 1..L |-> x[k]], y = [k \in 1..M |-> y[k]],
         places \subseteq 1..L, others \subseteq 1..M,
         Lists(a, x, places), Lists(b, y, others)
  PROVE  /\ Lists(a \o b, x \o y, places \cup {L + k : k \in others})
         /\ Len(a \o b) = Len(a) + Len(b)
         /\ \A k \in 1..Len(b) : (a \o b)[k + Len(a)] = b[k]
<1>1. PICK at : /\ Numbers(at, Len(a), places) /\ \A k \in 1..Len(a) : a[k] = x[at[k]]
                /\ Len(a) \in Nat /\ a = [k \in 1..Len(a) |-> a[k]]
  <2>1. Lists(a, x, places)
    OBVIOUS
  <2>2. QED
    BY ONLY <2>1, ListFacts
<1>2. PICK bt : /\ Numbers(bt, Len(b), others) /\ \A k \in 1..Len(b) : b[k] = y[bt[k]]
                /\ Len(b) \in Nat /\ b = [k \in 1..Len(b) |-> b[k]]
  <2>1. Lists(b, y, others)
    OBVIOUS
  <2>2. QED
    BY ONLY <2>1, ListFacts
<1>3. /\ Len(a) \in Nat /\ a = [k \in 1..Len(a) |-> a[k]]
      /\ Len(b) \in Nat /\ b = [k \in 1..Len(b) |-> b[k]]
  BY <1>1, <1>2
<1> DEFINE n == Len(a)
           m == Len(b)
           ct == [k \in 1..(n + m) |-> IF k <= n THEN at[k] ELSE L + bt[k - n]]
           all == places \cup {L + k : k \in others}
<1>4. /\ n \in Nat /\ m \in Nat /\ a = [k \in 1..n |-> a[k]] /\ b = [k \in 1..m |-> b[k]]
      /\ Numbers(at, n, places) /\ \A k \in 1..n : a[k] = x[at[k]]
      /\ Numbers(bt, m, others) /\ \A k \in 1..m : b[k] = y[bt[k]]
  BY <1>1, <1>2, <1>3
<1> HIDE DEF n, m
<1>5. /\ a \o b = [k \in 1..(n + m) |-> (a \o b)[k]]
      /\ \A k \in 1..(n + m) : /\ k <= n => (a \o b)[k] = a[k]
                               /\ ~(k <= n) => (a \o b)[k] = b[k - n]
  <2>1. IsList(a, n) /\ IsList(b, m)
    BY <1>4, Zenon DEF IsList
  <2>2. Joins(a \o b, a, b, n, m)
    BY <2>1, ConcatIs, Zenon
  <2>3. QED
    BY <2>2, Zenon DEF Joins, IsList
<1>6. \A k \in 1..(L + M) : /\ k <= L => (x \o y)[k] = x[k]
                            /\ ~(k <= L) => (x \o y)[k] = y[k - L]
  <2>1. IsList(x, L) /\ IsList(y, M)
    BY Zenon DEF IsList
  <2>2. Joins(x \o y, x, y, L, M)
    BY <2>1, ConcatIs, Zenon
  <2>3. QED
    BY <2>2, Zenon DEF Joins
<1>7. /\ \A k \in 1..n : at[k] \in places /\ at[k] \in 1..L /\ at[k] \in Int
      /\ \A k \in 1..m : bt[k] \in others /\ bt[k] \in 1..M /\ bt[k] \in Int
  BY <1>4 DEF Numbers
<1>8. /\ \A k, l \in 1..n : k < l => at[k] < at[l]
      /\ \A k, l \in 1..m : k < l => bt[k] < bt[l]
      /\ \A i \in places : \E k \in 1..n : at[k] = i
      /\ \A i \in others : \E k \in 1..m : bt[k] = i
  BY <1>4 DEF Numbers
<1>9. Numbers(ct, n + m, all)
  <2>1. \A k \in 1..(n + m) : /\ k <= n => k \in 1..n /\ ct[k] = at[k]
                              /\ ~(k <= n) => k - n \in 1..m /\ ct[k] = L + bt[k - n]
    BY <1>4
  <2>2. ct = [k \in 1..(n + m) |-> ct[k]]
    BY Zenon
  <2> HIDE DEF ct
  <2>3. \A k \in 1..(n + m) : ct[k] \in all
    BY <1>7, <2>1
  <2>4. \A k, l \in 1..(n + m) : k < l => ct[k] < ct[l]
    <3>1. SUFFICES ASSUME NEW k \in 1..(n + m), NEW l \in 1..(n + m), k < l
                   PROVE  ct[k] < ct[l]
      BY Zenon
    <3>2. CASE l <= n
      <4>1. k <= n /\ k \in 1..n /\ l \in 1..n /\ ct[k] = at[k] /\ ct[l] = at[l]
        BY <1>4, <2>1, <3>1, <3>2
      <4>2. QED
        BY <1>8, <3>1, <4>1
    <3>3. CASE k <= n /\ ~(l <= n)
      <4>1. k \in 1..n /\ l - n \in 1..m /\ ct[k] = at[k] /\ ct[l] = L + bt[l - n]
        BY <2>1, <3>3
      <4>2. at[k] \in 1..L /\ bt[l - n] \in 1..M
        BY <1>7, <4>1
      <4>3. QED
        BY <4>1, <4>2
    <3>4. CASE ~(k <= n)
      <4>1. ~(l <= n) /\ k - n < l - n
        BY <1>4, <3>1, <3>4
      <4>2. k - n \in 1..m /\ l - n \in 1..m /\ ct[k] = L + bt[k - n] /\ ct[l] = L + bt[l - n]
        BY <2>1, <3>4, <4>1
      <4>3. bt[k - n] < bt[l - n] /\ bt[k - n] \in Int /\ bt[l - n] \in Int
        BY <1>7, <1>8, <4>1, <4>2
      <4>4. QED
        BY <4>2, <4>3
    <3>5. QED
      BY <3>2, <3>3, <3>4
  <2>5. \A i \in all : \E k \in 1..(n + m) : ct[k] = i
    <3>1. SUFFICES ASSUME NEW i \in all
                   PROVE  \E k \in 1..(n + m) : ct[k] = i
      OBVIOUS
    <3>2. CASE i \in places
      <4>1. PICK k \in 1..n : at[k] = i
        BY <1>8, <3>2
      <4>2. k \in 1..(n + m) /\ k <= n
        BY <1>4
      <4>3. QED
        BY <2>1, <4>1, <4>2
    <3>3. CASE i \in {L + k : k \in others}
      <4>1. PICK o \in others : i = L + o
        BY <3>3
      <4>2. PICK k \in 1..m : bt[k] = o
        BY <1>8, <4>1
      <4>3. k + n \in 1..(n + m) /\ ~(k + n <= n) /\ (k + n) - n = k
        BY <1>4
      <4>4. ct[k + n] = L + bt[k]
        BY <2>1, <4>3
      <4>5. QED
        BY <4>1, <4>2, <4>3, <4>4
    <3>4. QED
      BY <3>2, <3>3
  <2> HIDE DEF all
  <2>6. n + m \in Nat
    BY <1>4
  <2>7. QED
    BY <2>2, <2>3, <2>4, <2>5, <2>6, Zenon DEF Numbers
<1>10. a \o b = [k \in 1..(n + m) |-> (x \o y)[ct[k]]]
  <2>1. ASSUME NEW k \in 1..(n + m)
        PROVE  (a \o b)[k] = (x \o y)[ct[k]]
    <3>1. CASE k <= n
      <4>1. k \in 1..n /\ ct[k] = at[k]
        BY <1>4, <3>1
      <4>2. at[k] \in 1..(L + M) /\ at[k] <= L
        BY <1>7, <4>1
      <4> HIDE DEF ct
      <4>3. (x \o y)[at[k]] = x[at[k]]
        BY <1>6, <4>2
      <4>4. QED
        BY <1>4, <1>5, <2>1, <3>1, <4>1, <4>3, Zenon
    <3>2. CASE ~(k <= n)
      <4>1. k - n \in 1..m /\ ct[k] = L + bt[k - n]
        BY <1>4, <3>2
      <4>2. L + bt[k - n] \in 1..(L + M) /\ ~(L + bt[k - n] <= L) /\ (L + bt[k - n]) - L = bt[k - n]
        BY <1>7, <4>1
      <4> HIDE DEF ct
      <4>3. (x \o y)[L + bt[k - n]] = y[bt[k - n]]
        BY <1>6, <4>2
      <4>4. QED
        BY <1>4, <1>5, <2>1, <3>2, <4>1, <4>3, Zenon
    <3>3. QED
      BY <3>1, <3>2
  <2> HIDE DEF ct
  <2>2. QED
    BY <1>5, <2>1
<1>11. Lists(a \o b, x \o y, all)
  <2> HIDE DEF ct, all
  <2>1. QED
    BY <1>9, <1>10, ListOf
<1>12. Len(a \o b) = n + m
  BY <1>4, <1>5, LenOf
<1>13. ASSUME NEW k \in 1..m
       PROVE  (a \o b)[k + n] = b[k]
  <2>1. k + n \in 1..(n + m) /\ ~(k + n <= n) /\ (k + n) - n = k
    BY <1>4
  <2>2. QED
    BY <1>5, <2>1
<1>14. QED
  BY <1>11, <1>12, <1>13 DEF n, m

(* What training reads before the engine begins. *)
LEMMA TrainingFacts ==
  ASSUME HistoryFixed
  PROVE  /\ Len(setup.past) \in Nat /\ Len(AllBars) \in Nat
         /\ setup.past = [k \in 1..Len(setup.past) |-> setup.past[k]]
         /\ AllBars = [k \in 1..Len(AllBars) |-> AllBars[k]]
         /\ \A k \in 1..Len(setup.past) : setup.past[k].timestamp \in Int
         /\ \A k \in 1..Len(AllBars) : AllBars[k].timestamp \in Int
         /\ \A k, l \in 1..Len(setup.past) :
              k <= l => setup.past[k].timestamp <= setup.past[l].timestamp
         /\ \A k, l \in 1..Len(AllBars) : k <= l => AllBars[k].timestamp <= AllBars[l].timestamp
         /\ \A k \in 1..Len(setup.past), l \in 1..Len(AllBars) :
              setup.past[k].timestamp <= AllBars[l].timestamp
<1>1. /\ setup.past \in Seq(PastBars)
      /\ \A i, j \in DOMAIN setup.past :
           i < j => setup.past[i].timestamp <= setup.past[j].timestamp
      /\ \A i \in DOMAIN setup.past, j \in DOMAIN setup.slots :
           setup.past[i].timestamp < setup.slots[j].timestamp
  BY PastFacts, PipelineAssumption DEF SetupsAssumption
<1>2. /\ DOMAIN setup.slots = DOMAIN history /\ Len(history) \in Nat
      /\ DOMAIN history = 1..Len(history)
      /\ \A i \in DOMAIN history : /\ history[i].timestamp \in Nat
                                   /\ history[i].timestamp = setup.slots[i].timestamp
      /\ \A i, j \in DOMAIN history : i <= j => history[i].timestamp <= history[j].timestamp
  BY PastFacts
<1>3. /\ Len(setup.past) \in Nat /\ DOMAIN setup.past = 1..Len(setup.past)
      /\ setup.past = [k \in 1..Len(setup.past) |-> setup.past[k]]
  BY <1>1
<1>4. \A k \in 1..Len(setup.past) : setup.past[k].timestamp \in Int
  <2>1. \A k \in 1..Len(setup.past) : setup.past[k] \in PastBars
    BY <1>1, <1>3
  <2>2. QED
    BY <2>1 DEF PastBars
<1>5. \A k, l \in 1..Len(setup.past) : k <= l => setup.past[k].timestamp <= setup.past[l].timestamp
  <2>1. SUFFICES ASSUME NEW k \in 1..Len(setup.past), NEW l \in 1..Len(setup.past), k <= l
                 PROVE  setup.past[k].timestamp <= setup.past[l].timestamp
    BY Zenon
  <2>2. k = l \/ k < l
    BY <1>3, <2>1
  <2>3. k < l => setup.past[k].timestamp <= setup.past[l].timestamp
    BY <1>1, <1>3, Zenon
  <2>4. QED
    BY <1>4, <2>2, <2>3
<1> DEFINE places == BarPlaces(history, Len(history))
<1>6. Lists(AllBars, history, places)
  BY AllBarsList
<1>7. /\ Len(AllBars) \in Nat /\ AllBars = [k \in 1..Len(AllBars) |-> AllBars[k]]
      /\ \E at : Numbers(at, Len(AllBars), places)
                 /\ \A k \in 1..Len(AllBars) : AllBars[k] = history[at[k]]
  BY <1>6, ListFacts
<1>8. PICK at : Numbers(at, Len(AllBars), places)
                /\ \A k \in 1..Len(AllBars) : AllBars[k] = history[at[k]]
  BY <1>7, Zenon
<1>9. \A k \in 1..Len(AllBars) : at[k] \in DOMAIN history /\ at[k] \in Int
  <2>1. \A k \in 1..Len(AllBars) : at[k] \in places
    BY <1>8 DEF Numbers
  <2>2. QED
    BY <1>2, <2>1 DEF BarPlaces
<1>10. \A k, l \in 1..Len(AllBars) : k <= l => AllBars[k].timestamp <= AllBars[l].timestamp
  <2>1. SUFFICES ASSUME NEW k \in 1..Len(AllBars), NEW l \in 1..Len(AllBars), k <= l
                 PROVE  history[at[k]].timestamp <= history[at[l]].timestamp
    BY <1>8
  <2>2. k < l => at[k] < at[l]
    BY <1>8 DEF Numbers
  <2>3. at[k] <= at[l]
    BY <1>7, <1>9, <2>1, <2>2
  <2>4. QED
    BY <1>2, <1>9, <2>3
<1>11. \A k \in 1..Len(AllBars) : AllBars[k].timestamp \in Int
  BY <1>2, <1>8, <1>9
<1>12. \A k \in 1..Len(setup.past), l \in 1..Len(AllBars) :
         setup.past[k].timestamp <= AllBars[l].timestamp
  <2>1. SUFFICES ASSUME NEW k \in 1..Len(setup.past), NEW l \in 1..Len(AllBars)
                 PROVE  setup.past[k].timestamp <= AllBars[l].timestamp
    BY Zenon
  <2>2. setup.past[k].timestamp < setup.slots[at[l]].timestamp
    BY <1>1, <1>2, <1>3, <1>9, Zenon
  <2>3. AllBars[l].timestamp = setup.slots[at[l]].timestamp
    BY <1>2, <1>8, <1>9
  <2>4. QED
    BY <1>4, <1>11, <2>2, <2>3
<1>13. QED
  BY <1>3, <1>4, <1>5, <1>7, <1>10, <1>11, <1>12, Zenon

(* Each row of the engine's batch has its row in the training's. *)
LEMMA RowsTrained ==
  ASSUME HistoryFixed, NEW record \in transform_batch(Specs, AllBars)
  PROVE  \E row \in TrainedOn : RowServed(record, row)
<1> DEFINE L == Len(setup.past)
           M == Len(AllBars)
           training == setup.past \o AllBars
<1>1. PICK symbol \in {AllBars[i].symbol : i \in DOMAIN AllBars} :
        record \in ToSet(RowsOf(Specs, AllBars, symbol))
  BY DEF transform_batch
<1>2. PICK i \in DOMAIN RowsOf(Specs, AllBars, symbol) : record = RowsOf(Specs, AllBars, symbol)[i]
  BY <1>1 DEF ToSet
<1>3. /\ L \in Nat /\ M \in Nat
      /\ setup.past = [k \in 1..L |-> setup.past[k]] /\ AllBars = [k \in 1..M |-> AllBars[k]]
      /\ \A k \in 1..L : setup.past[k].timestamp \in Int
      /\ \A k \in 1..M : AllBars[k].timestamp \in Int
      /\ \A k, l \in 1..L : k <= l => setup.past[k].timestamp <= setup.past[l].timestamp
      /\ \A k, l \in 1..M : k <= l => AllBars[k].timestamp <= AllBars[l].timestamp
      /\ \A k \in 1..L, l \in 1..M : setup.past[k].timestamp <= AllBars[l].timestamp
  BY TrainingFacts
<1> HIDE DEF L, M
<1>4. /\ training = [k \in 1..(L + M) |-> training[k]]
      /\ \A k \in 1..(L + M) : /\ k <= L => training[k] = setup.past[k]
                               /\ ~(k <= L) => training[k] = AllBars[k - L]
  <2>1. IsList(setup.past, L) /\ IsList(AllBars, M)
    BY <1>3, Zenon DEF IsList
  <2>2. Joins(training, setup.past, AllBars, L, M)
    BY <2>1, ConcatIs, Zenon
  <2> HIDE DEF training
  <2>3. QED
    BY <2>2, Zenon DEF Joins, IsList
<1> HIDE DEF training
<1>5. /\ training = [k \in 1..(L + M) |-> training[k]]
      /\ \A k \in 1..(L + M) : /\ k <= L => k \in 1..L /\ training[k] = setup.past[k]
                               /\ ~(k <= L) => k - L \in 1..M /\ training[k] = AllBars[k - L]
  <2>1. \A k \in 1..(L + M) : (k <= L => k \in 1..L) /\ (~(k <= L) => k - L \in 1..M)
    BY <1>3
  <2>2. QED
    BY <1>4, <2>1, Zenon
<1>6. /\ \A k \in 1..(L + M) : training[k].timestamp \in Int
      /\ \A k, l \in 1..(L + M) : k <= l => training[k].timestamp <= training[l].timestamp
  <2>1. \A k \in 1..(L + M) : training[k].timestamp \in Int
    BY <1>3, <1>5, Zenon
  <2>2. ASSUME NEW k \in 1..(L + M), NEW l \in 1..(L + M), k <= l
        PROVE  training[k].timestamp <= training[l].timestamp
    <3>1. CASE l <= L
      <4>1. k <= L
        BY <1>3, <2>2, <3>1
      <4>2. QED
        BY <1>3, <1>5, <2>2, <3>1, <4>1, Zenon
    <3>2. CASE k <= L /\ ~(l <= L)
      BY <1>3, <1>5, <3>2, Zenon
    <3>3. CASE ~(k <= L)
      <4>1. ~(l <= L) /\ k - L <= l - L
        BY <1>3, <2>2, <3>3
      <4>2. QED
        BY <1>3, <1>5, <3>3, <4>1, Zenon
    <3>4. QED
      BY <3>1, <3>2, <3>3, Zenon
  <2>3. QED
    BY <2>1, <2>2, Zenon
<1> DEFINE before == BarsOf(setup.past, symbol)
           own    == BarsOf(AllBars, symbol)
           both   == BarsOf(training, symbol)
           P == OfSymbol(setup.past, 1..L, symbol)
           Q == OfSymbol(AllBars, 1..M, symbol)
           R == OfSymbol(training, 1..(L + M), symbol)
<1>7. /\ Lists(before, setup.past, P) /\ Lists(own, AllBars, Q) /\ Lists(both, training, R)
      /\ P \subseteq 1..L /\ Q \subseteq 1..M /\ R \subseteq 1..(L + M) /\ R \subseteq Int
  <2>1. L + M \in Nat /\ 1..L \subseteq Int /\ 1..M \subseteq Int /\ 1..(L + M) \subseteq Int
    BY <1>3
  <2>2. /\ Lists(setup.past, setup.past, 1..L) /\ Lists(AllBars, AllBars, 1..M)
        /\ Lists(training, training, 1..(L + M))
    BY <1>3, <1>5, <2>1, ListsItself, Zenon
  <2>3. Lists(before, setup.past, P) /\ Lists(own, AllBars, Q) /\ Lists(both, training, R)
    BY <2>1, <2>2, BarsOfList, Zenon
  <2>4. P \subseteq 1..L /\ Q \subseteq 1..M /\ R \subseteq 1..(L + M) /\ R \subseteq Int
    BY <2>1 DEF OfSymbol
  <2>5. QED
    BY <2>3, <2>4
<1>8. R = P \cup {L + k : k \in Q}
  <2>1. ASSUME NEW k \in R
        PROVE  k \in P \cup {L + j : j \in Q}
    <3>1. k \in 1..(L + M) /\ training[k].symbol = symbol
      BY <2>1 DEF OfSymbol
    <3>2. CASE k <= L
      BY <1>5, <3>1, <3>2 DEF OfSymbol
    <3>3. CASE ~(k <= L)
      <4>1. k - L \in Q /\ k = L + (k - L)
        <5>1. k - L \in 1..M /\ AllBars[k - L].symbol = symbol
          BY <1>5, <3>1, <3>3
        <5>2. k = L + (k - L)
          BY <1>3, <3>1
        <5>3. QED
          BY <5>1, <5>2 DEF OfSymbol
      <4>2. QED
        BY <4>1
    <3>4. QED
      BY <3>2, <3>3
  <2>2. ASSUME NEW k \in P
        PROVE  k \in R
    <3>1. k \in 1..L /\ setup.past[k].symbol = symbol
      BY <2>2 DEF OfSymbol
    <3>2. k \in 1..(L + M) /\ k <= L
      BY <1>3, <3>1
    <3>3. QED
      BY <1>5, <3>1, <3>2 DEF OfSymbol
  <2>3. ASSUME NEW j \in Q
        PROVE  L + j \in R
    <3>1. j \in 1..M /\ AllBars[j].symbol = symbol
      BY <2>3 DEF OfSymbol
    <3>2. L + j \in 1..(L + M) /\ ~(L + j <= L) /\ (L + j) - L = j
      BY <1>3, <3>1
    <3>3. training[L + j] = AllBars[j]
      BY <1>5, <3>2
    <3>4. QED
      BY <3>1, <3>2, <3>3 DEF OfSymbol
  <2> HIDE DEF P, Q, R
  <2>4. QED
    BY <2>1, <2>2, <2>3
<1> HIDE DEF before, own, both, P, Q, R
<1>9. /\ Lists(before \o own, training, R)
      /\ Len(before \o own) = Len(before) + Len(own)
      /\ \A k \in 1..Len(own) : (before \o own)[k + Len(before)] = own[k]
  <2>1. /\ Lists(before \o own, setup.past \o AllBars, P \cup {L + k : k \in Q})
        /\ Len(before \o own) = Len(before) + Len(own)
        /\ \A k \in 1..Len(own) : (before \o own)[k + Len(before)] = own[k]
    <3>1. /\ L \in Nat /\ M \in Nat /\ P \subseteq 1..L /\ Q \subseteq 1..M
          /\ setup.past = [k \in 1..L |-> setup.past[k]] /\ AllBars = [k \in 1..M |-> AllBars[k]]
          /\ Lists(before, setup.past, P) /\ Lists(own, AllBars, Q)
      BY <1>3, <1>7
    <3>2. QED
      BY ONLY <3>1, ConcatLists, SMTT(60)
  <2>2. QED
    BY <1>8, <2>1, Zenon DEF training
<1>10. both = before \o own
  BY <1>7, <1>9, ListedOnce
<1>11. /\ Len(own) \in Nat /\ own = [k \in 1..Len(own) |-> own[k]]
       /\ Len(both) \in Nat /\ both = [k \in 1..Len(both) |-> both[k]]
       /\ Len(before) \in Nat
  <2>1. Lists(own, AllBars, Q)
    BY <1>7
  <2>2. Lists(both, training, R)
    BY <1>7
  <2>3. Lists(before, setup.past, P)
    BY <1>7
  <2>4. Len(own) \in Nat /\ own = [k \in 1..Len(own) |-> own[k]]
    BY ONLY <2>1, ListFacts
  <2>5. Len(both) \in Nat /\ both = [k \in 1..Len(both) |-> both[k]]
    BY ONLY <2>2, ListFacts
  <2>6. Len(before) \in Nat
    BY ONLY <2>3, ListFacts
  <2>7. QED
    BY <2>4, <2>5, <2>6
<1>12. Ends(own, both, Len(before))
  <2>1. /\ Len(both) = Len(before) + Len(own)
        /\ \A k \in 1..Len(own) : own[k] = both[k + Len(before)]
    BY <1>9, <1>10, Zenon
  <2>2. QED
    BY <1>11, <2>1, Zenon DEF Ends
<1>13. ByTime(own) = own
  <2>1. Len(history) \in Nat /\ Len(history) <= Len(history)
    BY PastFacts
  <2>2. ByTime(OwnBars(Len(history), symbol)) = OwnBars(Len(history), symbol)
    BY <2>1, OwnList
  <2>3. OwnBars(Len(history), symbol) = own
    BY AllBarsAre DEF OwnBars, own
  <2>4. QED
    BY <2>2, <2>3, Zenon
<1>14. ByTime(both) = both
  <2>1. PICK at : Numbers(at, Len(both), R) /\ \A k \in 1..Len(both) : both[k] = training[at[k]]
    <3>1. Lists(both, training, R)
      BY <1>7
    <3>2. QED
      BY ONLY <3>1, ListFacts
  <2>2. \A k \in 1..Len(both) : at[k] \in 1..(L + M) /\ at[k] \in Int
    BY <1>7, <2>1 DEF Numbers
  <2>3. \A k \in 1..Len(both) : both[k].timestamp \in Int
    BY <1>6, <2>1, <2>2, Zenon
  <2>4. \A k, l \in 1..Len(both) : k <= l => both[k].timestamp <= both[l].timestamp
    <3>1. SUFFICES ASSUME NEW k \in 1..Len(both), NEW l \in 1..Len(both), k <= l
                   PROVE  both[k].timestamp <= both[l].timestamp
      BY Zenon
    <3>2. k < l => at[k] < at[l]
      BY <2>1 DEF Numbers
    <3>3. at[k] <= at[l]
      BY <1>11, <2>2, <3>1, <3>2
    <3>4. QED
      BY <1>6, <2>1, <2>2, <3>3, Zenon
  <2>5. QED
    BY <1>11, <2>3, <2>4, ByTimeIs
<1>15. Ends(ByTime(BarsOf(AllBars, symbol)), ByTime(BarsOf(training, symbol)), Len(before))
  BY <1>12, <1>13, <1>14, Zenon DEF own, both
<1>16. AreSpecs(Specs)
  BY PastFacts, SpecsType
<1> DEFINE row == RowsOf(Specs, training, symbol)[i + Len(before)]
<1>17. /\ i + Len(before) \in DOMAIN RowsOf(Specs, training, symbol)
       /\ RowServed(record, row)
  BY <1>2, <1>15, <1>16, RowsEnd, Zenon
<1>18. symbol \in {training[k].symbol : k \in DOMAIN training}
  <2>1. PICK k \in 1..M : AllBars[k].symbol = symbol
    <3>1. DOMAIN AllBars = 1..M
      BY <1>3, Zenon
    <3>2. QED
      BY <1>1, <3>1
  <2>2. L + k \in 1..(L + M) /\ ~(L + k <= L) /\ (L + k) - L = k
    BY <1>3
  <2>3. training[L + k] = AllBars[k] /\ DOMAIN training = 1..(L + M)
    BY <1>5, <2>2
  <2>4. QED
    BY <2>1, <2>2, <2>3
<1>19. row \in ToSet(RowsOf(Specs, training, symbol))
  BY <1>17 DEF ToSet
<1>20. row \in TrainedOn
  <2> HIDE DEF row
  <2>1. row \in transform_batch(Specs, training)
    BY <1>18, <1>19, Zenon DEF transform_batch
  <2>2. QED
    BY <2>1 DEF TrainedOn, training
<1>21. QED
  BY <1>17, <1>20, Zenon

(* The record a running engine computes for a bar is the row of that bar in one batch
   over the engine's bars, so that no indicator looks ahead; against a training that
   read bars from before the engine began, the features that look back over a number
   of bars are missing or have the training's value; and a strategy with a model and
   an id of its own trades at the rows the model calls, each once. *)
THEOREM ServedAsTrained ==
  ASSUME DistinctStrategies, BarsComeFirst
  PROVE  Spec => []ServedLikeTrained
<1>2. PipelineInv /\ ServingInv => ServedLikeTrained
  <2>1. SUFFICES ASSUME PipelineInv, ServingInv
                 PROVE  ServedLikeTrained
    OBVIOUS
  <2>2. \A record \in features : record \in transform_batch(Specs, AllBars)
    BY <2>1 DEF ServingInv
  <2>3. ASSUME ~raised, NEW i \in DOMAIN setup.strategies,
               setup.strategies[i].type = "ml_directional",
               NEW symbol \in setup.strategies[i].symbols
        PROVE  LET strategy == setup.strategies[i]
                   rows     == {row \in transform_batch(Specs, AllBars) :
                                  /\ row.symbol = symbol
                                  /\ \E k \in DOMAIN Handled :
                                       /\ Handled[k].kind = "bar" /\ Handled[k].symbol = symbol
                                       /\ Handled[k].timestamp = row.timestamp}
                   called(label) ==
                     {row \in rows : predict_record(strategy.model, row).label = label}
               IN  /\ SignalTimes(strategy, symbol, "BUY") =
                        {row.timestamp : row \in {r \in called("UP") :
                                          score(strategy.model, r) >= strategy.buy_threshold}}
                   /\ SignalTimes(strategy, symbol, "SELL") =
                        {row.timestamp : row \in {r \in called("DOWN") :
                                          score(strategy.model, r) <= strategy.sell_threshold}}
    <3> DEFINE strategy == setup.strategies[i]
               list == Rows(cursor, symbol)
               n == Len(list)
               rows == {row \in transform_batch(Specs, AllBars) :
                          /\ row.symbol = symbol
                          /\ \E k \in DOMAIN Handled :
                               /\ Handled[k].kind = "bar" /\ Handled[k].symbol = symbol
                               /\ Handled[k].timestamp = row.timestamp}
    <3>1. rows = {list[j] : j \in 1..n}
      BY <2>1, RowsServed DEF PipelineInv
    <3>2. Serves(i, symbol)
      BY <2>1, <2>3 DEF ServingInv
    <3>3. \A direction \in {"BUY", "SELL"} :
            SignalTimes(strategy, symbol, direction) = CalledIn(list, strategy, direction)
      BY <3>2, SignalTimesAre DEF Serves
    <3> HIDE DEF rows, list, strategy
    <3>4. \A direction : CalledIn(list, strategy, direction) =
            {row.timestamp : row \in {r \in rows : CalledFor(strategy, r, direction)}}
      BY <3>1 DEF CalledIn
    <3>5. /\ {r \in rows : CalledFor(strategy, r, "BUY")} =
               {r \in {row \in rows : predict_record(strategy.model, row).label = "UP"} :
                  score(strategy.model, r) >= strategy.buy_threshold}
          /\ {r \in rows : CalledFor(strategy, r, "SELL")} =
               {r \in {row \in rows : predict_record(strategy.model, row).label = "DOWN"} :
                  score(strategy.model, r) <= strategy.sell_threshold}
      BY DEF CalledFor
    <3>6. QED
      BY <3>3, <3>4, <3>5 DEF rows, strategy
  <2>4. \A record \in features : \E row \in TrainedOn : RowServed(record, row)
    BY <2>1, <2>2, RowsTrained DEF PipelineInv
  <2>5. \A record \in features : \E row \in TrainedOn :
          /\ row.symbol = record.symbol
          /\ row.timestamp = record.timestamp
          /\ DOMAIN row.values = DOMAIN record.values
          /\ \A name \in DOMAIN record.values :
               name[1] \in WindowFeatures => record.values[name] \in {{}, row.values[name]}
    BY <2>4, Zenon DEF RowServed
  <2> HIDE DEF TrainedOn
  <2>6. QED
    BY <2>2, <2>3, <2>5 DEF ServedLikeTrained
<1>3. QED
  BY <1>2, PipelineInvariant, ServingInvariant, PTL

=============================================================================
