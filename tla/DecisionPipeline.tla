--------------------------- MODULE DecisionPipeline ---------------------------
(***************************************************************************)
(* qts.engines.decision_pipeline: from a market event to judged intents,     *)
(* composed of the data portals, the feature pipeline, the strategies, the   *)
(* risk engine and the portfolio.                                            *)
(*                                                                         *)
(* The engine around it is a backtest reduced to what the pipeline sees: the *)
(* accepted intents on a symbol fill together at the symbol's next bar, at   *)
(* its low or its high, before the portfolio is marked; an order the account *)
(* cannot settle is dropped; fractions of a share are left out.  Both data   *)
(* portals are fed the same events.  A setup is the configuration of a run,  *)
(* its slots the symbol, kind and time of each event, its past the bars that *)
(* training read from before the engine began: the engine itself begins with *)
(* none.                                                                     *)
(***************************************************************************)
EXTENDS Strategies, RiskEngine

CONSTANTS Setups,        \* the configurations
          StartingCash,
          OpenHours        \* when the exchange was open: pairs of opening and closing times

Slots == [symbol: Symbols, kind: {"bar", "quote"}, timestamp: Nat]

(* A bar may carry a price of zero, but no fill may have one. *)
Shapes ==
  [close: Nat \ {0}, low: Nat \ {0}, high: Nat \ {0}, volume: Nat, vwap: SUBSET Nat]

(* The bars of a symbol, as training reads them. *)
PastBars ==
  [symbol: Symbols, kind: {"bar"}, timestamp: Nat,
   close: Nat \ {0}, low: Nat \ {0}, high: Nat \ {0}, volume: Nat, vwap: SUBSET Nat]

(* What an injected strategy answers, before on_data fills in who, what and when. *)
Answers == Requests({""}, {""}, {0})

(* A history is in the order of time, and all of it after the past. *)
SetupsAssumption ==
  \A config \in Setups :
    /\ config.slots \in Seq(Slots)
    /\ \A i, j \in DOMAIN config.slots :
         i < j => config.slots[i].timestamp <= config.slots[j].timestamp
    /\ config.past \in Seq(PastBars)
    /\ \A i, j \in DOMAIN config.past :
         i < j => config.past[i].timestamp <= config.past[j].timestamp
    /\ \A i \in DOMAIN config.past, j \in DOMAIN config.slots :
         config.past[i].timestamp < config.slots[j].timestamp
    /\ config.shapes \subseteq Shapes
    /\ config.strategies \in Seq(ToSet(config.strategies))
    /\ LET specs == settings_from_strategies(config.strategies)
       IN  specs \in Seq(ToSet(specs)) /\ \A k \in DOMAIN specs : IsSpec(specs[k])
    /\ \A i \in DOMAIN config.strategies :
         LET strategy == config.strategies[i]
         IN  /\ strategy.type \in StrategyTypes
             /\ strategy.type = "injected" =>
                  \A shape \in config.shapes : strategy.answers[shape.close] \in Seq(Answers)
    /\ IsPolicy(config.policy)

ASSUME PipelineAssumption == SetupsAssumption /\ StartingCash \in Int

VARIABLES setup, history, cursor, replay_portal, runtime_portal, online_bars, features,
          memory, last_trade_time, portfolio, pending, decisions, raised

vars == <<setup, history, cursor, replay_portal, runtime_portal, online_bars, features,
          memory, last_trade_time, portfolio, pending, decisions, raised>>

Specs == settings_from_strategies(setup.strategies)

StrategyIds == {setup.strategies[i].id : i \in DOMAIN setup.strategies}

(* The events of a configuration, each with the prices of its shape. *)
HistoryOf(config, shapes) ==
  [i \in DOMAIN config.slots |->
     [symbol |-> config.slots[i].symbol, kind |-> config.slots[i].kind,
      timestamp |-> config.slots[i].timestamp,
      close |-> shapes[i].close, low |-> shapes[i].low, high |-> shapes[i].high,
      volume |-> shapes[i].volume, vwap |-> shapes[i].vwap]]

BarsIn(events) == Where(events, {i \in DOMAIN events : events[i].kind = "bar"})
-----------------------------------------------------------------------------
(* initialize. *)
Init ==
  /\ setup \in Setups
  /\ \E shapes \in [DOMAIN setup.slots -> setup.shapes] : history = HistoryOf(setup, shapes)
  /\ cursor = 0
  /\ replay_portal = NewReplayPortal(BarsIn(history))
  /\ runtime_portal = NewRuntimePortal(setup.max_bars)
  /\ online_bars = <<>>
  /\ features = {}
  /\ memory = [i \in DOMAIN setup.strategies |-> [s \in Symbols |-> {}]]
  /\ last_trade_time = [key \in (StrategyIds \cup {UnknownStrategy}) \X Symbols |-> {}]
  /\ portfolio = NewPortfolio(StartingCash)
  /\ pending = [s \in Symbols |-> <<>>]
  /\ decisions = <<>>
  /\ raised = FALSE

Event == history[cursor + 1]

(* The event an action handles. *)
Handles(kind) == ~raised /\ cursor < Len(history) /\ Event.kind = kind

(* One accepted order at its fill price, and what the risk engine hears of it. *)
Settle(account, order, event, price) ==
  LET quantity == IF order.intent.quantity # {} THEN Max(order.intent.quantity)
                  ELSE Max(order.intent.notional) \div price
      fill     == [id |-> order.id, symbol |-> event.symbol, side |-> order.intent.side,
                   quantity |-> quantity, price |-> price, commission |-> 0,
                   filled_at |-> event.timestamp]
      refused  == \/ quantity = 0
                  \/ fill.side = "BUY" /\ Notional(fill) > account.portfolio.cash
                  \/ Oversells(account.portfolio, fill)
  IN  IF refused THEN account
      ELSE [portfolio       |-> ApplyFill(account.portfolio, fill),
            last_trade_time |-> update_after_fill(account.last_trade_time, fill)]

SettleAll(account, orders, event, price) ==
  FoldLeft(LAMBDA a, order : Settle(a, order, event, price), account, orders)

(* before_mark_to_market. *)
Settled(event, price) ==
  SettleAll([portfolio |-> portfolio, last_trade_time |-> last_trade_time],
            pending[event.symbol], event, price)

(* One request in the loop over the outputs of a strategy: an exception ends the
   event, but not what the risk engine recorded before it.  The engine knows the
   order for an accepted decision by its place in the list of all decisions. *)
Judge(run, request, snapshot, event) ==
  LET approved == evaluate(request, snapshot, event.timestamp, event.close,
                           run.last_trade_time, setup.policy)
      intent   == CHOOSE candidate \in approved : TRUE
      decision == [request |-> request, approved |-> approved, price |-> event.close]
      order    == [id |-> Len(run.decisions) + 1, intent |-> intent]
  IN  CASE run.raised -> run
        [] ~run.raised /\ Raises(request, snapshot, setup.policy) -> [run EXCEPT !.raised = TRUE]
        [] ~run.raised /\ ~Raises(request, snapshot, setup.policy) /\ approved = {} ->
             [run EXCEPT !.decisions = Append(@, decision)]
        [] OTHER ->
             [run EXCEPT !.decisions = Append(@, decision),
                         !.orders = Append(@, order),
                         !.last_trade_time = record_intent(@, intent)]

JudgeAll(run, requests, snapshot, event) ==
  FoldLeft(LAMBDA r, request : Judge(r, request, snapshot, event), run, requests)

(* One strategy, if it follows the symbol. *)
Consult(run, i, record, snapshot, event) ==
  LET strategy == setup.strategies[i]
      answer   == on_data(strategy, event, record, run.memory[i][event.symbol])
  IN  IF run.raised \/ event.symbol \notin strategy.symbols THEN run
      ELSE IF MissesFeature(strategy, record) THEN [run EXCEPT !.raised = TRUE]
      ELSE JudgeAll([run EXCEPT !.memory[i][event.symbol] = answer.memory],
                    answer.requests, snapshot, event)

(* The strategies, in their order. *)
ConsultAll(run, record, snapshot, event) ==
  FoldLeft(LAMBDA r, i : Consult(r, i, record, snapshot, event),
           run, [i \in DOMAIN setup.strategies |-> i])

(* on_market_event for a bar. *)
OnBar ==
  /\ Handles("bar")
  /\ \E price \in {Event.low, Event.high} :
       LET settled  == Settled(Event, price)
           marked   == MarkToMarket(settled.portfolio, Event.symbol, Event.close)
           online   == Append(online_bars, Event)
           record   == update_online(Specs, online, Event)
           begun    == [memory |-> memory, decisions |-> decisions, orders |-> <<>>,
                        raised |-> FALSE, last_trade_time |-> settled.last_trade_time]
       IN  \E run \in {ConsultAll(begun, record, marked.last_snapshot, Event)} :
             /\ portfolio' = marked
             /\ online_bars' = online
             /\ features' = {record}
             /\ memory' = run.memory
             /\ last_trade_time' = run.last_trade_time
             /\ raised' = run.raised
             /\ decisions' = IF run.raised THEN decisions ELSE run.decisions
             /\ pending' = [pending EXCEPT ![Event.symbol] = IF run.raised THEN <<>> ELSE run.orders]
  /\ replay_portal' = replay_advance(replay_portal, Event)
  /\ runtime_portal' = append_bar(runtime_portal, Event)
  /\ cursor' = cursor + 1
  /\ UNCHANGED <<setup, history>>

(* on_market_event for a quote: the portfolio is marked at its middle, and that
   is all. *)
OnQuote ==
  /\ Handles("quote")
  /\ portfolio' = MarkToMarket(portfolio, Event.symbol, (Event.low + Event.high) \div 2)
  /\ replay_portal' = replay_advance(replay_portal, Event)
  /\ cursor' = cursor + 1
  /\ UNCHANGED <<setup, history, runtime_portal, online_bars, features, memory, last_trade_time,
                 pending, decisions, raised>>

Next == OnBar \/ OnQuote

Spec == Init /\ [][Next]_vars
-----------------------------------------------------------------------------
Handled == SubSeq(history, 1, cursor)

AllBars == BarsIn(history)

(* What training computes from a window of bars that begins before the engine's. *)
TrainedOn == transform_batch(Specs, setup.past \o AllBars)

(* The features that a number of bars determines, whatever came before.  The others
   go on from the first bar there is: ema, rsi, atr, macd, vwap. *)
WindowFeatures ==
  {"sma", "bollinger_mid", "bollinger_upper", "bollinger_lower", "returns", "volatility",
   "volume_mean", "volume_ratio"}

(* Of a symbol and a time, a feed has a bar before anything else: what came before
   a bar of its own time would let a backtest see that bar. *)
BarsComeFirst ==
  \A config \in Setups : \A i, j \in DOMAIN config.slots :
    /\ i < j
    /\ config.slots[i].symbol = config.slots[j].symbol
    /\ config.slots[i].timestamp = config.slots[j].timestamp
    => config.slots[j].kind # "bar"

(* The code does not refuse two strategies of one id, which then share their
   cooldowns and cannot be told apart by their requests. *)
DistinctStrategies ==
  \A config \in Setups : \A i, j \in DOMAIN config.strategies :
    config.strategies[i].id = config.strategies[j].id => i = j

(* Whatever lookback and end a strategy asks for, the portal of a backtest, which
   holds the whole history, shows it the bars of the event's symbol that the
   portal of a paper or live engine received, and no later one; a portal that
   keeps only so many bars shows the latest of them. *)
PortalsAgree ==
  cursor > 0 =>
    \A lookback \in {{}, {1}, {2}},
       end \in {{}} \cup {{history[i].timestamp} : i \in DOMAIN history} :
      LET seen == runtime_get_bars(runtime_portal, history[cursor].symbol, lookback, end)
          told == replay_get_bars(replay_portal, history[cursor].symbol, lookback, end)
      IN  /\ IsSuffix(seen, told)
          /\ setup.max_bars = {} => seen = told

(* The times at which a strategy gave a signal of a direction on a symbol. *)
SignalTimes(strategy, symbol, direction) ==
  {decisions[i].request.timestamp :
     i \in {j \in DOMAIN decisions :
              /\ decisions[j].request.strategy_id = strategy.id
              /\ decisions[j].request.symbol = symbol
              /\ decisions[j].request.direction = direction}}

(* The record a running engine computes for a bar from the bars so far is the
   row of that bar in one batch over all the bars of the engine: no indicator looks
   ahead.  For a model trained on bars from before the engine began, a feature that
   looks back over a number of bars is served as the value of the training's row,
   or is still missing; nothing is said of the features that depend on where the
   bars begin, which the engine serves otherwise than they were trained.  And a
   strategy with a model has bought and sold at the bars whose rows in the batch the
   model calls up or down, strongly enough, and at no other. *)
ServedLikeTrained ==
  /\ \A record \in features : record \in transform_batch(Specs, AllBars)
  /\ \A record \in features : \E row \in TrainedOn :
       /\ row.symbol = record.symbol
       /\ row.timestamp = record.timestamp
       /\ DOMAIN row.values = DOMAIN record.values
       /\ \A name \in DOMAIN record.values :
            name[1] \in WindowFeatures => record.values[name] \in {{}, row.values[name]}
  /\ \A i \in {j \in DOMAIN setup.strategies :
                setup.strategies[j].type = "ml_directional" /\ ~raised} :
       \A symbol \in setup.strategies[i].symbols :
         LET strategy == setup.strategies[i]
             rows     == {row \in transform_batch(Specs, AllBars) :
                            /\ row.symbol = symbol
                            /\ \E k \in DOMAIN Handled :
                                 /\ Handled[k].kind = "bar" /\ Handled[k].symbol = symbol
                                 /\ Handled[k].timestamp = row.timestamp}
             called(label) == {row \in rows : predict_record(strategy.model, row).label = label}
         IN  /\ SignalTimes(strategy, symbol, "BUY") =
                  {row.timestamp : row \in {r \in called("UP") :
                                    score(strategy.model, r) >= strategy.buy_threshold}}
             /\ SignalTimes(strategy, symbol, "SELL") =
                  {row.timestamp : row \in {r \in called("DOWN") :
                                    score(strategy.model, r) <= strategy.sell_threshold}}

(* The times of the handled bars of a symbol at which a condition on the row of
   the bar before and its own row held, in the batch over all of them. *)
CrossTimes(symbol, condition(_, _)) ==
  LET rows == RowsOf(Specs, BarsIn(Handled), symbol)
  IN  {rows[i].timestamp : i \in {j \in 2..Len(rows) : condition(rows[j - 1], rows[j])}}

Above(record, a, b) ==
  \E x \in feature_value(record, a), y \in feature_value(record, b) : x > y

Known(record, names) == \A name \in names : feature_value(record, name) # {}

(* A moving-average strategy has bought exactly at the bars where the fast average
   is above the slow one and was not one bar of the same symbol before, sold
   exactly at those where it fell below: no cross is missed, told twice or taken
   from another symbol, whatever bars came between. *)
SignalsAreCrosses ==
  \A i \in DOMAIN setup.strategies :
    setup.strategies[i].type = "sma_crossover" /\ ~raised =>
      \A symbol \in setup.strategies[i].symbols :
        LET strategy == setup.strategies[i]
            fast     == <<"sma", strategy.fast_window>>
            slow     == <<"sma", strategy.slow_window>>
        IN  /\ SignalTimes(strategy, symbol, "BUY") =
                 CrossTimes(symbol, LAMBDA before, now :
                   /\ Known(before, {fast, slow})
                   /\ ~Above(before, fast, slow)
                   /\ Above(now, fast, slow))
            /\ SignalTimes(strategy, symbol, "SELL") =
                 CrossTimes(symbol, LAMBDA before, now :
                   /\ Known(before, {fast, slow})
                   /\ ~Above(before, slow, fast)
                   /\ Above(now, slow, fast))

Accepted == {i \in DOMAIN decisions : decisions[i].approved # {}}

(* Two accepted decisions of one strategy on one symbol are a cooldown apart,
   also when they are two answers to the same bar, or the orders of the first
   were never filled. *)
CooldownKept ==
  \A i, j \in Accepted :
    LET first  == decisions[i].request
        second == decisions[j].request
    IN  i < j /\ first.strategy_id = second.strategy_id /\ first.symbol = second.symbol
          => second.timestamp - first.timestamp >= setup.policy.cooldown

(* With the session rule on, an intent is accepted only while the exchange was
   really open: around a change of the clocks, an observed holiday, a half day. *)
AcceptedInSession ==
  \A i \in Accepted :
    setup.policy.session_rules_enabled =>
      \E hours \in OpenHours :
        hours[1] <= decisions[i].request.timestamp /\ decisions[i].request.timestamp < hours[2]

(* The fills of a symbol at the last bar that filled any. *)
LastFills(symbol) ==
  LET ledger == portfolio.trade_ledger
      own    == {i \in DOMAIN ledger : ledger[i].fill.symbol = symbol}
      latest == Max({ledger[i].fill.filled_at : i \in own})
  IN  {ledger[i].fill : i \in {j \in own : ledger[j].fill.filled_at = latest}}

(* A limit on the notional of a position is kept, at the price the buy was judged
   at, by the position its fill leaves, cut orders and additions to a position
   included.  Strategies that buy at the same bar are each judged against the
   same snapshot: k of them may together reach k times the limit, no more.  Buys
   sized as a notional are excepted: they have no quantity to judge, and a fill
   below the price they were judged at buys more shares than the limit allowed. *)
PositionsStayLimited ==
  \A symbol \in Symbols :
    (\E entry \in Range(portfolio.trade_ledger) : entry.fill.symbol = symbol) =>
      LET buys  == {fill \in LastFills(symbol) : fill.side = "BUY"}
          price == Min({decisions[fill.id].price : fill \in buys})
      IN  \A limit \in setup.policy.max_position_notional :
            buys # {} /\ (\A fill \in buys :
                            \A intent \in decisions[fill.id].approved : intent.quantity # {})
              => portfolio.positions[symbol].quantity * price <= Cardinality(buys) * limit
=============================================================================
