------------------------------ MODULE Strategies ------------------------------
(***************************************************************************)
(* The strategies of qts.strategies as operators: what on_data answers to a  *)
(* bar, and what it remembers of the symbol until the next one.              *)
(*                                                                         *)
(* The memory of a symbol is a set of at most one value.  An answer is the   *)
(* new memory and the sequence of requests.                                 *)
(***************************************************************************)
EXTENDS Features

StrategyTypes == {"sma_crossover", "rsi_mean_reversion", "ml_directional", "injected"}

SignalDirection == {"BUY", "SELL", "SHORT", "COVER", "HOLD", "EXIT"}

(* Signals and the three kinds of target: a notional is not negative. *)
Requests(ids, symbols, times) ==
  [kind: {"signal"}, strategy_id: ids, symbol: symbols, timestamp: times,
   direction: SignalDirection]
    \cup [kind: {"target_quantity", "target_weight"}, strategy_id: ids, symbol: symbols,
          timestamp: times, target: Int]
    \cup [kind: {"target_notional"}, strategy_id: ids, symbol: symbols, timestamp: times,
          target: Nat]

Remember(memory, requests) == [memory |-> memory, requests |-> requests]

Signal(strategy, bar, direction) ==
  [kind |-> "signal", strategy_id |-> strategy.id, symbol |-> bar.symbol,
   timestamp |-> bar.timestamp, direction |-> direction]

(* What a rising or a falling cross is told as. *)
Signals(strategy, bar, rising, falling) ==
  CASE rising              -> <<Signal(strategy, bar, "BUY")>>
    [] ~rising /\ falling  -> <<Signal(strategy, bar, "SELL")>>
    [] ~rising /\ ~falling -> <<>>

(* A feature the record lacks has no value. *)
feature_value(features, name) ==
  IF name \in DOMAIN features.values THEN features.values[name] ELSE {}

relation(features, strategy) ==
  {CASE fast > slow -> 1 [] fast < slow -> -1 [] fast = slow -> 0 :
     fast \in feature_value(features, <<"sma", strategy.fast_window>>),
     slow \in feature_value(features, <<"sma", strategy.slow_window>>)}

(* Mistake: equal averages are not remembered. *)
sma_that_skips_equality(strategy, bar, features, previous) ==
  LET current == relation(features, strategy) \ {0}
  IN  Remember(IF current = {} THEN previous ELSE current,
               Signals(strategy, bar,
                       \E p \in previous, r \in current : p <= 0 /\ 0 < r,
                       \E p \in previous, r \in current : p >= 0 /\ 0 > r))

(* SMACrossoverStrategy.on_data.  Equal averages are remembered as 0, and either
   way out of equality counts as a cross. *)
sma_crossover(strategy, bar, features, previous) ==
  LET current == relation(features, strategy)
  IN  Remember(IF current = {} THEN previous ELSE current,
               Signals(strategy, bar,
                       \E p \in previous, r \in current : p <= 0 /\ 0 < r,
                       \E p \in previous, r \in current : p >= 0 /\ 0 > r))

(* RSIMeanReversionStrategy.on_data. *)
rsi_mean_reversion(strategy, bar, features, previous) ==
  LET current    == feature_value(features, <<"rsi", strategy.window>>)
      oversold   == strategy.oversold * Unit
      overbought == strategy.overbought * Unit
  IN  Remember(IF current = {} THEN previous ELSE current,
               Signals(strategy, bar,
                       \E p \in previous, c \in current : p > oversold /\ oversold >= c,
                       \E p \in previous, c \in current : p < overbought /\ overbought <= c))

(* DirectionalModel.score, over the features of the model: their names, weights
   and means. *)
score(model, features) ==
  LET term(f) == f.weight * (Max(feature_value(features, f.name)) - f.mean * Unit)
  IN  model.intercept + Total([i \in DOMAIN model.features |-> term(model.features[i])])

(* predict_record.  The probability is the logistic function of the score, so its
   thresholds stand here as scores: both directions are as far from even odds. *)
predict_record(model, features) ==
  LET s == score(model, features)
  IN  [label |-> CASE s >= model.decision_threshold    -> "UP"
                   [] s <= -(model.decision_threshold) -> "DOWN"
                   [] OTHER                            -> "HOLD",
       score |-> s]

(* A record that lacks a feature of the model raises. *)
MissesFeature(strategy, features) ==
  /\ strategy.type = "ml_directional"
  /\ \E i \in DOMAIN strategy.model.features :
       feature_value(features, strategy.model.features[i].name) = {}

(* MLSignalStrategy.on_data, for a record with all features. *)
ml_directional(strategy, bar, features) ==
  LET selected == predict_record(strategy.model, features)
  IN  CASE selected.label = "UP" /\ selected.score >= strategy.buy_threshold ->
             <<Signal(strategy, bar, "BUY")>>
        [] selected.label = "DOWN" /\ selected.score <= strategy.sell_threshold ->
             <<Signal(strategy, bar, "SELL")>>
        [] OTHER -> IF strategy.emit_hold THEN <<Signal(strategy, bar, "HOLD")>> ELSE <<>>

(* on_data.  An injected strategy is the caller's own: it answers a close with
   whatever it likes. *)
on_data(strategy, bar, features, previous) ==
  CASE strategy.type = "sma_crossover" -> sma_crossover(strategy, bar, features, previous)
    [] strategy.type = "rsi_mean_reversion" ->
         rsi_mean_reversion(strategy, bar, features, previous)
    [] strategy.type = "ml_directional" ->
         Remember(previous, ml_directional(strategy, bar, features))
    [] strategy.type = "injected" ->
         Remember(previous,
                  [i \in DOMAIN strategy.answers[bar.close] |->
                     [strategy.answers[bar.close][i] EXCEPT !.strategy_id = strategy.id,
                        !.symbol = bar.symbol, !.timestamp = bar.timestamp]])
=============================================================================
