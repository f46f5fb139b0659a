-------------------------- MODULE MCDecisionPipeline --------------------------
(***************************************************************************)
(* DecisionPipeline for TLC: ten configurations over two symbols, every      *)
(* history of four to nine events from one to three shapes.                 *)
(***************************************************************************)
EXTENDS DecisionPipeline

At(date, hour, minute) == date * 1440 + Hhmm(hour, minute)

(* An ordinary Tuesday, from 14:30 UTC on, half an hour apart. *)
Tuesday(i) == At(Date(2024, 1, 9), 14, 30) + 30 * i

Slot(symbol, kind, timestamp) == [symbol |-> symbol, kind |-> kind, timestamp |-> timestamp]

Bar(symbol, i) == Slot(symbol, "bar", Tuesday(i))

Shape(close, low, high, volume) ==
  [close |-> close, low |-> low, high |-> high, volume |-> volume, vwap |-> {}]

Low    == Shape(12, 12, 24, 10)
Middle == Shape(24, 12, 24, 20)
High   == Shape(36, 24, 36, 10)
Silent == [Shape(36, 24, 36, 0) EXCEPT !.vwap = {30}]

(* Bars of the days before, of which A has two. *)
Before(symbol, day, shape) ==
  [symbol |-> symbol, kind |-> "bar", timestamp |-> At(Date(2024, 1, day), 20, 30),
   close |-> shape.close, low |-> shape.low, high |-> shape.high,
   volume |-> shape.volume, vwap |-> shape.vwap]

Past == <<Before("A", 5, High), Before("B", 5, Low), Before("A", 8, Low)>>

Crossover == [id |-> "cross", type |-> "sma_crossover", symbols |-> {"A", "B"}, specs |-> <<>>,
              fast_window |-> 1, slow_window |-> 2]
Reversion == [id |-> "revert", type |-> "rsi_mean_reversion", symbols |-> {"A"}, specs |-> <<>>,
              window |-> 2, oversold |-> 40, overbought |-> 70]

Request(kind, target) ==
  [kind |-> kind, target |-> target, strategy_id |-> "", symbol |-> "", timestamp |-> 0]

Hold == [kind |-> "signal", direction |-> "HOLD", strategy_id |-> "", symbol |-> "",
         timestamp |-> 0]

Injected(id, specs, answers) ==
  [id |-> id, type |-> "injected", symbols |-> {"A", "B"}, specs |-> specs, answers |-> answers]

Specs12 ==
  <<[name |-> "ema", window |-> 2], [name |-> "rsi", window |-> 2], [name |-> "atr", window |-> 2],
    [name |-> "macd", fast |-> 1, slow |-> 2, signal |-> 2],
    [name |-> "bollinger", window |-> 2, stdevs |-> 2], [name |-> "vwap"],
    [name |-> "returns", window |-> 1], [name |-> "volume_mean", window |-> 2],
    [name |-> "volatility", window |-> 2, return_window |-> 1],
    [name |-> "volume_ratio", window |-> 2]>>

(* Targets of every kind, one of them an exception. *)
Targets ==
  Injected("targets", <<>>,
    12 :> <<Request("target_quantity", 6), Request("target_weight", 20)>>
      @@ 24 :> <<Request("target_notional", 72)>>
      @@ 36 :> <<Request("target_quantity", 0), Request("target_weight", -10)>>)

Undecided ==
  Injected("undecided", <<>>, 12 :> <<>> @@ 24 :> <<Request("target_quantity", 3), Hold>>
                                @@ 36 :> <<>>)

Steady == Injected("steady", Specs12, 12 :> <<>> @@ 24 :> <<Request("target_notional", 48)>>
                                        @@ 36 :> <<>>)

(* Two of a kind, that ask for more than the limit allows at 24. *)
Twin(id) ==
  Injected(id, <<>>, 12 :> <<Request("target_quantity", 10)>>
                       @@ 24 :> <<Request("target_quantity", 8)>>
                       @@ 36 :> <<Request("target_quantity", 4)>>)

Keen == Injected("keen", <<>>, 24 :> <<Request("target_notional", 24)>>)

(* A model over the close itself and one more feature, with a mean of 24. *)
Learned(id, other, hold) ==
  [id |-> id, type |-> "ml_directional", symbols |-> {"A"},
   specs |-> <<[name |-> "sma", window |-> 1], [name |-> other, window |-> 1]>>,
   model |-> [features |-> <<[name |-> <<"sma", 1>>, weight |-> 2, mean |-> 24],
                             [name |-> <<other, 1>>, weight |-> -1, mean |-> 24]>>,
              intercept |-> 6, decision_threshold |-> 60],
   buy_threshold |-> 72, sell_threshold |-> -66, emit_hold |-> hold]

Policy ==
  [allowed_symbols |-> {}, blocked_symbols |-> {}, session_rules_enabled |-> FALSE,
   market_session |-> DefaultSessionConfig, daily_loss_limit |-> {}, cooldown |-> 0,
   max_position_notional |-> {}, max_symbol_weight |-> {}, max_gross_exposure |-> {},
   sizing_method |-> "fixed_quantity", sizing_amount |-> 6]

Crossing ==
  [strategies |-> <<Crossover>>,
   policy     |-> [Policy EXCEPT !.max_position_notional = {144}],
   max_bars   |-> {},
   past       |-> Past,
   slots      |-> <<Bar("A", 0), Bar("A", 1), Bar("A", 2), Bar("A", 3), Bar("A", 4), Bar("A", 5)>>,
   shapes     |-> {Low, Middle, High}]

TwoStrategies ==
  [strategies |-> <<Crossover, Reversion>>,
   policy     |-> [Policy EXCEPT !.max_position_notional = {144}, !.cooldown = 60,
                                 !.max_gross_exposure = {288}],
   max_bars   |-> {},
   past       |-> Past,
   slots      |-> <<Bar("A", 0), Bar("A", 1), Bar("B", 1), Bar("A", 2), Bar("A", 3),
                    Slot("A", "quote", Tuesday(3) + 1), Bar("B", 4), Bar("A", 5)>>,
   shapes     |-> {Low, High}]

ManyTargets ==
  [strategies |-> <<Targets, Undecided>>,
   policy     |-> [Policy EXCEPT !.daily_loss_limit = {60}, !.max_symbol_weight = {25},
                                 !.blocked_symbols = {"B"}, !.cooldown = 30],
   max_bars   |-> {},
   past       |-> <<>>,
   slots      |-> <<Bar("A", 0), Bar("A", 1), Bar("B", 2), Bar("A", 2), Bar("A", 3)>>,
   shapes     |-> {Low, Middle, High}]

Twins ==
  [strategies |-> <<Twin("one"), Twin("other")>>,
   policy     |-> [Policy EXCEPT !.max_position_notional = {144}],
   max_bars   |-> {2},
   past       |-> <<>>,
   slots      |-> <<Bar("A", 0), Bar("A", 1), Bar("A", 2), Bar("A", 3)>>,
   shapes     |-> {Low, Middle, High}]

ManyFeatures ==
  [strategies |-> <<Steady>>,
   policy     |-> [Policy EXCEPT !.sizing_method = "percent_equity", !.sizing_amount = 10],
   max_bars   |-> {},
   past       |-> Past,
   slots      |-> <<Bar("A", 0), Bar("B", 0), Bar("A", 1), Bar("A", 2), Bar("A", 3)>>,
   shapes     |-> {Low, Middle, Silent}]

(* The second model asks for a feature its first bar does not have, the third
   emits HOLD. *)
Models(learned) ==
  [strategies |-> <<learned>>,
   policy     |-> [Policy EXCEPT !.sizing_method = "fixed_notional", !.sizing_amount = 72],
   max_bars   |-> {},
   past       |-> Past,
   slots      |-> <<Bar("A", 0), Bar("B", 0), Bar("A", 1), Bar("A", 2), Bar("A", 3)>>,
   shapes     |-> {Low, Middle, High}]

(* The observed New Year's Day of 2023 and the day after, the Fridays and Mondays
   around a change of the clocks, Good Friday, the day after Thanksgiving. *)
HolidayTimes ==
  <<At(Date(2023, 1, 2), 15, 0), At(Date(2023, 1, 3), 20, 59), At(Date(2024, 3, 8), 13, 30),
    At(Date(2024, 3, 8), 20, 30), At(Date(2024, 3, 11), 13, 30), At(Date(2024, 3, 11), 20, 0),
    At(Date(2024, 3, 29), 15, 0), At(Date(2024, 11, 29), 17, 59), At(Date(2024, 11, 29), 18, 0)>>

Holidays(config) ==
  [strategies |-> <<Keen>>,
   policy     |-> [Policy EXCEPT !.session_rules_enabled = TRUE, !.market_session = config],
   max_bars   |-> {},
   past       |-> <<>>,
   slots      |-> [i \in DOMAIN HolidayTimes |-> Slot("A", "bar", HolidayTimes[i])],
   shapes     |-> {Middle}]

MCSetups ==
  {Crossing, TwoStrategies, ManyTargets, Twins, ManyFeatures, Models(Learned("learned", "ema", FALSE)),
   Models(Learned("warming", "returns", FALSE)), Models(Learned("holding", "ema", TRUE)),
   Holidays(DefaultSessionConfig),
   Holidays([DefaultSessionConfig EXCEPT !.extended_hours = TRUE])}

(* The hours the exchange published for those days. *)
MCOpenHours ==
  {<<At(Date(2023, 1, 3), 14, 30), At(Date(2023, 1, 3), 21, 0)>>,
   <<At(Date(2024, 3, 8), 14, 30), At(Date(2024, 3, 8), 21, 0)>>,
   <<At(Date(2024, 3, 11), 13, 30), At(Date(2024, 3, 11), 20, 0)>>,
   <<At(Date(2024, 11, 29), 14, 30), At(Date(2024, 11, 29), 18, 0)>>}

(* What the theorem on the portals asks of a feed. *)
ASSUME FeedAssumption == BarsComeFirst

ASSUME IdAssumption == DistinctStrategies
=============================================================================
