------------------------------- MODULE Features -------------------------------
(***************************************************************************)
(* qts.features as operators: the indicators, and the pipeline that computes *)
(* them over a history or, in a running engine, bar by bar.                  *)
(*                                                                         *)
(* A value is a whole number of 1/Unit, quotients rounded down.  A series has *)
(* one set per bar: the value, or nothing where the code has None.  A feature *)
(* is named by a tuple: <<"sma", 20>> is sma_20.                              *)
(***************************************************************************)
EXTENDS MarketData, SequencesExt

CONSTANT Unit

ASSUME UnitAssumption == Unit \in Nat \ {0}

Total(values) == SumFunction(values)

(* The window of a series that ends at i. *)
Window(values, i, window) == SubSeq(values, i - window + 1, i)

Mean(values) == Total(values) \div Len(values)

Root(n, atMost) == CHOOSE r \in 0..atMost : r * r <= n /\ n < (r + 1) * (r + 1)

(* The standard deviation of values: never more than the largest deviation. *)
Deviation(values, mean) ==
  LET distances == [i \in DOMAIN values |-> IF values[i] < mean THEN mean - values[i]
                                                                ELSE values[i] - mean]
  IN  Root(Mean([i \in DOMAIN values |-> distances[i] * distances[i]]),
           Max({0} \cup {distances[i] : i \in DOMAIN values}) + 1)

(* The series of what is known from some bar on. *)
Series(values, known) == [i \in DOMAIN values |-> IF i \in DOMAIN known THEN {known[i]} ELSE {}]

Closes(bars) == [i \in DOMAIN bars |-> bars[i].close * Unit]

Volumes(bars) == [i \in DOMAIN bars |-> bars[i].volume * Unit]
-----------------------------------------------------------------------------
sma(values, window) ==
  Series(values, [i \in window..Len(values) |-> Mean(Window(values, i, window))])

(* An exponential average that starts at first, after some later values. *)
Exponential(first, later, window) ==
  LET current[k \in 0..Len(later)] ==
        IF k = 0 THEN first
        ELSE current[k - 1] + (2 * (later[k] - current[k - 1])) \div (window + 1)
  IN  current[Len(later)]

ema(values, window) ==
  Series(values, [i \in window..Len(values) |->
                    Exponential(Mean(Window(values, window, window)),
                                SubSeq(values, window + 1, i), window)])

(* Wilder's average. *)
Wilder(first, later, window) ==
  LET average[k \in 0..Len(later)] ==
        IF k = 0 THEN first ELSE (average[k - 1] * (window - 1) + later[k]) \div window
  IN  average[Len(later)]

Smoothed(parts, window) ==
  [i \in window..Len(parts) |->
     Wilder(Mean(Window(parts, window, window)), SubSeq(parts, window + 1, i), window)]

(* 100 - 100 / (1 + gain / loss). *)
rsi_from_averages(gain, loss) ==
  CASE loss = 0 /\ gain > 0 -> 100 * Unit
    [] loss = 0 /\ gain = 0 -> 50 * Unit
    [] OTHER                -> (100 * Unit * gain) \div (gain + loss)

rsi(values, window) ==
  LET steps == 1..(Len(values) - 1)
      gain  == Smoothed([i \in steps |-> Max({values[i + 1] - values[i], 0})], window)
      loss  == Smoothed([i \in steps |-> Max({values[i] - values[i + 1], 0})], window)
  IN  Series(values, [i \in (window + 1)..Len(values) |->
                        rsi_from_averages(gain[i - 1], loss[i - 1])])

ema_from_first(values, window) ==
  [i \in DOMAIN values |-> Exponential(values[1], SubSeq(values, 2, i), window)]

(* The line, its signal and their difference. *)
macd(values, fast, slow, signal) ==
  LET quick  == ema_from_first(values, fast)
      steady == ema_from_first(values, slow)
      line   == [i \in DOMAIN values |-> quick[i] - steady[i]]
      smooth == ema_from_first(line, signal)
  IN  <<Series(values, line),
        Series(values, smooth),
        Series(values, [i \in DOMAIN values |-> line[i] - smooth[i]])>>

(* Mistake: the width of the bands is that of the whole series. *)
bollinger_of_all(values, window, stdevs) ==
  LET band(sign) ==
        Series(values, [i \in window..Len(values) |->
                          Mean(Window(values, i, window))
                            + sign * stdevs * Deviation(values, Mean(values))])
  IN  <<sma(values, window), band(1), band(-1)>>

(* The middle, upper and lower band. *)
bollinger_bands(values, window, stdevs) ==
  LET band(sign) ==
        Series(values, [i \in window..Len(values) |->
                          LET chunk == Window(values, i, window)
                          IN  Mean(chunk) + sign * stdevs * Deviation(chunk, Mean(chunk))])
  IN  <<sma(values, window), band(1), band(-1)>>

true_range(bars, i) ==
  LET reach(a, b) == IF a < b THEN b - a ELSE a - b
  IN  Unit * Max({bars[i].high - bars[i].low}
                   \cup (IF i = 1 THEN {}
                         ELSE {reach(bars[i].high, bars[i - 1].close),
                               reach(bars[i].low, bars[i - 1].close)}))

atr(bars, window) ==
  Series(bars, Smoothed([i \in DOMAIN bars |-> true_range(bars, i)], window))

(* Cumulative from the first bar; a bar may bring its own vwap. *)
vwap(bars) ==
  LET price(bar)  == IF bar.vwap = {} THEN (bar.high + bar.low + bar.close) \div 3
                     ELSE Max(bar.vwap)
      volume(i)   == Total([j \in 1..i |-> bars[j].volume])
      turnover(i) == Total([j \in 1..i |-> price(bars[j]) * bars[j].volume])
  IN  [i \in DOMAIN bars |-> IF volume(i) = 0 THEN {} ELSE {(Unit * turnover(i)) \div volume(i)}]

returns(values, window) ==
  [i \in DOMAIN values |->
     IF i <= window \/ values[i - window] = 0 THEN {}
     ELSE {(Unit * values[i]) \div values[i - window] - Unit}]

(* Of a full window of returns that exist, or there is none. *)
volatility(values, window, return_window) ==
  LET ret      == returns(values, return_window)
      chunk(i) == Window(ret, i, window)
  IN  [i \in DOMAIN values |->
         IF i < window \/ \E j \in 1..window : chunk(i)[j] = {} THEN {}
         ELSE LET known == [j \in 1..window |-> Max(chunk(i)[j])]
              IN  {Deviation(known, Mean(known))}]

volume_ratio(bars, window) ==
  LET means == sma(Volumes(bars), window)
  IN  [i \in DOMAIN bars |->
         {(Unit * Unit * bars[i].volume) \div mean : mean \in means[i] \ {0}}]
-----------------------------------------------------------------------------
(* compute_indicator, with output_names_for: the series by feature name.  A name
   leaves out the width of a bollinger band and the return window of a
   volatility. *)
compute_indicator(spec, bars) ==
  LET one(series) == [name \in {<<spec.name, spec.window>>} |-> series]
      three(names, series) == [name \in Range(names) |-> series[CHOOSE k \in 1..3 : names[k] = name]]
      w == spec.window
  IN  CASE spec.name = "sma"          -> one(sma(Closes(bars), w))
        [] spec.name = "ema"          -> one(ema(Closes(bars), w))
        [] spec.name = "rsi"          -> one(rsi(Closes(bars), w))
        [] spec.name = "atr"          -> one(atr(bars, w))
        [] spec.name = "returns"      -> one(returns(Closes(bars), w))
        [] spec.name = "volatility"   -> one(volatility(Closes(bars), w, spec.return_window))
        [] spec.name = "volume_mean"  -> one(sma(Volumes(bars), w))
        [] spec.name = "volume_ratio" -> one(volume_ratio(bars, w))
        [] spec.name = "vwap"         -> [name \in {<<"vwap">>} |-> vwap(bars)]
        [] spec.name = "macd" ->
             three(<<<<"macd", spec.fast, spec.slow, spec.signal>>,
                     <<"macd_signal", spec.fast, spec.slow, spec.signal>>,
                     <<"macd_hist", spec.fast, spec.slow, spec.signal>>>>,
                   macd(Closes(bars), spec.fast, spec.slow, spec.signal))
        [] spec.name = "bollinger" ->
             three(<<<<"bollinger_mid", w>>, <<"bollinger_upper", w>>, <<"bollinger_lower", w>>>>,
                   bollinger_bands(Closes(bars), w, spec.stdevs))

(* What compute_indicator does not raise on. *)
Windowed ==
  {"sma", "ema", "rsi", "atr", "returns", "volatility", "volume_mean", "volume_ratio", "bollinger"}

IsSpec(spec) ==
  /\ spec.name \in Windowed \cup {"vwap", "macd"}
  /\ spec.name \in Windowed => spec.window \in Nat \ {0}
  /\ spec.name = "volatility" => spec.return_window \in Nat \ {0}
  /\ spec.name = "macd" => {spec.fast, spec.slow, spec.signal} \subseteq Nat \ {0}

(* Of series of one name the last remains. *)
Merged(series) ==
  LET latest(name) == Max({k \in DOMAIN series : name \in DOMAIN series[k]})
  IN  [name \in UNION {DOMAIN series[k] : k \in DOMAIN series} |-> series[latest(name)][name]]

(* The series of all specs: a later spec replaces the series of an earlier one with
   the same name. *)
computed(specs, bars) == Merged([k \in DOMAIN specs |-> compute_indicator(specs[k], bars)])

(* Oldest first, and of one time in the order they came. *)
ByTime(bars) == SortedBy(bars, [i \in DOMAIN bars |-> <<bars[i].timestamp, i>>])

(* The rows of transform_batch for one symbol, from its bars and their series. *)
RowsFrom(own, values, symbol) ==
  [i \in DOMAIN own |->
     [symbol |-> symbol, timestamp |-> own[i].timestamp,
      values |-> [name \in DOMAIN values |-> values[name][i]]]]

RowsOf(specs, bars, symbol) ==
  LET own == ByTime(BarsOf(bars, symbol))
  IN  RowsFrom(own, computed(specs, own), symbol)

transform_batch(specs, bars) ==
  UNION {ToSet(RowsOf(specs, bars, symbol)) : symbol \in {bars[i].symbol : i \in DOMAIN bars}}

(* update_online, after the bar joined the online bars: the last row of its
   symbol, with the bar's own time. *)
update_online(specs, online_bars, bar) ==
  [symbol |-> bar.symbol, timestamp |-> bar.timestamp,
   values |-> Last(RowsOf(specs, online_bars, bar.symbol)).values]
-----------------------------------------------------------------------------
(* feature_specs_for_strategy: the specs a strategy names, or those its kind
   needs. *)
feature_specs_for_strategy(strategy) ==
  CASE strategy.specs # <<>> -> strategy.specs
    [] strategy.specs = <<>> /\ strategy.type = "sma_crossover" ->
         <<[name |-> "sma", window |-> strategy.fast_window],
           [name |-> "sma", window |-> strategy.slow_window]>>
    [] strategy.specs = <<>> /\ strategy.type = "rsi_mean_reversion" ->
         <<[name |-> "rsi", window |-> strategy.window]>>
    [] OTHER -> <<>>

(* feature_pipeline_settings_from_strategies: each spec once. *)
settings_from_strategies(strategies) ==
  FoldLeft(LAMBDA specs, spec : IF Contains(specs, spec) THEN specs ELSE Append(specs, spec),
           <<>>,
           FlattenSeq([i \in DOMAIN strategies |-> feature_specs_for_strategy(strategies[i])]))
=============================================================================
