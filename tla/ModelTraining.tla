---------------------------- MODULE ModelTraining ----------------------------
(***************************************************************************)
(* qts.ml as operators: labels, dataset, split and leakage check of          *)
(* train_directional_pipeline.                                              *)
(*                                                                         *)
(* A sample is its symbol, its time, the time of the bar that decided its    *)
(* label, and the label; the values of its features, and with them the       *)
(* weights and metrics of the model, are left out: only which features are   *)
(* missing matters here.  What raises gives the empty set.                   *)
(***************************************************************************)
EXTENDS Features, BarStore

(* The label of a forward return; thresholds are percentages. *)
direction(now, future, config) ==
  CASE 100 * (future - now) > config.up_threshold * now      -> 1
    [] 100 * (now - future) > config.down_threshold * now    -> -1
    [] OTHER                                                 -> 0

(* build_forward_return_labels, by the place of the bar in the series of its
   symbol: the last horizon_bars bars get none. *)
build_forward_return_labels(own, config) ==
  [i \in 1..(Len(own) - config.horizon_bars) |->
     LET future == own[i + config.horizon_bars]
     IN  [symbol |-> own[i].symbol, timestamp |-> own[i].timestamp,
          label_end |-> future.timestamp,
          label |-> direction(own[i].close, future.close, config)]]

(* build_ml_dataset: the labelled bars none of whose features is missing. *)
build_ml_dataset(bars, config) ==
  LET samples(symbol) ==
        LET rows   == RowsOf(config.specs, bars, symbol)
            labels == build_forward_return_labels(Sorted(BarsOf(bars, symbol)), config)
        IN  {labels[i] : i \in {j \in DOMAIN labels :
                                  \A name \in DOMAIN rows[j].values : rows[j].values[name] # {}}}
  IN  UNION {samples(symbol) : symbol \in {bars[i].symbol : i \in DOMAIN bars}}

(* The embargo counts samples, of all symbols together, not bars. *)
chronological_split(samples, config) ==
  LET ordered          == Sorted(Members(samples))
      n                == Len(ordered)
      total            == config.train_fraction + config.validation_fraction
                            + config.test_fraction
      share(fraction)  == (n * fraction) \div total
      train_end        == Max({1, share(config.train_fraction)})
      validation_end   ==
        Min({Max({train_end + 1,
                  share(config.train_fraction + config.validation_fraction)}),
             n - 1})
      validation_start == Min({train_end + config.embargo_bars, validation_end})
      test_start       == Min({validation_end + config.embargo_bars, n})
      split            == [train      |-> SubSeq(ordered, 1, train_end),
                           validation |-> SubSeq(ordered, validation_start + 1, validation_end),
                           test       |-> SubSeq(ordered, test_start + 1, n)]
  IN  IF n < 3 THEN {}
      ELSE {s \in {split} : <<>> \notin {s.train, s.validation, s.test}}

(* Mistake: a label decided at the first evaluated bar passes. *)
touching_is_no_leakage(training, evaluation) ==
  \/ training = <<>> \/ evaluation = <<>>
  \/ Max({training[i].label_end : i \in DOMAIN training})
       <= Min({evaluation[i].timestamp : i \in DOMAIN evaluation})

validate_no_temporal_leakage(training, evaluation) ==
  \/ training = <<>> \/ evaluation = <<>>
  \/ Max({training[i].label_end : i \in DOMAIN training})
       < Min({evaluation[i].timestamp : i \in DOMAIN evaluation})

validate_split_no_leakage(split) ==
  /\ validate_no_temporal_leakage(split.train, split.validation)
  /\ validate_no_temporal_leakage(split.validation, split.test)

(* train_directional_model needs a sample that is not HOLD. *)
Trainable(split) == \E i \in DOMAIN split.train : split.train[i].label # 0

train_directional_pipeline(bars, config) ==
  {split \in (IF bars = <<>> THEN {}
              ELSE chronological_split(build_ml_dataset(bars, config), config)) :
     validate_split_no_leakage(split) /\ Trainable(split)}

(* The feature schema of a model: its names, which stand for their hash too. *)
feature_names(specs) == DOMAIN computed(specs, <<>>)
=============================================================================
