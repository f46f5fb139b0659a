--------------------------- MODULE MCModelLifecycle ---------------------------
(***************************************************************************)
(* ModelLifecycle for TLC: two symbols over four days with a holiday and a   *)
(* half day, and four configurations: downloads into partitions and into a   *)
(* single file, trainings, and the governance of two or three models.        *)
(***************************************************************************)
EXTENDS ModelLifecycle

MCListing == <<"A", "B">>

At(date, hour, minute) == date * 1440 + Hhmm(hour, minute)

Wednesday    == Date(2024, 11, 27)
Thanksgiving == Date(2024, 11, 28)
HalfDay      == Date(2024, 11, 29)
Monday       == Date(2024, 12, 2)

(* The closes rise and fall; a bar of the half day comes after its close. *)
Closes10 == <<10, 12, 11, 13, 12, 14, 13, 15, 14, 16>>

Times ==
  <<At(Wednesday, 14, 30), At(Wednesday, 15, 30), At(Wednesday, 16, 30), At(Wednesday, 20, 30),
    At(HalfDay, 14, 30), At(HalfDay, 15, 30), At(HalfDay, 17, 30),
    At(Monday, 14, 30), At(Monday, 15, 30), At(Monday, 16, 30)>>

OffTimes == <<At(Wednesday, 13, 0), At(Thanksgiving, 15, 0), At(HalfDay, 18, 0)>>

BarAt(symbol, time, close) ==
  [symbol |-> symbol, timestamp |-> time, close |-> close, high |-> close, low |-> close,
   volume |-> 1, vwap |-> {}]

MCMarket ==
  FlattenSeq([s \in DOMAIN Listing |->
    [i \in DOMAIN Times |-> BarAt(Listing[s], Times[i], Closes10[i])]])
    \o [i \in DOMAIN OffTimes |-> BarAt(Listing[1], OffTimes[i], 10)]

(* The hours the exchange published for those days. *)
MCOpenHours ==
  {<<At(Wednesday, 14, 30), At(Wednesday, 21, 0)>>, <<At(HalfDay, 14, 30), At(HalfDay, 18, 0)>>,
   <<At(Monday, 14, 30), At(Monday, 21, 0)>>}

Days(first, last) == <<first * 1440, last * 1440 + 1439>>

Whole == Days(Wednesday, Monday)

Training ==
  [symbols |-> {"A", "B"}, window |-> Whole, specs |-> <<[name |-> "sma", window |-> 2]>>,
   horizon_bars |-> 1, up_threshold |-> 0, down_threshold |-> 0,
   train_fraction |-> 5, validation_fraction |-> 3, test_fraction |-> 2, embargo_bars |-> 2,
   stage |-> "candidate", approved_by |-> Nobody]

Policy ==
  [require_approved_model |-> FALSE, allowed_model_stages |-> {},
   feature_names |-> {<<"sma", 2>>, <<"sma", 1>>}]

Setup ==
  [output |-> [layout |-> {}, path |-> FALSE], session_filter |-> TRUE, limit |-> 10,
   windows |-> {Whole}, max_downloads |-> 1, flushed |-> {0},
   requests_fail |-> FALSE, downloads_crash |-> FALSE,
   trainings |-> {}, max_models |-> 0, actors |-> {}, policies |-> {}]

Partitions ==
  [Setup EXCEPT
     !.windows = {Days(Wednesday, Wednesday), Days(Wednesday, Thanksgiving),
                  Days(HalfDay, Monday), Days(Thanksgiving, Thanksgiving)},
     !.max_downloads = 2, !.flushed = {0, 1}, !.requests_fail = TRUE, !.downloads_crash = TRUE]

(* The whole answer is longer than two pages; extended hours are kept. *)
SingleFile ==
  [Setup EXCEPT
     !.output.path = TRUE, !.session_filter = FALSE, !.limit = 5,
     !.windows = {Days(Wednesday, Wednesday), Days(Thanksgiving, Monday)},
     !.max_downloads = 2, !.requests_fail = TRUE]

(* Embargoes on both sides of what a horizon needs, one symbol and two. *)
Trainings ==
  [Setup EXCEPT
     !.windows = {Days(Wednesday, Wednesday), Days(HalfDay, Monday)}, !.max_downloads = 2,
     !.max_models = 1, !.downloads_crash = TRUE, !.flushed = {0, 2},
     !.trainings =
       {[Training EXCEPT !.embargo_bars = e, !.horizon_bars = h, !.symbols = s,
                         !.up_threshold = u] :
          e \in 0..3, h \in 1..2, s \in {{"A"}, {"A", "B"}}, u \in {0, 50}}]

Governance ==
  [Setup EXCEPT
     !.output.layout = {"single_file"}, !.limit = 40, !.max_models = 2, !.actors = {Nobody, "ops"},
     !.trainings =
       {Training,
        [Training EXCEPT !.stage = "approved", !.approved_by = "ops"],
        [Training EXCEPT !.stage = "approved"],
        [Training EXCEPT !.specs = <<[name |-> "sma", window |-> 1]>>]},
     !.policies =
       {[Policy EXCEPT !.require_approved_model = TRUE],
        [Policy EXCEPT !.allowed_model_stages = {"legacy", "validated"}],
        [Policy EXCEPT !.feature_names = {<<"sma", 1>>}]}]

MCSetups == {Partitions, SingleFile, Trainings, Governance}
=============================================================================
