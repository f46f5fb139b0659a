# qts in TLA+

A verification project for the trading system in `src/src/qts`: TLA+ modules of
the parts that keep state over time, TLC configurations that check them on small
instances, and theorems checked by TLAPS. Paths below are relative to
`src/src/qts` unless they begin with `src/`.

## 1. The system

A strategy sees bars and asks for trades; the risk engine sizes and refuses; the
execution engine turns accepted decisions into broker orders and keeps track of
them; broker events (order updates and fills) come back and are booked in a
portfolio. Three engines drive this: a backtest with a simulated broker, a paper
engine against a broker's paper account, and a live engine with safety gates.
All engines are single-threaded. What makes them hard is the broker: it moves
between any two calls, its answers get lost, and it reports the same execution
several times, in several forms.

| component | state | operations | interacts with | what is hard | what makes it correct |
|---|---|---|---|---|---|
| `execution/manager.py` | tracked orders | register, apply update, mark filled | execution engine | updates replace, fills add; both tell of the same shares | no share counted twice; one direction of the lifecycle; no fresh update refused |
| `execution/engine.py` | processed fill and event ids | submit, cancel, on_fill, on_order_update, on_broker_event, poll | router, manager | repeats, lost answers, unknown orders | idempotence; agrees with the broker in the end |
| `execution/events.py` | checkpoint | one sync loop run | source, handler | failure in the middle, early stop, order of events | an event is remembered only after it was applied |
| `integrations/alpaca`, `brokers/alpaca` | filled-quantity watermarks | trade updates to events, polls to fills | broker, engines | a fill is a difference between two reads; a read stops at the oldest 100 or 500 orders | the fills of an order cut its shares into disjoint pieces |
| `engines/paper_trading_engine.py` | booked fill ids, portfolio | bar, poll, sync, restart | all of the above | two channels, two reads per poll, failure between two ledgers | portfolio and orders hold what the broker executed |
| `portfolio/accounting.py` | cash, positions, ledgers, ids, snapshot | fill, mark, initialize, reconcile | engines | repeats, refused sells, commissions | ledgers explain cash and positions; profit explains equity |
| `brokers/backtest/brokerage.py` | orders, fills, cash, positions | submit, cancel, market event | backtest engine | price and size of a fill, expiry, cash at the time of the fill | no look-ahead, prices inside the bar and the limit, never overdrawn |
| `engines/backtest_engine.py` | the composition | one step per bar | decision pipeline | two ledgers for one truth | they agree after every bar |
| `engines/live_engine.py`, `monitoring/safety.py`, `monitoring/reconciliation.py` | configuration, running flag, stop latch, submissions | initialize, start, stop, bar, manual order | broker account | checks and orders are separate broker calls | gates hold when an order goes out; automation stops, and stays stopped |
| `engines/event_loop.py` | seen keys, last times | run | sources, handlers | reconnects that replay | each event handled once, in order per symbol |
| `engines/decision_pipeline.py`, `engines/features.py` | none of its own | one market event | portals, features, strategies, risk, portfolio | an event may end halfway with an exception | decisions follow from the bars seen so far, and nothing else |
| `risk/` | last trade times | evaluate, update after fill | decision pipeline | decisions of one bar judged on one snapshot; cooldowns by intent, not by fill | accepted decisions keep limits, cooldowns and sessions |
| `features/`, `strategies/` | bars so far; relation of the averages | update, on_data | decision pipeline | batch against online, where the history begins, warm-up, equality | no look-ahead; what looks back over a window is served as it was trained; each cross is told once |
| `brokers/ibkr`, `integrations/ibkr` | watermarks, cached requests | as Alpaca | as Alpaca | acknowledgements without quantities and times; coarser statuses | as Alpaca |
| `calendar/sessions.py` | none | session arithmetic | risk rules, loops, downloads | observed holidays, half days, daylight saving | tradable only while the exchange is open |
| `market_data/` portals | visible time, kept bars | advance, get bars | engines | look-ahead, trimming | backtest and runtime show the same past |
| `market_data/alpaca.py`, `providers.py` | files of bars | download, read | training, backtests | pages, partitions, crashes between files, overlapping windows | what is read is what was downloaded |
| `ml/` | model and manifest files | train, save, transition, load | strategies | two files per model, embargo against label horizon | nothing evaluated was trained on; only approved models run |
| `monitoring/health.py`, `recovery.py`, `reporting/`, `core/`, `workflows/`, `cli.py` | none or files | reports, wiring | | | out of scope (section 7) |

The hazards of this code, each at its line and with the properties that cover
it or the reason why none does, are listed in `PROJECT.json`.

## 2. The modules

```
OrderManager ── AlpacaBroker ─┬─ ExecutionEngine ── ExecutionEngine_proofs
      │                       │        ├ Booking (refined by both)
      │                       └─ IbkrBroker ── PaperTradingEngine ── PaperTradingEngine_proofs
      └──────┐
Accounting ──┴── BacktestBrokerage ── BacktestEngine ── BacktestEngine_proofs
   ├──────────── Portfolio ── Portfolio_proofs                  │
   ├──────────── Accounting_proofs ─────┴───────────────────────┘
   └── Sessions, MarketData, Features ── Strategies, RiskEngine ── DecisionPipeline ── DecisionPipeline_proofs
                 Features, BarStore ── ModelTraining ─┬─ ModelLifecycle ── ModelLifecycle_proofs
                                       ModelRegistry ─┘
LiveEngine, EventLoop ── LiveRuntime_proofs          StreamSource (used by MCEventLoop)
```

The proofs about `BacktestEngine`, `Portfolio`, `DecisionPipeline` and `ModelLifecycle` cite the
lemmas of `Accounting_proofs`. `LiveRuntime_proofs` extends both parts of a live process;
the state machine of `EventLoop` is prefixed there (`LoopInit`, `LoopNext`, `LoopSpec`).

Each MC module EXTENDS the specification of the same name and defines the
values its configuration gives to the constants.

* **OrderManager** (operators): what a tracked order becomes under a fill
  (`MarkFilled`) and under an update (`ApplyOrderUpdate`).
* **AlpacaBroker** (state and steps, external): an order at the broker is
  accepted, acknowledged, executed in pieces, cancelled, expired or rejected
  whenever the broker likes; two changes may carry the same time, and an execution
  has a time of its own (`filled_at`, which may be missing) before or at the time of the
  change. `older` is how many orders of the account precede it, which decides whether a poll
  reads it (`Listed`, `FillsRead`). The mapping of such an order to a domain order and to a
  fill delta is the repository's (`integrations/alpaca/mapping.py`).
* **ExecutionEngine**: the engine against the most general wire. `Observe` is an
  adapter that reads an order and emits an update and a fill delta; both stay in
  sets of emitted events, from which `OnOrderUpdate` and `OnFill` take any, in any
  order. A submission or a cancel whose answer is lost leaves the engine unaware.
  `Restart` forgets everything but the broker.
* **Booking** (abstract): the broker executes shares, we book them, some or all at
  a time, never one twice and never one that was not executed, and take nothing back but
  by starting over. `ExecutionEngine` and `PaperTradingEngine` each state that they
  implement it (`ImplementsBooking`): for the first, booked are the shares the
  `OrderManager` counts, for the second those the portfolio has booked.
* **IbkrBroker** (operators): what the IBKR adapter makes of the same broker. Its
  acknowledgement has no quantities and is stamped with the time of looking, an order in
  execution is still `Submitted`, a cancel in flight already `Cancelled`.
* **PaperTradingEngine**: the same events through the engine's real channels. A
  poll is two actions, `ReadOrders` and `FinishPoll`, as it makes two broker calls,
  and `AbandonPoll` is the failure of the second. `OrderIsPolled` and `FillsArePolled` are
  the limits of the two. What a poll read is a set of fills,
  applied first, and a set of updates, with at most one of each for an order. `Sync` is a
  whole run of the sync loop over a source that replays the broker's trade updates, with
  its checkpoint and `max_events`: `SyncMessage` is what one trade update does to the
  loop, the recursive function `SyncRun` the loop after each of them. `ApplyFill` books
  into the portfolio, reduced to the `shares` booked per order and the fill ids in its
  `trade_ledger`. `BookingFails` lets the step between engine and portfolio raise; then
  `FailedBookings` and `FailedSyncs` are the engines that are left. Which of the two
  vendors it trades with is chosen at the start.
* **Accounting** (operators) and **Portfolio**: the ledger, and the ledger on its
  own under any calls.
* **BacktestBrokerage** (operators): submission, expiry, triggers, prices,
  quantities, settlement. **BacktestEngine**: `Step` is one bar from the broker's
  fills to the submissions; `ComesNext` is the order of the replay, by time and then by
  symbol, so that a decision may be followed by another symbol's bar of the same time;
  `Cancel` is the execution engine's.
* **LiveEngine**: a call of `submit_live_order` is several actions, one per broker
  call (`ReconcileBefore`, `Place`, `ReconcileAfter`), between which the account may
  move (`Execute`, `Deposit`) or the process die (`Restart`). `CallRaises` is any
  failure. `Initialize` may fail after any of its steps and leaves what it did.
* **EventLoop**: `RuntimeEventLoop.run`. The vendor's feed is any sequence of
  events; a source stands at a position of it and yields the next event once its
  time has come. An event is skipped (`SkipDuplicate`, `SkipOutsideSession`), ends the
  run (`FailCheck`) or reaches the handler (`Dispatch`, which may raise). What each
  stage remembers is an operator of its own (`Filtered`, `Ordered`, `Checked`), because
  a check that raises leaves what the stages before it have noted. `Reconnect` is a
  disconnect at any point; the new source replays from any earlier position or goes
  on at a later one, as the factory likes. `GiveUp` is any other end of the source.
* **StreamSource** (operators): the events `AlpacaStreamEventSource` yields of the
  messages a connection delivers; `MCEventLoop` makes its feeds with it.
* **Sessions**, **MarketData**, **Features**, **Strategies**, **RiskEngine** (operators): the
  calendar from the arithmetic of dates up; the two portals; the eleven indicators in the
  batch and online; the strategies with their memory; sizing and the eight rules in
  their order. An operator that may return `None` returns a set of at most one value.
* **DecisionPipeline** composes them with `Accounting`: `OnBar` is `on_market_event` for a
  bar, from the fills of earlier orders over the mark, the features and each strategy's
  answers to the judged intents, including the exceptions that end it halfway
  (`MissesFeature`, `Raises`); `OnQuote` only marks. The broker around it is reduced to
  a settlement at the symbol's next bar; the orders that wait for it are kept per symbol.
  `setup.past` are bars from before the engine began: a training reads them together with the
  engine's own (`TrainedOn`), while the engine starts with none.
  `PipelineAssumption` says what the code enforces of its inputs: events in the order of
  time, prices above zero (a `Fill` raises for less), policies that pass validation.
* **BarStore**, **ModelTraining**, **ModelRegistry** (operators): files of bars; labels,
  dataset, split and leakage check; artifact, manifest and stage policy.
* **ModelLifecycle** composes them: a download is several actions, one per page and two
  per file (`OpenFile` truncates it, `CloseFile` completes it), and may stop between any
  two; `Train` reads whatever the files hold at that time; a save is two writes (`Train`,
  `SaveManifest`) with `CrashTraining` in between; `Transition` is a person at the
  registry; `Load` and `Unload` a runtime. `LifecycleAssumption`: the vendor has one bar of a
  symbol and a time; limits, layouts, horizons and fractions are what the code accepts.

## 3. What the runs check

| run | states | what it shows |
|---|---|---|
| `execution` | 597 thousand | the shares counted are executed shares (`NeverOvercounts`), completion (`FilledMeansFilled`), freshness (`FreshSnapshotIsTracked`), direction (`LifecycleNeverRegresses`), agreement in the end (`EventuallyAgrees`) and the refinement of `Booking`, for one order, one adapter and a broker that cancels at once. `SharesInv` is the inductive invariant of the proof. |
| `async_cancel` | violation | the first finding |
| `event_loop` | 253 thousand | each event handled once and in order, no gap passes a loop that fails closed, nothing lost to a replay, and every run ends with its sources closed |
| `portfolio` | 156 thousand | ledgers, ids and profit |
| `backtest` | 131 thousand | two ledgers, one truth; no look-ahead, also between symbols with bars at one time; prices inside the bar |
| `backtest_stale_open` | violation | the fourth finding |
| `paper` | 1.2 million | the refinement of `Booking`, `NeverOvercounts`, `CheckpointedIsBooked`, `QuietPollCatchesUp` and `EventuallyBooked` for both vendors and a deployment that polls or one that syncs |
| `paper_lost_fill` | violation | the second finding |
| `paper_two_channels` | violation | the third finding |
| `live` | 1.2 million | gates, the latch and the limit of one unmatched order |
| `decisions` | 17 589 | no feature looks ahead, those of a window are served as they were trained, and models act on what they are served (`ServedLikeTrained`), both portals show the same past (`PortalsAgree`), signals are the crosses (`SignalsAreCrosses`), and what is accepted keeps cooldowns, opening hours and position limits (`CooldownKept`, `AcceptedInSession`, `PositionsStayLimited`) |
| `training` | 24 217 | providers read what was downloaded (`ReadsWhatWasDownloaded`), no training sample reaches into an evaluation (`NoLeakage`), a runtime that insists on approval gets an approved model (`ApprovedIsLoaded`) |

Every property of a passing run has a mutant in `PROJECT.json`: a plausible
mistake in one definition that makes TLC find the property violated. The
mistaken operators stand before the right ones, marked `Mistake`.

### Bounds, and why they are enough

* One order in `execution` and `paper`: tracked orders, watermarks and ids are
  kept per order. Orders share the broker's clock, the checkpoint's time and the pages of
  a poll. The pages are in the instance, as the number of older orders: `Older` is 0, 100
  and, in `paper`, 500, so the order is within both limits, beyond the first or beyond both.
  Two orders at once would matter to the checkpoint's ordering rule only.
* Three shares allow three executions, the fewest with one inside a polled
  delta, one before and one after. A notional order buys up to two.
* `MaxTime` 3 in `execution` and `paper`, from 1: at least two executions at distinct times
  and two at the same, and one dated before its update.
* Both vendors in `paper`; an engine polls or syncs (`Channels`), as one that does both is the third
  finding. The code polls after every bar and syncs when told to, so one that only syncs is one
  that is given no bars once its orders are placed.
* One restart: a second finds nothing the first did not, since nothing persists.
* `portfolio`: three booked fills and ids that may repeat with other content; prices
  are multiples of 60 and quantities at most two, so each average cost is whole.
* `backtest`: two orders out of eight shapes (market, limit, stop, stop limit, by
  quantity and by notional, DAY and GTC, one of them on the second symbol) at three times in
  two days, each with a bar of one symbol or of both, a cap of 40 shares that splits the
  fills of 60. Prices divide all amounts.
* `event_loop`: feeds of up to three out of five events of two symbols, two of which
  differ in content only; two reconnects, so a replay of a replay happens; gaps of 1, 2
  and 3 around a timeout of 1; six policies, each the strict one with one part changed.
* `live`: three orders, two decisions a bar, one deposit, one restart: an
  automated order that is executed, one after it and a manual one. Five
  configurations, each with one gate closed.

* `decisions`: ten setups of strategies, policy and times, four to nine events each, and
  every assignment of one to three shapes of bar to them: enough for a cross, a cross
  back, equality in between, two answers to one bar, a cut to the limit, an addition to
  a position, a window that leaves its warm-up, a model called up and down. Closes are 12,
  24 and 36, so that all averages are exact in the unit. Four setups have a past of three bars that only
  a training reads, with features of both kinds; with `ema` among `WindowFeatures` the run fails.
  The calendar's setups look at the days that are hard: an observed holiday, both sides of a
  change of the clocks, Good Friday, a half day, each at the edges of its session. Their hours
  (`MCOpenHours`) are the exchange's own, written down apart from the operators.
* `training`: two symbols over four days with a holiday and a half day, ten bars each;
  four setups. `setup.limit` makes an answer one to five pages long; `max_downloads` is two,
  so a window is downloaded again, beside or into another one; one cut-off download
  (`torn`), after which a file holds the first `setup.flushed` rows; embargoes 0 to 3 around
  what horizons 1 and 2 need for one symbol and for two; `max_models` two, one model to be approved
  and one to replace it.

All passing runs set `CHECK_DEADLOCK FALSE`: the systems may stop, since clocks,
orders, bars, downloads and models are bounded.

### Fairness

Only the three liveness properties need any. `ExecutionEngine` is weakly fair in
observing each order that a poll lists (`Listed`) and in handling updates: the paper engine polls
after every bar and a poll hands every event it got to the engine. No fairness is asked of
`OnFill`: the final order update brings the shares. `PaperTradingEngine` is weakly
fair in starting a poll and strongly fair in a poll returning: an answer may be lost
any number of times but not for ever. The broker is never fair: it may leave an order
open, and `EventuallyAgrees` and `EventuallyBooked` speak of closed orders only, and of those
the polls read.
`EventLoop` is weakly fair in time and in the source yielding what has been sent: the
loop has no wait of its own. Disconnects and failures are not fair; that they end is
the count of attempts.

## 4. What is proved

`ExecutionEngine_proofs`, for any set of orders, quantities and bounds:

* `TypeCorrect`: `Spec => []TypeOK`.
* `SharesAreInvariant` and `SharesCountedOnce`: with one adapter and `~AsyncCancel`,
  `Spec => []SharesInv` and so `Spec => []NeverOvercounts`.

`NeverOvercounts` is not inductive: that a fill may be added depends on which
shares were counted already. The strengthening `SharesInv` numbers the shares of an order
in the order of their execution. `WireInv` says of the events that fills cut the
shares into disjoint intervals and every snapshot ends between two of them, with
times in the same order. `CountedInv` says there is a set of shares that the tracked
order has counted: those of the last snapshot it took and those of the fills
added since, such that a fill still to come is either disjoint from the set or
within the snapshot and no newer, so that `mark_filled` skips it. Both
hypotheses are needed: with two adapters, or with executions after the answer to
a cancel, intervals overlap; the runs `paper_two_channels` and `async_cancel` show it.

In the same module, under the same hypotheses, `EngineImplementsBooking`:
`Spec => ImplementsBooking`. Initial states map to the initial state; a step of the
broker is an `Execute`, a fill, update or cancel a `Book`, a restart `StartOver`, and
the rest stutter. That a fill books nothing beyond what was executed is
`NeverOvercounts` of the next state; that nothing is taken back follows from the staleness
rules one by one. Then `FilledIsFilled` (`FilledMeansFilled`), `LifecycleIsMonotonic`
(`LifecycleNeverRegresses`) and `FreshestWins` (`FreshSnapshotIsTracked`).
`LifecycleInv` says how a tracked order, the snapshots under
way and the broker's order lie to each other: a closed one agrees with the broker, one
in execution is no further than it. `RankInv` adds the ranks of statuses, which the third
staleness rule compares, and `Behind`, which `SharesInv` implies, that a fill still to
come cannot move an order that is already the newest snapshot.

`PaperTradingEngine_proofs`, for any orders, quantities, vendors and bounds:

* For an engine that polls or syncs (`Channels \subseteq {"poll", "stream"}`),
  with failures of booking, orders beyond the reach of a poll and restarts:
  `CountsOnlyExecuted` (`NeverOvercounts`), `BooksOnlyExecuted` (`NeverOverbooks`) and
  `BooksAsPromised`, `Spec => ImplementsBooking`. An engine that does both is the third
  finding (`paper_two_channels`), so the hypothesis is needed.
* For any channels, both included, and `BookingFails = FALSE`: `RememberedIsBooked`
  (`CheckpointedIsBooked`); without the hypothesis it is the second finding (`paper_lost_fill`).

The inductive invariant `Inv` has a part per channel. `PollInv`: all that an engine that
polls counts, in order manager and portfolio, is within the adapter's watermark, and
that within what was executed; a fill is what lies between the two and moves the
watermark along, so that it may fail to be booked and yet never be booked twice. `StreamInv`:
there is a p such that an engine that syncs has been through the first p messages of the log
(`Replayed`): the ids of their fills are recorded with both the execution engine and the paper
engine, what is counted is `Within` what they tell, and at most the order of message
p + 1 is `Ahead`, with its snapshot taken and its fill still to come. A new sync starts
its watermarks from nothing and replays all messages; each of its fills is either one the
engine has recorded and skips or exactly the next one (`OnTrack`, by induction on the
messages). `Remembered` closes the circle with the checkpoint: what it skips is recorded as well.

`Accounting_proofs` holds what the two components with a portfolio cite: `_apply_fill`
and `mark` on every shape of portfolio, and the sums and folds these rest on. The
provers cannot instantiate a theorem that takes a formula, so that inductions here
are over a set, which is a value: the numbers, or the subsets of a finite set, for
which the formula holds (`SetInduction` and `SubsetInduction`, from the least element of a set of
numbers). With them a fold over a set does not depend on its order (`AnyOrder`), sums
change by a summand (`SumChange`), and a fold from the left has a run that an invariant
can be carried along (`LeftRun`, `RunInduction`). Sorting is counting there: a finite set whose
members have different keys is numbered by how many keys lie below each (`Ranked`), which
is what `sorted` makes of rows (`SortedByFacts`).

`Portfolio_proofs`, for any symbols, fills, prices and bounds: `TypeCorrect`,
`FillsBookedOnce` (`BookedOnce`), `CashIsExplained` (`CashLedgerExplainsCash`),
`SharesAreExplained` (`TradeLedgerExplainsPositions`) and `ProfitIsExplained`
(`ProfitExplainsEquity`), from the inductive `BooksInv`: the ledgers keep their shape, each
id in the trade ledger is among those processed,
the last entry of the cash ledger is the account's cash, the trades of a symbol add up to
its position and the last snapshot is current. A fill adds one cash entry or two,
the second from the commission, and the first is computed backwards from the final
cash: that the chain holds through both is the arithmetic of the proof.
`ProfitIsExplained` needs one hypothesis, `WholeCosts` in every state: the quotient that is
the average cost is not rounded by any fill that could come next. The code rounds it to
28 digits, and the identity then holds up to that error. The strengthening `CostsBalance`
says of cash, realized profit and the costs of the positions what the property says of
equity: marks move equity and the unrealized profit by the same amount.

`BacktestEngine_proofs`, for any symbols, bars, requests and bounds: `TypeCorrect`,
`BooksMirror` (`PortfolioMirrorsBroker`), `FillsCounted` (`FillsAreCounted`), `FillsTimely`
(`FillsAreTimely`, with any number of symbols at one time: a decision on one symbol's bar may be
followed by a bar of the same time, of the symbol it ordered, and only the broker's comparison of that time with
`created_at` keeps it from filling there), `FillsInsideTheirBar` (`FilledInsideTheBar`) and `Solvent`
(`NeverOverdrawn`, where no sale at a bar's price brings in less than its commission,
`ProceedsCover`; the broker checks the cash of purchases only). One bar is four folds, over the
broker's orders, its new fills in the portfolio, the same in the order manager, and the
decisions. The broker's keeps an invariant after every prefix, `BarPrefix`: each order has made
an `OrderStep` or, beyond the index, is untouched, and every new fill is inside the bar and
within its order's limit. The others are unfolded into runs (`BookRun`, `TrackRun`,
`SubmitRun`), along which ledger and order manager are compared with the broker. `Inv`
then relates the two ledgers, the tracked orders and the fills at the end of a bar:
both sides book the same fills from the same cash and costs, so
`Mirrors` is exact even where both round.

`DecisionPipeline_proofs`, for any configurations, strategies and answers of theirs:
`PipelineInvariant` and, from it, `DecisionsApart` (`CooldownKept`), `AcceptedWhileTradable`,
`DecisionsInSession` (`AcceptedInSession`) and `PositionsLimited` (`PositionsStayLimited`).
One bar is three folds: orders are settled, strategies consulted, their requests judged.
Each fold has a lemma that it runs from left to right and one that says what it keeps, exceptions
halfway included. `PipelineInv` has a part per promise:

* `DecidedInTime`: decisions are stamped with the times of handled events, in their order.
* `Apart`: the last trade time of a strategy and a symbol is no earlier than any accepted
  decision of theirs, and accepted ones are a cooldown apart. A fill is recorded under no
  strategy, so that it cannot set a strategy's memory back.
* `InSession`: what is accepted passed the session service at the time it was stamped with.
* `PendingJudged` and `FillsDecided`: an order that waits is an accepted decision of the symbol's
  last bar, judged on the position it will be added to; each fill belongs to its decision.
* `PositionsBounded`: the position after the fills of a bar. Each order keeps the limit by
  itself (`Limited`), against one snapshot; so the buys of a bar keep as many limits as
  there were buys, at the lowest price one was judged at, whichever of them fill.

`DecisionsInSession` has a hypothesis, `HoursAreOpen`: the calendar of the code agrees with the
exchange's hours at the times of the events. It is a finite table, and on the table of the
instance (holidays, half days, changes of the clocks) it is what the run checks.

`PortalsShowTheSame` (`PortalsAgree`) is about the two data portals. The histories they hold are
described by the places of the events in the feed (`Lists`): a list filtered by symbol or by
time lists the filtered places, one more bar adds a place, a trimmed bar takes the first place of
its symbol, and two lists of the same places are equal. `PortalInv` says that the replay
portal stands at the last handled event and the runtime portal keeps, of each symbol, the last
bars handled, all of them without a limit. What the runtime portal shows is then the
end of what the replay portal shows. The hypothesis `BarsComeFirst` is needed: of a symbol and a
time, the feed has a bar before anything else, as it has in every feed the providers
replay. Had a quote of the same time come first, the backtest would show the bar that is still
to come. TLC evaluates it on the instance.

`CrossesAreTold` (`SignalsAreCrosses`) and `ServedAsTrained` (`ServedLikeTrained`) are about the
rows of features. Two lists of bars of which one goes on as the other (`Begins`) give series of
which one goes on as the other (`Follow`), for each of the eleven indicators: each value is made
from a window that ends at its own bar (`SameWindow`), or from everything up to it
(`Exponential`, `Wilder`). So it is for the columns of any list of specs (`ComputedBegins`), and the
rows over the first n events of a feed are the beginning of the rows over all of them (`RowsFollow`).
`ServingInv` is the inductive invariant: the online bars are the bars handled and so the online
record is the last row (`BarHeard`); a moving-average strategy remembers of a symbol the relation in
its last row and has told the crosses of the rows so far (`Tracks`); a strategy with a model has
told the rows its model calls (`Serves`). The training read other bars before the engine's, so
that its list has the engine's at its end (`Ends`); of a window both see the same bars or the engine
too few (`EndWindow`), and a column of `WindowFeatures` is equal or still missing (`IndicatorEnds`,
`RowsEnd`). The other indicators begin with the first bar there is and are excepted. A bar adds
one row of its symbol and asks each strategy once; what others are asked, and what they answer,
changes neither (`ConsultTells`). Two hypotheses: `DistinctStrategies`, as requests carry no more
than the id of their strategy, and the code does not refuse two of one id; and, to find a row of
the whole batch by its time, `BarsComeFirst`. TLC evaluates both on the instance.

`ModelLifecycle_proofs`, for any market, configuration and bounds:

* `ModelsAreApproved` (`ApprovedIsLoaded`) from `ApprovalsAreRecorded`
  (`Spec => []RegistryInv`). `RegistryInv` numbers the models: nothing in the registry or on its
  way into it is of a training still to come, and a manifest that says approved and belongs to
  the model beside it records an approval. Without the numbers a new model could inherit the
  approval of one with the same `trained_at`.
* `TrainedOnThePast` (`NoLeakage`), from `LearningInv`: the files hold what a provider may read
  (`StoreTyped`) and no model in the registry leaks. The check before the fit compares
  training with validation and validation with test. Training before test follows through
  a validation sample, of which there is one in every split: a label ends no
  earlier than its own bar, since a dataset is labelled from the sorted bars of one symbol.
* `ReadOnceEach` (`ReadsWhatWasDownloaded`), from `StoreInv`: unless a download stopped between
  its writes, each bar of the windows downloaded is in the files once (`KeptWhole`), whatever the
  partitions, the order of the windows and their overlaps. The hypothesis `SessionsAreOpen` says
  that the session filter agrees with the exchange on the bars of the market, again a finite table.

`LiveRuntime_proofs` has the theorems on the two halves of a live process.

`LiveEngine`, for any configurations and bounds: `TypeCorrect`,
`AutomationStaysStopped` (`StoppedForGood`), `AutomationKnowsItsOrders`
(`NoUnknownOrder`), `OrdersPassTheGates` (`PlacedThroughTheGates`) and
`OneUnmatchedOrder` (`AtMostOneUnmatchedOrder`). Two strengthenings carry them.
`CallInv`: inside a call the gates that were open when it began still are, since
nothing between the gate and the order changes configuration, running flag
or latch; and automation has recorded what it placed, is placing it, or is stopped. `MatchInv`: a
mismatch does not heal within a process, because an executed order stays executed and a deposit
only adds; therefore the reconciliation that follows an unmatched order fails, and what fails
stops automation.

`EventLoop`, for any feeds, policies and bounds: `LoopTypeCorrect`,
`HandlesOnceInOrder`, `HandlesWithoutGap` and `LosesNothing`, all from one inductive
invariant `IInv`. Its parts relate what the loop remembers to what it has handled.
`SeenInv`: a handled event is among those seen. `LatestInv`: a symbol's last time is
no earlier than any handled event's. `HeartbeatInv`: while the loop runs, the last
heartbeat came from the event handled last; a check that raises breaks this, and ends
the run. `ProgressInv`: while the loop runs, whatever it has seen and
whatever lies before its position is handled or of no session. That is why the
key may be remembered before the checks: an event that was seen and not handled
has ended the run.

Assumptions are those the modules state about their constants. TLC has checked
the strengthenings on the small instances before they were proved.

Model-checked only:

* liveness, as fairness and ENABLED are out of the prover's reach: `EventuallyAgrees`,
  `EventuallyBooked` and the end of the event loop's runs;
* `QuietPollCatchesUp`, which needs of the paper engine not only that nothing counts
  twice but that nothing is left out, for each vendor's statuses.

Folds, sums and recursive functions are not out of reach, as the proofs about accounts,
bars and replays show; RECURSIVE operators are, and no module with a theorem uses one.

## 5. Where code and documents disagree

1. **Shares after a cancel** (`async_cancel`). `cancel_order` tracks the broker's
   answer, `pending_cancel` as CANCELED; executions that follow reach the engine as
   a delta larger than what the answer left to come.
2. **A lost fill** (`paper_lost_fill`). `_apply_fill` records the fill id before the
   two calls that may raise; the retry skips it and the checkpoint remembers it.
3. **Two channels** (`paper_two_channels`). Polls and trade updates keep separate
   watermarks and so give the same shares different fill ids.
4. **Stale open orders** (`backtest_stale_open`). Expiries and rejections by the simulated
   broker on a bar never reach the order manager.

`PROJECT.json` quotes the lines. One remark without a finding: `src/INTERFACES.md:782`
lets a stopped automation resume when the configuration is reset; the code is
stricter, as `initialize` keeps the latch and only a new process clears it. The
model and `StoppedForGood` follow the code.

What the properties except by name is behaviour of the code a reader should know of: a save that is
cut off between artifact and manifest, or whose manifest is refused, leaves the old approved
manifest to vouch for the new model (`ApprovedIsLoaded` holds where `created_at` matches
`trained_at`, which the code never compares); strategies that buy at one bar are judged on one
snapshot, so k of them may reach k times a limit (`PositionsStayLimited`); a notional order is
complete with its first fill (`FilledMeansFilled`, `TracksBroker`); in a backtest with slippage and a
cap on fills its buys may already hold more than a later, dearer bar would make its quantity, so that
`FillsAreTimely` speaks of the quantity it has by then; a market order with a `limit_price` ignores
it (`FilledInsideTheBar`); an IBKR order in execution is
caught up in the portfolio, not in the order manager (`TracksBroker`); a limit on positions does not
bind buys sized as a notional (by the sizing method or a target), which buy more shares than it
allows when they fill below the price they were judged at (`PositionsStayLimited`); and a download
that was cut off leaves files of which `ReadsWhatWasDownloaded` says nothing.

Three more are limits of the code that the properties are confined to:

* An Alpaca poll lists the 100 oldest orders of the account, as `list_orders` passes no limit and
  `direction="asc"` (`brokers/alpaca/brokerage.py:133`, `integrations/alpaca/client.py:183`), and
  reads the fills of the 500 oldest (`brokerage.py:165`; the engine polls with `since=None`,
  `paper_trading_engine.py:225`). On an account with more orders the polls update none of the later
  ones, and then book none of their fills (`EventuallyAgrees`, `EventuallyBooked`, `PollCaughtUp`).
* A fill is stamped `filled_at` (`integrations/alpaca/mapping.py:138`), its order's update
  `updated_at`. When the broker dates the execution earlier, the trade update's fill is out of order
  behind its own update and ends the sync, now and at every retry (`NoFillIsDatedBack`).
* An engine starts with no bars (`features/pipeline.py:65`), a training reads a window of its own
  (`workflows/training.py:48`): ema, rsi, atr, macd and vwap, which go on from the first bar, are
  served with other values than a model was trained on. `src/INTERFACES.md:185` promises consistent
  names and types only, so that no finding is made of it (`WindowFeatures`).

## 6. Abstractions to know about

* Quantities are whole numbers; the code's tolerances (1e-9, 1e-6) are exact
  comparisons. Average costs are quotients that the instances keep whole; both
  ledgers of a backtest round alike.
* The broker answers a submission with nothing filled yet, and every read with its
  present state. It dates an execution no earlier than any change of the order that it has
  shown before (`filled_at` is the present time or missing), and the change itself then or a
  moment later. The number of older orders of an account (`older`) does not change.
* `cancel_order`'s fallback to a cached order, for a broker that answers a cancel with nothing and
  then does not know the order, is not modelled.
* `ExecutionEngine.Observe` reads update and delta together (as a trade
  update does); `PaperTradingEngine` separates the two reads of a poll.
* An IBKR order in execution always has an average price, and its watermark moves on
  with the fill that is cut from it.
* In `PaperTradingEngine` a bar's submission and its poll are separate actions,
  the poll a sequence of two; only buys, at one unit a share.
* `LiveEngine`: only buys, no injected portfolio; the safety checks other than the five
  flags (symbols, caps, account, session) are a refusal that may happen to any
  request. The account is read before the positions, so a move between the
  two reads shows as a mismatch, as if it had come before both. Configuration
  changes only through `initialize`. The accepted order of a bar's decisions is kept, their
  content is not.
* `BacktestEngine`: bars only; decisions are any of the instance's requests. Of a symbol and a
  time the replay has one bar, as `rows_to_bars` refuses a second one of the same interval
  (`market_data/normalization.py:57`). A file that mixes bar intervals, read without
  `bar_interval`, would have two, and then `FillAlreadyReflected` may take a second partial fill of
  one time for a repeat of the first.
* `DecisionPipeline`: the engine around it settles an accepted order at the symbol's next bar, at
  its low or high, all of it or nothing; fractions of a share are dropped. Features are
  integers in a unit (`Unit`), divisions and roots round down, in the batch and online
  alike. `regular_session_only` is TRUE in all configurations, its default. A sizing amount
  of zero, for which the code raises, would be taken as it is: the instance has none. Specs
  that are given are not empty: an explicit empty list is not distinguished from none. Injected
  strategies stand for strategies of one's own: they answer by the close. Intents are for the
  symbol of their event, as the built-in strategies' are.
* `ModelTraining` leaves out the values of features, so weights, metrics and
  thresholds of the fit; `Strategies` takes a model's weights as given, and its thresholds in
  terms of the score instead of the probability, which grows with it. A model's schema version and
  the order of its `feature_names` are reduced to the set of names it needs.
* `BarStore`: file names follow the default template, by start and end of the window, in one format.
* `ModelLifecycle`: a torn last line of a file counts as unwritten; each operation of the
  registry but a save is one step; one model id; one timeframe without adjustments, as CSV.

## 7. Not modelled, and why

Reporting, configuration, logging, workflows (but download and training) and the command
line keep no state over time: they parse, wire and write results. The fitting of weights and
metrics is numerics the rest does not depend on: the pipeline is checked with given
weights. HTTP clients, credentials and file formats are I/O. `health_check`, metrics and
alerts report and change nothing; `RecoveryManager`, which no engine creates, emits an alert
and calls `stop`, which `LiveEngine` has. Quote and trade events to the simulated broker, the
optional gap policy of the sync loop, `replace`-style broker calls, walk-forward splits,
the third-party calendar and navigation between sessions are not used by the engines'
defaults.

## 8. Plan

Done, in this order: the event path of orders and fills, the composition with accounts
(backtest, live), the event loop, the second vendor, the abstract `Booking` and its
refinements, the decision pipeline with all it judges and reads, and the path from
downloaded bars to a loaded model.

What is left, in the order of what it would add:

1. `PaperTradingEngine` with the real portfolio: cash after a restart, sells, and
   prices of deltas. It multiplies the states by those of `Portfolio`, so it wants the bounds
   of both reduced.
2. Several symbols per event in `DecisionPipeline`, with intents for another symbol
   than the event's: `market_price` prices them with the event's price (`risk/rules.py:409`).
3. Several timeframes in one directory of bars: `train_from_mapping` reads them together
   (`workflows/training.py:48`).
4. Proofs: `QuietPollCatchesUp`.
