-------------------------- MODULE PaperTradingEngine --------------------------
(***************************************************************************)
(* The PaperTradingEngine keeps its orders and its portfolio in step with an *)
(* Alpaca or IBKR broker through two channels: polls (poll_broker_updates,   *)
(* after every bar) and order updates (sync_broker_events, with a           *)
(* checkpoint).                                                              *)
(* Every order buys; a share costs one unit, so the shares booked for an     *)
(* order stand for the portfolio's cash and positions alike.                 *)
(***************************************************************************)
EXTENDS IbkrBroker, Sequences

CONSTANTS
  NoOrder,       \* "the OrderManager does not know this order"
  NoPoll,        \* "no poll is in progress"
  Vendors,       \* whose broker it is: "alpaca" or "ibkr"
  Channels,      \* what feeds the engine: "poll", "stream" or "both"
  BookingFails,  \* a fill may fail between the engine and the portfolio
  MaxRestarts    \* bound on process restarts

ASSUME VendorAssumption  == Vendors \subseteq {"alpaca", "ibkr"}
ASSUME ChannelAssumption == Channels \subseteq {"poll", "stream", "both"}

VARIABLES
  vendor,      \* the broker of this deployment
  channel,     \* the channels of this deployment
  log,         \* every trade update the broker has sent, oldest first
  seen,        \* the adapter's _filled_quantities_by_order_id
  snapshots,   \* the orders the first read of the poll in progress returned
  engine,      \* the state of the PaperTradingEngine and its parts
  restarts

deployment == <<vendor, channel>>

vars == <<brokerVars, deployment, log, seen, snapshots, engine, restarts>>

(* create_brokerage picks the adapter that reads the broker's orders. *)
OrderToDomain(b) ==
  IF vendor = "ibkr" THEN ibkr_order_to_domain(b) ELSE alpaca_order_to_domain(b)

FillDelta(o, b, previous_filled_quantity) ==
  IF vendor = "ibkr" THEN ibkr_order_to_fill_delta(o, b, previous_filled_quantity)
                     ELSE alpaca_order_to_fill_delta(o, b, previous_filled_quantity)

(* Events.  A fill's id is its order and the cumulative quantity, and names the
   broker event too; an update's id is all it says. *)
FillOf(f) ==
  [type |-> "FILL", order |-> f.order, quantity |-> f.quantity,
   cumulative |-> f.cumulative, timestamp |-> f.timestamp]

UpdateEventOf(o, b) ==
  [type |-> "ORDER_UPDATE", order |-> o, snapshot |-> OrderToDomain(b),
   timestamp |-> b.updated_at]

EventId(event) ==
  IF event.type = "FILL"
  THEN [order |-> event.order, kind |-> "FILL", filled |-> event.cumulative, timestamp |-> 0]
  ELSE [order |-> event.order, kind |-> event.snapshot.status,
        filled |-> event.snapshot.filled_quantity, timestamp |-> event.timestamp]

Nothing == [o \in Orders |-> 0]

NewEngine ==
  [orders                     |-> [o \in Orders |-> NoOrder],
   processed_broker_event_ids |-> {},
   processed_fill_ids         |-> {},
   shares                     |-> Nothing,
   trade_ledger               |-> {},
   processed_event_ids        |-> {},
   last_event_timestamp       |-> 0]

Init ==
  /\ BrokerInit
  /\ vendor \in Vendors
  /\ channel \in Channels
  /\ log = <<>>
  /\ seen = Nothing
  /\ snapshots = NoPoll
  /\ engine = NewEngine
  /\ restarts = 0
-----------------------------------------------------------------------------
(* ExecutionEngine.on_broker_event; a fill for an unknown order raises. *)
Raises(e, event) == event.type = "FILL" /\ e.orders[event.order] = NoOrder

Applied(existing, event) ==
  CASE event.type = "FILL" -> MarkFilled(existing, event)
    [] event.type # "FILL" /\ existing = NoOrder -> event.snapshot
    [] OTHER -> ApplyOrderUpdate(existing, event.snapshot)

OnBrokerEvent(e, event) ==
  IF EventId(event) \in e.processed_broker_event_ids \/ Raises(e, event) THEN e
  ELSE [e EXCEPT !.orders[event.order] = Applied(@, event),
                 !.processed_broker_event_ids = @ \cup {EventId(event)}]

(* _apply_fill: the id is recorded, then the broker is asked for the order,
   then the portfolio books the fill.  Either of the two may raise. *)
(* Mistake: one fill per order. *)
AppliedToOrder(e, fill) == \E id \in e.processed_fill_ids : id.order = fill.order

AlreadyApplied(e, fill) == EventId(fill) \in e.processed_fill_ids

RecordFillId(e, fill) == [e EXCEPT !.processed_fill_ids = @ \cup {EventId(fill)}]

ApplyFill(e, fill) ==
  IF AlreadyApplied(e, fill) THEN e
  ELSE [RecordFillId(e, fill) EXCEPT !.shares[fill.order] = @ + fill.quantity,
                                     !.trade_ledger = @ \cup {EventId(fill)}]

(* broker_events_from_poll sorts what a poll read: all fills, then all order
   updates, each by time.  A poll has at most one of each for an order, and those
   of different orders leave each other alone, so that only this much of the
   sorting matters. *)
(* Mistake: order updates first. *)
UpdatesFromPollFirst(updates, fills) == <<updates, fills>>

EventsFromPoll(updates, fills) == <<fills, updates>>

(* IBKR hands out all orders of the account, Alpaca only its oldest. *)
OrderIsPolled(o) ==
  /\ broker[o].status # "none"
  /\ vendor = "ibkr" \/ Listed(o)

FillsArePolled(o) == vendor = "ibkr" \/ FillsRead(o)

(* The fill deltas of poll_fills, and the watermark it leaves behind. *)
PolledFills ==
  UNION {{FillOf(f) : f \in FillDelta(o, broker[o], seen[o])} :
           o \in {p \in Orders : FillsArePolled(p)}}

SeenAfterPoll ==
  [o \in Orders |-> IF FillsArePolled(o) THEN broker[o].filled ELSE seen[o]]

PolledOrders ==
  {UpdateEventOf(o, broker[o]) : o \in {p \in Orders : OrderIsPolled(p)}}
-----------------------------------------------------------------------------
(* One event through BrokerEventSyncLoop.run.  `left` is how many events may still
   be processed, `running` whether the loop goes on, `delivered` the watermarks of
   the source: a failure of the handler and an event older than the last one end
   it, and the checkpoint remembers only what the handler returned from. *)
IsDuplicate(e, event)  == EventId(event) \in e.processed_event_ids
IsOutOfOrder(e, event) == event.timestamp < e.last_event_timestamp

Remember(e, event) ==
  [e EXCEPT !.processed_event_ids = @ \cup {EventId(event)},
            !.last_event_timestamp = IF event.timestamp > @ THEN event.timestamp ELSE @]

Handle(e, event) ==
  LET tracked == OnBrokerEvent(e, event)
  IN  IF event.type = "FILL" THEN ApplyFill(tracked, event) ELSE tracked

SyncEvent(loop, event) ==
  CASE ~loop.running \/ IsDuplicate(loop.engine, event) -> loop
    [] /\ loop.running /\ ~IsDuplicate(loop.engine, event)
       /\ IsOutOfOrder(loop.engine, event) \/ Raises(loop.engine, event) ->
         [loop EXCEPT !.running = FALSE]
    [] OTHER ->
         [loop EXCEPT !.engine = Remember(Handle(@, event), event),
                      !.left = @ - 1,
                      !.running = loop.left # 1]

(* A fill that comes as far as the portfolio, and the engine that is left when it
   fails on its way there. *)
Reaches(loop, fill) ==
  /\ loop.running
  /\ ~IsDuplicate(loop.engine, fill)
  /\ ~IsOutOfOrder(loop.engine, fill)
  /\ ~Raises(loop.engine, fill)
  /\ ~AlreadyApplied(loop.engine, fill)

FailEvent(loop, fill) == RecordFillId(OnBrokerEvent(loop.engine, fill), fill)

(* A new broker event source over all trade updates delivers an order update per
   message and, for shares beyond those it has seen, a fill. *)
UpdateIn(message) == UpdateEventOf(message.order, message.payload)

FillsIn(loop, message) ==
  {FillOf(f) : f \in FillDelta(message.order, message.payload, loop.delivered[message.order])}

Delivers(loop, message) ==
  [loop EXCEPT !.delivered[message.order] =
     IF message.payload.filled > @ THEN message.payload.filled ELSE @]

SyncMessage(loop, message) ==
  LET updated == SyncEvent(loop, UpdateIn(message))
      fills   == FillsIn(loop, message)
  IN  Delivers(IF fills = {} THEN updated
               ELSE SyncEvent(updated, CHOOSE fill \in fills : TRUE), message)

(* The loop after each message. *)
SyncRun(max_events) ==
  LET run[i \in 0..Len(log)] ==
        IF i = 0 THEN [engine |-> engine, left |-> max_events, running |-> TRUE,
                       delivered |-> Nothing]
        ELSE SyncMessage(run[i - 1], log[i])
  IN  run
-----------------------------------------------------------------------------
(* The broker reports every change as a trade update. *)
Reported(o) == log' = Append(log, [order |-> o, payload |-> broker'[o]])

(* What the adapter makes of the broker's answer to a submission: Alpaca sends
   the order, IBKR an acknowledgement that the adapter stamps itself. *)
SubmitAnswers(b, now) ==
  IF vendor = "ibkr" THEN {ibkr_acknowledged(b, stamp) : stamp \in {now, now + 1}}
                     ELSE {alpaca_order_to_domain(b)}

Submit(o, quantity) ==
  /\ snapshots = NoPoll
  /\ vendor = "ibkr" => quantity # NoQuantity
  /\ BrokerAccepts(o, quantity)
  /\ Reported(o)
  /\ \/ \E answer \in SubmitAnswers(broker'[o], clock') :
          engine' = [engine EXCEPT !.orders[o] = answer]
     \/ UNCHANGED engine
  /\ UNCHANGED <<deployment, seen, snapshots, restarts>>

BrokerStep(o) ==
  /\ BrokerActs(o)
  /\ Reported(o)
  /\ UNCHANGED <<deployment, seen, snapshots, engine, restarts>>

(* poll_broker_updates asks the broker twice: for its orders, then for its
   fills.  The broker may move in between, and either answer may be lost. *)
ReadOrders ==
  /\ channel # "stream"
  /\ snapshots = NoPoll
  /\ snapshots' = PolledOrders
  /\ UNCHANGED <<brokerVars, deployment, log, seen, engine, restarts>>

AbandonPoll ==
  /\ snapshots # NoPoll
  /\ snapshots' = NoPoll
  /\ UNCHANGED <<brokerVars, deployment, log, seen, engine, restarts>>

PollReturns ==
  /\ snapshots # NoPoll
  /\ snapshots' = NoPoll
  /\ seen' = SeenAfterPoll

(* With the fills in hand every event goes through the execution engine (a fill
   of an unknown order is skipped there), then every fill into the portfolio, the
   oldest first.  A booking that fails ends the call, with the watermark already
   moved. *)
TrackAll(e, events) ==
  LET own(o) == {event \in events : event.order = o}
  IN  [e EXCEPT
         !.orders = [o \in Orders |->
           IF own(o) = {} THEN @[o]
           ELSE OnBrokerEvent(e, CHOOSE event \in own(o) : TRUE).orders[o]],
         !.processed_broker_event_ids =
           @ \cup UNION {OnBrokerEvent(e, event).processed_broker_event_ids : event \in events}]

BookAll(e, fills) ==
  LET new    == {fill \in fills : ~AlreadyApplied(e, fill)}
      own(o) == {fill \in new : fill.order = o}
  IN  [e EXCEPT
         !.shares = [o \in Orders |-> IF own(o) = {} THEN @[o]
                                      ELSE @[o] + (CHOOSE fill \in own(o) : TRUE).quantity],
         !.processed_fill_ids = @ \cup {EventId(fill) : fill \in new},
         !.trade_ledger = @ \cup {EventId(fill) : fill \in new}]

(* The fills that were booked when one of them fails. *)
BookedBefore(failed, fills) ==
  {booked \in SUBSET (fills \ {failed}) :
     \A fill \in fills \ {failed} : /\ fill.timestamp < failed.timestamp => fill \in booked
                                   /\ fill \in booked => fill.timestamp <= failed.timestamp}

FailedBookings(tracked, fills) ==
  UNION {{RecordFillId(BookAll(tracked, booked), failed) :
            booked \in BookedBefore(failed, fills)} :
           failed \in {fill \in fills : BookingFails /\ ~AlreadyApplied(tracked, fill)}}

FinishPoll ==
  LET fills   == PolledFills
      events  == EventsFromPoll(snapshots, fills)
      tracked == TrackAll(TrackAll(engine, events[1]), events[2])
  IN  /\ PollReturns
      /\ engine' \in {BookAll(tracked, fills)} \cup FailedBookings(tracked, fills)
      /\ UNCHANGED <<brokerVars, deployment, log, restarts>>

(* The loop before the fill of each message may end with it. *)
FailedSyncs(run) ==
  UNION {LET updated == SyncEvent(run[i - 1], UpdateIn(log[i]))
         IN  {FailEvent(updated, fill) :
                fill \in {f \in FillsIn(run[i - 1], log[i]) : BookingFails /\ Reaches(updated, f)}} :
           i \in DOMAIN log}

(* sync_broker_events with a new source that replays the trade updates; at most
   max_events are processed, 0 for all. *)
Sync(max_events) ==
  LET run == SyncRun(max_events)
  IN  /\ channel # "poll"
      /\ snapshots = NoPoll
      /\ engine' \in {run[Len(log)].engine} \cup FailedSyncs(run)
      /\ UNCHANGED <<brokerVars, deployment, log, seen, snapshots, restarts>>

(* A new process: the checkpoint, too, lives in memory only. *)
Restart ==
  /\ restarts < MaxRestarts
  /\ restarts' = restarts + 1
  /\ seen' = Nothing
  /\ snapshots' = NoPoll
  /\ engine' = NewEngine
  /\ UNCHANGED <<brokerVars, deployment, log>>

Next ==
  \/ \E o \in Orders, quantity \in Quantities : Submit(o, quantity)
  \/ \E o \in Orders : BrokerStep(o)
  \/ ReadOrders
  \/ AbandonPoll
  \/ FinishPoll
  \/ \E max_events \in 0..1 : Sync(max_events)
  \/ Restart

Spec == Init /\ [][Next]_vars

(* Every bar polls, and polls do not fail for ever. *)
Fairness == WF_vars(ReadOrders) /\ SF_<<snapshots, seen>>(PollReturns)

FairSpec == Spec /\ Fairness
-----------------------------------------------------------------------------
Booked(o) == engine.shares[o]

Tracked(o) == engine.orders[o] # NoOrder

(* The portfolio never holds more shares of an order than the broker executed,
   across polls, replayed streams, early stops and restarts. *)
NeverOverbooks == \A o \in Orders : Booked(o) <= broker[o].filled

(* Nor does the OrderManager count more.  Its order snapshot is read before the
   fills, so a fill delta may reach inside what the snapshot says; that is safe
   only because a poll applies its fills first. *)
NeverOvercounts ==
  \A o \in Orders : Tracked(o) => engine.orders[o].filled_quantity <= broker[o].filled

(* The portfolio keeps account of the broker's executions as Booking promises:
   whatever the vendor, the channel, the restarts and the abandoned polls, a step
   books executed shares not yet booked, and only a new process drops any. *)
B == INSTANCE Booking WITH executed <- [o \in Orders |-> broker[o].filled],
                           booked   <- [o \in Orders |-> Booked(o)]

ImplementsBooking == B!Spec

(* DECISIONS.md: an event is only marked processed "after successful application
   so recovery can retry failed events".  A fill the checkpoint has remembered is
   a fill the portfolio has booked. *)
CheckpointedIsBooked ==
  \A id \in engine.processed_event_ids :
    id.kind = "FILL" => id \in engine.trade_ledger

(* A poll during which the broker stood still leaves nothing to catch up on, as
   far as it reads the account: the portfolio holds exactly the shares the broker
   executed for the orders whose fills it reads, and an Alpaca order it lists has
   the broker's shares and status.  A sync that drains its source does so for all
   orders, provided no message dates an execution before its update: such a fill
   is out of order behind the update of its own message, and every retry ends at
   it.  (A notional order is completed by its first fill.  An IBKR order in
   execution is Submitted, which a partly filled order refuses as a step back, so
   that nothing but the fills counts, and the second of two equal fills of one
   time passes for the first: see the hazards.) *)
AllBooked(o) == Booked(o) = broker[o].filled

TracksBroker(o) ==
  vendor = "alpaca" =>
    /\ engine.orders[o].filled_quantity = broker[o].filled
    /\ ~ByNotional(o) =>
         engine.orders[o].status = order_status_from_alpaca(broker[o].status)

PollCaughtUp ==
  \A o \in Orders : /\ FillsArePolled(o) => AllBooked(o)
                    /\ OrderIsPolled(o) => TracksBroker(o)

SyncCaughtUp ==
  \A o \in Orders : broker[o].status # "none" => AllBooked(o) /\ TracksBroker(o)

NoFillIsDatedBack ==
  \A i \in DOMAIN log : \A fill \in FillsIn(SyncRun(0)[i - 1], log[i]) :
    fill.timestamp = log[i].payload.updated_at

QuietPollCatchesUp ==
  [][/\ FinishPoll /\ snapshots = PolledOrders => PollCaughtUp'
     /\ Sync(0) /\ NoFillIsDatedBack => SyncCaughtUp']_vars

(* Lost answers and restarts notwithstanding, an engine that polls ends up with
   every share of a closed order in the portfolio, once, if its polls read the
   order's fills: what Alpaca's poll_fills leaves out, the orders that 500 others
   of the account precede, is never booked. *)
EventuallyBooked ==
  channel = "poll" =>
    <>[](\A o \in Orders :
           broker[o].status \in Closed /\ FillsArePolled(o) => AllBooked(o))
=============================================================================
