------------------------------- MODULE EventLoop -------------------------------
(***************************************************************************)
(* RuntimeEventLoop.run: the events of a market-data source through the      *)
(* duplicate and session filters and the ordering, freshness and heartbeat   *)
(* checks to a handler, with a new source after a disconnect.                *)
(*                                                                         *)
(* An event is its key: symbol, timestamp, and the timeframe of a bar or the *)
(* prices of a quote.  A bar sent again with other prices is the same event. *)
(***************************************************************************)
EXTENDS Integers, Sequences, FiniteSets

CONSTANTS
  NoTime,      \* Python's None where a time or a limit may be
  Symbols,
  Contents,    \* timeframes of bars, prices of quotes
  Feeds,       \* what the vendor may send: sequences of events
  Policies,    \* configurations of a loop
  MaxTime      \* bound on the clock

Event == [symbol: Symbols, timestamp: Nat, content: Contents]

(* A source factory makes sources that replay what the vendor has sent, from any
   point up to where the last one broke off, or that go on at a later point. *)
Policy ==
  [deduplicate: BOOLEAN, fail_on_out_of_order: BOOLEAN, tradable: SUBSET Nat,
   max_staleness: Nat \cup {NoTime}, timeout: Nat \cup {NoTime}, fail_closed: BOOLEAN,
   max_attempts: Nat, source_factory: {"none", "replay", "resume"}, max_events: Nat]

ASSUME NoTimeAssumption == NoTime \notin Int
ASSUME FeedAssumption   == Feeds \subseteq Seq(Event)
ASSUME PolicyAssumption == Policies \subseteq Policy
ASSUME TimeAssumption   == MaxTime \in Nat

VARIABLES
  policy,
  feed,             \* everything the vendor sends
  clock,
  position,         \* where in the feed the current source stands
  opened, closed,   \* sources opened so far, and those closed
  loop,             \* the RuntimeEventLoop and the run in progress
  handled           \* the events the handler was called with

loopVars == <<policy, feed, clock, position, opened, closed, loop, handled>>
-----------------------------------------------------------------------------
LoopInit ==
  /\ policy \in Policies
  /\ feed \in Feeds
  /\ clock = 0
  /\ position = 1
  /\ opened = 1
  /\ closed = {}
  /\ loop = [seen           |-> {},
             last_timestamp |-> [s \in Symbols |-> NoTime],
             last_heartbeat |-> NoTime,
             reconnects     |-> 0,
             stopped        |-> "running"]
  /\ handled = <<>>

Running == loop.stopped = "running"

(* The source yields the next event; no event comes before its time. *)
Yields(event) ==
  /\ Running
  /\ position <= Len(feed)
  /\ event = feed[position]
  /\ event.timestamp <= clock

(* Mistakes: only the event before is looked at; a time seen for one symbol is
   taken as seen for all. *)
RepeatsLast(event) ==
  policy.deduplicate /\ handled # <<>> /\ handled[Len(handled)] = event

RepeatsTime(event) ==
  policy.deduplicate /\ \E other \in loop.seen : other.timestamp = event.timestamp

IsDuplicate(event) == policy.deduplicate /\ event \in loop.seen

IsOutsideSession(event) == event.timestamp \notin policy.tradable

IsOutOfOrder(event) ==
  /\ loop.last_timestamp[event.symbol] # NoTime
  /\ event.timestamp < loop.last_timestamp[event.symbol]

IsStale(event) ==
  policy.max_staleness # NoTime /\ clock - event.timestamp > policy.max_staleness

(* Mistake: a gap as long as twice the timeout passes. *)
MissesTwoHeartbeats(event) ==
  /\ policy.timeout # NoTime
  /\ loop.last_heartbeat # NoTime
  /\ event.timestamp - loop.last_heartbeat > 2 * policy.timeout

MissesHeartbeat(event) ==
  /\ policy.timeout # NoTime
  /\ loop.last_heartbeat # NoTime
  /\ event.timestamp - loop.last_heartbeat > policy.timeout

FailsOrdering(event) == policy.fail_on_out_of_order /\ IsOutOfOrder(event)

FailsHeartbeat(event) == policy.fail_closed /\ MissesHeartbeat(event)

Raises(event) == FailsOrdering(event) \/ IsStale(event) \/ FailsHeartbeat(event)
-----------------------------------------------------------------------------
(* What each stage of the loop remembers of an event that reaches it. *)
Filtered(event) ==
  IF policy.deduplicate THEN [loop EXCEPT !.seen = @ \cup {event}] ELSE loop

Ordered(event) ==
  IF IsOutOfOrder(event) THEN Filtered(event)
  ELSE [Filtered(event) EXCEPT !.last_timestamp[event.symbol] = event.timestamp]

Checked(event) == [Ordered(event) EXCEPT !.last_heartbeat = event.timestamp]

Stopped(l, reason) == [l EXCEPT !.stopped = reason]

(* Mistake: the source the loop was made with is closed, again and again. *)
CloseFirst == closed' = closed \cup {1}

(* finally: the source of this round is closed. *)
Close == closed' = closed \cup {opened}

SkipDuplicate(event) ==
  /\ Yields(event)
  /\ IsDuplicate(event)
  /\ position' = position + 1
  /\ UNCHANGED <<policy, feed, clock, opened, closed, loop, handled>>

SkipOutsideSession(event) ==
  /\ Yields(event)
  /\ ~IsDuplicate(event)
  /\ IsOutsideSession(event)
  /\ position' = position + 1
  /\ loop' = Filtered(event)
  /\ UNCHANGED <<policy, feed, clock, opened, closed, handled>>

(* A check raises DataError and the run ends. *)
FailCheck(event) ==
  /\ Yields(event)
  /\ ~IsDuplicate(event) /\ ~IsOutsideSession(event)
  /\ \/ /\ FailsOrdering(event)
        /\ loop' = Stopped(Filtered(event), "error")
     \/ /\ ~FailsOrdering(event) /\ IsStale(event)
        /\ loop' = Stopped(Ordered(event), "error")
     \/ /\ ~FailsOrdering(event) /\ ~IsStale(event) /\ FailsHeartbeat(event)
        /\ loop' = Stopped(Checked(event), "error")
  /\ Close
  /\ UNCHANGED <<policy, feed, clock, position, opened, handled>>

(* The handler returns, or it raises and ends the run. *)
Dispatch(event) ==
  /\ Yields(event)
  /\ ~IsDuplicate(event) /\ ~IsOutsideSession(event)
  /\ ~Raises(event)
  /\ position' = position + 1
  /\ handled' = Append(handled, event)
  /\ \/ /\ Len(handled') # policy.max_events
        /\ loop' = Checked(event)
        /\ UNCHANGED closed
     \/ /\ Len(handled') = policy.max_events
        /\ loop' = Stopped(Checked(event), "max_events")
        /\ Close
     \/ /\ loop' = Stopped(Checked(event), "error")
        /\ Close
  /\ UNCHANGED <<policy, feed, clock, opened>>

Exhausted ==
  /\ Running
  /\ position > Len(feed)
  /\ loop' = Stopped(loop, "source_exhausted")
  /\ Close
  /\ UNCHANGED <<policy, feed, clock, position, opened, handled>>
-----------------------------------------------------------------------------
CanReconnect(attempts_used) == attempts_used < policy.max_attempts

(* Where a new source starts. *)
Resumption ==
  CASE policy.source_factory = "replay" -> 1..position
    [] policy.source_factory = "resume" -> position..(Len(feed) + 1)
    [] OTHER                            -> {}

(* StreamDisconnectedError, at any point of the stream.  The new source is made
   before the old one is closed; without a factory that raises. *)
Reconnect ==
  /\ Running
  /\ CanReconnect(loop.reconnects)
  /\ position' \in Resumption
  /\ loop' = [loop EXCEPT !.reconnects = @ + 1]
  /\ opened' = opened + 1
  /\ Close
  /\ UNCHANGED <<policy, feed, clock, handled>>

(* A disconnect after the last attempt; or the source, or the missing or failing
   factory of a new one, raises something else. *)
GiveUp ==
  /\ Running
  /\ \/ ~CanReconnect(loop.reconnects) /\ loop' = Stopped(loop, "stream_disconnected")
     \/ loop' = Stopped(loop, "error")
  /\ Close
  /\ UNCHANGED <<policy, feed, clock, position, opened, handled>>

Tick ==
  /\ clock < MaxTime
  /\ clock' = clock + 1
  /\ UNCHANGED <<policy, feed, position, opened, closed, loop, handled>>

Receive ==
  \E event \in {feed[i] : i \in DOMAIN feed} :
    SkipDuplicate(event) \/ SkipOutsideSession(event) \/ FailCheck(event) \/ Dispatch(event)

LoopNext == Receive \/ Exhausted \/ Reconnect \/ GiveUp \/ Tick

LoopSpec == LoopInit /\ [][LoopNext]_loopVars

(* Time passes, and a source goes on yielding what has been sent until it ends:
   the loop has no wait of its own.  Disconnects are not fair. *)
Fairness == WF_loopVars(Tick) /\ WF_loopVars(Receive \/ Exhausted)

LoopFairSpec == LoopSpec /\ Fairness
-----------------------------------------------------------------------------
Loop ==
  [seen           : SUBSET Event,
   last_timestamp : [Symbols -> Nat \cup {NoTime}],
   last_heartbeat : Nat \cup {NoTime},
   reconnects     : Nat,
   stopped        : {"running", "source_exhausted", "max_events", "error",
                     "stream_disconnected"}]

LoopTypeOK ==
  /\ policy \in Policies
  /\ feed \in Feeds
  /\ clock \in Nat
  /\ position \in 1..(Len(feed) + 1)
  /\ loop \in Loop
  /\ loop.reconnects <= policy.max_attempts
  /\ opened = loop.reconnects + 1
  /\ closed = IF Running THEN 1..(opened - 1) ELSE 1..opened
  /\ handled \in Seq(Event)

(* Over all the sources of a run, replays after a disconnect included, the handler
   is called with no event twice, and the times of a symbol never go back. *)
HandledOnceInOrder ==
  \A i, j \in DOMAIN handled :
    i < j =>
      /\ policy.deduplicate => handled[i] # handled[j]
      /\ policy.fail_on_out_of_order /\ handled[i].symbol = handled[j].symbol =>
           handled[i].timestamp <= handled[j].timestamp

(* INTERFACES.md: heartbeat checks "compare consecutive dispatched event
   timestamps".  A loop that fails closed calls the handler with no event that
   comes more than the timeout after the one before, whatever was filtered out
   between them and whatever a new source left out. *)
HandledWithoutGap ==
  policy.timeout # NoTime /\ policy.fail_closed =>
    \A i \in 1..(Len(handled) - 1) :
      handled[i + 1].timestamp - handled[i].timestamp <= policy.timeout

(* A run that ends because its source is exhausted has handled every event of its
   sessions, disconnects included, if new sources replay what was sent. *)
NothingLost ==
  loop.stopped = "source_exhausted" /\ policy.source_factory # "resume" =>
    \A i \in DOMAIN feed :
      ~IsOutsideSession(feed[i]) => \E k \in DOMAIN handled : handled[k] = feed[i]

(* A run ends and then has closed every source it opened, though sources replay
   and drop again. *)
EventuallyStops == <>(~Running /\ closed = 1..opened)
=============================================================================
