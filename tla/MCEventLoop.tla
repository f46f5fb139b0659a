----------------------------- MODULE MCEventLoop -----------------------------
(***************************************************************************)
(* EventLoop for TLC: what a source yields of up to three payloads on two     *)
(* symbols and a third nobody asked for, in any order and with repetitions,  *)
(* and policies that differ from a strict one.                              *)
(***************************************************************************)
EXTENDS EventLoop, StreamSource

Payload(type, symbol, timestamp) ==
  [type |-> type, symbol |-> symbol, timestamp |-> timestamp, content |-> type]

Payloads ==
  {Payload("bar", "SPY", t) : t \in {1, 2, 4}}
    \cup {Payload(type, "QQQ", 1) : type \in {"bar", "quote", "subscription"}}
    \cup {Payload("bar", "IWM", 1)}

(* The first two payloads come in one message. *)
Messages(payloads) ==
  LET first == SubSeq(payloads, 1, 2)
  IN  <<first>> \o [i \in 1..(Len(payloads) - Len(first)) |-> <<payloads[Len(first) + i]>>]

MCFeeds ==
  {iter_events(Messages(payloads), Subscription(Symbols, {"bars", "quotes"})) :
     payloads \in UNION {[1..n -> Payloads] : n \in 2..3}}

Strict ==
  [deduplicate |-> TRUE, fail_on_out_of_order |-> TRUE, tradable |-> 1..4,
   max_staleness |-> NoTime, timeout |-> NoTime, fail_closed |-> TRUE,
   max_attempts |-> 2, source_factory |-> "replay", max_events |-> 0]

MCPolicies ==
  {Strict,
   [Strict EXCEPT !.deduplicate = FALSE, !.fail_on_out_of_order = FALSE],
   [Strict EXCEPT !.fail_on_out_of_order = FALSE, !.tradable = 1..3, !.max_staleness = 1],
   [Strict EXCEPT !.timeout = 1, !.source_factory = "resume"],
   [Strict EXCEPT !.timeout = 1, !.fail_closed = FALSE, !.source_factory = "resume"],
   [Strict EXCEPT !.max_events = 2, !.source_factory = "none"]}
=============================================================================
