----------------------------- MODULE StreamSource -----------------------------
(***************************************************************************)
(* AlpacaStreamEventSource of qts.market_data.streaming as operators: the    *)
(* events a source yields of the messages its connection delivers.           *)
(*                                                                         *)
(* A message is a sequence of payloads (one alone is a sequence of one).  A  *)
(* payload the source cannot read raises, which is the loop's business: it   *)
(* may meet an exception of its source at any point.                        *)
(***************************************************************************)
EXTENDS SequencesExt

(* normalize_stream_event_types and the subscription of the connection. *)
Subscription(symbols, event_types) == [symbols |-> symbols, event_types |-> event_types]

(* alpaca_stream_message_to_event: nothing for the answers to the connection and
   the subscription, otherwise the key of a bar or a quote. *)
alpaca_stream_message_to_event(payload) ==
  IF payload.type \in {"success", "subscription"} THEN {}
  ELSE {[symbol |-> payload.symbol, timestamp |-> payload.timestamp,
         content |-> payload.content]}

event_type_name(payload) == IF payload.type = "bar" THEN "bars" ELSE "quotes"

(* The vendor may send what nobody subscribed to. *)
Wants(subscription, payload) ==
  /\ alpaca_stream_message_to_event(payload) # {}
  /\ payload.symbol \in subscription.symbols
  /\ event_type_name(payload) \in subscription.event_types

iter_events(messages, subscription) ==
  LET wanted == SelectSeq(FlattenSeq(messages), LAMBDA p : Wants(subscription, p))
      event(payload) == CHOOSE e \in alpaca_stream_message_to_event(payload) : TRUE
  IN  [i \in DOMAIN wanted |-> event(wanted[i])]
=============================================================================
