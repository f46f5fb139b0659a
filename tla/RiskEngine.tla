------------------------------ MODULE RiskEngine ------------------------------
(***************************************************************************)
(* qts.risk as operators: a strategy's request becomes a sized trade intent, *)
(* every rule judges it in the order of default_risk_rules, and an approved  *)
(* intent starts a cooldown.                                                *)
(*                                                                         *)
(* A limit of the policy is a set of at most one number, the quantity and the *)
(* notional of an intent too; a weight is in hundredths of the equity.  The  *)
(* exposures are quantities at the price of the context, which in every       *)
(* engine is the price of the event, whatever the intent's symbol.           *)
(***************************************************************************)
EXTENDS Accounting, Sessions

UnknownStrategy == "__unknown_strategy__"

(* A limit that is not configured is no member. *)
IsLimit(limit) == limit \subseteq Nat /\ \A x, y \in limit : x = y

(* What the proofs ask of a RiskPolicy. *)
IsPolicy(policy) ==
  /\ policy.cooldown \in Nat
  /\ IsLimit(policy.max_position_notional)
  /\ policy.sizing_method \in {"fixed_quantity", "fixed_notional", "percent_equity"}
  /\ policy.sizing_amount \in Nat

Absolute(n) == IF n < 0 THEN -n ELSE n

Intent(request, side, quantity, notional) ==
  [strategy_id |-> request.strategy_id, symbol |-> request.symbol,
   timestamp |-> request.timestamp, side |-> side, quantity |-> quantity, notional |-> notional]
-----------------------------------------------------------------------------
(* ensure_trade_intent, for what does not raise.  A target quantity counts what
   is held, a target notional or weight is bought whatever is held. *)
trade_intent(request, snapshot) ==
  CASE request.kind = "signal" ->
         Intent(request, IF request.direction \in {"BUY", "COVER"} THEN "BUY" ELSE "SELL", {}, {})
    [] request.kind = "target_quantity" ->
         LET delta == request.target - snapshot.quantity[request.symbol]
         IN  Intent(request, IF delta > 0 THEN "BUY" ELSE "SELL", {Absolute(delta)}, {})
    [] request.kind = "target_notional" -> Intent(request, "BUY", {}, {request.target})
    [] request.kind = "target_weight" ->
         Intent(request, IF request.target >= 0 THEN "BUY" ELSE "SELL", {},
                {Absolute(snapshot.equity * request.target) \div 100})

(* DefaultPositionSizer.size: only an intent with neither is sized. *)
sized(intent, snapshot, policy) ==
  CASE intent.quantity # {} \/ intent.notional # {} -> intent
    [] intent.quantity = {} /\ intent.notional = {} /\ policy.sizing_method = "fixed_quantity" ->
         [intent EXCEPT !.quantity = {policy.sizing_amount}]
    [] intent.quantity = {} /\ intent.notional = {} /\ policy.sizing_method = "fixed_notional" ->
         [intent EXCEPT !.notional = {policy.sizing_amount}]
    [] intent.quantity = {} /\ intent.notional = {} /\ policy.sizing_method = "percent_equity" ->
         [intent EXCEPT !.notional = {(snapshot.equity * policy.sizing_amount) \div 100}]

(* The requests evaluate raises RiskError for: they end the whole event. *)
Raises(request, snapshot, policy) ==
  \/ request.kind = "signal" /\ request.direction = "HOLD"
  \/ /\ request.kind = "target_quantity"
     /\ request.target = snapshot.quantity[request.symbol]
  \/ /\ request.kind = "target_weight"
     /\ snapshot.equity * request.target = 0
  \/ /\ request.kind = "signal"
     /\ policy.sizing_method = "percent_equity"
     /\ snapshot.equity * policy.sizing_amount <= 0
-----------------------------------------------------------------------------
estimate_notional(intent, price) ==
  IF intent.notional # {} THEN Max(intent.notional) ELSE Max(intent.quantity) * price

current_exposure(intent, snapshot, price) ==
  Absolute(snapshot.quantity[intent.symbol] * price)

(* Mistake: a buy is judged by itself, whatever is held. *)
exposure_of_the_order(intent, snapshot, price) == estimate_notional(intent, price)

projected_exposure(intent, snapshot, price) ==
  LET held   == snapshot.quantity[intent.symbol] * price
      amount == estimate_notional(intent, price)
  IN  Absolute(IF intent.side = "BUY" THEN held + amount ELSE held - amount)

gross_exposure(snapshot) == snapshot.equity - snapshot.cash

symbol_restriction(intent, policy) ==
  /\ policy.allowed_symbols # {} => intent.symbol \in policy.allowed_symbols
  /\ intent.symbol \notin policy.blocked_symbols

(* Every engine passes a session service: the rule's own weekdays and hours are
   never consulted. *)
trading_session(timestamp, policy) ==
  policy.session_rules_enabled => is_tradable(timestamp, policy.market_session)

(* The profit since the portfolio began: nothing makes it daily. *)
daily_loss(snapshot, policy) ==
  \A limit \in policy.daily_loss_limit : snapshot.realized_pnl + snapshot.unrealized_pnl > -limit

cooldown(intent, timestamp, last_trade_time, policy) ==
  \A last \in last_trade_time[<<intent.strategy_id, intent.symbol>>] :
    timestamp - last >= policy.cooldown

(* The intent MaxPositionNotionalRule lets through: as it is, cut to the limit
   when nothing is held, or none. *)
max_position_notional(intent, snapshot, price, policy) ==
  LET current   == current_exposure(intent, snapshot, price)
      projected == projected_exposure(intent, snapshot, price)
      exceeded  == {limit \in policy.max_position_notional : projected > limit}
  IN  CASE exceeded = {} \/ projected <= current -> {intent}
        [] exceeded # {} /\ projected > current /\ current = 0 ->
             {IF intent.notional # {} THEN [intent EXCEPT !.notional = exceeded]
              ELSE [intent EXCEPT !.quantity = {Max(exceeded) \div price}]}
        [] OTHER -> {}

max_symbol_weight(intent, snapshot, price, policy) ==
  \A limit \in policy.max_symbol_weight :
    /\ snapshot.equity > 0
    /\ \/ 100 * projected_exposure(intent, snapshot, price) <= limit * snapshot.equity
       \/ projected_exposure(intent, snapshot, price) <= current_exposure(intent, snapshot, price)

max_gross_exposure(intent, snapshot, price, policy) ==
  LET projected == Max({0, gross_exposure(snapshot) - current_exposure(intent, snapshot, price)
                             + projected_exposure(intent, snapshot, price)})
  IN  \A limit \in policy.max_gross_exposure :
        projected <= limit \/ projected <= gross_exposure(snapshot)

buying_power(intent, snapshot, price) ==
  intent.side = "SELL" \/ estimate_notional(intent, price) <= Max({snapshot.cash, 0})
-----------------------------------------------------------------------------
(* evaluate, for a request that does not raise: the approved intent, if any. *)
evaluate(request, snapshot, timestamp, price, last_trade_time, policy) ==
  LET intent == sized(trade_intent(request, snapshot), snapshot, policy)
  IN  {candidate \in max_position_notional(intent, snapshot, price, policy) :
         /\ symbol_restriction(intent, policy)
         /\ trading_session(timestamp, policy)
         /\ daily_loss(snapshot, policy)
         /\ policy.cooldown > 0 => cooldown(intent, timestamp, last_trade_time, policy)
         /\ max_symbol_weight(candidate, snapshot, price, policy)
         /\ max_gross_exposure(candidate, snapshot, price, policy)
         /\ buying_power(candidate, snapshot, price)}

(* Mistake: a cooldown starts with a fill, and only so. *)
record_nothing(last_trade_time, intent) == last_trade_time

(* CooldownRule.record_intent. *)
record_intent(last_trade_time, intent) ==
  [last_trade_time EXCEPT ![<<intent.strategy_id, intent.symbol>>] = {intent.timestamp}]

(* update_after_fill: a fill carries no strategy, so it starts the cooldown of
   none of them. *)
update_after_fill(last_trade_time, fill) ==
  [last_trade_time EXCEPT ![<<UnknownStrategy, fill.symbol>>] = {fill.filled_at}]
=============================================================================
