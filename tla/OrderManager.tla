----------------------------- MODULE OrderManager -----------------------------
(***************************************************************************)
(* The order lifecycle bookkeeping of qts.execution.manager: what one      *)
(* tracked order becomes when a broker fill or a broker order update is     *)
(* applied to it.  The operators are pure: a component that owns an         *)
(* OrderManager keeps the dictionary of tracked orders as a variable.       *)
(*                                                                         *)
(* Quantities are whole shares (the code compares floats with a tolerance   *)
(* of 1e-9).  An order placed by notional has no quantity: NoQuantity.      *)
(* Prices and metadata play no part in the lifecycle and are left out.      *)
(***************************************************************************)
EXTENDS Integers

NoQuantity == 0

(* domain.enums.OrderStatus and the statuses list_open_orders returns. *)
OPEN_ORDER_STATUSES == {"NEW", "ACCEPTED", "SUBMITTED", "PARTIALLY_FILLED"}
TERMINAL_STATUSES   == {"FILLED", "CANCELED", "EXPIRED", "REJECTED", "FAILED"}
OrderStatus         == OPEN_ORDER_STATUSES \cup TERMINAL_STATUSES

StatusRank(status) ==
  CASE status = "NEW"              -> 0
    [] status = "ACCEPTED"         -> 1
    [] status = "SUBMITTED"        -> 2
    [] status = "PARTIALLY_FILLED" -> 3
    [] OTHER                       -> 4

OrderRecord == [quantity: Nat, filled_quantity: Nat, status: OrderStatus, updated_at: Nat]

(* Mistakes in recognising such a fill: never, by a strictly later snapshot
   only, by the quantity alone. *)
FillNeverReflected(order, fill) == FALSE

FillReflectedStrictly(order, fill) ==
  /\ order.updated_at > fill.timestamp
  /\ order.filled_quantity >= fill.quantity

FillReflectedByQuantity(order, fill) == order.filled_quantity >= fill.quantity

(* A fill whose quantity a later (or simultaneous) snapshot already holds. *)
FillAlreadyReflected(order, fill) ==
  /\ order.updated_at >= fill.timestamp
  /\ order.filled_quantity >= fill.quantity

(* mark_filled.  `order.quantity or filled_quantity`: an order without a
   quantity takes the filled quantity as its target, so its first fill,
   partial or not, completes it. *)
MarkFilled(order, fill) ==
  LET filled == order.filled_quantity + fill.quantity
      target == IF order.quantity = NoQuantity THEN filled ELSE order.quantity
  IN  IF FillAlreadyReflected(order, fill) THEN order
      ELSE [quantity        |-> target,
            filled_quantity |-> filled,
            status          |-> IF filled >= target THEN "FILLED" ELSE "PARTIALLY_FILLED",
            updated_at      |-> fill.timestamp]

(* Mistakes in recognising a stale update: by its time alone, no look at the rank,
   a snapshot as old as the order refused, one with as many shares refused. *)
StaleByTime(existing, order) == order.updated_at < existing.updated_at

StaleWhateverRank(existing, order) ==
  \/ order.updated_at < existing.updated_at
  \/ order.filled_quantity < existing.filled_quantity

StaleWhenSimultaneous(existing, order) ==
  \/ order.updated_at <= existing.updated_at
  \/ order.filled_quantity < existing.filled_quantity
  \/ StatusRank(order.status) < StatusRank(existing.status)

StaleWithoutNewShares(existing, order) ==
  \/ order.updated_at < existing.updated_at
  \/ order.filled_quantity <= existing.filled_quantity

(* The three early returns of apply_order_update. *)
UpdateIsStale(existing, order) ==
  \/ order.updated_at < existing.updated_at
  \/ order.filled_quantity < existing.filled_quantity
  \/ StatusRank(order.status) < StatusRank(existing.status)

ApplyOrderUpdate(existing, order) ==
  IF UpdateIsStale(existing, order) THEN existing ELSE order
=============================================================================
