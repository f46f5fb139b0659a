------------------------------ MODULE IbkrBroker ------------------------------
(***************************************************************************)
(* What the IBKR adapters make of a broker's orders                          *)
(* (qts.integrations.ibkr.mapping).  The broker behind them moves as the one *)
(* of AlpacaBroker does; it names the states differently, and its answers    *)
(* to submissions hold an id and a status only.                              *)
(***************************************************************************)
EXTENDS AlpacaBroker

(* IBKR's words.  An order in execution is still Submitted, a refused one
   Inactive, an expired one Cancelled. *)
IbkrStatus(status) ==
  CASE status = "accepted"                    -> "PreSubmitted"
    [] status \in {"new", "partially_filled"} -> "Submitted"
    [] status = "filled"                      -> "Filled"
    [] status = "pending_cancel"              -> "PendingCancel"
    [] status \in {"canceled", "expired"}     -> "Cancelled"
    [] status = "rejected"                    -> "Inactive"
    [] OTHER                                  -> "Unknown"

order_status_from_ibkr(status) ==
  CASE status \in {"PreSubmitted", "Submitted"}   -> "SUBMITTED"
    [] status = "Filled"                          -> "FILLED"
    [] status = "PartiallyFilled"                 -> "PARTIALLY_FILLED"
    [] status \in {"Cancelled", "PendingCancel"}  -> "CANCELED"
    [] status \in {"Inactive", "Rejected"}        -> "REJECTED"
    [] status = "Expired"                         -> "EXPIRED"
    [] status = "Unknown"                         -> "ACCEPTED"
    [] OTHER                                      -> "FAILED"

ibkr_order_to_domain(b) ==
  [quantity        |-> b.quantity,
   filled_quantity |-> b.filled,
   status          |-> order_status_from_ibkr(IbkrStatus(b.status)),
   updated_at      |-> b.updated_at]

(* The acknowledgement of a submission has no quantities and no time: quantity
   and symbol come from the request, and the adapter stamps it with the time at
   which it looks, whatever the broker has done in the meantime. *)
ibkr_acknowledged(b, now) ==
  [quantity        |-> b.quantity,
   filled_quantity |-> 0,
   status          |-> order_status_from_ibkr(IbkrStatus(b.status)),
   updated_at      |-> now]

(* Mistake: the shares of the order, not the new ones. *)
ibkr_fill_of_everything(o, b, previous_filled_quantity) ==
  {[order      |-> o,
    cumulative |-> b.filled,
    quantity   |-> b.filled,
    timestamp  |-> b.updated_at] : new \in {n \in {b.filled} : n > previous_filled_quantity}}

(* The shares of order o beyond those the adapter has seen, as in
   alpaca_order_to_fill_delta; executed shares come with their average price. *)
ibkr_order_to_fill_delta(o, b, previous_filled_quantity) ==
  IF b.filled <= previous_filled_quantity THEN {}
  ELSE {[order      |-> o,
         cumulative |-> b.filled,
         quantity   |-> b.filled - previous_filled_quantity,
         timestamp  |-> b.updated_at]}
=============================================================================
