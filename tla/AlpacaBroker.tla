----------------------------- MODULE AlpacaBroker -----------------------------
(***************************************************************************)
(* An asynchronous broker as the Alpaca adapters see it.  It is not part of  *)
(* the repository: its orders fill, cancel and expire whenever it likes, and *)
(* what the adapters read of an order is mapped to the domain by             *)
(* qts.integrations.alpaca.mapping.                                          *)
(***************************************************************************)
EXTENDS OrderManager, FiniteSets

CONSTANTS
  Orders,        \* broker order ids
  Quantities,    \* shares an order may ask for, NoQuantity for a notional order
  MaxShares,     \* shares a notional order may buy
  AsyncCancel,   \* the broker answers a cancel with pending_cancel
  Older,         \* how many orders of the account may be older than an order
  MaxTime        \* bound on the broker's clock

ASSUME QuantityAssumption == Quantities \subseteq Nat
ASSUME BrokerAssumption   == /\ MaxShares \in Nat \ {0}
                             /\ Older \subseteq Nat
                             /\ MaxTime \in Nat
                             /\ AsyncCancel \in BOOLEAN

VARIABLES
  clock,    \* broker time, from 1; a time of 0 is one the broker leaves out
  broker    \* broker[o]: the order as the broker has it

brokerVars == <<clock, broker>>
-----------------------------------------------------------------------------
(* The broker's own statuses; "none" is an order not yet placed. *)
Working      == {"accepted", "new", "partially_filled", "pending_cancel"}
Closed       == {"filled", "canceled", "expired", "rejected"}
BrokerStatus == {"none"} \cup Working \cup Closed

order_status_from_alpaca(status) ==
  CASE status = "accepted"                       -> "ACCEPTED"
    [] status = "new"                            -> "SUBMITTED"
    [] status = "partially_filled"               -> "PARTIALLY_FILLED"
    [] status = "filled"                         -> "FILLED"
    [] status \in {"canceled", "pending_cancel"} -> "CANCELED"
    [] status = "expired"                        -> "EXPIRED"
    [] status = "rejected"                       -> "REJECTED"
    [] OTHER                                     -> "FAILED"

(* The domain order an adapter builds from the broker's answer. *)
alpaca_order_to_domain(b) ==
  [quantity        |-> b.quantity,
   filled_quantity |-> b.filled,
   status          |-> order_status_from_alpaca(b.status),
   updated_at      |-> b.updated_at]

(* An ORDER_UPDATE event.  Its id spells out order, status, quantities and
   time, so the event is its own identity. *)
UpdateEvent == [order: Orders, snapshot: OrderRecord]

(* A FILL event.  fill_id is made of the order id and the order's cumulative
   filled quantity; the quantity is what the adapter had not yet seen. *)
FillEvent == [order: Orders, cumulative: Nat \ {0}, quantity: Nat \ {0}, timestamp: Nat]

FillId(f) == <<f.order, f.cumulative>>

UpdateOf(o) == [order |-> o, snapshot |-> alpaca_order_to_domain(broker[o])]

(* The first time the broker gives: filled_at, else updated_at. *)
FilledAt(b) == IF b.filled_at = 0 THEN b.updated_at ELSE b.filled_at

(* Mistake: a fill of all the shares, not of the new ones. *)
fill_delta_of_everything(o, b, previous_filled_quantity) ==
  IF b.filled > previous_filled_quantity
  THEN {[order      |-> o,
         cumulative |-> b.filled,
         quantity   |-> b.filled,
         timestamp  |-> FilledAt(b)]}
  ELSE {}

(* The shares of order o, read as b, beyond those an adapter has already seen.
   A snapshot carries the time of the order's last change, a fill that of the
   execution, which may be earlier. *)
alpaca_order_to_fill_delta(o, b, previous_filled_quantity) ==
  IF b.filled > previous_filled_quantity
  THEN {[order      |-> o,
         cumulative |-> b.filled,
         quantity   |-> b.filled - previous_filled_quantity,
         timestamp  |-> FilledAt(b)]}
  ELSE {}

ByNotional(o) == broker[o].quantity = NoQuantity

Fillable(o) == IF ByNotional(o) THEN MaxShares ELSE broker[o].quantity

(* Both reads of a poll ask for the account's oldest orders: list_orders for as
   many as the client asks by default, poll_fills for 500. *)
ListLimit == 100
FillLimit == 500

Listed(o)     == broker[o].older < ListLimit
FillsRead(o)  == broker[o].older < FillLimit
-----------------------------------------------------------------------------
NotPlaced == [status |-> "none", quantity |-> NoQuantity, filled |-> 0, filled_at |-> 0,
              updated_at |-> 0, older |-> 0]

BrokerOrder == [status: BrokerStatus, quantity: Nat, filled: Nat, filled_at: Nat,
                updated_at: Nat, older: Nat]

BrokerInit ==
  /\ clock = 1
  /\ broker = [o \in Orders |-> NotPlaced]

(* The broker changes an order; two changes may carry the same time. *)
BrokerSets(o, changed) ==
  /\ clock' \in {clock, clock + 1} \cap 0..MaxTime
  /\ broker' = [broker EXCEPT ![o] = [changed EXCEPT !.updated_at = clock']]

BrokerAccepts(o, quantity) ==
  /\ broker[o].status = "none"
  /\ \E older \in Older :
       BrokerSets(o, [broker[o] EXCEPT !.status = "accepted", !.quantity = quantity,
                                       !.older = older])

(* A closed order cannot be cancelled: the broker call raises. *)
BrokerCancels(o) ==
  /\ broker[o].status \in Working \ {"pending_cancel"}
  /\ BrokerSets(o, [broker[o] EXCEPT !.status = IF AsyncCancel THEN "pending_cancel"
                                                ELSE "canceled"])

BrokerAcknowledges(o) ==
  /\ broker[o].status = "accepted"
  /\ BrokerSets(o, [broker[o] EXCEPT !.status = "new"])

(* An execution of n shares, now, a time the broker may leave out; it changes the
   order now or a moment later.  A notional order is done when the broker has
   spent the money, whatever number of shares that bought. *)
BrokerFills(o, n) ==
  LET filled == broker[o].filled + n
      Executed(status, filled_at) ==
        [broker[o] EXCEPT !.status = status, !.filled = filled, !.filled_at = filled_at]
  IN  /\ broker[o].status \in Working
      /\ filled <= Fillable(o)
      /\ \E filled_at \in {0, clock} :
           \/ /\ filled = Fillable(o) \/ ByNotional(o)
              /\ BrokerSets(o, Executed("filled", filled_at))
           \/ /\ filled < Fillable(o)
              /\ BrokerSets(o, Executed(IF broker[o].status = "pending_cancel"
                                        THEN "pending_cancel" ELSE "partially_filled",
                                        filled_at))

(* The broker ends a working order on its own: the day ends, the order is
   refused, a pending cancel takes effect. *)
BrokerEnds(o, status) ==
  /\ broker[o].status \in Working
  /\ status = "canceled" => broker[o].status = "pending_cancel"
  /\ status = "rejected" => broker[o].status = "accepted" /\ broker[o].filled = 0
  /\ BrokerSets(o, [broker[o] EXCEPT !.status = status])

BrokerActs(o) ==
  \/ BrokerAcknowledges(o)
  \/ \E n \in 1..Fillable(o) : BrokerFills(o, n)
  \/ \E status \in Closed \ {"filled"} : BrokerEnds(o, status)
=============================================================================
