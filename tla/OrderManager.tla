---------------------------- MODULE OrderManager ----------------------------
(***************************************************************************)
(* llt::OrderManager: the lifecycle of the single order the kernel may     *)
(* have in flight.  The state is the ManagedOrder record; client_order_id  *)
(* and limit_price are stored by the code and read by nobody, so they are  *)
(* left out.  Every method is a function from the old order to the new one *)
(* and, for the composed modules, an action on the variable order.         *)
(***************************************************************************)
EXTENDS TradingTypes

VARIABLE order

OrderState ==
  {"Idle", "PendingNewAck", "Acked", "PartiallyFilled", "PendingCancel",
   "Filled", "Canceled", "Rejected", "Expired"}

VenueEventType ==
  {"NewAck", "NewReject", "Fill", "CancelAck", "CancelReject", "Expired"}

VenueEventOutcome ==
  {"Applied", "WrongState", "WrongOrder", "InvalidQuantity",
   "InvalidVenueOrderId"}

VenueEvent ==
  [type : VenueEventType, venue_order_id : Int, fill_qty : Int,
   fill_price : Int]

\* int64/int32 fields; that they stay non-negative is part of what is checked.
ManagedOrder ==
  [venue_order_id : Nat, side : Side, order_qty : Nat, cum_qty : Nat,
   leaves_qty : Nat, state : OrderState]

IdleOrder ==
  [venue_order_id |-> 0, side |-> "Buy", order_qty |-> 0, cum_qty |-> 0,
   leaves_qty |-> 0, state |-> "Idle"]

TerminalStates == {"Filled", "Canceled", "Rejected", "Expired"}

\* The states in which the OMS believes an order is working or in flight.
LiveStates == {"PendingNewAck", "Acked", "PartiallyFilled", "PendingCancel"}

Working == {"Acked", "PartiallyFilled"}

-----------------------------------------------------------------------------
(* submit_new *)

\* A terminal order is cleared before the request is looked at, so that a
\* refused submission still leaves the manager Idle.
Recycled(o) == IF o.state \in TerminalStates THEN IdleOrder ELSE o

accepts_new(o, qty) == qty > 0 /\ Recycled(o).state = "Idle"

submitted(o, side, qty) ==
  IF accepts_new(o, qty)
  THEN [venue_order_id |-> 0, side |-> side, order_qty |-> qty,
        cum_qty |-> 0, leaves_qty |-> qty, state |-> "PendingNewAck"]
  ELSE Recycled(o)

(* request_cancel *)

may_cancel(o) == o.state \in Working

cancel_requested(o) ==
  IF may_cancel(o) THEN [o EXCEPT !.state = "PendingCancel"] ELSE o

-----------------------------------------------------------------------------
(* on_venue_event: the outcome is decided by a fixed sequence of checks,   *)
(* and only an Applied event changes the order.                            *)

\* Mutant of AcceptingStates: a late duplicate acknowledgment is accepted.
AcceptingStates_late_ack(type) ==
  CASE type = "NewAck"                        -> {"PendingNewAck"} \cup Working
    [] type = "NewReject"                     -> {"PendingNewAck"}
    [] type = "Fill"                          -> Working \cup {"PendingCancel"}
    [] type \in {"CancelAck", "CancelReject"} -> {"PendingCancel"}
    [] type = "Expired"                       -> Working

\* Mutant of AcceptingStates: a fill that overtakes a cancel is refused.
AcceptingStates_no_fill_while_canceling(type) ==
  CASE type \in {"NewAck", "NewReject"}       -> {"PendingNewAck"}
    [] type \in {"Fill", "Expired"}           -> Working
    [] type \in {"CancelAck", "CancelReject"} -> {"PendingCancel"}

\* Mutant of AcceptingStates: only an untouched order may expire.
AcceptingStates_expire_acked_only(type) ==
  CASE type \in {"NewAck", "NewReject"}       -> {"PendingNewAck"}
    [] type = "Fill"                          -> Working \cup {"PendingCancel"}
    [] type \in {"CancelAck", "CancelReject"} -> {"PendingCancel"}
    [] type = "Expired"                       -> {"Acked"}

\* The states in which each event type is accepted.
AcceptingStates(type) ==
  CASE type \in {"NewAck", "NewReject"}       -> {"PendingNewAck"}
    [] type = "Fill"                          -> Working \cup {"PendingCancel"}
    [] type \in {"CancelAck", "CancelReject"} -> {"PendingCancel"}
    [] type = "Expired"                       -> Working

\* Mutant of valid_fill_qty: the overfill check is dropped.
valid_fill_qty_no_overfill_check(o, qty) == qty > 0

valid_fill_qty(o, qty) == qty > 0 /\ qty <= o.leaves_qty

event_outcome(o, e) ==
  IF o.state \notin AcceptingStates(e.type) THEN "WrongState"
  ELSE IF e.type # "NewReject" /\ e.venue_order_id <= 0
  THEN "InvalidVenueOrderId"
  ELSE IF /\ e.type \notin {"NewAck", "NewReject"}
          /\ e.venue_order_id # o.venue_order_id
  THEN "WrongOrder"
  ELSE IF e.type = "Fill" /\ ~valid_fill_qty(o, e.fill_qty)
  THEN "InvalidQuantity"
  ELSE "Applied"

\* The order after each kind of event that is Applied.
acked(o, e) ==
  [o EXCEPT !.venue_order_id = e.venue_order_id, !.state = "Acked"]

rejected(o) == [o EXCEPT !.state = "Rejected"]

filled(o, e) ==
  [o EXCEPT !.cum_qty = @ + e.fill_qty,
            !.leaves_qty = @ - e.fill_qty,
            !.state = IF o.leaves_qty = e.fill_qty
                      THEN "Filled" ELSE "PartiallyFilled"]

canceled(o) == [o EXCEPT !.state = "Canceled", !.leaves_qty = 0]

\* Mutant of cancel_rejected: the partial fills are forgotten.
cancel_rejected_to_acked(o) == [o EXCEPT !.state = "Acked"]

cancel_rejected(o) ==
  [o EXCEPT !.state = IF o.leaves_qty = o.order_qty
                      THEN "Acked" ELSE "PartiallyFilled"]

expired(o) == [o EXCEPT !.leaves_qty = 0, !.state = "Expired"]

applied_event(o, e) ==
  CASE e.type = "NewAck"       -> acked(o, e)
    [] e.type = "NewReject"    -> rejected(o)
    [] e.type = "Fill"         -> filled(o, e)
    [] e.type = "CancelAck"    -> canceled(o)
    [] e.type = "CancelReject" -> cancel_rejected(o)
    [] e.type = "Expired"      -> expired(o)

order_after(o, e) ==
  IF event_outcome(o, e) = "Applied" THEN applied_event(o, e) ELSE o

\* Mutant of fill_out: the fill is handed out before the event is validated.
fill_out_unvalidated(o, e) ==
  IF e.type = "Fill"
  THEN [price |-> e.fill_price, quantity |-> e.fill_qty, side |-> o.side]
  ELSE NoFill

\* fill_out: cleared first, set only by an Applied Fill.
fill_out(o, e) ==
  IF e.type = "Fill" /\ event_outcome(o, e) = "Applied"
  THEN [price |-> e.fill_price, quantity |-> e.fill_qty, side |-> o.side]
  ELSE NoFill

-----------------------------------------------------------------------------
(* What every order record the manager can hold satisfies: the state and   *)
(* the three quantities tell the same story.  A live order has             *)
(* order_qty = cum_qty + leaves_qty, the executed part decides between     *)
(* Acked, PartiallyFilled and Filled, an order that ended after the ack    *)
(* has nothing left, and a venue id is held exactly by the orders the      *)
(* venue accepted.                                                         *)

ConsistentOrder(o) ==
  /\ o.cum_qty <= o.order_qty
  /\ o.state \in LiveStates => o.leaves_qty = o.order_qty - o.cum_qty
  /\ o.state \in {"Filled", "Canceled", "Expired"} => o.leaves_qty = 0
  /\ o.state \in {"PendingNewAck", "Acked", "Rejected"} => o.cum_qty = 0
  /\ o.state = "PartiallyFilled" => o.cum_qty > 0
  /\ o.state = "Idle" => o.order_qty = 0
  /\ o.state # "Idle" => (o.state = "Filled" <=> o.cum_qty = o.order_qty)
  /\ o.venue_order_id = 0
       <=> o.state \in {"Idle", "PendingNewAck", "Rejected"}

-----------------------------------------------------------------------------
(* The methods as actions on the component's state.                        *)

OmsInit == order = IdleOrder

submit_new(side, qty) == order' = submitted(order, side, qty)

request_cancel == order' = cancel_requested(order)

on_venue_event(e) == order' = order_after(order, e)
=============================================================================
