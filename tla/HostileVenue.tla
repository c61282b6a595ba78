---------------------------- MODULE HostileVenue ----------------------------
(***************************************************************************)
(* The order manager against a venue that may say anything: events may be  *)
(* lost, duplicated, delayed past the end of the order they belong to,     *)
(* carry another order's id, an id that is not positive, or a quantity     *)
(* that is zero, negative or larger than what is left.  The desk submits   *)
(* and cancels at any time.  on_venue_event is the kernel's only defence.  *)
(***************************************************************************)
EXTENDS OrderManager

CONSTANTS
  SubmitQuantities,   \* quantities the desk asks for, good and bad
  VenueOrderIds,      \* ids the venue's events carry
  FillQuantities,     \* quantities the venue's fills carry
  FillPrices

ASSUME HostileAssumption ==
  /\ SubmitQuantities \subseteq Int
  /\ VenueOrderIds \subseteq Int
  /\ FillQuantities \subseteq Int
  /\ FillPrices \subseteq Int

VARIABLE executed   \* history: the fill_out quantities handed to accounting
                    \* since the order now held was created

vars == <<order, executed>>

HostileInit == OmsInit /\ executed = 0

\* submit_new starts a new history whenever it replaces the order it held.
Submit(side, qty) ==
  /\ submit_new(side, qty)
  /\ executed' = IF order.state \in LiveStates THEN executed ELSE 0

RequestCancel == request_cancel /\ UNCHANGED executed

VenueSays(e) ==
  /\ on_venue_event(e)
  /\ executed' = executed + fill_out(order, e).quantity

Event(type, id, qty, price) ==
  [type |-> type, venue_order_id |-> id, fill_qty |-> qty,
   fill_price |-> price]

NewAck == \E id \in VenueOrderIds : VenueSays(Event("NewAck", id, 0, 0))

NewReject == \E id \in VenueOrderIds : VenueSays(Event("NewReject", id, 0, 0))

FillEvent ==
  \E id \in VenueOrderIds, qty \in FillQuantities, price \in FillPrices :
    VenueSays(Event("Fill", id, qty, price))

CancelAck == \E id \in VenueOrderIds : VenueSays(Event("CancelAck", id, 0, 0))

CancelReject ==
  \E id \in VenueOrderIds : VenueSays(Event("CancelReject", id, 0, 0))

ExpiredEvent == \E id \in VenueOrderIds : VenueSays(Event("Expired", id, 0, 0))

HostileNext ==
  \/ \E side \in Side, qty \in SubmitQuantities : Submit(side, qty)
  \/ RequestCancel
  \/ NewAck
  \/ NewReject
  \/ FillEvent
  \/ CancelAck
  \/ CancelReject
  \/ ExpiredEvent

HostileSpec == HostileInit /\ [][HostileNext]_vars

-----------------------------------------------------------------------------
(* Properties *)

\* The order record keeps its types, and no arithmetic of on_venue_event
\* takes a quantity below zero.
HostileTypeOK ==
  /\ order \in ManagedOrder
  /\ executed \in Nat

\* The state and the three quantities of the order agree after any sequence
\* of requests and venue events: no duplicate, late or forged event applied
\* by on_venue_event breaks ConsistentOrder.
QuantitiesConsistent == ConsistentOrder(order)

\* Whatever the venue repeats or invents, the quantity handed to accounting
\* is the cumulative quantity of the order, and never more than was asked.
ExecutedIsCum ==
  /\ executed = order.cum_qty
  /\ executed <= order.order_qty

\* One order at a time: no event, however late, gives a live order another
\* identity, takes back an execution or gives quantity back, and an order
\* that ended stays as it is, in all its fields, until submit_new replaces it
\* by one without executions.
SameOrder ==
  /\ order'.side = order.side
  /\ order'.order_qty = order.order_qty
  /\ order'.venue_order_id = order.venue_order_id
       \/ order.state = "PendingNewAck"
  /\ order'.cum_qty >= order.cum_qty
  /\ order'.leaves_qty <= order.leaves_qty

Replaced ==
  /\ order'.state \in {"Idle", "PendingNewAck"}
  /\ order'.venue_order_id = 0
  /\ order'.cum_qty = 0
  /\ executed' = 0

OrderLifetime ==
  [][/\ order.state \in LiveStates => SameOrder
     /\ order.state \in TerminalStates
          => Replaced \/ UNCHANGED <<order, executed>>]_vars

\* SPEC.md: a terminal order has leaves_qty == 0.  NewReject is terminal and
\* leaves leaves_qty as it was.
TerminalHasNoLeaves ==
  order.state \in TerminalStates => order.leaves_qty = 0
=============================================================================
