------------------------- MODULE HostileVenueProofs -------------------------
(***************************************************************************)
(* The order manager is safe against any venue, for every set of           *)
(* quantities, ids and prices.                                             *)
(***************************************************************************)
EXTENDS HostileVenue, OrderManagerProofs

-----------------------------------------------------------------------------
(* The specification *)

\* Inductive as it stands: ConsistentOrder carries the positive order_qty of a
\* live order (it is not yet Filled) and the venue id that rules out a fill
\* for an order without one.
HostileInv == HostileTypeOK /\ QuantitiesConsistent /\ ExecutedIsCum

\* The idle order is consistent and has executed nothing.
LEMMA HostileInitInv == HostileInit => HostileInv
<1> SUFFICES ASSUME HostileInit PROVE HostileInv
  OBVIOUS
<1>1. order = IdleOrder /\ executed = 0
  BY DEF HostileInit, OmsInit
<1> QED
  BY <1>1, IdleOrderSound DEF HostileInv, HostileTypeOK, QuantitiesConsistent,
     ExecutedIsCum, SoundOrder, IdleOrder

\* Whatever the venue says, the order stays consistent, and what accounting
\* is given is what the order executed.
LEMMA EventStepInv ==
  ASSUME HostileInv, NEW e \in VenueEvent, VenueSays(e)
  PROVE  HostileInv'
<1>1. SoundOrder(order) /\ executed = order.cum_qty
  BY DEF HostileInv, HostileTypeOK, QuantitiesConsistent, ExecutedIsCum,
         SoundOrder
<1>2. /\ order' = order_after(order, e)
      /\ executed' = executed + fill_out(order, e).quantity
  BY DEF VenueSays, on_venue_event
<1>3. /\ SoundOrder(order_after(order, e))
      /\ order_after(order, e).cum_qty
           = order.cum_qty + fill_out(order, e).quantity
  BY <1>1, EventSound
<1>4. /\ order' \in ManagedOrder
      /\ ConsistentOrder(order')
      /\ executed' = order'.cum_qty
  BY <1>1, <1>2, <1>3 DEF SoundOrder
<1>5. executed' \in Nat /\ executed' <= order'.order_qty
  BY <1>4 DEF ManagedOrder, ConsistentOrder
<1> QED
  BY <1>4, <1>5 DEF HostileInv, HostileTypeOK, QuantitiesConsistent,
                    ExecutedIsCum

\* submit_new starts an order with nothing executed, or refuses it.
LEMMA SubmitStepInv ==
  ASSUME HostileInv, NEW side \in Side, NEW qty \in Int, Submit(side, qty)
  PROVE  HostileInv'
<1>1. SoundOrder(order) /\ executed = order.cum_qty
  BY DEF HostileInv, HostileTypeOK, QuantitiesConsistent, ExecutedIsCum,
         SoundOrder
<1>2. /\ order' = submitted(order, side, qty)
      /\ executed' = IF order.state \in LiveStates THEN executed ELSE 0
  BY DEF Submit, submit_new
<1>3. SoundOrder(order')
  BY <1>1, <1>2, SubmittedSound
<1>4. executed' = order'.cum_qty
  <2>1. CASE order.state \in LiveStates
    <3>1. order' = order
      BY <1>2, <2>1 DEF submitted, accepts_new, Recycled, LiveStates,
                        TerminalStates
    <3> QED
      BY <1>1, <1>2, <2>1, <3>1
  <2>2. CASE order.state \notin LiveStates
    <3>1. order.state = "Idle" => order.cum_qty = 0
      BY <1>1 DEF SoundOrder, ConsistentOrder, ManagedOrder
    <3>2. Recycled(order).cum_qty = 0
      BY <1>1, <2>2, <3>1 DEF Recycled, IdleOrder, TerminalStates, LiveStates,
                              SoundOrder, ManagedOrder, OrderState
    <3> QED
      BY <1>2, <2>2, <3>2 DEF submitted
  <2> QED
    BY <2>1, <2>2
<1>5. executed' \in Nat /\ executed' <= order'.order_qty
  BY <1>3, <1>4 DEF SoundOrder, ManagedOrder, ConsistentOrder
<1> QED
  BY <1>3, <1>4, <1>5 DEF HostileInv, HostileTypeOK, QuantitiesConsistent,
                          ExecutedIsCum, SoundOrder

\* request_cancel moves no quantity.
LEMMA CancelStepInv ==
  ASSUME HostileInv, RequestCancel
  PROVE  HostileInv'
<1>1. SoundOrder(order) /\ executed = order.cum_qty
  BY DEF HostileInv, HostileTypeOK, QuantitiesConsistent, ExecutedIsCum,
         SoundOrder
<1>2. order' = cancel_requested(order) /\ executed' = executed
  BY DEF RequestCancel, request_cancel
<1>3. SoundOrder(order')
  BY <1>1, <1>2, CancelRequestedSound
<1>4. executed' = order'.cum_qty
  BY <1>1, <1>2 DEF cancel_requested, SoundOrder, ManagedOrder
<1>5. executed' \in Nat /\ executed' <= order'.order_qty
  BY <1>3, <1>4 DEF SoundOrder, ManagedOrder, ConsistentOrder
<1> QED
  BY <1>3, <1>4, <1>5 DEF HostileInv, HostileTypeOK, QuantitiesConsistent,
                          ExecutedIsCum, SoundOrder

\* The events the venue may send are venue events.
LEMMA EventIsVenueEvent ==
  ASSUME NEW type \in VenueEventType, NEW id \in VenueOrderIds,
         NEW qty \in FillQuantities \cup {0}, NEW price \in FillPrices \cup {0}
  PROVE  Event(type, id, qty, price) \in VenueEvent
BY HostileAssumption DEF Event, VenueEvent

\* Every step of the environment is one of three kinds.
LEMMA HostileSteps ==
  ASSUME HostileNext
  PROVE  \/ \E side \in Side, qty \in Int : Submit(side, qty)
         \/ RequestCancel
         \/ \E e \in VenueEvent : VenueSays(e)
<1>1. CASE \E side \in Side, qty \in SubmitQuantities : Submit(side, qty)
  BY <1>1, HostileAssumption
<1>2. CASE RequestCancel
  BY <1>2
<1>3. CASE NewAck
  BY <1>3, EventIsVenueEvent DEF NewAck, VenueEventType
<1>4. CASE NewReject
  BY <1>4, EventIsVenueEvent DEF NewReject, VenueEventType
<1>5. CASE FillEvent
  BY <1>5, EventIsVenueEvent DEF FillEvent, VenueEventType
<1>6. CASE CancelAck
  BY <1>6, EventIsVenueEvent DEF CancelAck, VenueEventType
<1>7. CASE CancelReject
  BY <1>7, EventIsVenueEvent DEF CancelReject, VenueEventType
<1>8. CASE ExpiredEvent
  BY <1>8, EventIsVenueEvent DEF ExpiredEvent, VenueEventType
<1> QED
  BY <1>1, <1>2, <1>3, <1>4, <1>5, <1>6, <1>7, <1>8 DEF HostileNext

\* The record keeps its types, its state and quantities agree, and what
\* accounting was given is what the order executed, against any venue.
THEOREM HostileInvariant == HostileSpec => []HostileInv
<1>1. HostileInit => HostileInv
  BY HostileInitInv
<1>2. HostileInv /\ [HostileNext]_vars => HostileInv'
  <2> SUFFICES ASSUME HostileInv, [HostileNext]_vars PROVE HostileInv'
    OBVIOUS
  <2>1. CASE HostileNext
    BY <2>1, HostileSteps, SubmitStepInv, CancelStepInv, EventStepInv
  <2>2. CASE UNCHANGED vars
    BY <2>2 DEF vars, HostileInv, HostileTypeOK, QuantitiesConsistent,
                ExecutedIsCum
  <2> QED
    BY <2>1, <2>2
<1> QED
  BY <1>1, <1>2, PTL DEF HostileSpec

\* No arithmetic of the order manager takes a quantity below zero.
THEOREM HostileTypeCorrect == HostileSpec => []HostileTypeOK
BY HostileInvariant, PTL DEF HostileInv

\* The order's state and quantities agree whatever the venue says.
THEOREM QuantitiesAlwaysConsistent == HostileSpec => []QuantitiesConsistent
BY HostileInvariant, PTL DEF HostileInv

\* No overfill and no double counting reaches accounting.
THEOREM NeverOverfilled == HostileSpec => []ExecutedIsCum
BY HostileInvariant, PTL DEF HostileInv

-----------------------------------------------------------------------------
(* One order at a time *)

\* No event, however late, changes the identity of a live order, takes back
\* an execution, gives quantity back or changes an order that ended; only
\* submit_new replaces it, by one without executions.
THEOREM OneOrderAtATime == HostileSpec => OrderLifetime
<1> DEFINE A ==
      /\ order.state \in LiveStates => SameOrder
      /\ order.state \in TerminalStates
           => Replaced \/ UNCHANGED <<order, executed>>
<1>1. HostileInv /\ [HostileNext]_vars => [A]_vars
  <2> SUFFICES ASSUME HostileInv, HostileNext PROVE A
    OBVIOUS
  <2>1. SoundOrder(order) /\ order \in ManagedOrder
    BY DEF HostileInv, HostileTypeOK, QuantitiesConsistent, SoundOrder
  <2>2. ASSUME NEW side \in Side, NEW qty \in Int, Submit(side, qty)
        PROVE  A
    <3>1. order' = submitted(order, side, qty)
      BY <2>2 DEF Submit, submit_new
    <3>2. CASE order.state \in LiveStates
      <4>1. order' = order
        BY <3>1, <3>2 DEF submitted, accepts_new, Recycled, LiveStates,
                          TerminalStates
      <4> QED
        BY <2>1, <3>2, <4>1 DEF SameOrder, ManagedOrder, LiveStates,
                                TerminalStates
    <3>3. CASE order.state \in TerminalStates
      BY <2>2, <3>1, <3>3 DEF submitted, accepts_new, Recycled, IdleOrder,
                              Submit, Replaced, LiveStates, TerminalStates
    <3> QED
      BY <3>2, <3>3
  <2>3. ASSUME RequestCancel PROVE A
    <3>1. order' = cancel_requested(order) /\ UNCHANGED executed
      BY <2>3 DEF RequestCancel, request_cancel
    <3> QED
      BY <2>1, <3>1 DEF cancel_requested, may_cancel, Working, SameOrder,
                        ManagedOrder, TerminalStates
  <2>4. ASSUME NEW e \in VenueEvent, VenueSays(e) PROVE A
    <3>1. order' = order_after(order, e)
      BY <2>4 DEF VenueSays, on_venue_event
    <3>2. /\ order.state \in LiveStates => SameOrder
          /\ order.state \in TerminalStates => order' = order
      BY <2>1, <3>1, EventKeepsOrder DEF SameOrder
    <3>3. executed = order.cum_qty /\ executed' = order'.cum_qty
      BY <2>4, EventStepInv DEF HostileInv, ExecutedIsCum
    <3> QED
      BY <3>2, <3>3
  <2> QED
    BY <2>2, <2>3, <2>4, HostileSteps
<1> QED
  BY <1>1, HostileInvariant, PTL DEF HostileSpec, OrderLifetime

=============================================================================
