------------------------- MODULE OrderManagerProofs -------------------------
(***************************************************************************)
(* Lemmas about the methods of OrderManager, as functions on order         *)
(* records.  HostileVenueProofs and ReplayRunnerProofs cite them.          *)
(***************************************************************************)
EXTENDS OrderManager, TLAPS

\* An order record the manager can hold.
SoundOrder(o) == o \in ManagedOrder /\ ConsistentOrder(o)

-----------------------------------------------------------------------------
(* Lemmas about the methods *)

\* Updating one field of an order record touches no other field.
LEMMA WithVenueId ==
  ASSUME NEW o \in ManagedOrder, NEW id \in Nat
  PROVE  LET n == [o EXCEPT !.venue_order_id = id] IN
         /\ n \in ManagedOrder /\ n.venue_order_id = id /\ n.side = o.side
         /\ n.order_qty = o.order_qty /\ n.cum_qty = o.cum_qty
         /\ n.leaves_qty = o.leaves_qty /\ n.state = o.state
BY DEF ManagedOrder

\* Updating the executed quantity of an order touches no other field.
LEMMA WithCum ==
  ASSUME NEW o \in ManagedOrder, NEW q \in Nat
  PROVE  LET n == [o EXCEPT !.cum_qty = q] IN
         /\ n \in ManagedOrder /\ n.venue_order_id = o.venue_order_id
         /\ n.side = o.side /\ n.order_qty = o.order_qty /\ n.cum_qty = q
         /\ n.leaves_qty = o.leaves_qty /\ n.state = o.state
BY DEF ManagedOrder

\* Likewise for the quantity that is left.
LEMMA WithLeaves ==
  ASSUME NEW o \in ManagedOrder, NEW q \in Nat
  PROVE  LET n == [o EXCEPT !.leaves_qty = q] IN
         /\ n \in ManagedOrder /\ n.venue_order_id = o.venue_order_id
         /\ n.side = o.side /\ n.order_qty = o.order_qty
         /\ n.cum_qty = o.cum_qty /\ n.leaves_qty = q /\ n.state = o.state
BY DEF ManagedOrder

\* Likewise for the state.
LEMMA WithState ==
  ASSUME NEW o \in ManagedOrder, NEW st \in OrderState
  PROVE  LET n == [o EXCEPT !.state = st] IN
         /\ n \in ManagedOrder /\ n.venue_order_id = o.venue_order_id
         /\ n.side = o.side /\ n.order_qty = o.order_qty
         /\ n.cum_qty = o.cum_qty /\ n.leaves_qty = o.leaves_qty
         /\ n.state = st
BY DEF ManagedOrder

\* The fields of the record after each method that updates several of them.
LEMMA AckedFields ==
  ASSUME NEW o \in ManagedOrder, NEW e, e.venue_order_id \in Nat
  PROVE  LET n == acked(o, e) IN
         /\ n \in ManagedOrder /\ n.venue_order_id = e.venue_order_id
         /\ n.side = o.side /\ n.order_qty = o.order_qty
         /\ n.cum_qty = o.cum_qty /\ n.leaves_qty = o.leaves_qty
         /\ n.state = "Acked"
<1> DEFINE m == [o EXCEPT !.venue_order_id = e.venue_order_id]
<1>1. /\ m \in ManagedOrder /\ m.venue_order_id = e.venue_order_id
      /\ m.side = o.side /\ m.order_qty = o.order_qty
      /\ m.cum_qty = o.cum_qty /\ m.leaves_qty = o.leaves_qty
  BY WithVenueId
<1>2. acked(o, e) = [m EXCEPT !.state = "Acked"]
  BY DEF acked
<1>3. "Acked" \in OrderState
  BY DEF OrderState
<1> HIDE DEF m
<1> QED
  BY <1>1, <1>2, <1>3, WithState

\* The fields of the order after an accepted fill.
LEMMA FilledFields ==
  ASSUME NEW o \in ManagedOrder, NEW e, e.fill_qty \in 1 .. o.leaves_qty
  PROVE  LET n == filled(o, e) IN
         /\ n \in ManagedOrder /\ n.venue_order_id = o.venue_order_id
         /\ n.side = o.side /\ n.order_qty = o.order_qty
         /\ n.cum_qty = o.cum_qty + e.fill_qty
         /\ n.leaves_qty = o.leaves_qty - e.fill_qty
         /\ n.state = IF o.leaves_qty = e.fill_qty
                      THEN "Filled" ELSE "PartiallyFilled"
<1> DEFINE m1 == [o EXCEPT !.cum_qty = @ + e.fill_qty]
           m2 == [m1 EXCEPT !.leaves_qty = @ - e.fill_qty]
<1>0. /\ o.cum_qty + e.fill_qty \in Nat
      /\ o.leaves_qty - e.fill_qty \in Nat
  BY DEF ManagedOrder
<1>1. /\ m1 \in ManagedOrder /\ m1.venue_order_id = o.venue_order_id
      /\ m1.side = o.side /\ m1.order_qty = o.order_qty
      /\ m1.cum_qty = o.cum_qty + e.fill_qty
      /\ m1.leaves_qty = o.leaves_qty
  BY <1>0, WithCum
<1>2. filled(o, e) = [m2 EXCEPT !.state = IF o.leaves_qty = e.fill_qty
                                          THEN "Filled" ELSE "PartiallyFilled"]
  BY DEF filled
<1>3. m2 = [m1 EXCEPT !.leaves_qty = o.leaves_qty - e.fill_qty]
  BY <1>1
<1> HIDE DEF m1
<1>4. /\ m2 \in ManagedOrder /\ m2.venue_order_id = o.venue_order_id
      /\ m2.side = o.side /\ m2.order_qty = o.order_qty
      /\ m2.cum_qty = o.cum_qty + e.fill_qty
      /\ m2.leaves_qty = o.leaves_qty - e.fill_qty
  BY <1>0, <1>1, <1>3, WithLeaves
<1> HIDE DEF m2
<1> DEFINE st == IF o.leaves_qty = e.fill_qty
                 THEN "Filled" ELSE "PartiallyFilled"
<1>5. st \in OrderState
  BY DEF OrderState
<1>6. filled(o, e) = [m2 EXCEPT !.state = st]
  BY <1>2
<1> HIDE DEF st
<1>7. LET n == filled(o, e) IN
      /\ n \in ManagedOrder /\ n.venue_order_id = o.venue_order_id
      /\ n.side = o.side /\ n.order_qty = o.order_qty
      /\ n.cum_qty = o.cum_qty + e.fill_qty
      /\ n.leaves_qty = o.leaves_qty - e.fill_qty /\ n.state = st
  BY <1>4, <1>5, <1>6, WithState
<1> QED
  BY <1>7 DEF st

\* The fields of the order after an accepted CancelAck.
LEMMA CanceledFields ==
  ASSUME NEW o \in ManagedOrder
  PROVE  LET n == canceled(o) IN
         /\ n \in ManagedOrder /\ n.venue_order_id = o.venue_order_id
         /\ n.side = o.side /\ n.order_qty = o.order_qty
         /\ n.cum_qty = o.cum_qty /\ n.leaves_qty = 0
         /\ n.state = "Canceled"
<1> DEFINE m == [o EXCEPT !.state = "Canceled"]
<1>1. "Canceled" \in OrderState
  BY DEF OrderState
<1>2. /\ m \in ManagedOrder /\ m.venue_order_id = o.venue_order_id
      /\ m.side = o.side /\ m.order_qty = o.order_qty
      /\ m.cum_qty = o.cum_qty /\ m.state = "Canceled"
  BY <1>1, WithState
<1>3. canceled(o) = [m EXCEPT !.leaves_qty = 0]
  BY DEF canceled
<1> HIDE DEF m
<1> QED
  BY <1>2, <1>3, WithLeaves

\* The fields of the order after an accepted Expired.
LEMMA ExpiredFields ==
  ASSUME NEW o \in ManagedOrder
  PROVE  LET n == expired(o) IN
         /\ n \in ManagedOrder /\ n.venue_order_id = o.venue_order_id
         /\ n.side = o.side /\ n.order_qty = o.order_qty
         /\ n.cum_qty = o.cum_qty /\ n.leaves_qty = 0
         /\ n.state = "Expired"
<1> DEFINE m == [o EXCEPT !.leaves_qty = 0]
<1>1. "Expired" \in OrderState
  BY DEF OrderState
<1>2. /\ m \in ManagedOrder /\ m.venue_order_id = o.venue_order_id
      /\ m.side = o.side /\ m.order_qty = o.order_qty
      /\ m.cum_qty = o.cum_qty /\ m.leaves_qty = 0
  BY WithLeaves
<1>3. expired(o) = [m EXCEPT !.state = "Expired"]
  BY DEF expired
<1> HIDE DEF m
<1> QED
  BY <1>1, <1>2, <1>3, WithState

\* The initial record, and the one a terminal order is reset to, is sound.
LEMMA IdleOrderSound == SoundOrder(IdleOrder)
BY DEF SoundOrder, IdleOrder, ManagedOrder, ConsistentOrder, OrderState, Side,
       LiveStates

\* submit_new keeps the record sound whatever quantity is asked for: an
\* unusable one leaves a live order alone and resets a terminal one.
LEMMA SubmittedSound ==
  ASSUME NEW o, SoundOrder(o), NEW side \in Side, NEW qty \in Int
  PROVE  SoundOrder(submitted(o, side, qty))
<1>1. SoundOrder(Recycled(o))
  BY IdleOrderSound DEF Recycled
<1>2. CASE accepts_new(o, qty)
  BY <1>2 DEF accepts_new, submitted, SoundOrder, ManagedOrder,
              ConsistentOrder, OrderState, LiveStates
<1>3. CASE ~accepts_new(o, qty)
  BY <1>1, <1>3 DEF submitted
<1> QED
  BY <1>2, <1>3

\* request_cancel only renames Acked or PartiallyFilled to PendingCancel.
LEMMA CancelRequestedSound ==
  ASSUME NEW o, SoundOrder(o)
  PROVE  SoundOrder(cancel_requested(o))
BY DEF SoundOrder, cancel_requested, may_cancel, Working, ManagedOrder,
       ConsistentOrder, OrderState, LiveStates

\* An event that passes every check of on_venue_event for its type comes from
\* a state that accepts it and, unless it ends a pending submission, names
\* the order held.
LEMMA AppliedEventChecked ==
  ASSUME NEW o \in ManagedOrder, NEW e \in VenueEvent,
         event_outcome(o, e) = "Applied"
  PROVE  /\ o.state \in AcceptingStates(e.type)
         /\ e.type # "NewReject" => e.venue_order_id > 0
         /\ e.type \notin {"NewAck", "NewReject"}
              => e.venue_order_id = o.venue_order_id
         /\ e.type = "Fill" => e.fill_qty \in 1 .. o.leaves_qty
<1> DEFINE A == o.state \in AcceptingStates(e.type)
           B == e.type # "NewReject" /\ e.venue_order_id <= 0
           C == /\ e.type \notin {"NewAck", "NewReject"}
                /\ e.venue_order_id # o.venue_order_id
           D == e.type = "Fill" /\ ~valid_fill_qty(o, e.fill_qty)
<1>1. A /\ ~B /\ ~C /\ ~D
  BY DEF event_outcome
<1> QED
  BY <1>1 DEF valid_fill_qty, VenueEvent, ManagedOrder

\* Every event leaves a sound record, and the cumulative quantity moves by
\* exactly the quantity of the fill handed to accounting.
LEMMA EventSound ==
  ASSUME NEW o, SoundOrder(o), NEW e \in VenueEvent
  PROVE  /\ SoundOrder(order_after(o, e))
         /\ order_after(o, e).cum_qty = o.cum_qty + fill_out(o, e).quantity
<1> DEFINE n == order_after(o, e)
<1>0. o \in ManagedOrder /\ ConsistentOrder(o)
  BY DEF SoundOrder
<1>1. CASE event_outcome(o, e) # "Applied"
  <2>1. n = o /\ fill_out(o, e) = NoFill
    BY <1>1 DEF order_after, fill_out
  <2> QED
    BY <1>0, <2>1 DEF NoFill, SoundOrder, ManagedOrder
<1>2. CASE event_outcome(o, e) = "Applied"
  <2>1. /\ o.state \in AcceptingStates(e.type)
        /\ e.type # "NewReject" => e.venue_order_id > 0
        /\ e.type \notin {"NewAck", "NewReject"}
             => e.venue_order_id = o.venue_order_id
        /\ e.type = "Fill" => e.fill_qty \in 1 .. o.leaves_qty
    BY <1>0, <1>2, AppliedEventChecked
  <2>2. n = applied_event(o, e)
    BY <1>2 DEF order_after
  <2>3. e.type # "Fill" => fill_out(o, e).quantity = 0
    BY DEF fill_out, NoFill
  <2>4. CASE e.type = "NewAck"
    <3>1. n = acked(o, e) /\ o.state = "PendingNewAck"
      BY <2>1, <2>2, <2>4 DEF applied_event, AcceptingStates
    <3>2. /\ n \in ManagedOrder
          /\ n.venue_order_id = e.venue_order_id /\ n.state = "Acked"
          /\ n.order_qty = o.order_qty /\ n.cum_qty = o.cum_qty
          /\ n.leaves_qty = o.leaves_qty
      BY <1>0, <2>1, <2>4, <3>1, AckedFields DEF VenueEvent
    <3>3. ConsistentOrder(n)
      BY <1>0, <2>1, <2>4, <3>1, <3>2 DEF ConsistentOrder, LiveStates,
         ManagedOrder
    <3> QED
      BY <1>0, <2>3, <2>4, <3>2, <3>3 DEF SoundOrder, ManagedOrder
  <2>5. CASE e.type = "NewReject"
    <3>1. n = rejected(o) /\ o.state = "PendingNewAck"
      BY <2>1, <2>2, <2>5 DEF applied_event, AcceptingStates
    <3> QED
      BY <1>0, <2>3, <2>5, <3>1 DEF rejected, SoundOrder, ManagedOrder,
         ConsistentOrder, OrderState, LiveStates
  <2>6. CASE e.type = "Fill"
    <3>1. n = filled(o, e)
      BY <2>2, <2>6 DEF applied_event
    <3>2. o.state \in {"Acked", "PartiallyFilled", "PendingCancel"}
      BY <2>1, <2>6 DEF AcceptingStates, Working
    <3>3. fill_out(o, e).quantity = e.fill_qty
      BY <1>2, <2>6 DEF fill_out
    <3>4. e.fill_qty \in Int /\ o.leaves_qty \in Nat /\ o.cum_qty \in Nat
      BY <1>0 DEF VenueEvent, ManagedOrder
    <3>5. /\ n \in ManagedOrder
          /\ n.state = IF o.leaves_qty = e.fill_qty
                       THEN "Filled" ELSE "PartiallyFilled"
          /\ n.venue_order_id = o.venue_order_id
          /\ n.order_qty = o.order_qty
          /\ n.cum_qty = o.cum_qty + e.fill_qty
          /\ n.leaves_qty = o.leaves_qty - e.fill_qty
      BY <1>0, <2>1, <2>6, <3>1, FilledFields
    <3>6. ConsistentOrder(n)
      BY <1>0, <2>1, <2>6, <3>2, <3>4, <3>5 DEF ConsistentOrder, LiveStates,
         ManagedOrder
    <3> QED
      BY <3>3, <3>5, <3>6 DEF SoundOrder
  <2>7. CASE e.type = "CancelAck"
    <3>1. n = canceled(o) /\ o.state = "PendingCancel"
      BY <2>1, <2>2, <2>7 DEF applied_event, AcceptingStates
    <3>2. /\ n \in ManagedOrder
          /\ n.venue_order_id = o.venue_order_id /\ n.state = "Canceled"
          /\ n.order_qty = o.order_qty /\ n.cum_qty = o.cum_qty
          /\ n.leaves_qty = 0
      BY <1>0, <3>1, CanceledFields
    <3>3. ConsistentOrder(n)
      BY <1>0, <3>1, <3>2 DEF ConsistentOrder, LiveStates, ManagedOrder
    <3> QED
      BY <1>0, <2>3, <2>7, <3>2, <3>3 DEF SoundOrder, ManagedOrder
  <2>8. CASE e.type = "CancelReject"
    <3>1. n = cancel_rejected(o) /\ o.state = "PendingCancel"
      BY <2>1, <2>2, <2>8 DEF applied_event, AcceptingStates
    <3> QED
      BY <1>0, <2>3, <2>8, <3>1 DEF cancel_rejected, SoundOrder, ManagedOrder,
         ConsistentOrder, OrderState, LiveStates
  <2>9. CASE e.type = "Expired"
    <3>1. n = expired(o) /\ o.state \in {"Acked", "PartiallyFilled"}
      BY <2>1, <2>2, <2>9 DEF applied_event, AcceptingStates, Working
    <3>2. /\ n \in ManagedOrder
          /\ n.venue_order_id = o.venue_order_id /\ n.state = "Expired"
          /\ n.order_qty = o.order_qty /\ n.cum_qty = o.cum_qty
          /\ n.leaves_qty = 0
      BY <1>0, <3>1, ExpiredFields
    <3>3. ConsistentOrder(n)
      BY <1>0, <3>1, <3>2 DEF ConsistentOrder, LiveStates, ManagedOrder
    <3> QED
      BY <1>0, <2>3, <2>9, <3>2, <3>3 DEF SoundOrder, ManagedOrder
  <2> QED
    BY <2>4, <2>5, <2>6, <2>7, <2>8, <2>9 DEF VenueEvent, VenueEventType
<1> QED
  BY <1>1, <1>2

\* What an event may do to the order held, whatever the event.
LEMMA EventKeepsOrder ==
  ASSUME NEW o, SoundOrder(o), NEW e \in VenueEvent
  PROVE  LET n == order_after(o, e) IN
         /\ n.side = o.side /\ n.order_qty = o.order_qty
         /\ n.venue_order_id = o.venue_order_id \/ o.state = "PendingNewAck"
         /\ n.cum_qty >= o.cum_qty /\ n.leaves_qty <= o.leaves_qty
         /\ o.state \in TerminalStates => n = o
<1> DEFINE n == order_after(o, e)
<1>0. o \in ManagedOrder
  BY DEF SoundOrder
<1>1. CASE event_outcome(o, e) # "Applied"
  BY <1>0, <1>1 DEF order_after, ManagedOrder
<1>2. CASE event_outcome(o, e) = "Applied"
  <2>1. /\ o.state \in AcceptingStates(e.type)
        /\ e.type # "NewReject" => e.venue_order_id > 0
        /\ e.type = "Fill" => e.fill_qty \in 1 .. o.leaves_qty
    BY <1>0, <1>2, AppliedEventChecked
  <2>2. n = applied_event(o, e)
    BY <1>2 DEF order_after
  <2>3. o.state \notin TerminalStates
    BY <2>1 DEF AcceptingStates, TerminalStates, Working, VenueEvent,
                VenueEventType
  <2>4. /\ o.cum_qty \in Nat /\ o.leaves_qty \in Nat
        /\ e.fill_qty \in Int /\ e.venue_order_id \in Int
    BY <1>0 DEF ManagedOrder, VenueEvent
  <2>5. CASE e.type = "NewAck"
    <3>1. n = acked(o, e) /\ o.state = "PendingNewAck"
      BY <2>1, <2>2, <2>5 DEF applied_event, AcceptingStates
    <3> QED
      BY <1>0, <2>1, <2>3, <2>4, <2>5, <3>1, AckedFields
  <2>6. CASE e.type = "NewReject"
    <3>1. n = [o EXCEPT !.state = "Rejected"]
      BY <2>2, <2>6 DEF applied_event, rejected
    <3>2. "Rejected" \in OrderState
      BY DEF OrderState
    <3> QED
      BY <1>0, <2>3, <2>4, <3>1, <3>2, WithState
  <2>7. CASE e.type = "Fill"
    <3>1. n = filled(o, e)
      BY <2>2, <2>7 DEF applied_event
    <3> QED
      BY <1>0, <2>1, <2>3, <2>4, <2>7, <3>1, FilledFields
  <2>8. CASE e.type = "CancelAck"
    <3>1. n = canceled(o)
      BY <2>2, <2>8 DEF applied_event
    <3> QED
      BY <1>0, <2>3, <2>4, <3>1, CanceledFields
  <2>9. CASE e.type = "CancelReject"
    <3> DEFINE st == IF o.leaves_qty = o.order_qty
                     THEN "Acked" ELSE "PartiallyFilled"
    <3>1. n = [o EXCEPT !.state = st]
      BY <2>2, <2>9 DEF applied_event, cancel_rejected
    <3>2. st \in OrderState
      BY DEF OrderState
    <3> HIDE DEF st
    <3> QED
      BY <1>0, <2>3, <2>4, <3>1, <3>2, WithState
  <2>10. CASE e.type = "Expired"
    <3>1. n = expired(o)
      BY <2>2, <2>10 DEF applied_event
    <3> QED
      BY <1>0, <2>3, <2>4, <3>1, ExpiredFields
  <2> QED
    BY <2>5, <2>6, <2>7, <2>8, <2>9, <2>10 DEF VenueEvent, VenueEventType
<1> QED
  BY <1>1, <1>2
=============================================================================
