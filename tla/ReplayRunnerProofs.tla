------------------------ MODULE ReplayRunnerProofs --------------------------
(***************************************************************************)
(* Proofs about run_replay.  The argument is one inductive invariant,      *)
(* LoopInv.  Its heart is Agreement(s, g): gateway g works on the order    *)
(* that the order manager s holds.  Inside a tick the two differ, because  *)
(* the gateway is already ahead of the events that the loop has still to   *)
(* handle; what is invariant is that they agree once the order manager has *)
(* heard the rest of the batch, HeardAll(OmsView, batch).                  *)
(*                                                                         *)
(* The module goes from the inside out: what the simulator can do with a   *)
(* resting order, what the order manager makes of each answer, one on_tick *)
(* of the gateway (GatewayTick), what one event does to the journal and to *)
(* the exposure, and one lemma for each action of the loop.  That a late   *)
(* CancelAck is one a fill overtook is inductive on top of LoopInv         *)
(* (OvertakenStep).                                                        *)
(*                                                                         *)
(* The second half is about the report.  Tallied says what one on_tick may *)
(* count (GatewayTallied), and ResultInv, over LoopInv, relates the        *)
(* tallies to what is still on its way: fills in the batch, a pending      *)
(* cancel, the order the gateway works on, the samples of an open tick.    *)
(***************************************************************************)
EXTENDS ReplayResult, OrderManagerProofs, SequenceTheorems,
        FiniteSetTheorems

-----------------------------------------------------------------------------
(* The simulator and the order that rests in it *)

\* The resting order s is r with left of its quantity remaining.
StillRests(r, s, left) ==
  /\ s \in RestingOrder
  /\ s.active
  /\ s.side = r.side
  /\ s.leaves_qty = left
  /\ s.cancel_pending = r.cancel_pending

\* Losing queue ahead of it, the order rests on.
LEMMA QueueAhead ==
  ASSUME NEW r \in RestingOrder, r.active, NEW q \in Nat
  PROVE  StillRests(r, [r EXCEPT !.queue_ahead_qty = q], r.leaves_qty)
  BY DEF StillRests, RestingOrder

\* Losing some of its quantity, the order rests on with the rest.
LEMMA LeavesLeft ==
  ASSUME NEW r \in RestingOrder, r.active, NEW q \in Nat
  PROVE  StillRests(r, [r EXCEPT !.leaves_qty = q], q)
  BY DEF StillRests, RestingOrder

\* The queue ahead consumes no more than there is of it, and no more than the
\* market shows.
LEMMA QueueShrinks ==
  ASSUME NEW r \in RestingOrder, NEW t \in MarketTick
  PROVE  /\ opposite_qty(t, r.side) \in Nat
         /\ queue_consumed(r, t) \in 0 .. opposite_qty(t, r.side)
         /\ r.queue_ahead_qty - queue_consumed(r, t) \in Nat
  <1>1. /\ r.queue_ahead_qty \in Nat /\ r.side \in Side
        /\ t.bid_qty \in Nat /\ t.ask_qty \in Nat
    BY DEF RestingOrder, MarketTick
  <1>2. opposite_qty(t, r.side) \in Nat
    BY <1>1 DEF opposite_qty
  <1> QED
    BY <1>1, <1>2 DEF queue_consumed, Smaller

\* A passive fill is never larger than what is left of the order.
LEMMA FillQuantity ==
  ASSUME NEW r \in RestingOrder, NEW t \in MarketTick
  PROVE  passive_fill_qty(r, t) \in 0 .. r.leaves_qty
  <1>1. r.leaves_qty \in Nat
    BY DEF RestingOrder
  <1> QED
    BY <1>1, QueueShrinks DEF passive_fill_qty, Smaller

\* What the simulator may do on a tick with the order that rests: nothing,
\* fill some of it, or take it off after a cancel.
RestingOutcome(r, x) ==
  \/ x.report = Quiet(r.leaves_qty) /\ StillRests(r, x.resting, r.leaves_qty)
  \/ /\ x.report = [Quiet(0) EXCEPT !.cancel_acked = TRUE]
     /\ x.resting = NoRestingOrder
     /\ r.cancel_pending
  \/ \E q \in 1 .. r.leaves_qty :
       /\ x.report = Filling([price |-> r.price, quantity |-> q,
                              side |-> r.side], r.leaves_qty - q)
       /\ IF q = r.leaves_qty THEN x.resting = NoRestingOrder
          ELSE StillRests(r, x.resting, r.leaves_qty - q)

\* on_tick has no other outcome.
LEMMA ExecOnTick ==
  ASSUME NEW r \in RestingOrder, r.active, r.leaves_qty > 0,
         NEW t \in MarketTick
  PROVE  RestingOutcome(r, exec_on_tick(r, t))
  <1> DEFINE m == passive_fill_from_market(r, t)
             q == passive_fill_qty(r, t)
             queued == [r EXCEPT !.queue_ahead_qty = @ - queue_consumed(r, t)]
             x == exec_on_tick(r, t)
  <1>1. StillRests(r, queued, r.leaves_qty)
    BY QueueShrinks, QueueAhead
  <1>2. q \in 0 .. r.leaves_qty /\ r.leaves_qty \in Nat
    BY FillQuantity DEF RestingOrder
  <1>3. CASE q = 0
    <2>1. m = Executed(queued, Quiet(r.leaves_qty), <<>>)
      BY <1>3 DEF passive_fill_from_market
    <2>2. m.resting = queued /\ ~m.report.has_fill
      BY <2>1 DEF Executed, Quiet
    <2> HIDE DEF m, queued
    <2>3. \/ x = Executed(NoRestingOrder,
                          [Quiet(0) EXCEPT !.cancel_acked = TRUE],
                          <<"cancel_ack_count">>)
             /\ cancel_effective(queued, t)
          \/ x = Executed(queued, Quiet(queued.leaves_qty), <<>>)
      BY <2>2 DEF exec_on_tick, m
    <2> QED
      <3>1. queued.leaves_qty = r.leaves_qty
            /\ queued.cancel_pending = r.cancel_pending
        BY <1>1 DEF StillRests
      <3>2. CASE cancel_effective(queued, t)
                 /\ x = Executed(NoRestingOrder,
                                 [Quiet(0) EXCEPT !.cancel_acked = TRUE],
                                 <<"cancel_ack_count">>)
        BY <3>1, <3>2 DEF Executed, RestingOutcome, cancel_effective
      <3>3. CASE x = Executed(queued, Quiet(queued.leaves_qty), <<>>)
        BY <1>1, <3>1, <3>3 DEF Executed, RestingOutcome
      <3> QED
        BY <2>3, <3>2, <3>3
  <1>4. CASE q # 0
    <2> DEFINE left == r.leaves_qty - q
               fill == [price |-> r.price, quantity |-> q, side |-> r.side]
               rest == IF left = 0 THEN NoRestingOrder
                       ELSE [queued EXCEPT !.leaves_qty = left]
    <2>1. m = Executed(rest, Filling(fill, left), passive_counted(r, t, left))
      BY <1>2, <1>4 DEF passive_fill_from_market
    <2>2. x = m
      BY <2>1 DEF exec_on_tick, Executed, Filling
    <2>3. left # 0 => StillRests(r, [queued EXCEPT !.leaves_qty = left], left)
      <3> HIDE DEF queued
      <3>1. ASSUME left # 0 PROVE StillRests(queued, [queued EXCEPT !.leaves_qty = left], left)
        BY <1>1, <1>2, LeavesLeft DEF StillRests
      <3> QED
        BY <1>1, <3>1 DEF StillRests
    <2> HIDE DEF queued
    <2>4. x.report = Filling(fill, left) /\ x.resting = rest
      BY <2>1, <2>2 DEF Executed
    <2>5. q \in 1 .. r.leaves_qty /\ (left = 0 <=> q = r.leaves_qty)
      BY <1>2, <1>4
    <2> HIDE DEF q, x, m
    <2> QED
      BY <2>3, <2>4, <2>5 DEF RestingOutcome, x
  <1> QED
    BY <1>3, <1>4

\* A cancel in effect survives a tick of the simulator only if the tick filled
\* part of the order; the queue ahead is then used up.
LEMMA CancelOvertaken ==
  ASSUME NEW r \in RestingOrder, r.active, NEW t \in MarketTick
  PROVE  LET s == exec_on_tick(r, t).resting IN
         /\ s.cancel_pending => r.cancel_pending
         /\ cancel_effective(s, t)
              => TradesWith(t, s) /\ s.leaves_qty < r.leaves_qty
  <1> DEFINE m == passive_fill_from_market(r, t)
             q == passive_fill_qty(r, t)
             queued == [r EXCEPT !.queue_ahead_qty = @ - queue_consumed(r, t)]
             s == exec_on_tick(r, t).resting
  <1>1. StillRests(r, queued, r.leaves_qty)
    BY QueueShrinks, QueueAhead
  <1>2. q \in 0 .. r.leaves_qty /\ r.leaves_qty \in Nat
    BY FillQuantity DEF RestingOrder
  <1>3. ~NoRestingOrder.cancel_pending
    BY DEF NoRestingOrder
  <1>4. CASE q = 0
    <2>1. m = Executed(queued, Quiet(r.leaves_qty), <<>>)
      BY <1>4 DEF passive_fill_from_market
    <2>2. m.resting = queued /\ ~m.report.has_fill
      BY <2>1 DEF Executed, Quiet
    <2> HIDE DEF m, queued
    <2>3. s = IF cancel_effective(queued, t) THEN NoRestingOrder ELSE queued
      BY <2>2 DEF exec_on_tick, m, Executed
    <2> QED
      BY <1>1, <1>3, <2>3 DEF StillRests, cancel_effective
  <1>5. CASE q # 0
    <2> DEFINE left == r.leaves_qty - q
               rest == [queued EXCEPT !.leaves_qty = left]
    <2>1. /\ is_marketable(r, t) /\ opposite_qty(t, r.side) > 0
          /\ r.queue_ahead_qty = queue_consumed(r, t)
      <3>1. /\ r.queue_ahead_qty \in Nat /\ opposite_qty(t, r.side) \in Nat
            /\ queue_consumed(r, t) \in 0 .. opposite_qty(t, r.side)
        BY QueueShrinks DEF RestingOrder
      <3>2. /\ is_marketable(r, t)
            /\ q = Smaller(r.leaves_qty,
                           opposite_qty(t, r.side) - queue_consumed(r, t))
        BY <1>5 DEF passive_fill_qty
      <3>3. opposite_qty(t, r.side) - queue_consumed(r, t) > 0
        BY <1>2, <1>5, <3>1, <3>2 DEF Smaller
      <3>4. queue_consumed(r, t)
              = Smaller(r.queue_ahead_qty, opposite_qty(t, r.side))
        BY <3>2 DEF queue_consumed
      <3> QED
        BY <3>1, <3>2, <3>3, <3>4 DEF Smaller
    <2>2. /\ rest.active /\ rest.side = r.side /\ rest.price = r.price
          /\ rest.queue_ahead_qty = 0 /\ rest.leaves_qty = left
          /\ rest.cancel_pending = r.cancel_pending
      BY <2>1 DEF RestingOrder
    <2>3. s = IF left = 0 THEN NoRestingOrder ELSE rest
      <3>1. m = Executed(IF left = 0 THEN NoRestingOrder ELSE rest,
                         Filling([price |-> r.price, quantity |-> q,
                                  side |-> r.side], left),
                         passive_counted(r, t, left))
        BY <1>2, <1>5 DEF passive_fill_from_market
      <3>2. exec_on_tick(r, t) = m
        BY <3>1 DEF exec_on_tick, Executed, Filling
      <3> QED
        BY <3>1, <3>2 DEF Executed
    <2> HIDE DEF rest, s
    <2>4. TradesWith(t, rest)
      BY <2>1, <2>2 DEF TradesWith, is_marketable
    <2>5. left < r.leaves_qty
      BY <1>2, <1>5
    <2> QED
      BY <1>3, <2>2, <2>3, <2>4, <2>5 DEF cancel_effective, s
  <1> QED
    BY <1>2, <1>4, <1>5

-----------------------------------------------------------------------------
(* The invariant of the loop *)

\* What the order manager knows after event e: its order and its refusals.
Heard(s, e) ==
  [order |-> order_after(s.order, e),
   refused |-> IF event_outcome(s.order, e) = "Applied" THEN s.refused
               ELSE s.refused \cup {<<e.type, event_outcome(s.order, e)>>}]

\* ... and after a batch of at most three.
HeardAll(s, b) ==
  CASE Len(b) = 0 -> s
    [] Len(b) = 1 -> Heard(s, b[1])
    [] Len(b) = 2 -> Heard(Heard(s, b[1]), b[2])
    [] OTHER      -> Heard(Heard(Heard(s, b[1]), b[2]), b[3])

\* The refusals a passive order may cause.
CancelAnswersRefused == {"CancelAck", "CancelReject"} \X {"WrongState"}

\* The gateway works on the order the order manager holds.
Agreement(s, g) ==
  LET o   == s.order
      new == g.pending_new
      act == g.active_order
      res == g.resting_order
  IN /\ SoundOrder(o)
     /\ g \in Gateway
     /\ g.next_venue_order_id > 0
     /\ ~(new.active /\ act.active)
     /\ res.active <=> act.active
     /\ new.active => /\ o.state = "PendingNewAck"
                      /\ new.side = o.side
                      /\ new.quantity = o.order_qty
                      /\ new.style = Style
     /\ act.active => /\ Style = "Passive"
                      /\ o.state \in {"Acked", "PartiallyFilled",
                                      "PendingCancel"}
                      /\ act.venue_order_id = o.venue_order_id
                      /\ act.leaves_qty = o.leaves_qty
                      /\ res.leaves_qty = o.leaves_qty
                      /\ res.side = o.side
     /\ act.cancel_sent => act.active
     /\ res.cancel_pending => act.active /\ ~rejects_cancel(g)
     /\ o.state = "Acked" => ~act.cancel_sent /\ ~res.cancel_pending
     /\ o.state \in LiveStates /\ ~busy(g)
          => o.state = "PartiallyFilled" /\ <<"CancelAck", "WrongState">> \in s.refused
     /\ s.refused \subseteq CancelAnswersRefused
     /\ Style = "Aggressive" => s.refused = {}

\* No answer of the gateway is due at time ts or before.
NothingDue(g, ts) ==
  /\ g.pending_new.active => ts < g.pending_new.ack_ready_ts_ns
  /\ g.active_order.cancel_sent => ts < g.active_order.cancel_send_ts_ns

\* The cancel clock is the time at which the live order was sent.
ClockIsOrders ==
  Live /\ Style = "Passive" => passive_submit_ts = opened.ts

\* AgedOrderIsCanceled, from the cancel step on.
AgedOrderHandled ==
  /\ phase \in {"decide", "tick"}
  /\ Style = "Passive"
  /\ may_cancel(order)
  /\ opened.ts >= 0
  /\ tick.receive_ts_ns - opened.ts >= PassiveCancelAfter
  => gateway.active_order.cancel_sent \/ ~busy(gateway)

\* What the order manager knows now.
OmsView == [order |-> order, refused |-> refused]

\* The inductive invariant.
LoopInv ==
  /\ RunnerTypeOK
  /\ SoundOrder(order)
  /\ Len(batch) <= 3
  /\ phase # "venue" => batch = <<>>
  /\ Agreement(HeardAll(OmsView, batch), gateway)
  /\ NothingDue(gateway, tick.receive_ts_ns)
  /\ overflows = 0
  /\ PositionFollowsOrder
  /\ JournalFollowsOms
  /\ ClockIsOrders
  /\ CancelOnlyWhenAged
  /\ AgedOrderHandled
  /\ RiskIsBounded

-----------------------------------------------------------------------------
(* What the order manager makes of each answer of the gateway *)

\* An event that the order manager applies adds no refusal.
LEMMA HeardApplied ==
  ASSUME NEW s, NEW e, event_outcome(s.order, e) = "Applied"
  PROVE  /\ Heard(s, e).order = applied_event(s.order, e)
         /\ Heard(s, e).refused = s.refused
  BY DEF Heard, order_after

\* The events the gateway makes are venue events.
LEMMA EventTypes ==
  ASSUME NEW type \in VenueEventType, NEW id \in Int
  PROVE  /\ Event(type, id) \in VenueEvent
         /\ Event(type, id).type = type
         /\ Event(type, id).venue_order_id = id
  BY DEF Event, VenueEvent

\* A fill event carries the quantity of the fill.
LEMMA FillEventTypes ==
  ASSUME NEW id \in Int, NEW fill, fill.quantity \in Int, fill.price \in Int
  PROVE  /\ FillEvent(id, fill) \in VenueEvent
         /\ FillEvent(id, fill).type = "Fill"
         /\ FillEvent(id, fill).venue_order_id = id
         /\ FillEvent(id, fill).fill_qty = fill.quantity
  BY DEF FillEvent, VenueEvent, VenueEventType

\* Hearing an event keeps the order record sound.
LEMMA HeardSound ==
  ASSUME NEW s, SoundOrder(s.order), NEW e \in VenueEvent
  PROVE  SoundOrder(Heard(s, e).order)
  BY EventSound DEF Heard

\* An order that waits for its acknowledgment takes it, and is then all left.
LEMMA HeardNewAck ==
  ASSUME NEW s, SoundOrder(s.order), s.order.state = "PendingNewAck",
         NEW id \in Nat, id > 0
  PROVE  LET n == Heard(s, Event("NewAck", id)) IN
         /\ SoundOrder(n.order)
         /\ n.refused = s.refused
         /\ n.order.state = "Acked"
         /\ n.order.venue_order_id = id
         /\ n.order.side = s.order.side
         /\ n.order.order_qty = s.order.order_qty
         /\ n.order.leaves_qty = s.order.order_qty
         /\ s.order.order_qty > 0
  <1> DEFINE e == Event("NewAck", id)
             o == s.order
  <1>1. e \in VenueEvent /\ e.type = "NewAck" /\ e.venue_order_id = id
    BY EventTypes DEF VenueEventType
  <1> HIDE DEF e
  <1>2. event_outcome(o, e) = "Applied"
    BY <1>1 DEF event_outcome, AcceptingStates
  <1>3. Heard(s, e).order = acked(o, e) /\ Heard(s, e).refused = s.refused
    BY <1>1, <1>2, HeardApplied DEF applied_event
  <1>4. o \in ManagedOrder /\ ConsistentOrder(o)
    BY DEF SoundOrder
  <1>5. /\ o.leaves_qty = o.order_qty /\ o.order_qty > 0
    BY <1>4 DEF ConsistentOrder, ManagedOrder, LiveStates
  <1>6. LET n == acked(o, e) IN
         /\ n.venue_order_id = e.venue_order_id
         /\ n.side = o.side /\ n.order_qty = o.order_qty
         /\ n.leaves_qty = o.leaves_qty
         /\ n.state = "Acked"
    BY <1>1, <1>4, AckedFields
  <1> QED
    BY <1>1, <1>3, <1>5, <1>6, HeardSound DEF e

\* ... or takes the reject.
LEMMA HeardNewReject ==
  ASSUME NEW s, SoundOrder(s.order), s.order.state = "PendingNewAck"
  PROVE  LET n == Heard(s, Event("NewReject", 0)) IN
         /\ SoundOrder(n.order)
         /\ n.refused = s.refused
         /\ n.order.state = "Rejected"
  <1> DEFINE e == Event("NewReject", 0)
             o == s.order
  <1>1. e \in VenueEvent /\ e.type = "NewReject"
    BY EventTypes DEF VenueEventType
  <1> HIDE DEF e
  <1>2. event_outcome(o, e) = "Applied"
    BY <1>1 DEF event_outcome, AcceptingStates
  <1>3. Heard(s, e).order = rejected(o) /\ Heard(s, e).refused = s.refused
    BY <1>1, <1>2, HeardApplied DEF applied_event
  <1>4. rejected(o).state = "Rejected"
    BY DEF rejected, SoundOrder, ManagedOrder
  <1> QED
    BY <1>1, <1>3, <1>4, HeardSound DEF e

\* A fill of at most what is left is applied to a working order, also while a
\* cancel is pending.
LEMMA HeardFill ==
  ASSUME NEW s, SoundOrder(s.order),
         s.order.state \in {"Acked", "PartiallyFilled", "PendingCancel"},
         NEW q \in 1 .. s.order.leaves_qty,
         NEW e \in VenueEvent, e.type = "Fill", e.fill_qty = q,
         e.venue_order_id = s.order.venue_order_id
  PROVE  LET n == Heard(s, e) IN
         /\ SoundOrder(n.order)
         /\ n.refused = s.refused
         /\ n.order.state = IF q = s.order.leaves_qty
                            THEN "Filled" ELSE "PartiallyFilled"
         /\ n.order.venue_order_id = s.order.venue_order_id
         /\ n.order.side = s.order.side
         /\ n.order.leaves_qty = s.order.leaves_qty - q
  <1> DEFINE o == s.order
  <1>1. o \in ManagedOrder /\ ConsistentOrder(o)
    BY DEF SoundOrder
  <1>2. o.venue_order_id > 0 /\ o.venue_order_id \in Int
    BY <1>1 DEF ConsistentOrder, ManagedOrder
  <1>3. event_outcome(o, e) = "Applied"
    <2>1. o.state \in AcceptingStates("Fill")
      BY DEF AcceptingStates, Working
    <2>2. valid_fill_qty(o, e.fill_qty)
      BY DEF valid_fill_qty
    <2> QED
      BY <1>2, <2>1, <2>2 DEF event_outcome
  <1>4. Heard(s, e).order = filled(o, e) /\ Heard(s, e).refused = s.refused
    BY <1>3, HeardApplied DEF applied_event
  <1>5. LET n == filled(o, e) IN
         /\ n.venue_order_id = o.venue_order_id /\ n.side = o.side
         /\ n.leaves_qty = o.leaves_qty - e.fill_qty
         /\ n.state = IF o.leaves_qty = e.fill_qty
                      THEN "Filled" ELSE "PartiallyFilled"
    BY <1>1, FilledFields
  <1> QED
    BY <1>4, <1>5, HeardSound

\* What an aggressive order left unfilled expires.
LEMMA HeardExpired ==
  ASSUME NEW s, SoundOrder(s.order),
         s.order.state \in {"Acked", "PartiallyFilled"}
  PROVE  LET n == Heard(s, Event("Expired", s.order.venue_order_id)) IN
         /\ SoundOrder(n.order)
         /\ n.refused = s.refused
         /\ n.order.state = "Expired"
  <1> DEFINE o == s.order
             e == Event("Expired", o.venue_order_id)
  <1>1. o \in ManagedOrder /\ ConsistentOrder(o)
    BY DEF SoundOrder
  <1>2. o.venue_order_id > 0 /\ o.venue_order_id \in Int
    BY <1>1 DEF ConsistentOrder, ManagedOrder
  <1>3. /\ e \in VenueEvent /\ e.type = "Expired"
        /\ e.venue_order_id = o.venue_order_id
    BY <1>2, EventTypes DEF VenueEventType
  <1> HIDE DEF e
  <1>4. event_outcome(o, e) = "Applied"
    BY <1>2, <1>3 DEF event_outcome, AcceptingStates, Working
  <1>5. Heard(s, e).order = expired(o) /\ Heard(s, e).refused = s.refused
    BY <1>3, <1>4, HeardApplied DEF applied_event
  <1> QED
    BY <1>1, <1>3, <1>5, HeardSound, ExpiredFields DEF e

\* The answer to a cancel that no fill overtook is applied, the other one is
\* refused and changes nothing.
LEMMA HeardCancelAck ==
  ASSUME NEW s, SoundOrder(s.order),
         s.order.state \in {"PartiallyFilled", "PendingCancel"}
  PROVE  LET n == Heard(s, Event("CancelAck", s.order.venue_order_id)) IN
         /\ SoundOrder(n.order)
         /\ s.order.state = "PendingCancel"
              => n.order.state = "Canceled" /\ n.refused = s.refused
         /\ s.order.state = "PartiallyFilled"
              => /\ n.order = s.order
                 /\ n.refused = s.refused \cup {<<"CancelAck", "WrongState">>}
  <1> DEFINE o == s.order
             e == Event("CancelAck", o.venue_order_id)
  <1>1. o \in ManagedOrder /\ ConsistentOrder(o)
    BY DEF SoundOrder
  <1>2. o.venue_order_id > 0 /\ o.venue_order_id \in Int
    BY <1>1 DEF ConsistentOrder, ManagedOrder
  <1>3. /\ e \in VenueEvent /\ e.type = "CancelAck"
        /\ e.venue_order_id = o.venue_order_id
    BY <1>2, EventTypes DEF VenueEventType
  <1> HIDE DEF e
  <1>4. CASE o.state = "PendingCancel"
    <2>1. event_outcome(o, e) = "Applied"
      BY <1>2, <1>3, <1>4 DEF event_outcome, AcceptingStates
    <2>2. Heard(s, e).order = canceled(o) /\ Heard(s, e).refused = s.refused
      BY <1>3, <2>1, HeardApplied DEF applied_event
    <2> QED
      BY <1>1, <1>3, <1>4, <2>2, HeardSound, CanceledFields DEF e
  <1>5. CASE o.state = "PartiallyFilled"
    <2>1. event_outcome(o, e) = "WrongState"
      BY <1>3, <1>5 DEF event_outcome, AcceptingStates
    <2>2. /\ Heard(s, e).order = o
          /\ Heard(s, e).refused = s.refused \cup {<<"CancelAck", "WrongState">>}
      BY <1>3, <2>1 DEF Heard, order_after
    <2> QED
      BY <1>5, <2>2 DEF e
  <1> QED
    BY <1>4, <1>5

\* A cancel reject takes the order manager back to working.  It is refused,
\* and changes nothing, if a fill took it there before.
LEMMA HeardCancelReject ==
  ASSUME NEW s, SoundOrder(s.order),
         s.order.state \in {"PartiallyFilled", "PendingCancel"}
  PROVE  LET n == Heard(s, Event("CancelReject", s.order.venue_order_id)) IN
         /\ SoundOrder(n.order)
         /\ n.order.state \in {"Acked", "PartiallyFilled"}
         /\ n.order.venue_order_id = s.order.venue_order_id
         /\ n.order.side = s.order.side
         /\ n.order.leaves_qty = s.order.leaves_qty
         /\ n.refused \subseteq
              s.refused \cup {<<"CancelReject", "WrongState">>}
         /\ s.refused \subseteq n.refused
  <1> DEFINE o == s.order
             e == Event("CancelReject", o.venue_order_id)
  <1>1. o \in ManagedOrder /\ ConsistentOrder(o)
    BY DEF SoundOrder
  <1>2. o.venue_order_id > 0 /\ o.venue_order_id \in Int
    BY <1>1 DEF ConsistentOrder, ManagedOrder
  <1>3. /\ e \in VenueEvent /\ e.type = "CancelReject"
        /\ e.venue_order_id = o.venue_order_id
    BY <1>2, EventTypes DEF VenueEventType
  <1> HIDE DEF e
  <1>4. CASE o.state = "PendingCancel"
    <2> DEFINE st == IF o.leaves_qty = o.order_qty
                     THEN "Acked" ELSE "PartiallyFilled"
    <2>1. event_outcome(o, e) = "Applied"
      BY <1>2, <1>3, <1>4 DEF event_outcome, AcceptingStates
    <2>2. Heard(s, e).order = [o EXCEPT !.state = st] /\ Heard(s, e).refused = s.refused
      BY <1>3, <2>1, HeardApplied DEF applied_event, cancel_rejected
    <2>3. st \in OrderState /\ st \in {"Acked", "PartiallyFilled"}
      BY DEF OrderState
    <2> HIDE DEF st
    <2>4. SoundOrder(Heard(s, e).order)
      BY <1>3, HeardSound
    <2>5. LET n == [o EXCEPT !.state = st] IN
          /\ n.venue_order_id = o.venue_order_id /\ n.side = o.side
          /\ n.leaves_qty = o.leaves_qty /\ n.state = st
      BY <1>1, <2>3, WithState
    <2> QED
      BY <2>2, <2>3, <2>4, <2>5 DEF e
  <1>5. CASE o.state = "PartiallyFilled"
    <2>1. event_outcome(o, e) = "WrongState"
      BY <1>3, <1>5 DEF event_outcome, AcceptingStates
    <2>2. /\ Heard(s, e).order = o
          /\ Heard(s, e).refused = s.refused \cup {<<"CancelReject", "WrongState">>}
      BY <1>3, <2>1 DEF Heard, order_after
    <2> QED
      BY <1>5, <2>2 DEF e
  <1> QED
    BY <1>4, <1>5

-----------------------------------------------------------------------------
(* The gateway's records *)

\* The records of an absent order.
LEMMA NothingTypes ==
  /\ NoRestingOrder \in RestingOrder /\ ~NoRestingOrder.active
  /\ ~NoRestingOrder.cancel_pending
  /\ NoActiveOrder \in ActiveOrder /\ ~NoActiveOrder.active
  /\ ~NoActiveOrder.cancel_sent
  /\ NoPendingNew \in PendingNew /\ ~NoPendingNew.active
  BY DEF NoRestingOrder, RestingOrder, Side, NoActiveOrder, ActiveOrder,
         NoPendingNew, PendingNew, ExecutionStyle

\* The parts of a gateway have their types.
LEMMA GatewayParts ==
  ASSUME NEW g \in Gateway
  PROVE  /\ g.pending_new \in PendingNew
         /\ g.active_order \in ActiveOrder
         /\ g.resting_order \in RestingOrder
         /\ g.next_venue_order_id \in Nat
  BY DEF Gateway

\* Updating one part of a gateway touches no other part.
LEMMA WithActive ==
  ASSUME NEW g \in Gateway, NEW a \in ActiveOrder
  PROVE  LET h == [g EXCEPT !.active_order = a] IN
         /\ h \in Gateway /\ h.active_order = a
         /\ h.pending_new = g.pending_new
         /\ h.resting_order = g.resting_order
         /\ h.next_venue_order_id = g.next_venue_order_id
  BY DEF Gateway

\* Likewise for the order in the simulator.
LEMMA WithResting ==
  ASSUME NEW g \in Gateway, NEW r \in RestingOrder
  PROVE  LET h == [g EXCEPT !.resting_order = r] IN
         /\ h \in Gateway /\ h.resting_order = r
         /\ h.pending_new = g.pending_new
         /\ h.active_order = g.active_order
         /\ h.next_venue_order_id = g.next_venue_order_id
  BY DEF Gateway

\* Likewise for the pending order.
LEMMA WithPending ==
  ASSUME NEW g \in Gateway, NEW n \in PendingNew
  PROVE  LET h == [g EXCEPT !.pending_new = n] IN
         /\ h \in Gateway /\ h.pending_new = n
         /\ h.active_order = g.active_order
         /\ h.resting_order = g.resting_order
         /\ h.next_venue_order_id = g.next_venue_order_id
  BY DEF Gateway

\* Updating what is left of the active order touches nothing else of it.
LEMMA WithActiveLeaves ==
  ASSUME NEW a \in ActiveOrder, NEW q \in Nat
  PROVE  LET b == [a EXCEPT !.leaves_qty = q] IN
         /\ b \in ActiveOrder /\ b.leaves_qty = q
         /\ b.active = a.active /\ b.venue_order_id = a.venue_order_id
         /\ b.cancel_sent = a.cancel_sent
         /\ b.cancel_send_ts_ns = a.cancel_send_ts_ns
         /\ b.cancel_reject_once_done = a.cancel_reject_once_done
  BY DEF ActiveOrder

\* What apply_execution_report does to the gateway.
Reported(g, q, r) ==
  [g EXCEPT !.active_order.leaves_qty = q, !.resting_order = r]

\* The parts of the gateway after apply_execution_report.
LEMMA ReportApplied ==
  ASSUME NEW g \in Gateway, NEW q \in Nat, NEW r \in RestingOrder
  PROVE  LET h == Reported(g, q, r)
         IN /\ h \in Gateway
            /\ h.active_order = [g.active_order EXCEPT !.leaves_qty = q]
            /\ h.resting_order = r
            /\ h.pending_new = g.pending_new
            /\ h.next_venue_order_id = g.next_venue_order_id
  <1> DEFINE a == [g.active_order EXCEPT !.leaves_qty = q]
             g1 == [g EXCEPT !.active_order = a]
  <1>1. a \in ActiveOrder
    BY GatewayParts, WithActiveLeaves
  <1>2. Reported(g, q, r) = [g1 EXCEPT !.resting_order = r]
    BY DEF Reported
  <1> HIDE DEF a
  <1>3. /\ g1 \in Gateway /\ g1.active_order = a
        /\ g1.pending_new = g.pending_new
        /\ g1.next_venue_order_id = g.next_venue_order_id
    BY <1>1, WithActive
  <1> HIDE DEF g1
  <1>4. LET h == [g1 EXCEPT !.resting_order = r] IN
         /\ h \in Gateway /\ h.resting_order = r
         /\ h.pending_new = g1.pending_new
         /\ h.active_order = g1.active_order
         /\ h.next_venue_order_id = g1.next_venue_order_id
    BY <1>3, WithResting
  <1> QED
    BY <1>2, <1>3, <1>4 DEF a

-----------------------------------------------------------------------------
(* One tick of the gateway *)

\* Closing replaces the active order of a gateway whose order is done.
LEMMA CloseIfDone ==
  ASSUME NEW g \in Gateway
  PROVE  LET h == close_active_order_if_done(g)
             done == /\ g.active_order.active
                     /\ g.active_order.leaves_qty = 0
                     /\ ~g.resting_order.active
         IN /\ h \in Gateway
            /\ h.active_order = IF done THEN NoActiveOrder ELSE g.active_order
            /\ h.resting_order = g.resting_order
            /\ h.pending_new = g.pending_new
            /\ h.next_venue_order_id = g.next_venue_order_id
  BY NothingTypes, WithActive DEF close_active_order_if_done

\* The active order with n left.
WithLeft(act, n) == [act EXCEPT !.leaves_qty = n]

\* What work_resting makes of gateway g and batch b with the simulator's
\* answer x: the progress w.
Worked(g, b, x, w) ==
  LET id == g.active_order.venue_order_id
      b1 == IF x.report.has_fill
            THEN push_event(b, FillEvent(id, x.report.fill)) ELSE b
  IN /\ w.batch = IF x.report.cancel_acked
                  THEN push_event(b1, Event("CancelAck", id)) ELSE b1
     /\ w.gateway \in Gateway
     /\ w.gateway.active_order =
          IF x.report.leaves_qty = 0 /\ ~x.resting.active
          THEN NoActiveOrder ELSE WithLeft(g.active_order, x.report.leaves_qty)
     /\ w.gateway.resting_order = x.resting
     /\ w.gateway.pending_new = g.pending_new
     /\ w.gateway.next_venue_order_id = g.next_venue_order_id

\* The parts of the progress after work_resting, for an order that rests.
LEMMA WorkRestingParts ==
  ASSUME NEW g \in Gateway, NEW b, NEW c, NEW t,
         g.active_order.active, g.resting_order.active,
         NEW x, x = exec_on_tick(g.resting_order, t),
         x.resting \in RestingOrder, x.report.leaves_qty \in Nat
  PROVE  Worked(g, b, x, work_resting(Progress(g, b, c), t))
  <1> DEFINE p == Progress(g, b, c)
             h == Reported(g, x.report.leaves_qty, x.resting)
             id == g.active_order.venue_order_id
             a  == [g.active_order EXCEPT !.leaves_qty = x.report.leaves_qty]
             b1 == IF x.report.has_fill
                   THEN push_event(b, FillEvent(id, x.report.fill)) ELSE b
             b2 == IF x.report.cancel_acked
                   THEN push_event(b1, Event("CancelAck", id)) ELSE b1
             q == apply_execution_report(p, x)
             w == work_resting(p, t)
  <1>1. p.gateway = g /\ p.batch = b /\ p.counted = c
    BY DEF Progress
  <1>2. /\ h \in Gateway /\ h.active_order = a /\ h.resting_order = x.resting
        /\ h.pending_new = g.pending_new
        /\ h.next_venue_order_id = g.next_venue_order_id
    BY ReportApplied
  <1>3. /\ a.active /\ a.venue_order_id = id
        /\ a.leaves_qty = x.report.leaves_qty
    BY GatewayParts, WithActiveLeaves
  <1> HIDE DEF a
  <1>4. h.active_order.active /\ h.active_order.venue_order_id = id
    BY <1>2, <1>3
  <1>5. q = Progress(h, b2, c \o x.counted)
    <2> HIDE DEF p
    <2>1. q = LET hh == Reported(p.gateway, x.report.leaves_qty, x.resting)
                  idd == hh.active_order.venue_order_id
                  bb1 == IF x.report.has_fill /\ hh.active_order.active
                         THEN push_event(p.batch, FillEvent(idd, x.report.fill)) ELSE p.batch
                  bb2 == IF x.report.cancel_acked /\ hh.active_order.active
                         THEN push_event(bb1, Event("CancelAck", idd)) ELSE bb1
              IN Progress(hh, bb2, p.counted \o x.counted)
      BY DEF apply_execution_report, Reported
    <2> HIDE DEF h
    <2> QED
      BY <2>1, <1>1, <1>4 DEF h
  <1>6. w = [q EXCEPT !.gateway = close_active_order_if_done(q.gateway)]
    BY <1>1 DEF work_resting
  <1> HIDE DEF h, b2, q, p, w
  <1>7. /\ w.gateway = close_active_order_if_done(h)
        /\ w.batch = b2
    BY <1>5, <1>6 DEF Progress
  <1>8. /\ w.batch = b2
        /\ w.gateway \in Gateway
        /\ w.gateway.active_order =
             IF x.report.leaves_qty = 0 /\ ~x.resting.active
             THEN NoActiveOrder ELSE a
        /\ w.gateway.resting_order = x.resting
        /\ w.gateway.pending_new = g.pending_new
        /\ w.gateway.next_venue_order_id = g.next_venue_order_id
    BY <1>2, <1>3, <1>7, CloseIfDone
  <1> QED
    BY <1>8 DEF w, p, b2, a, Worked, WithLeft

\* The refusals Agreement allows.
Harmless(refusals) ==
  /\ refusals \subseteq CancelAnswersRefused
  /\ Style = "Aggressive" => refusals = {}

\* A gateway without an order agrees with every order that ended, and with
\* one that is stranded.
LEMMA IdleAgreement ==
  ASSUME NEW s, NEW g \in Gateway,
         SoundOrder(s.order), Harmless(s.refused),
         \/ s.order.state \in {"Idle"} \cup TerminalStates
         \/ /\ s.order.state = "PartiallyFilled"
            /\ <<"CancelAck", "WrongState">> \in s.refused,
         g.next_venue_order_id > 0, ~g.pending_new.active,
         ~g.active_order.active, ~g.active_order.cancel_sent,
         ~g.resting_order.active, ~g.resting_order.cancel_pending
  PROVE  Agreement(s, g)
  BY DEF Agreement, Harmless, TerminalStates, LiveStates, busy

\* A gateway with an active order agrees with the order manager that holds it.
LEMMA ActiveAgreement ==
  ASSUME NEW s, NEW g \in Gateway,
         SoundOrder(s.order), Harmless(s.refused),
         Style = "Passive",
         s.order.state \in {"Acked", "PartiallyFilled", "PendingCancel"},
         g.next_venue_order_id > 0, ~g.pending_new.active,
         g.active_order.active, g.resting_order.active,
         g.active_order.venue_order_id = s.order.venue_order_id,
         g.active_order.leaves_qty = s.order.leaves_qty,
         g.resting_order.leaves_qty = s.order.leaves_qty,
         g.resting_order.side = s.order.side,
         g.resting_order.cancel_pending => ~rejects_cancel(g),
         s.order.state = "Acked" => /\ ~g.active_order.cancel_sent
                                    /\ ~g.resting_order.cancel_pending
  PROVE  Agreement(s, g)
  BY DEF Agreement, Harmless, LiveStates, busy

\* The simulator's answer leaves gateway and order manager in agreement, once
\* the event it is reported with was heard.
LEMMA WorkResting ==
  ASSUME NEW s, NEW g, Agreement(s, g), NEW b, NEW c, NEW t \in MarketTick
  PROVE  LET w == work_resting(Progress(g, b, c), t) IN
         /\ \/ w.batch = b /\ Agreement(s, w.gateway)
            \/ \E e \in VenueEvent : /\ w.batch = push_event(b, e)
                                     /\ Agreement(Heard(s, e), w.gateway)
         /\ w.gateway.pending_new = g.pending_new
         /\ w.gateway.active_order.cancel_sent =>
              /\ g.active_order.cancel_sent
              /\ w.gateway.active_order.cancel_send_ts_ns
                   = g.active_order.cancel_send_ts_ns
  <1> DEFINE w == work_resting(Progress(g, b, c), t)
             r == g.resting_order
             x == exec_on_tick(r, t)
             act == g.active_order
             id == act.venue_order_id
             o == s.order
  <1>1. CASE ~act.active
    <2>1. w = Progress(g, b, c)
      BY <1>1 DEF work_resting, Progress, Agreement
    <2> QED
      BY <2>1 DEF Progress
  <1>2. CASE act.active
    <2>1. /\ g \in Gateway /\ r \in RestingOrder /\ act \in ActiveOrder
          /\ r.active /\ ~g.pending_new.active
          /\ g.next_venue_order_id > 0
      BY <1>2, GatewayParts DEF Agreement
    <2>2. /\ SoundOrder(o) /\ Harmless(s.refused)
          /\ Style = "Passive"
          /\ o.state \in {"Acked", "PartiallyFilled", "PendingCancel"}
          /\ id = o.venue_order_id
          /\ act.leaves_qty = o.leaves_qty
          /\ r.leaves_qty = o.leaves_qty
          /\ r.side = o.side
          /\ r.cancel_pending => ~rejects_cancel(g)
          /\ o.state = "Acked" => ~act.cancel_sent /\ ~r.cancel_pending
      BY <1>2 DEF Agreement, Harmless
    <2>3. r.leaves_qty > 0 /\ r.leaves_qty \in Nat
      BY <2>2 DEF SoundOrder, ConsistentOrder, ManagedOrder, LiveStates
    <2>4. RestingOutcome(r, x)
      BY <2>1, <2>3, ExecOnTick
    <2> DEFINE a(n) == WithLeft(act, n)
    <2>5. ASSUME NEW n \in Nat
          PROVE  /\ a(n) \in ActiveOrder /\ a(n).leaves_qty = n
                 /\ a(n).active /\ a(n).venue_order_id = id
                 /\ a(n).cancel_sent = act.cancel_sent
                 /\ a(n).cancel_send_ts_ns = act.cancel_send_ts_ns
                 /\ a(n).cancel_reject_once_done = act.cancel_reject_once_done
      BY <1>2, <2>1, <2>5, WithActiveLeaves DEF WithLeft
    <2> HIDE DEF a, x
    <2>6. ASSUME x.resting \in RestingOrder, x.report.leaves_qty \in Nat
          PROVE  Worked(g, b, x, w)
      BY <1>2, <2>1, <2>6, WorkRestingParts DEF x
    <2> HIDE DEF w
    <2>7. CASE /\ x.report = Quiet(r.leaves_qty)
               /\ StillRests(r, x.resting, r.leaves_qty)
      <3>1. /\ x.resting \in RestingOrder /\ x.resting.active
            /\ x.resting.side = r.side /\ x.resting.leaves_qty = r.leaves_qty
            /\ x.resting.cancel_pending = r.cancel_pending
            /\ x.report.leaves_qty = r.leaves_qty
            /\ ~x.report.has_fill /\ ~x.report.cancel_acked
        BY <2>7 DEF Quiet, StillRests
      <3>2. /\ w.batch = b /\ w.gateway \in Gateway
            /\ w.gateway.active_order = a(r.leaves_qty)
            /\ w.gateway.resting_order = x.resting
            /\ w.gateway.pending_new = g.pending_new
            /\ w.gateway.next_venue_order_id = g.next_venue_order_id
        BY <2>3, <2>6, <3>1 DEF Worked, a
      <3>3. rejects_cancel(w.gateway) <=> rejects_cancel(g)
        BY <2>3, <2>5, <3>2 DEF rejects_cancel
      <3>4. Agreement(s, w.gateway)
        BY <2>1, <2>2, <2>3, <2>5, <3>1, <3>2, <3>3, ActiveAgreement
      <3> QED
        BY <2>3, <2>5, <3>2, <3>4 DEF w
    <2>8. CASE /\ x.report = [Quiet(0) EXCEPT !.cancel_acked = TRUE]
               /\ x.resting = NoRestingOrder
               /\ r.cancel_pending
      <3> DEFINE e == Event("CancelAck", id)
      <3>1. /\ x.resting \in RestingOrder /\ ~x.resting.active
            /\ ~x.resting.cancel_pending
            /\ x.report.leaves_qty = 0
            /\ ~x.report.has_fill /\ x.report.cancel_acked
        BY <2>8, NothingTypes DEF Quiet
      <3>2. /\ w.batch = push_event(b, e) /\ w.gateway \in Gateway
            /\ w.gateway.active_order = NoActiveOrder
            /\ w.gateway.resting_order = x.resting
            /\ w.gateway.pending_new = g.pending_new
            /\ w.gateway.next_venue_order_id = g.next_venue_order_id
        BY <2>6, <3>1 DEF Worked, a
      <3>3. o.state \in {"PartiallyFilled", "PendingCancel"}
        BY <2>2, <2>8
      <3>4. /\ SoundOrder(Heard(s, e).order)
            /\ o.state = "PendingCancel"
                 => /\ Heard(s, e).order.state = "Canceled"
                    /\ Heard(s, e).refused = s.refused
            /\ o.state = "PartiallyFilled"
                 => /\ Heard(s, e).order = o
                    /\ Heard(s, e).refused
                         = s.refused \cup {<<"CancelAck", "WrongState">>}
        BY <2>2, <3>3, HeardCancelAck
      <3>5. e \in VenueEvent
        BY <2>1, EventTypes DEF ActiveOrder, VenueEventType
      <3> HIDE DEF e
      <3>6. Harmless(Heard(s, e).refused)
        BY <2>2, <3>3, <3>4 DEF Harmless, CancelAnswersRefused
      <3>7. \/ Heard(s, e).order.state \in {"Idle"} \cup TerminalStates
            \/ /\ Heard(s, e).order.state = "PartiallyFilled"
               /\ <<"CancelAck", "WrongState">> \in Heard(s, e).refused
        BY <3>3, <3>4 DEF TerminalStates
      <3>8. Agreement(Heard(s, e), w.gateway)
        BY <2>1, <3>1, <3>2, <3>4, <3>6, <3>7, NothingTypes, IdleAgreement
      <3> QED
        BY <3>2, <3>5, <3>8, NothingTypes DEF w
    <2>9. ASSUME NEW q \in 1 .. r.leaves_qty,
                 x.report = Filling([price |-> r.price, quantity |-> q,
                                     side |-> r.side], r.leaves_qty - q),
                 IF q = r.leaves_qty THEN x.resting = NoRestingOrder
                 ELSE StillRests(r, x.resting, r.leaves_qty - q)
          PROVE  /\ \E e \in VenueEvent : /\ w.batch = push_event(b, e)
                                          /\ Agreement(Heard(s, e), w.gateway)
                 /\ w.gateway.pending_new = g.pending_new
                 /\ w.gateway.active_order.cancel_sent =>
                      /\ g.active_order.cancel_sent
                      /\ w.gateway.active_order.cancel_send_ts_ns
                           = g.active_order.cancel_send_ts_ns
      <3> DEFINE fill == [price |-> r.price, quantity |-> q, side |-> r.side]
                 e == FillEvent(id, fill)
                 n == r.leaves_qty - q
      <3>1. /\ x.report.leaves_qty = n /\ x.report.fill = fill
            /\ x.report.has_fill /\ ~x.report.cancel_acked
        BY <2>9 DEF Filling
      <3>2. n \in Nat /\ (n = 0 <=> q = r.leaves_qty)
        BY <2>3
      <3>3. x.resting \in RestingOrder /\ (x.resting.active <=> n # 0)
        BY <2>9, <3>2, NothingTypes DEF StillRests
      <3>4. /\ w.batch = push_event(b, e) /\ w.gateway \in Gateway
            /\ w.gateway.active_order = IF n = 0 THEN NoActiveOrder ELSE a(n)
            /\ w.gateway.resting_order = x.resting
            /\ w.gateway.pending_new = g.pending_new
            /\ w.gateway.next_venue_order_id = g.next_venue_order_id
        <4> HIDE DEF n, fill
        <4> QED
          BY <2>6, <3>1, <3>2, <3>3 DEF Worked, a
      <3>5. /\ e \in VenueEvent /\ e.type = "Fill" /\ e.fill_qty = q
            /\ e.venue_order_id = o.venue_order_id
        <4>1. fill.quantity \in Int /\ fill.price \in Int /\ id \in Int
          BY <2>1 DEF RestingOrder, ActiveOrder
        <4> QED
          BY <2>2, <4>1, FillEventTypes
      <3> HIDE DEF e
      <3>6. /\ SoundOrder(Heard(s, e).order)
            /\ Heard(s, e).refused = s.refused
            /\ Heard(s, e).order.state = IF q = o.leaves_qty
                            THEN "Filled" ELSE "PartiallyFilled"
            /\ Heard(s, e).order.venue_order_id = o.venue_order_id
            /\ Heard(s, e).order.side = o.side
            /\ Heard(s, e).order.leaves_qty = o.leaves_qty - q
        BY <2>2, <3>5, HeardFill
      <3>7. CASE n = 0
        <4>1. ~x.resting.cancel_pending
          BY <2>9, <3>2, <3>7, NothingTypes
        <4>2. Agreement(Heard(s, e), w.gateway)
          BY <2>1, <2>2, <3>2, <3>3, <3>4, <3>6, <3>7, <4>1, NothingTypes,
             IdleAgreement DEF TerminalStates
        <4> QED
          BY <3>4, <3>5, <3>7, <4>2, NothingTypes
      <3>8. CASE n # 0
        <4>1. /\ x.resting.active
              /\ x.resting.side = r.side /\ x.resting.leaves_qty = n
              /\ x.resting.cancel_pending = r.cancel_pending
          BY <2>9, <3>2, <3>8 DEF StillRests
        <4> HIDE DEF n
        <4>2. rejects_cancel(w.gateway) <=> rejects_cancel(g)
          BY <2>5, <3>2, <3>4, <3>8 DEF rejects_cancel
        <4>3. Heard(s, e).order.state = "PartiallyFilled"
              /\ Heard(s, e).order.leaves_qty = n
          BY <2>2, <3>2, <3>6, <3>8 DEF n
        <4>4. Agreement(Heard(s, e), w.gateway)
          BY <2>1, <2>2, <2>5, <3>2, <3>4, <3>6, <3>8, <4>1, <4>2, <4>3,
             ActiveAgreement
        <4> QED
          BY <2>5, <3>2, <3>4, <3>5, <3>8, <4>4
      <3> QED
        BY <3>7, <3>8
    <2> QED
      BY <2>4, <2>7, <2>8, <2>9 DEF RestingOutcome, w
  <1> QED
    BY <1>1, <1>2

\* b is a batch of at most n events, none lost, that take the order manager
\* from s to s2.
Batched(s, b, n, s2) ==
  /\ b \in [events : Seq(VenueEvent), overflow_count : Nat]
  /\ Len(b.events) <= n
  /\ b.overflow_count = 0
  /\ HeardAll(s, b.events) = s2

\* on_tick starts with an empty batch.
LEMMA EmptyBatched ==
  ASSUME NEW s
  PROVE  Batched(s, EmptyBatch, 0, s)
  <1>1. EmptyBatch.events = <<>> /\ EmptyBatch.overflow_count = 0
    BY DEF EmptyBatch
  <1>2. EmptyBatch \in [events : Seq(VenueEvent), overflow_count : Nat]
    BY DEF EmptyBatch
  <1> QED
    BY <1>1, <1>2 DEF Batched, HeardAll

\* A batch may be weakened to a larger bound.
LEMMA BatchedMore ==
  ASSUME NEW s, NEW b, NEW s2, NEW n \in Nat, NEW m \in Nat, n <= m,
         Batched(s, b, n, s2)
  PROVE  Batched(s, b, m, s2)
  <1>1. Len(b.events) \in Nat
    BY DEF Batched
  <1> QED
    BY <1>1 DEF Batched

\* push_event appends while the batch has room, and the order manager hears
\* the new event last.
LEMMA BatchedPush ==
  ASSUME NEW s, NEW b, NEW s2, NEW n \in 0 .. 2, Batched(s, b, n, s2),
         NEW e \in VenueEvent
  PROVE  Batched(s, push_event(b, e), n + 1, Heard(s2, e))
  <1> DEFINE q == Append(b.events, e)
             c == push_event(b, e)
             Batch == [events : Seq(VenueEvent), overflow_count : Nat]
  <1>1. /\ b \in Batch /\ b.events \in Seq(VenueEvent)
        /\ Len(b.events) \in 0 .. n /\ b.overflow_count = 0
    BY DEF Batched
  <1>2. /\ q \in Seq(VenueEvent) /\ Len(q) = Len(b.events) + 1
        /\ q[Len(q)] = e
        /\ \A i \in 1 .. Len(b.events) : q[i] = b.events[i]
    BY <1>1
  <1>3. c = [b EXCEPT !.events = q]
    BY <1>1 DEF push_event, BatchCapacity
  <1> HIDE DEF q
  <1>4. c \in Batch /\ c.events = q /\ c.overflow_count = 0
    BY <1>1, <1>2, <1>3
  <1> HIDE DEF c
  <1>5. HeardAll(s, q) = Heard(HeardAll(s, b.events), e)
    <2>1. CASE Len(b.events) = 0
      BY <1>2, <2>1 DEF HeardAll
    <2>2. CASE Len(b.events) = 1
      BY <1>2, <2>2 DEF HeardAll
    <2>3. CASE Len(b.events) = 2
      <3>1. Len(q) = 3 /\ q[3] = e /\ q[1] = b.events[1] /\ q[2] = b.events[2]
        BY <1>2, <2>3
      <3>2. HeardAll(s, q) = Heard(Heard(Heard(s, q[1]), q[2]), q[3])
        BY <3>1 DEF HeardAll
      <3> QED
        BY <2>3, <3>1, <3>2 DEF HeardAll
    <2>4. Len(b.events) \in {0, 1, 2}
      <3>1. Len(b.events) \in Nat /\ Len(b.events) <= n
        BY <1>1
      <3>2. n \in Nat /\ n <= 2
        OBVIOUS
      <3>3. \A k \in Nat : k <= n => k \in {0, 1, 2}
        BY <3>2
      <3> QED
        BY <3>1, <3>3
    <2> QED
      BY <2>1, <2>2, <2>3, <2>4
  <1> QED
    BY <1>1, <1>2, <1>4, <1>5 DEF Batched, c

\* A newly acknowledged order with q left.
NewlyActive(a, id, q) ==
  /\ a \in ActiveOrder
  /\ a.active
  /\ a.venue_order_id = id
  /\ a.leaves_qty = q
  /\ ~a.cancel_sent

\* What the gateway makes of a due acknowledgment with the simulator's answer
\* x: the progress w.
Acknowledged(g, x, w) ==
  LET id == g.next_venue_order_id
      b1 == push_event(EmptyBatch, Event("NewAck", id))
      b2 == IF x.report.has_fill
            THEN push_event(b1, FillEvent(id, x.report.fill)) ELSE b1
      expires == g.pending_new.style = "Aggressive" /\ x.report.leaves_qty > 0
      left == IF expires THEN 0 ELSE x.report.leaves_qty
  IN /\ w = Progress(w.gateway, w.batch, w.counted)
     /\ w.batch = IF expires THEN push_event(b2, Event("Expired", id)) ELSE b2
     /\ w.gateway \in Gateway
     /\ IF left = 0 /\ ~x.resting.active
        THEN w.gateway.active_order = NoActiveOrder
        ELSE NewlyActive(w.gateway.active_order, id, left)
     /\ w.gateway.resting_order = x.resting
     /\ w.gateway.pending_new = NoPendingNew
     /\ w.gateway.next_venue_order_id = id + 1

\* The record that ack_pending makes.
LEMMA NewlyActiveFields ==
  ASSUME NEW id \in Nat, NEW q \in Nat
  PROVE  NewlyActive([NoActiveOrder EXCEPT !.active = TRUE,
                        !.venue_order_id = id, !.leaves_qty = q], id, q)
  <1> DEFINE a == [NoActiveOrder EXCEPT !.active = TRUE]
             b == [a EXCEPT !.venue_order_id = id]
             c == [b EXCEPT !.leaves_qty = q]
  <1>1. a \in ActiveOrder /\ a.active /\ ~a.cancel_sent
    BY NothingTypes DEF ActiveOrder
  <1> HIDE DEF a
  <1>2. /\ b \in ActiveOrder /\ b.active /\ ~b.cancel_sent
        /\ b.venue_order_id = id
    BY <1>1 DEF ActiveOrder
  <1> HIDE DEF b
  <1>3. NewlyActive(c, id, q)
    BY <1>2, WithActiveLeaves DEF NewlyActive
  <1> QED
    BY <1>3 DEF a, b

\* ... and that record after the report or the expiry.
LEMMA NewlyActiveLeft ==
  ASSUME NEW a, NEW id, NEW q, NewlyActive(a, id, q), NEW n \in Nat
  PROVE  NewlyActive([a EXCEPT !.leaves_qty = n], id, n)
  BY WithActiveLeaves DEF NewlyActive

\* Likewise for the next venue id.
LEMMA WithNextId ==
  ASSUME NEW g \in Gateway, NEW n \in Nat
  PROVE  LET h == [g EXCEPT !.next_venue_order_id = n] IN
         /\ h \in Gateway /\ h.next_venue_order_id = n
         /\ h.active_order = g.active_order
         /\ h.resting_order = g.resting_order
         /\ h.pending_new = g.pending_new
  BY DEF Gateway

\* The request the simulator sees.
RequestOf(new) ==
  [side |-> new.side, quantity |-> new.quantity,
   limit_price |-> new.limit_price]

\* The parts of the progress after ack_pending.
LEMMA AckPendingParts ==
  ASSUME NEW g \in Gateway, NEW t,
         NEW x, x = submit_order(g.resting_order, t, RequestOf(g.pending_new),
                                 g.pending_new.style),
         x.resting \in RestingOrder, x.report.leaves_qty \in Nat,
         x.report.cancel_acked = FALSE
  PROVE  Acknowledged(g, x, ack_pending(g, t))
  <1> DEFINE req == g.pending_new
             id == g.next_venue_order_id
             act == [NoActiveOrder EXCEPT !.active = TRUE,
                       !.venue_order_id = id, !.leaves_qty = req.quantity]
             g0 == [g EXCEPT !.next_venue_order_id = id + 1]
             g1 == [g EXCEPT !.next_venue_order_id = id + 1,
                             !.active_order = act]
             b1 == push_event(EmptyBatch, Event("NewAck", id))
             p0 == Progress(g1, b1, <<>>)
             h == Reported(g1, x.report.leaves_qty, x.resting)
             b2 == IF x.report.has_fill
                   THEN push_event(b1, FillEvent(id, x.report.fill)) ELSE b1
             p == apply_execution_report(p0, x)
             expires == req.style = "Aggressive" /\ x.report.leaves_qty > 0
             left == IF expires THEN 0 ELSE x.report.leaves_qty
             b3 == IF expires THEN push_event(b2, Event("Expired", id)) ELSE b2
             left_of(k) == IF req.style = "Aggressive"
                              /\ k.active_order.leaves_qty > 0
                           THEN 0 ELSE k.active_order.leaves_qty
             h1 == [h EXCEPT !.active_order.leaves_qty = left_of(h)]
             h2 == [h1 EXCEPT !.pending_new = NoPendingNew]
             w == ack_pending(g, t)
  <1>1. id \in Nat /\ req.quantity \in Nat
    BY GatewayParts DEF PendingNew
  <1>2. NewlyActive(act, id, req.quantity) /\ act \in ActiveOrder
    BY <1>1, NewlyActiveFields DEF NewlyActive
  <1> HIDE DEF act
  <1>3. g1 = [g0 EXCEPT !.active_order = act]
    OBVIOUS
  <1>4. /\ g0 \in Gateway /\ g0.next_venue_order_id = id + 1
        /\ g0.resting_order = g.resting_order
        /\ g0.pending_new = req
    BY <1>1, WithNextId
  <1> HIDE DEF g0, g1
  <1>5. /\ g1 \in Gateway /\ g1.next_venue_order_id = id + 1
        /\ g1.resting_order = g.resting_order
        /\ g1.pending_new = req /\ g1.active_order = act
    BY <1>2, <1>3, <1>4, WithActive
  <1>6. /\ h \in Gateway /\ h.resting_order = x.resting
        /\ h.active_order = [act EXCEPT !.leaves_qty = x.report.leaves_qty]
        /\ h.pending_new = req /\ h.next_venue_order_id = id + 1
    BY <1>5, ReportApplied
  <1>7. /\ NewlyActive(h.active_order, id, x.report.leaves_qty)
        /\ h.active_order.active /\ h.active_order.venue_order_id = id
        /\ h.active_order.leaves_qty = x.report.leaves_qty
    BY <1>2, <1>6, NewlyActiveLeft DEF NewlyActive
  <1>8. p = Progress(h, b2, p0.counted \o x.counted)
    <2>1. p0.gateway = g1 /\ p0.batch = b1
      BY DEF Progress
    <2> HIDE DEF p0
    <2>2. p = LET hh == Reported(p0.gateway, x.report.leaves_qty, x.resting)
                  idd == hh.active_order.venue_order_id
                  bb1 == IF x.report.has_fill /\ hh.active_order.active
                         THEN push_event(p0.batch, FillEvent(idd, x.report.fill)) ELSE p0.batch
                  bb2 == IF x.report.cancel_acked /\ hh.active_order.active
                         THEN push_event(bb1, Event("CancelAck", idd)) ELSE bb1
              IN Progress(hh, bb2, p0.counted \o x.counted)
      BY DEF apply_execution_report, Reported
    <2> HIDE DEF h
    <2> QED
      BY <2>1, <2>2, <1>7 DEF h
  <1>9. /\ p.gateway = h /\ p.batch = b2
    BY <1>8 DEF Progress
  <1>10. w = LET k == p.gateway
                 ex == req.style = "Aggressive" /\ k.active_order.leaves_qty > 0
                 k1 == [k EXCEPT !.active_order.leaves_qty = left_of(k)]
                 k2 == [k1 EXCEPT !.pending_new = NoPendingNew]
             IN Progress(close_active_order_if_done(k2),
                         IF ex THEN push_event(p.batch, Event("Expired", id))
                         ELSE p.batch, p.counted)
    <2>1. g1.resting_order = g.resting_order
      BY <1>5
    <2>2. x = submit_order(g1.resting_order, t, RequestOf(req), req.style)
      BY <2>1
    <2> QED
      BY <2>2 DEF ack_pending, RequestOf, g1, act
  <1> HIDE DEF p, h, b2
  <1>11. w = Progress(close_active_order_if_done(h2), b3, p.counted)
    BY <1>7, <1>9, <1>10
  <1>12. left \in Nat /\ left_of(h) = left
    BY <1>7
  <1>13. /\ h1 \in Gateway /\ h1.resting_order = x.resting
         /\ NewlyActive(h1.active_order, id, left)
         /\ h1.next_venue_order_id = id + 1
    <2> DEFINE a == [h.active_order EXCEPT !.leaves_qty = left]
    <2>1. NewlyActive(a, id, left) /\ a \in ActiveOrder
      BY <1>7, <1>12, NewlyActiveLeft DEF NewlyActive
    <2>2. h1 = [h EXCEPT !.active_order = a]
      BY <1>12
    <2> HIDE DEF a, h1
    <2>3. h1 \in Gateway /\ h1.resting_order = h.resting_order
          /\ h1.active_order = a
          /\ h1.next_venue_order_id = h.next_venue_order_id
      BY <1>6, <2>1, <2>2, WithActive
    <2> QED
      BY <1>6, <2>1, <2>3
  <1> HIDE DEF h1
  <1>14. /\ h2 \in Gateway /\ h2.resting_order = x.resting
         /\ NewlyActive(h2.active_order, id, left)
         /\ h2.next_venue_order_id = id + 1
         /\ h2.pending_new = NoPendingNew
    BY <1>13, NothingTypes, WithPending
  <1>15. h2.active_order.active /\ h2.active_order.leaves_qty = left
    BY <1>14 DEF NewlyActive
  <1> HIDE DEF h2, left, b3, w
  <1>16. /\ w.gateway = close_active_order_if_done(h2) /\ w.batch = b3
         /\ w = Progress(w.gateway, w.batch, w.counted)
    BY <1>11 DEF Progress
  <1>17. /\ w.gateway \in Gateway
         /\ IF left = 0 /\ ~x.resting.active
            THEN w.gateway.active_order = NoActiveOrder
            ELSE NewlyActive(w.gateway.active_order, id, left)
         /\ w.gateway.resting_order = x.resting
         /\ w.gateway.pending_new = NoPendingNew
         /\ w.gateway.next_venue_order_id = id + 1
    BY <1>14, <1>15, <1>16, CloseIfDone
  <1> QED
    BY <1>16, <1>17 DEF Acknowledged, w, b3, b2, left

\* An aggressive order takes some of the displayed quantity, or nothing.
LEMMA AggressiveFill ==
  ASSUME NEW t \in MarketTick, NEW req, req.side \in Side,
         req.quantity \in Nat, req.quantity > 0
  PROVE  \/ aggressive_fill(t, req) = Quiet(req.quantity)
         \/ \E q \in 1 .. req.quantity, price \in Int :
              aggressive_fill(t, req)
                = Filling([price |-> price, quantity |-> q,
                           side |-> req.side], req.quantity - q)
  <1> DEFINE q == Smaller(opposite_qty(t, req.side), req.quantity)
             price == opposite_price(t, req.side)
  <1>1. opposite_qty(t, req.side) \in Nat /\ price \in Int
    BY DEF MarketTick, opposite_qty, opposite_price
  <1>2. q \in 0 .. req.quantity
    BY <1>1 DEF Smaller
  <1> HIDE DEF q, price
  <1>3. aggressive_fill(t, req) = IF q <= 0 THEN Quiet(req.quantity)
                                  ELSE Filling([price |-> price, quantity |-> q,
                                                side |-> req.side],
                                               req.quantity - q)
    BY DEF aggressive_fill, q, price
  <1>4. q <= 0 \/ q \in 1 .. req.quantity
    BY <1>2
  <1> QED
    BY <1>1, <1>2, <1>3, <1>4

\* Acknowledging leaves gateway and order manager in agreement.  Only a
\* passive order stays with the gateway, and then the batch holds only its
\* acknowledgment.
LEMMA AckPending ==
  ASSUME NEW s, NEW g, Agreement(s, g), g.pending_new.active,
         NEW t \in MarketTick
  PROVE  LET w == ack_pending(g, t) IN
         /\ w = Progress(w.gateway, w.batch, w.counted)
         /\ ~w.gateway.pending_new.active
         /\ ~w.gateway.active_order.cancel_sent
         /\ ~w.gateway.resting_order.cancel_pending
         /\ \E s2 : /\ Batched(s, w.batch,
                               IF w.gateway.active_order.active THEN 1 ELSE 3, s2)
                    /\ Agreement(s2, w.gateway)
  <1> DEFINE w == ack_pending(g, t)
             new == g.pending_new
             req == RequestOf(new)
             o == s.order
             id == g.next_venue_order_id
             x == submit_order(g.resting_order, t, req, new.style)
             ack == Event("NewAck", id)
             s1 == Heard(s, ack)
             b1 == push_event(EmptyBatch, ack)
  <1>1. /\ g \in Gateway /\ new \in PendingNew /\ id \in Nat /\ id > 0
        /\ g.resting_order \in RestingOrder /\ ~g.resting_order.active
        /\ ~g.resting_order.cancel_pending
        /\ SoundOrder(o) /\ o.state = "PendingNewAck"
        /\ new.side = o.side /\ new.quantity = o.order_qty
        /\ new.style = Style /\ Harmless(s.refused)
    BY GatewayParts DEF Agreement, Harmless
  <1>2. /\ SoundOrder(s1.order) /\ s1.refused = s.refused
        /\ s1.order.state = "Acked" /\ s1.order.venue_order_id = id
        /\ s1.order.side = o.side /\ s1.order.order_qty = o.order_qty
        /\ s1.order.leaves_qty = o.order_qty /\ o.order_qty > 0
    BY <1>1, HeardNewAck
  <1>3. /\ new.quantity \in Nat /\ new.quantity > 0 /\ new.side \in Side
        /\ req.side = new.side /\ req.quantity = new.quantity
        /\ req.limit_price = new.limit_price /\ new.limit_price \in Int
    BY <1>1, <1>2 DEF PendingNew, RequestOf
  <1>4. Batched(s, b1, 1, s1)
    <2>1. ack \in VenueEvent
      BY <1>1, EventTypes DEF VenueEventType
    <2>2. Batched(s, b1, 0 + 1, s1)
      BY <2>1, EmptyBatched, BatchedPush
    <2> QED
      BY <2>2
  <1>5. NoPendingNew.active = FALSE /\ NoActiveOrder.active = FALSE
        /\ NoActiveOrder.cancel_sent = FALSE
    BY NothingTypes DEF NoPendingNew, NoActiveOrder
  <1> HIDE DEF x, w, req, ack, s1, b1
  <1>6. ASSUME x.resting \in RestingOrder, x.report.leaves_qty \in Nat,
               x.report.cancel_acked = FALSE
        PROVE  Acknowledged(g, x, w)
    BY <1>1, <1>6, AckPendingParts DEF x, w, req
  <1>7. ASSUME x.resting = g.resting_order, x.report.leaves_qty \in Nat,
               x.report.cancel_acked = FALSE, Style = "Aggressive"
        PROVE  /\ w = Progress(w.gateway, w.batch, w.counted)
               /\ w.gateway \in Gateway
               /\ ~w.gateway.pending_new.active
               /\ ~w.gateway.active_order.cancel_sent
               /\ ~w.gateway.active_order.active
               /\ ~w.gateway.resting_order.active
               /\ ~w.gateway.resting_order.cancel_pending
               /\ w.gateway.next_venue_order_id > 0
    <2>1. Acknowledged(g, x, w)
      BY <1>1, <1>6, <1>7
    <2> QED
      BY <1>1, <1>5, <1>7, <2>1 DEF Acknowledged
  <1>8. CASE Style = "Aggressive" /\ x.resting = g.resting_order
             /\ x.report = Quiet(new.quantity)
    <2> DEFINE e == Event("Expired", id)
    <2>1. /\ ~x.report.has_fill /\ x.report.leaves_qty = new.quantity
          /\ x.report.cancel_acked = FALSE
      BY <1>8 DEF Quiet
    <2>2. w.batch = push_event(b1, e)
      BY <1>1, <1>3, <1>6, <1>8, <2>1 DEF Acknowledged, b1, ack
    <2>3. /\ SoundOrder(Heard(s1, e).order)
          /\ Heard(s1, e).refused = s.refused
          /\ Heard(s1, e).order.state = "Expired"
      BY <1>2, HeardExpired
    <2>4. e \in VenueEvent
      BY <1>1, EventTypes DEF VenueEventType
    <2> HIDE DEF e
    <2>5. Batched(s, w.batch, 3, Heard(s1, e))
      <3>1. Batched(s, w.batch, 1 + 1, Heard(s1, e))
        BY <1>4, <2>2, <2>4, BatchedPush
      <3> QED
        BY <3>1, BatchedMore
    <2>6. Agreement(Heard(s1, e), w.gateway)
      BY <1>1, <1>3, <1>7, <1>8, <2>1, <2>3, IdleAgreement DEF TerminalStates
    <2> QED
      BY <1>3, <1>7, <1>8, <2>1, <2>5, <2>6 DEF w
  <1>9. ASSUME NEW q \in 1 .. new.quantity, NEW price \in Int,
               Style = "Aggressive", x.resting = g.resting_order,
               x.report = Filling([price |-> price, quantity |-> q,
                                   side |-> new.side], new.quantity - q)
        PROVE  /\ w = Progress(w.gateway, w.batch, w.counted)
               /\ ~w.gateway.pending_new.active
               /\ ~w.gateway.active_order.cancel_sent
               /\ ~w.gateway.active_order.active
               /\ ~w.gateway.resting_order.cancel_pending
               /\ \E s2 : Batched(s, w.batch, 3, s2) /\ Agreement(s2, w.gateway)
    <2> DEFINE fill == [price |-> price, quantity |-> q, side |-> new.side]
               e == FillEvent(id, fill)
               d == Event("Expired", id)
               n == new.quantity - q
               b2 == push_event(b1, e)
               s2 == Heard(s1, e)
    <2>1. /\ x.report.has_fill /\ x.report.leaves_qty = n
          /\ x.report.cancel_acked = FALSE /\ x.report.fill = fill
      BY <1>9 DEF Filling
    <2>2. n \in Nat /\ (n = 0 <=> q = new.quantity)
      BY <1>3
    <2>3. /\ e \in VenueEvent /\ e.type = "Fill" /\ e.fill_qty = q
          /\ e.venue_order_id = id
      BY <1>1, FillEventTypes
    <2>4. d \in VenueEvent
      BY <1>1, EventTypes DEF VenueEventType
    <2> HIDE DEF n
    <2>5. w.batch = IF n > 0 THEN push_event(b2, d) ELSE b2
      <3> HIDE DEF fill
      <3> QED
        BY <1>1, <1>6, <1>9, <2>1, <2>2 DEF Acknowledged, b1, ack
    <2> HIDE DEF e, d, b2, s2
    <2>6. /\ SoundOrder(s2.order) /\ s2.refused = s.refused
          /\ s2.order.state = IF q = new.quantity THEN "Filled"
                              ELSE "PartiallyFilled"
          /\ s2.order.venue_order_id = id
      BY <1>1, <1>2, <1>3, <2>3, HeardFill DEF s2
    <2>7. Batched(s, b2, 2, s2)
      <3>1. Batched(s, b2, 1 + 1, s2)
        BY <1>4, <2>3, BatchedPush DEF b2, s2
      <3> QED
        BY <3>1
    <2>8. CASE n = 0
      <3>1. Agreement(s2, w.gateway)
        BY <1>1, <1>7, <1>9, <2>1, <2>2, <2>6, <2>8, IdleAgreement
           DEF TerminalStates
      <3>2. Batched(s, w.batch, 3, s2)
        BY <2>5, <2>7, <2>8, BatchedMore
      <3> QED
        BY <1>7, <1>9, <2>1, <2>2, <3>1, <3>2
    <2>9. CASE n > 0
      <3> DEFINE s3 == Heard(s2, d)
      <3>1. /\ SoundOrder(s3.order) /\ s3.refused = s.refused
            /\ s3.order.state = "Expired"
        BY <2>2, <2>6, <2>9, HeardExpired DEF d
      <3>2. Batched(s, w.batch, 3, s3)
        <4>1. Batched(s, w.batch, 2 + 1, s3)
          BY <2>4, <2>5, <2>7, <2>9, BatchedPush
        <4> QED
          BY <4>1
      <3> HIDE DEF s3
      <3>3. Agreement(s3, w.gateway)
        BY <1>1, <1>7, <1>9, <2>1, <2>2, <3>1, IdleAgreement DEF TerminalStates
      <3> QED
        BY <1>7, <1>9, <2>1, <2>2, <3>2, <3>3
    <2> QED
      BY <2>2, <2>8, <2>9
  <1>10. CASE Style = "Aggressive"
    <2>1. x = Executed(g.resting_order, aggressive_fill(t, req),
                       aggressive_counted(aggressive_fill(t, req)))
      BY <1>1, <1>3, <1>10 DEF x, submit_order
    <2>2. x.resting = g.resting_order /\ x.report = aggressive_fill(t, req)
      BY <2>1 DEF Executed
    <2>3. \/ x.report = Quiet(new.quantity)
          \/ \E q \in 1 .. new.quantity, price \in Int :
              x.report = Filling([price |-> price, quantity |-> q,
                                  side |-> new.side], new.quantity - q)
      <3>1. /\ req.side \in Side /\ req.quantity \in Nat /\ req.quantity > 0
        BY <1>3
      <3>2. \/ aggressive_fill(t, req) = Quiet(req.quantity)
            \/ \E q \in 1 .. req.quantity, price \in Int :
                 aggressive_fill(t, req)
                   = Filling([price |-> price, quantity |-> q,
                              side |-> req.side], req.quantity - q)
        BY <3>1, AggressiveFill
      <3> QED
        BY <1>3, <2>2, <3>2
    <2> QED
      BY <1>8, <1>9, <1>10, <2>2, <2>3 DEF w
  <1>11. CASE Style = "Passive"
    <2> DEFINE r == rested(t, req)
    <2>1. x = Executed(r, Quiet(new.quantity), <<>>)
      BY <1>1, <1>3, <1>11 DEF x, submit_order
    <2>2. /\ r \in RestingOrder /\ r.active /\ ~r.cancel_pending
          /\ r.side = new.side /\ r.leaves_qty = new.quantity
      BY <1>3 DEF rested, RestingOrder, MarketTick
    <2> HIDE DEF r
    <2>3. /\ x.resting = r /\ ~x.report.has_fill
          /\ x.report.leaves_qty = new.quantity
          /\ x.report.cancel_acked = FALSE
      BY <2>1 DEF Executed, Quiet
    <2>4. Acknowledged(g, x, w)
      BY <1>3, <1>6, <2>2, <2>3
    <2>5. /\ w = Progress(w.gateway, w.batch, w.counted)
          /\ w.gateway \in Gateway
          /\ w.batch = b1
          /\ ~w.gateway.pending_new.active
          /\ NewlyActive(w.gateway.active_order, id, new.quantity)
          /\ w.gateway.resting_order = r
          /\ w.gateway.next_venue_order_id > 0
      BY <1>1, <1>5, <1>11, <2>2, <2>3, <2>4 DEF Acknowledged, b1, ack
    <2>6. /\ w.gateway.active_order.active
          /\ ~w.gateway.active_order.cancel_sent
          /\ w.gateway.active_order.venue_order_id = id
          /\ w.gateway.active_order.leaves_qty = new.quantity
      BY <2>5 DEF NewlyActive
    <2>7. Agreement(s1, w.gateway)
      BY <1>1, <1>2, <1>11, <2>2, <2>5, <2>6, ActiveAgreement
    <2> QED
      BY <1>4, <2>2, <2>5, <2>6, <2>7 DEF w
  <1> QED
    BY <1>10, <1>11, RunnerAssumption DEF ExecutionStyle

\* A rejected new order leaves the gateway without an order.
LEMMA RejectPending ==
  ASSUME NEW s, NEW g, Agreement(s, g), g.pending_new.active
  PROVE  LET w == reject_pending(g) IN
         /\ ~w.gateway.pending_new.active
         /\ ~w.gateway.active_order.cancel_sent
         /\ \E s2 : Batched(s, w.batch, 3, s2) /\ Agreement(s2, w.gateway)
  <1> DEFINE w == reject_pending(g)
             h == [g EXCEPT !.pending_new = NoPendingNew]
             e == Event("NewReject", 0)
  <1>1. /\ g \in Gateway /\ g.next_venue_order_id > 0
        /\ ~g.active_order.active /\ ~g.active_order.cancel_sent
        /\ ~g.resting_order.active /\ ~g.resting_order.cancel_pending
        /\ SoundOrder(s.order) /\ s.order.state = "PendingNewAck"
        /\ Harmless(s.refused)
    BY DEF Agreement, Harmless
  <1>2. /\ h \in Gateway /\ ~h.pending_new.active
        /\ h.active_order = g.active_order
        /\ h.resting_order = g.resting_order
        /\ h.next_venue_order_id = g.next_venue_order_id
    BY <1>1, NothingTypes, WithPending
  <1>3. w.gateway = h /\ w.batch = push_event(EmptyBatch, e)
    BY DEF reject_pending, Progress
  <1>4. /\ SoundOrder(Heard(s, e).order) /\ Heard(s, e).refused = s.refused
        /\ Heard(s, e).order.state = "Rejected"
    BY <1>1, HeardNewReject
  <1>5. e \in VenueEvent
    BY EventTypes DEF VenueEventType
  <1> HIDE DEF e, h, w
  <1>6. Agreement(Heard(s, e), h)
    BY <1>1, <1>2, <1>4, IdleAgreement DEF TerminalStates
  <1>7. Batched(s, w.batch, 3, Heard(s, e))
    <2>1. Batched(s, w.batch, 0 + 1, Heard(s, e))
      BY <1>3, <1>5, EmptyBatched, BatchedPush
    <2> QED
      BY <2>1, BatchedMore
  <1> QED
    BY <1>1, <1>2, <1>3, <1>6, <1>7 DEF w

\* Likewise for the flag of a cancel on the way.
LEMMA WithCancelSent ==
  ASSUME NEW a \in ActiveOrder, NEW sent \in BOOLEAN
  PROVE  LET b == [a EXCEPT !.cancel_sent = sent] IN
         /\ b \in ActiveOrder /\ b.cancel_sent = sent
         /\ b.active = a.active /\ b.venue_order_id = a.venue_order_id
         /\ b.leaves_qty = a.leaves_qty
         /\ b.cancel_send_ts_ns = a.cancel_send_ts_ns
         /\ b.cancel_reject_once_done = a.cancel_reject_once_done
  BY DEF ActiveOrder

\* Likewise for the mark of the one reject.
LEMMA WithRejectDone ==
  ASSUME NEW a \in ActiveOrder
  PROVE  LET b == [a EXCEPT !.cancel_reject_once_done = TRUE] IN
         /\ b \in ActiveOrder /\ b.cancel_reject_once_done
         /\ b.active = a.active /\ b.venue_order_id = a.venue_order_id
         /\ b.leaves_qty = a.leaves_qty /\ b.cancel_sent = a.cancel_sent
  BY DEF ActiveOrder

\* What Agreement says of a gateway with an active order.
LEMMA AgreementActive ==
  ASSUME NEW s, NEW g, Agreement(s, g), g.active_order.active
  PROVE  /\ g \in Gateway /\ g.active_order \in ActiveOrder
         /\ g.resting_order \in RestingOrder
         /\ g.resting_order.active /\ ~g.pending_new.active
         /\ g.next_venue_order_id > 0
         /\ SoundOrder(s.order) /\ Harmless(s.refused)
         /\ Style = "Passive"
         /\ s.order.state \in {"Acked", "PartiallyFilled", "PendingCancel"}
         /\ g.active_order.venue_order_id = s.order.venue_order_id
         /\ g.active_order.leaves_qty = s.order.leaves_qty
         /\ g.resting_order.leaves_qty = s.order.leaves_qty
         /\ g.resting_order.side = s.order.side
         /\ g.resting_order.cancel_pending => ~rejects_cancel(g)
         /\ s.order.state = "Acked" => /\ ~g.active_order.cancel_sent
                                       /\ ~g.resting_order.cancel_pending
  BY GatewayParts DEF Agreement, Harmless

\* A rejected cancel: the order rests on, and the order manager goes back to
\* working, unless a fill took it there before.
LEMMA RejectCancel ==
  ASSUME NEW s, NEW g, Agreement(s, g), NEW b, NEW c,
         g.active_order.active, g.active_order.cancel_sent, rejects_cancel(g)
  PROVE  LET w == reject_cancel(Progress(g, b, c))
             e == Event("CancelReject", g.active_order.venue_order_id)
         IN /\ w.batch = push_event(b, e) /\ e \in VenueEvent
            /\ ~w.gateway.pending_new.active
            /\ ~w.gateway.active_order.cancel_sent
            /\ Agreement(Heard(s, e), w.gateway)
  <1> DEFINE act == g.active_order
             a1 == [act EXCEPT !.cancel_sent = FALSE]
             a2 == [a1 EXCEPT !.cancel_reject_once_done = TRUE]
             h == [g EXCEPT !.active_order = a2]
             w == reject_cancel(Progress(g, b, c))
             e == Event("CancelReject", act.venue_order_id)
  <1>1. /\ g \in Gateway /\ act \in ActiveOrder
        /\ g.resting_order.active /\ ~g.pending_new.active
        /\ g.next_venue_order_id > 0
        /\ SoundOrder(s.order) /\ Harmless(s.refused)
        /\ Style = "Passive"
        /\ s.order.state \in {"PartiallyFilled", "PendingCancel"}
        /\ act.venue_order_id = s.order.venue_order_id
        /\ act.leaves_qty = s.order.leaves_qty
        /\ g.resting_order.leaves_qty = s.order.leaves_qty
        /\ g.resting_order.side = s.order.side
        /\ ~g.resting_order.cancel_pending
    BY AgreementActive
  <1>2. /\ a1 \in ActiveOrder /\ a1.cancel_sent = FALSE /\ a1.active
        /\ a1.venue_order_id = act.venue_order_id
        /\ a1.leaves_qty = act.leaves_qty
    BY <1>1, WithCancelSent
  <1>3. w.gateway = h /\ w.batch = push_event(b, e)
    BY DEF reject_cancel, Progress
  <1> HIDE DEF a1
  <1>4. /\ a2 \in ActiveOrder /\ a2.cancel_sent = FALSE /\ a2.active
        /\ a2.venue_order_id = act.venue_order_id
        /\ a2.leaves_qty = act.leaves_qty
    BY <1>2, WithRejectDone
  <1> HIDE DEF a2
  <1>5. /\ h \in Gateway /\ h.active_order = a2
        /\ h.pending_new = g.pending_new
        /\ h.resting_order = g.resting_order
        /\ h.next_venue_order_id = g.next_venue_order_id
    BY <1>1, <1>4, WithActive
  <1> HIDE DEF h, w
  <1>6. e \in VenueEvent
    BY <1>1, EventTypes DEF VenueEventType, ActiveOrder
  <1> DEFINE n == Heard(s, e)
  <1>7. /\ SoundOrder(n.order)
        /\ n.order.state \in {"Acked", "PartiallyFilled"}
        /\ n.order.venue_order_id = s.order.venue_order_id
        /\ n.order.side = s.order.side
        /\ n.order.leaves_qty = s.order.leaves_qty
        /\ n.refused \subseteq s.refused \cup {<<"CancelReject", "WrongState">>}
    BY <1>1, HeardCancelReject
  <1> HIDE DEF e, n
  <1>8. Harmless(n.refused)
    BY <1>1, <1>7 DEF Harmless, CancelAnswersRefused
  <1>9. Agreement(n, h)
    BY <1>1, <1>4, <1>5, <1>7, <1>8, ActiveAgreement
  <1> QED
    BY <1>1, <1>3, <1>4, <1>5, <1>6, <1>9 DEF e, n, w

\* A forwarded cancel is from now on the simulator's.
LEMMA ForwardCancel ==
  ASSUME NEW s, NEW g, Agreement(s, g), NEW b, NEW c, NEW t \in MarketTick,
         g.active_order.active, g.active_order.cancel_sent, ~rejects_cancel(g)
  PROVE  LET w == forward_cancel(Progress(g, b, c), t) IN
         /\ w = Progress(w.gateway, w.batch, w.counted)
         /\ w.batch = b
         /\ ~w.gateway.pending_new.active
         /\ ~w.gateway.active_order.cancel_sent
         /\ Agreement(s, w.gateway)
  <1> DEFINE act == g.active_order
             r == g.resting_order
             p == Progress(g, b, c)
             a1 == [act EXCEPT !.cancel_sent = FALSE]
             r1 == exec_request_cancel(r, t.receive_ts_ns)
             g1 == [g EXCEPT !.active_order = a1]
             h == [g1 EXCEPT !.resting_order = r1]
             w == forward_cancel(p, t)
  <1>1. /\ g \in Gateway /\ act \in ActiveOrder /\ r \in RestingOrder
        /\ r.active /\ ~g.pending_new.active
        /\ g.next_venue_order_id > 0
        /\ SoundOrder(s.order) /\ Harmless(s.refused)
        /\ Style = "Passive"
        /\ s.order.state \in {"PartiallyFilled", "PendingCancel"}
        /\ act.venue_order_id = s.order.venue_order_id
        /\ act.leaves_qty = s.order.leaves_qty
        /\ r.leaves_qty = s.order.leaves_qty
        /\ r.side = s.order.side
    BY AgreementActive
  <1>2. /\ a1 \in ActiveOrder /\ a1.cancel_sent = FALSE /\ a1.active
        /\ a1.venue_order_id = act.venue_order_id
        /\ a1.leaves_qty = act.leaves_qty
        /\ a1.cancel_reject_once_done = act.cancel_reject_once_done
    BY <1>1, WithCancelSent
  <1>3. /\ r1 \in RestingOrder /\ r1.active
        /\ r1.leaves_qty = r.leaves_qty /\ r1.side = r.side
    <2> DEFINE r0 == [r EXCEPT !.cancel_pending = TRUE]
               r2 == [r0 EXCEPT !.cancel_effective_ts_ns = t.receive_ts_ns + CancelLatency]
    <2>1. /\ r0 \in RestingOrder /\ r0.active
          /\ r0.leaves_qty = r.leaves_qty /\ r0.side = r.side
      BY <1>1 DEF RestingOrder
    <2>2. t.receive_ts_ns + CancelLatency \in Int
      BY SimulatorAssumption DEF MarketTick
    <2>3. r1 = r2 \/ r1 = r
      BY DEF exec_request_cancel
    <2> HIDE DEF r0
    <2>4. /\ r2 \in RestingOrder /\ r2.active
          /\ r2.leaves_qty = r.leaves_qty /\ r2.side = r.side
      BY <2>1, <2>2 DEF RestingOrder
    <2> QED
      BY <1>1, <2>3, <2>4
  <1>4. /\ w.gateway = h /\ w.batch = b
        /\ w = Progress(w.gateway, w.batch, w.counted)
    <2>1. p.gateway = g /\ p.batch = b
      BY DEF Progress
    <2> DEFINE k == p.counted \o counted_if(takes_cancel(r), "cancel_request_count")
    <2>2. w = Progress(h, b, k)
      BY <2>1 DEF forward_cancel
    <2> HIDE DEF h, k, w
    <2> QED
      BY <2>2 DEF Progress
  <1> HIDE DEF a1, r1
  <1>5. /\ g1 \in Gateway /\ g1.active_order = a1
        /\ g1.pending_new = g.pending_new
        /\ g1.next_venue_order_id = g.next_venue_order_id
    BY <1>1, <1>2, WithActive
  <1> HIDE DEF g1
  <1>6. /\ h \in Gateway /\ h.active_order = a1 /\ h.resting_order = r1
        /\ h.pending_new = g.pending_new
        /\ h.next_venue_order_id = g.next_venue_order_id
    BY <1>3, <1>5, WithResting
  <1> HIDE DEF h, w
  <1>7. ~rejects_cancel(h)
    BY <1>2, <1>6 DEF rejects_cancel
  <1>8. Agreement(s, h)
    BY <1>1, <1>2, <1>3, <1>6, <1>7, ActiveAgreement
  <1> QED
    BY <1>1, <1>2, <1>4, <1>6, <1>8 DEF w, p

\* The last step of on_tick, with the batch so far.
LEMMA WorkTick ==
  ASSUME NEW s, NEW s1, NEW g, Agreement(s1, g), NEW n \in 0 .. 2,
         NEW b, Batched(s, b, n, s1), NEW c, NEW t \in MarketTick,
         NothingDue(g, t.receive_ts_ns)
  PROVE  LET w == work_resting(Progress(g, b, c), t) IN
         /\ NothingDue(w.gateway, t.receive_ts_ns)
         /\ \E s2 : Batched(s, w.batch, 3, s2) /\ Agreement(s2, w.gateway)
  <1> DEFINE w == work_resting(Progress(g, b, c), t)
  <1>1. /\ \/ w.batch = b /\ Agreement(s1, w.gateway)
           \/ \E e \in VenueEvent : /\ w.batch = push_event(b, e)
                                    /\ Agreement(Heard(s1, e), w.gateway)
        /\ w.gateway.pending_new = g.pending_new
        /\ w.gateway.active_order.cancel_sent =>
             /\ g.active_order.cancel_sent
             /\ w.gateway.active_order.cancel_send_ts_ns
                  = g.active_order.cancel_send_ts_ns
    BY WorkResting
  <1> HIDE DEF w
  <1>2. NothingDue(w.gateway, t.receive_ts_ns)
    BY <1>1 DEF NothingDue
  <1>3. n \in Nat /\ n <= 2 /\ n + 1 \in Nat /\ n <= 3 /\ n + 1 <= 3
    OBVIOUS
  <1>4. CASE w.batch = b /\ Agreement(s1, w.gateway)
    BY <1>2, <1>3, <1>4, BatchedMore DEF w
  <1>5. ASSUME NEW e \in VenueEvent, w.batch = push_event(b, e),
               Agreement(Heard(s1, e), w.gateway)
        PROVE  \E s2 : Batched(s, w.batch, 3, s2) /\ Agreement(s2, w.gateway)
    <2>1. Batched(s, w.batch, n + 1, Heard(s1, e))
      BY <1>5, BatchedPush
    <2>2. Batched(s, w.batch, 3, Heard(s1, e))
      BY <1>3, <2>1, BatchedMore
    <2> QED
      BY <1>5, <2>2
  <1> QED
    BY <1>1, <1>2, <1>4, <1>5 DEF w

\* on_tick: at most three events, none lost, that bring the order manager to
\* agree with the gateway, and no answer is left that was due.
LEMMA GatewayTick ==
  ASSUME NEW s, NEW g, Agreement(s, g), NEW t \in MarketTick
  PROVE  LET w == gateway_on_tick(g, t) IN
         /\ NothingDue(w.gateway, t.receive_ts_ns)
         /\ \E s2 : Batched(s, w.batch, 3, s2) /\ Agreement(s2, w.gateway)
  <1> DEFINE w == gateway_on_tick(g, t)
             ts == t.receive_ts_ns
  <1>1. /\ g \in Gateway /\ ts \in Int
        /\ g.pending_new.ack_ready_ts_ns \in Int
        /\ g.active_order.cancel_send_ts_ns \in Int
    BY GatewayParts DEF Agreement, MarketTick, PendingNew, ActiveOrder
  <1>2. CASE ack_due(g, t) /\ g.pending_new.should_reject
    <2>1. w = reject_pending(g)
      BY <1>2 DEF gateway_on_tick
    <2>2. g.pending_new.active
      BY <1>2 DEF ack_due
    <2> QED
      BY <2>1, <2>2, RejectPending DEF NothingDue
  <1>3. CASE ack_due(g, t) /\ ~g.pending_new.should_reject
    <2> DEFINE p == ack_pending(g, t)
    <2>1. /\ p = Progress(p.gateway, p.batch, p.counted)
          /\ ~p.gateway.pending_new.active
          /\ ~p.gateway.active_order.cancel_sent
          /\ \E s2 : /\ Batched(s, p.batch,
                                IF p.gateway.active_order.active THEN 1 ELSE 3, s2)
                     /\ Agreement(s2, p.gateway)
      <3>1. g.pending_new.active
        BY <1>3 DEF ack_due
      <3> QED
        BY <3>1, AckPending
    <2>2. w = work_resting(p, t)
      BY <1>3, <2>1 DEF gateway_on_tick, cancel_due
    <2> HIDE DEF p
    <2>3. NothingDue(p.gateway, ts)
      BY <2>1 DEF NothingDue
    <2>4. PICK s1 : /\ Batched(s, p.batch,
                               IF p.gateway.active_order.active THEN 1 ELSE 3, s1)
                    /\ Agreement(s1, p.gateway)
      BY <2>1
    <2>5. CASE p.gateway.active_order.active
      <3>1. Batched(s, p.batch, 1, s1)
        BY <2>4, <2>5
      <3>2. w = work_resting(Progress(p.gateway, p.batch, p.counted), t)
        BY <2>1, <2>2
      <3> HIDE DEF w
      <3> QED
        BY <2>3, <2>4, <3>1, <3>2, WorkTick DEF w
    <2>6. CASE ~p.gateway.active_order.active
      <3>1. ~p.gateway.resting_order.active
        BY <2>4, <2>6 DEF Agreement
      <3>2. w = p
        BY <2>2, <2>6, <3>1 DEF work_resting
      <3> QED
        BY <2>3, <2>4, <2>6, <3>2
    <2> QED
      BY <2>5, <2>6
  <1>4. CASE ~ack_due(g, t)
    <2> DEFINE p == Progress(g, EmptyBatch, <<>>)
    <2>1. w = IF ~cancel_due(g, t) THEN work_resting(p, t)
              ELSE IF rejects_cancel(g) THEN reject_cancel(p)
              ELSE work_resting(forward_cancel(p, t), t)
      BY <1>4 DEF gateway_on_tick, Progress
    <2>2. g.pending_new.active => ts < g.pending_new.ack_ready_ts_ns
      BY <1>1, <1>4 DEF ack_due
    <2>3. Batched(s, EmptyBatch, 0, s)
      BY EmptyBatched
    <2>4. CASE ~cancel_due(g, t)
      <3>1. NothingDue(g, ts)
        BY <1>1, <2>2, <2>4 DEF NothingDue, cancel_due, Agreement
      <3> HIDE DEF w
      <3> QED
        BY <2>1, <2>3, <2>4, <3>1, WorkTick DEF w
    <2>5. CASE cancel_due(g, t) /\ rejects_cancel(g)
      <3> DEFINE e == Event("CancelReject", g.active_order.venue_order_id)
      <3>1. g.active_order.active /\ g.active_order.cancel_sent
        BY <2>5 DEF cancel_due
      <3>2. w = reject_cancel(p)
        BY <2>1, <2>5
      <3>3. /\ w.batch = push_event(EmptyBatch, e) /\ e \in VenueEvent
            /\ ~w.gateway.pending_new.active
            /\ ~w.gateway.active_order.cancel_sent
            /\ Agreement(Heard(s, e), w.gateway)
        BY <2>5, <3>1, <3>2, RejectCancel
      <3> HIDE DEF w, e
      <3>4. Batched(s, w.batch, 0 + 1, Heard(s, e))
        BY <2>3, <3>3, BatchedPush
      <3>5. Batched(s, w.batch, 3, Heard(s, e))
        BY <3>4, BatchedMore
      <3>6. NothingDue(w.gateway, ts)
        BY <3>3 DEF NothingDue
      <3> QED
        BY <3>3, <3>5, <3>6 DEF w
    <2>6. CASE cancel_due(g, t) /\ ~rejects_cancel(g)
      <3> DEFINE f == forward_cancel(p, t)
      <3>1. g.active_order.active /\ g.active_order.cancel_sent
        BY <2>6 DEF cancel_due
      <3>2. /\ f = Progress(f.gateway, f.batch, f.counted)
            /\ f.batch = EmptyBatch
            /\ ~f.gateway.pending_new.active
            /\ ~f.gateway.active_order.cancel_sent
            /\ Agreement(s, f.gateway)
        BY <2>6, <3>1, ForwardCancel
      <3>3. w = work_resting(f, t)
        BY <2>1, <2>6
      <3> HIDE DEF f, w
      <3>4. NothingDue(f.gateway, ts)
        BY <3>2 DEF NothingDue
      <3>5. w = work_resting(Progress(f.gateway, EmptyBatch, f.counted), t)
        BY <3>2, <3>3
      <3> QED
        BY <2>3, <3>2, <3>4, <3>5, WorkTick DEF w
    <2> QED
      BY <2>4, <2>5, <2>6
  <1> QED
    BY <1>2, <1>3, <1>4

\* What LateCancelAckOvertaken says of the resting order r after a tick t, for
\* an order of qty.
Overtaken(r, t, qty) ==
  cancel_effective(r, t) => TradesWith(t, r) /\ r.leaves_qty < qty

\* The last step of on_tick leaves a cancel in effect only behind a fill.
LEMMA WorkOvertaken ==
  ASSUME NEW s, NEW g, Agreement(s, g), NEW b, NEW c, NEW t \in MarketTick
  PROVE  LET r == work_resting(Progress(g, b, c), t).gateway.resting_order IN
         /\ r.cancel_pending => g.resting_order.cancel_pending
         /\ Overtaken(r, t, s.order.order_qty)
  <1> DEFINE w == work_resting(Progress(g, b, c), t)
             x == exec_on_tick(g.resting_order, t)
  <1>1. CASE ~g.active_order.active
    <2>1. w = Progress(g, b, c) /\ ~g.resting_order.cancel_pending
      BY <1>1 DEF work_resting, Progress, Agreement
    <2>2. w.gateway = g
      BY <2>1 DEF Progress
    <2> QED
      BY <2>1, <2>2 DEF Overtaken, cancel_effective
  <1>2. CASE g.active_order.active
    <2> DEFINE r == g.resting_order
    <2>1. /\ g \in Gateway /\ r \in RestingOrder /\ r.active
          /\ SoundOrder(s.order) /\ r.leaves_qty = s.order.leaves_qty
          /\ s.order.state \in {"Acked", "PartiallyFilled", "PendingCancel"}
      BY <1>2, AgreementActive
    <2>2. /\ r.leaves_qty > 0 /\ r.leaves_qty \in Nat
          /\ r.leaves_qty <= s.order.order_qty /\ s.order.order_qty \in Nat
      BY <2>1 DEF SoundOrder, ConsistentOrder, ManagedOrder, LiveStates
    <2>3. x.resting \in RestingOrder /\ x.report.leaves_qty \in Nat
      <3>1. RestingOutcome(r, x)
        BY <2>1, <2>2, ExecOnTick
      <3> HIDE DEF x
      <3>2. CASE /\ x.report = Quiet(r.leaves_qty)
                 /\ StillRests(r, x.resting, r.leaves_qty)
        BY <2>2, <3>2 DEF StillRests, Quiet
      <3>3. CASE /\ x.report = [Quiet(0) EXCEPT !.cancel_acked = TRUE]
                 /\ x.resting = NoRestingOrder
        BY <3>3, NothingTypes DEF Quiet
      <3>4. ASSUME NEW q \in 1 .. r.leaves_qty,
                   x.report = Filling([price |-> r.price, quantity |-> q,
                                       side |-> r.side], r.leaves_qty - q),
                   IF q = r.leaves_qty THEN x.resting = NoRestingOrder
                   ELSE StillRests(r, x.resting, r.leaves_qty - q)
            PROVE  x.resting \in RestingOrder /\ x.report.leaves_qty \in Nat
        BY <2>2, <3>4, NothingTypes DEF StillRests, Filling
      <3> QED
        BY <3>1, <3>2, <3>3, <3>4 DEF RestingOutcome
    <2>4. w.gateway.resting_order = x.resting
      BY <1>2, <2>1, <2>3, WorkRestingParts DEF Worked
    <2>5. /\ x.resting.cancel_pending => r.cancel_pending
          /\ cancel_effective(x.resting, t)
               => TradesWith(t, x.resting) /\ x.resting.leaves_qty < r.leaves_qty
      BY <2>1, CancelOvertaken
    <2>6. x.resting.leaves_qty \in Nat
      BY <2>3 DEF RestingOrder
    <2> HIDE DEF w, x
    <2> QED
      BY <2>2, <2>4, <2>5, <2>6 DEF Overtaken, w
  <1> QED
    BY <1>1, <1>2

\* After on_tick a cancel is in effect only behind a fill of this tick.
LEMMA TickOvertaken ==
  ASSUME NEW s, NEW g, Agreement(s, g), NEW t \in MarketTick
  PROVE  Overtaken(gateway_on_tick(g, t).gateway.resting_order, t,
                   s.order.order_qty)
  <1> DEFINE w == gateway_on_tick(g, t)
             r == w.gateway.resting_order
             p == Progress(g, EmptyBatch, <<>>)
  <1>1. CASE ack_due(g, t) /\ g.pending_new.should_reject
    <2>1. ~g.resting_order.cancel_pending
      BY <1>1 DEF ack_due, Agreement
    <2>2. g \in Gateway
      BY DEF Agreement
    <2>3. r = g.resting_order
      BY <1>1, <2>2, NothingTypes, WithPending
         DEF gateway_on_tick, reject_pending, Progress
    <2> QED
      BY <2>1, <2>3 DEF Overtaken, cancel_effective
  <1>2. CASE ack_due(g, t) /\ ~g.pending_new.should_reject
    <2> DEFINE a == ack_pending(g, t)
    <2>1. /\ a = Progress(a.gateway, a.batch, a.counted)
          /\ ~a.gateway.active_order.cancel_sent
          /\ ~a.gateway.resting_order.cancel_pending
          /\ \E s2 : Agreement(s2, a.gateway)
      BY <1>2, AckPending DEF ack_due
    <2>2. w = work_resting(a, t)
      BY <1>2, <2>1 DEF gateway_on_tick, cancel_due
    <2> HIDE DEF a, w
    <2>3. w = work_resting(Progress(a.gateway, a.batch, a.counted), t)
      BY <2>1, <2>2
    <2>4. ~r.cancel_pending
      BY <2>1, <2>3, WorkOvertaken
    <2> QED
      BY <2>4 DEF Overtaken, cancel_effective, w
  <1>3. CASE ~ack_due(g, t)
    <2>1. w = IF ~cancel_due(g, t) THEN work_resting(p, t)
              ELSE IF rejects_cancel(g) THEN reject_cancel(p)
              ELSE work_resting(forward_cancel(p, t), t)
      BY <1>3 DEF gateway_on_tick, Progress
    <2>2. CASE ~cancel_due(g, t)
      BY <2>1, <2>2, WorkOvertaken
    <2>3. CASE cancel_due(g, t) /\ rejects_cancel(g)
      <3>1. ~g.resting_order.cancel_pending
        BY <2>3 DEF Agreement
      <3>2. r = g.resting_order
        <4> DEFINE a1 == [g.active_order EXCEPT !.cancel_sent = FALSE]
                   a == [a1 EXCEPT !.cancel_reject_once_done = TRUE]
        <4>1. w.gateway = [g EXCEPT !.active_order = a]
          <5>1. reject_cancel(Progress(g, EmptyBatch, <<>>)).gateway
                  = [g EXCEPT !.active_order = a]
            BY DEF reject_cancel, Progress
          <5>2. w = reject_cancel(p)
            BY <2>1, <2>3
          <5> HIDE DEF w, a
          <5> QED
            BY <5>1, <5>2
        <4>2. g \in Gateway
          BY DEF Agreement
        <4> HIDE DEF a1, a, w
        <4> QED
          BY <4>1, <4>2 DEF Gateway
      <3> QED
        BY <3>1, <3>2 DEF Overtaken, cancel_effective
    <2>4. CASE cancel_due(g, t) /\ ~rejects_cancel(g)
      <3> DEFINE f == forward_cancel(p, t)
      <3>1. /\ f = Progress(f.gateway, f.batch, f.counted)
            /\ Agreement(s, f.gateway)
        BY <2>4, ForwardCancel DEF cancel_due
      <3>2. w = work_resting(f, t)
        BY <2>1, <2>4
      <3> HIDE DEF f, w
      <3>3. w = work_resting(Progress(f.gateway, f.batch, f.counted), t)
        BY <3>1, <3>2
      <3> QED
        BY <3>1, <3>3, WorkOvertaken DEF w
    <2> QED
      BY <2>2, <2>3, <2>4
  <1> QED
    BY <1>1, <1>2, <1>3

-----------------------------------------------------------------------------
(* What one venue event does to the rest of the loop's state *)

\* Handling the first event of a batch leaves the rest to be heard.
LEMMA HeardTail ==
  ASSUME NEW s, NEW b \in Seq(VenueEvent), b # <<>>, Len(b) <= 3
  PROVE  /\ Head(b) \in VenueEvent
         /\ Tail(b) \in Seq(VenueEvent) /\ Len(Tail(b)) <= 2
         /\ HeardAll(Heard(s, Head(b)), Tail(b)) = HeardAll(s, b)
  <1>1. /\ Len(b) \in Nat /\ Len(b) # 0 /\ Head(b) = b[1]
        /\ Tail(b) \in Seq(VenueEvent) /\ Len(Tail(b)) = Len(b) - 1
        /\ \A i \in 1 .. Len(b) - 1 : Tail(b)[i] = b[i + 1]
        /\ b[1] \in VenueEvent
    OBVIOUS
  <1> DEFINE c == Tail(b)
             l == Len(b)
             h == Head(b)
  <1>2. l \in {1, 2, 3} /\ Len(c) = l - 1
    BY <1>1
  <1>3. l > 1 => c[1] = b[2]
    BY <1>1
  <1>4. l > 2 => c[2] = b[3]
    BY <1>1
  <1>5. h = b[1]
    BY <1>1
  <1> HIDE DEF c, h
  <1>9. HeardAll(Heard(s, h), c) = HeardAll(s, b)
    <2>1. CASE l = 1
      BY <1>2, <1>5, <2>1 DEF HeardAll
    <2>2. CASE l = 2
      BY <1>2, <1>3, <1>5, <2>2 DEF HeardAll
    <2>3. CASE l = 3
      <3>1. Len(b) = 3 /\ Len(c) = 2 /\ c[1] = b[2] /\ c[2] = b[3]
        BY <1>2, <1>3, <1>4, <2>3
      <3>2. HeardAll(s, b) = Heard(Heard(Heard(s, b[1]), b[2]), b[3])
        BY <3>1 DEF HeardAll
      <3> QED
        BY <1>5, <3>1, <3>2 DEF HeardAll
    <2> HIDE DEF l
    <2> QED
      BY <1>2, <2>1, <2>2, <2>3
  <1> QED
    BY <1>1, <1>9 DEF c, h

\* Only an order that is live changes, and only the runner asks for a cancel.
LEMMA EventStates ==
  ASSUME NEW o, SoundOrder(o), NEW e \in VenueEvent
  PROVE  LET n == order_after(o, e) IN
         /\ o.state \notin LiveStates => n = o
         /\ n.state = "PendingCancel" => o.state = "PendingCancel"
  <1> DEFINE n == order_after(o, e)
  <1>1. o \in ManagedOrder /\ e.type \in VenueEventType
    BY DEF SoundOrder, VenueEvent
  <1>2. CASE event_outcome(o, e) # "Applied"
    BY <1>2 DEF order_after
  <1>3. CASE event_outcome(o, e) = "Applied"
    <2>1. /\ o.state \in AcceptingStates(e.type)
          /\ e.type = "Fill" => e.fill_qty \in 1 .. o.leaves_qty
          /\ e.type # "NewReject" => e.venue_order_id > 0
      BY <1>1, <1>3, AppliedEventChecked
    <2>2. n = applied_event(o, e)
      BY <1>3 DEF order_after
    <2>3. o.state \in LiveStates
      BY <1>1, <2>1 DEF AcceptingStates, VenueEventType, LiveStates, Working
    <2>4. n.state # "PendingCancel"
      <3>1. CASE e.type = "NewAck"
        <4>1. e.venue_order_id \in Nat
          BY <2>1, <3>1 DEF VenueEvent
        <4> QED
          BY <1>1, <2>2, <3>1, <4>1, AckedFields DEF applied_event
      <3>2. CASE e.type = "NewReject"
        BY <1>1, <2>2, <3>2 DEF applied_event, rejected, ManagedOrder
      <3>3. CASE e.type = "Fill"
        BY <1>1, <2>1, <2>2, <3>3, FilledFields DEF applied_event
      <3>4. CASE e.type = "CancelAck"
        BY <1>1, <2>2, <3>4, CanceledFields DEF applied_event
      <3>5. CASE e.type = "CancelReject"
        <4> DEFINE st == IF o.leaves_qty = o.order_qty
                         THEN "Acked" ELSE "PartiallyFilled"
        <4>1. n = [o EXCEPT !.state = st]
          BY <2>2, <3>5 DEF applied_event, cancel_rejected
        <4>2. st \in OrderState /\ st # "PendingCancel"
          BY DEF OrderState
        <4> HIDE DEF st
        <4> QED
          BY <1>1, <4>1, <4>2, WithState
      <3>6. CASE e.type = "Expired"
        BY <1>1, <2>2, <3>6, ExpiredFields DEF applied_event
      <3> QED
        BY <1>1, <3>1, <3>2, <3>3, <3>4, <3>5, <3>6 DEF VenueEventType
    <2> QED
      BY <2>3, <2>4
  <1> QED
    BY <1>2, <1>3

\* fill_out is empty, or the executed part of a live order's remainder.
LEMMA FillOut ==
  ASSUME NEW o, SoundOrder(o), NEW e \in VenueEvent
  PROVE  LET f == fill_out(o, e)
             n == order_after(o, e)
         IN \/ f.quantity = 0
            \/ /\ f.quantity \in 1 .. o.leaves_qty /\ f.side = o.side
               /\ o.state \in LiveStates
               /\ n.state \in LiveStates \/ f.quantity = o.leaves_qty
  <1>1. o \in ManagedOrder
    BY DEF SoundOrder
  <1>2. CASE e.type = "Fill" /\ event_outcome(o, e) = "Applied"
    <2>1. /\ o.state \in AcceptingStates(e.type)
          /\ e.fill_qty \in 1 .. o.leaves_qty
      BY <1>1, <1>2, AppliedEventChecked
    <2>2. order_after(o, e) = filled(o, e)
      BY <1>2 DEF order_after, applied_event
    <2>3. filled(o, e).state = IF o.leaves_qty = e.fill_qty
                               THEN "Filled" ELSE "PartiallyFilled"
      BY <1>1, <2>1, FilledFields
    <2>4. fill_out(o, e).quantity = e.fill_qty /\ fill_out(o, e).side = o.side
      BY <1>2 DEF fill_out
    <2>5. o.state \in LiveStates
      BY <1>2, <2>1 DEF AcceptingStates, LiveStates, Working
    <2> QED
      BY <2>1, <2>2, <2>3, <2>4, <2>5 DEF LiveStates
  <1>3. CASE ~(e.type = "Fill" /\ event_outcome(o, e) = "Applied")
    BY <1>3 DEF fill_out, NoFill
  <1> QED
    BY <1>2, <1>3

\* The signed quantity of order o that may still execute.
Exposure(o) ==
  IF o.state \in LiveStates THEN side_sign(o.side) * o.leaves_qty ELSE 0

\* The position after an event: what executes moves from the exposure to the
\* position, and an event without an execution keeps or ends the exposure.
LEMMA EventExposure ==
  ASSUME NEW o, SoundOrder(o), NEW e \in VenueEvent, NEW net \in Int
  PROVE  LET n == order_after(o, e)
             m == position_after(o, e, net)
         IN /\ m = net + side_sign(o.side) * (n.cum_qty - o.cum_qty)
            /\ m \in Int
            /\ Exposure(o) \in Int /\ Exposure(n) \in Int
            /\ \/ m = net /\ Exposure(n) \in {0, Exposure(o)}
               \/ \E q \in Int : /\ \/ 0 < q /\ q <= Exposure(o)
                                    \/ Exposure(o) <= q /\ q < 0
                                 /\ m = net + q
                                 /\ Exposure(n) = Exposure(o) - q
  <1> DEFINE n == order_after(o, e)
             m == position_after(o, e, net)
             f == fill_out(o, e)
             q == side_sign(o.side) * f.quantity
  <1>1. /\ SoundOrder(n) /\ n.cum_qty = o.cum_qty + f.quantity
        /\ n.side = o.side /\ n.order_qty = o.order_qty
        /\ o.state \notin LiveStates => n = o
    BY EventSound, EventKeepsOrder, EventStates
  <1>2. /\ o.cum_qty \in Nat /\ o.leaves_qty \in Nat /\ o.order_qty \in Nat
        /\ n.cum_qty \in Nat /\ n.leaves_qty \in Nat
        /\ side_sign(o.side) \in {1, -1}
        /\ o.state \in LiveStates => o.leaves_qty = o.order_qty - o.cum_qty
        /\ n.state \in LiveStates => n.leaves_qty = n.order_qty - n.cum_qty
    BY <1>1 DEF SoundOrder, ManagedOrder, ConsistentOrder, side_sign
  <1>3. \/ f.quantity = 0
        \/ /\ f.quantity \in 1 .. o.leaves_qty /\ f.side = o.side
           /\ o.state \in LiveStates
           /\ n.state \in LiveStates \/ f.quantity = o.leaves_qty
    BY FillOut
  <1>4. m = IF f.quantity <= 0 THEN net
            ELSE net + side_sign(f.side) * f.quantity
    BY DEF position_after
  <1> HIDE DEF n, m, f
  <1>5. f.quantity \in Int
    BY <1>2, <1>3
  <1>6. m = net + q /\ q \in Int /\ m \in Int
    BY <1>2, <1>3, <1>4, <1>5
  <1>7. q = side_sign(o.side) * (n.cum_qty - o.cum_qty)
    BY <1>1, <1>2, <1>5
  <1>8. /\ Exposure(o) \in Int /\ Exposure(n) \in Int
    BY <1>1, <1>2 DEF Exposure
  <1>9. CASE f.quantity = 0
    <2>1. m = net
      BY <1>4, <1>9
    <2>2. n.state \in LiveStates => Exposure(n) = Exposure(o)
      BY <1>1, <1>2, <1>9 DEF Exposure
    <2>3. n.state \notin LiveStates => Exposure(n) = 0
      BY DEF Exposure
    <2> QED
      BY <1>6, <1>7, <1>8, <2>1, <2>2, <2>3 DEF n, m
  <1>10. CASE f.quantity \in 1 .. o.leaves_qty /\ f.side = o.side
             /\ o.state \in LiveStates
             /\ (n.state \in LiveStates \/ f.quantity = o.leaves_qty)
    <2>1. Exposure(o) = side_sign(o.side) * o.leaves_qty
      BY <1>10 DEF Exposure
    <2>2. Exposure(n) = side_sign(o.side) * (o.leaves_qty - f.quantity)
      BY <1>1, <1>2, <1>10 DEF Exposure
    <2>3. Exposure(n) = Exposure(o) - q
      BY <1>2, <1>5, <2>1, <2>2
    <2>4. \/ 0 < q /\ q <= Exposure(o)
          \/ Exposure(o) <= q /\ q < 0
      BY <1>2, <1>10, <2>1
    <2> HIDE DEF q
    <2> QED
      BY <1>6, <1>7, <1>8, <2>3, <2>4 DEF n, m
  <1> QED
    BY <1>3, <1>9, <1>10

-----------------------------------------------------------------------------
(* The journal *)

\* The type of the journal.
Journal == [state : OrderState, path : BOOLEAN, emitted : Nat, fills : Nat]

\* The journal tells one path that ends in state st.
TellsPathTo(j, st) == j \in Journal /\ j.path /\ j.state = st

\* Counting emitted events and fills does not touch the path.
LEMMA EmittedCount ==
  ASSUME NEW j, NEW st, TellsPathTo(j, st), NEW n \in Nat, NEW m \in Nat
  PROVE  /\ TellsPathTo([j EXCEPT !.emitted = n], st)
         /\ TellsPathTo([j EXCEPT !.emitted = n, !.fills = m], st)
  <1> DEFINE k == [j EXCEPT !.emitted = n]
  <1>1. TellsPathTo(k, st)
    BY DEF TellsPathTo, Journal
  <1> HIDE DEF k
  <1>2. TellsPathTo([k EXCEPT !.fills = m], st)
    BY <1>1 DEF TellsPathTo, Journal
  <1> QED
    BY <1>1, <1>2 DEF k

\* A transition from where the path ends extends it.
LEMMA EmitTransition ==
  ASSUME NEW j, NEW st, TellsPathTo(j, st), NEW from, NEW to \in OrderState,
         continues(j, from), st = from \/ from # to
  PROVE  TellsPathTo(emit_transition(j, from, to), to)
  <1>1. CASE from = to
    BY <1>1 DEF emit_transition, TellsPathTo
  <1>2. CASE from # to
    <2> DEFINE k == [j EXCEPT !.state = to]
               l == [k EXCEPT !.path = @ /\ continues(j, from)]
               m == [l EXCEPT !.emitted = @ + 1]
    <2>1. k \in Journal /\ k.path /\ k.state = to /\ j.emitted \in Nat
      BY DEF TellsPathTo, Journal
    <2>2. emit_transition(j, from, to) = m
      BY <1>2 DEF emit_transition
    <2> HIDE DEF k
    <2>3. TellsPathTo(l, to)
      BY <2>1 DEF TellsPathTo, Journal
    <2> HIDE DEF l
    <2>4. l.emitted + 1 \in Nat
      BY <2>3 DEF TellsPathTo, Journal
    <2>5. TellsPathTo(m, to)
      BY <2>3, <2>4, EmittedCount
    <2> QED
      BY <2>2, <2>5
  <1> QED
    BY <1>1, <1>2

\* An applied event extends the path to the new state of the order.
LEMMA JournalOf ==
  ASSUME NEW j, NEW o, NEW n, NEW e, NEW fill,
         TellsPathTo(j, o.state), n.state \in OrderState
  PROVE  TellsPathTo(journal_of(j, o, n, e, fill), n.state)
  <1> DEFINE j1 == emit_transition(j, o.state, n.state)
             j2 == IF fill.quantity > 0 THEN emit_fill(j1) ELSE j1
  <1>1. TellsPathTo(j1, n.state)
    BY EmitTransition DEF continues, TellsPathTo
  <1> HIDE DEF j1
  <1>2. TellsPathTo(j2, n.state)
    <2>1. j1.emitted + 1 \in Nat /\ j1.fills + 1 \in Nat
      BY <1>1 DEF TellsPathTo, Journal
    <2>2. TellsPathTo(emit_fill(j1), n.state)
      BY <1>1, <2>1, EmittedCount DEF emit_fill
    <2> QED
      BY <1>1, <2>2
  <1> HIDE DEF j2
  <1>3. TellsPathTo(emit_event(j2), n.state)
    <2>1. j2.emitted + 1 \in Nat
      BY <1>2 DEF TellsPathTo, Journal
    <2> QED
      BY <1>2, <2>1, EmittedCount DEF emit_event
  <1>4. journal_of(j, o, n, e, fill) \in {j2, emit_event(j2)}
    BY DEF journal_of, j1, j2
  <1> QED
    BY <1>2, <1>3, <1>4

-----------------------------------------------------------------------------
(* The loop as a trading desk *)

\* The three ways a step of the loop may move position and exposure.
DeskMove ==
  \/ net_qty' = net_qty /\ Exposure(order') \in {0, Exposure(order)}
  \/ \E q \in Int : /\ \/ 0 < q /\ q <= Exposure(order)
                       \/ Exposure(order) <= q /\ q < 0
                    /\ net_qty' = net_qty + q
                    /\ Exposure(order') = Exposure(order) - q
  \/ /\ Exposure(order) = 0
     /\ net_qty' = net_qty
     /\ net_qty + Exposure(order') \in -MaxAbsPosition .. MaxAbsPosition

\* Each of them is a step of the desk and keeps its limit.
LEMMA DeskStep ==
  ASSUME RiskIsBounded, net_qty \in Int, Exposure(order) \in Int,
         Exposure(order') \in Int, DeskMove
  PROVE  RiskIsBounded' /\ [Desk!DeskNext]_(Desk!deskVars)
  <1> DEFINE x == Exposure(order)
             y == Exposure(order')
             M == MaxAbsPosition
  <1>1. M \in Nat
    BY DecisionAssumption
  <1>2. /\ -M <= net_qty /\ net_qty <= M
        /\ -M <= net_qty + x /\ net_qty + x <= M
    BY DEF RiskIsBounded, Desk!DeskWithinLimit, Desk!Within, Exposure, Live
  <1>3. Desk!Quantities = -(2 * M) .. 2 * M
    BY DEF Desk!Quantities
  <1>4. Desk!deskVars = <<net_qty, x>> /\ Desk!deskVars' = <<net_qty', y>>
    BY DEF Desk!deskVars, Exposure, Live
  <1>5. RiskIsBounded' <=> /\ -M <= net_qty' /\ net_qty' <= M
                           /\ -M <= net_qty' + y /\ net_qty' + y <= M
    BY DEF RiskIsBounded, Desk!DeskWithinLimit, Desk!Within, Exposure, Live
  <1>6. ASSUME NEW q
        PROVE  /\ Desk!Open(q) <=> /\ x = 0 /\ y = q /\ net_qty' = net_qty
                                   /\ -M <= net_qty + q /\ net_qty + q <= M
               /\ Desk!Execute(q) <=> /\ \/ 0 < q /\ q <= x
                                         \/ x <= q /\ q < 0
                                      /\ net_qty' = net_qty + q
                                      /\ y = x - q
    BY DEF Desk!Open, Desk!Execute, Desk!Within, Exposure, Live
  <1>7. Desk!GiveUp <=> y = 0 /\ net_qty' = net_qty
    BY DEF Desk!GiveUp, Exposure, Live
  <1> HIDE DEF x, y
  <1>8. CASE net_qty' = net_qty /\ y \in {0, x}
    <2>1. RiskIsBounded'
      BY <1>1, <1>2, <1>5, <1>8
    <2> QED
      BY <1>4, <1>7, <1>8, <2>1 DEF Desk!DeskNext
  <1>9. ASSUME NEW q \in Int, (0 < q /\ q <= x) \/ (x <= q /\ q < 0),
               net_qty' = net_qty + q, y = x - q
        PROVE  RiskIsBounded' /\ Desk!DeskNext
    <2>1. x \in Int
      BY DEF x
    <2>2. RiskIsBounded'
      BY <1>1, <1>2, <1>5, <1>9, <2>1
    <2>3. q \in Desk!Quantities
      BY <1>1, <1>2, <1>3, <1>9, <2>1
    <2>4. Desk!Execute(q)
      BY <1>6, <1>9
    <2> QED
      BY <2>2, <2>3, <2>4 DEF Desk!DeskNext
  <1>10. CASE x = 0 /\ net_qty' = net_qty /\ net_qty + y \in -M .. M
    <2>1. y \in Int
      BY DEF y
    <2>2. RiskIsBounded'
      BY <1>1, <1>2, <1>5, <1>10, <2>1
    <2>3. y \in Desk!Quantities
      BY <1>1, <1>2, <1>3, <1>10, <2>1
    <2>4. Desk!Open(y)
      BY <1>1, <1>6, <1>10, <2>1
    <2> QED
      BY <2>2, <2>3, <2>4 DEF Desk!DeskNext
  <1> QED
    <2>1. CASE \E q \in Int : /\ \/ 0 < q /\ q <= x
                                 \/ x <= q /\ q < 0
                              /\ net_qty' = net_qty + q
                              /\ y = x - q
      <3>1. PICK q \in Int : /\ \/ 0 < q /\ q <= x
                                \/ x <= q /\ q < 0
                             /\ net_qty' = net_qty + q
                             /\ y = x - q
        BY <2>1
      <3> QED
        BY <3>1, <1>9
    <2> QED
      BY <1>8, <1>10, <2>1 DEF DeskMove, x, y

-----------------------------------------------------------------------------
(* LoopInv holds initially, and every step of the loop keeps it *)

\* What LoopInv says outside the handling of events.
LEMMA LoopParts ==
  ASSUME LoopInv
  PROVE  /\ RunnerTypeOK /\ SoundOrder(order) /\ net_qty \in Int
         /\ Exposure(order) \in Int /\ tick \in MarketTick
         /\ tick.receive_ts_ns \in Int /\ RiskIsBounded
         /\ TellsPathTo(journal, order.state)
         /\ phase # "venue" => /\ batch = <<>>
                               /\ Agreement(OmsView, gateway)
  <1>1. /\ RunnerTypeOK /\ SoundOrder(order) /\ RiskIsBounded
        /\ JournalFollowsOms
        /\ phase # "venue" => batch = <<>>
        /\ Agreement(HeardAll(OmsView, batch), gateway)
    BY DEF LoopInv
  <1>2. HeardAll(OmsView, <<>>) = OmsView
    BY DEF HeardAll
  <1>3. net_qty \in Int /\ tick \in MarketTick /\ journal \in Journal
    BY <1>1 DEF RunnerTypeOK, Journal
  <1>4. Exposure(order) \in Int
    BY <1>1 DEF Exposure, SoundOrder, ManagedOrder, side_sign
  <1>5. tick.receive_ts_ns \in Int
    BY <1>3 DEF MarketTick
  <1> QED
    BY <1>1, <1>2, <1>3, <1>4, <1>5 DEF TellsPathTo, JournalFollowsOms

\* The loop starts in agreement, and the desk empty.
LEMMA LoopInit ==
  ASSUME RunnerInit
  PROVE  LoopInv /\ Desk!DeskInit
  <1> USE DEF RunnerInit, OmsInit, GatewayInit
  <1>1. SoundOrder(order) /\ order \in ManagedOrder
    BY IdleOrderSound DEF SoundOrder
  <1>2. /\ order.state = "Idle" /\ order.cum_qty = 0 /\ order.leaves_qty = 0
    BY DEF IdleOrder
  <1>3. /\ gateway \in Gateway /\ ~gateway.pending_new.active
        /\ gateway.next_venue_order_id > 0
        /\ ~gateway.active_order.active /\ ~gateway.active_order.cancel_sent
        /\ ~gateway.resting_order.active
        /\ ~gateway.resting_order.cancel_pending
    BY NothingTypes DEF IdleGateway, Gateway, FirstVenueOrderId
  <1>4. tick \in MarketTick
    BY RunnerAssumption DEF BetweenTicks, MarketTick
  <1>5. RunnerTypeOK
    <2>1. journal \in [state : OrderState, path : BOOLEAN, emitted : Nat,
                       fills : Nat]
      BY DEF EmptyJournal, OrderState
    <2>2. batch \in Seq(VenueEvent) /\ Len(batch) = 0
      OBVIOUS
    <2>3. opened \in [ts : Int, net : Int]
      OBVIOUS
    <2>4. ticks \in 0 .. MaxTicks /\ passive_submit_ts \in Int
      BY RunnerAssumption
    <2> QED
      BY <1>1, <1>3, <1>4, <2>1, <2>2, <2>3, <2>4 DEF RunnerTypeOK
  <1>6. Agreement(HeardAll(OmsView, batch), gateway)
    <2>1. HeardAll(OmsView, batch) = OmsView
      BY DEF HeardAll
    <2>2. OmsView.order = order /\ OmsView.refused = {}
      BY DEF OmsView
    <2>3. Harmless(OmsView.refused)
      BY <2>2 DEF Harmless
    <2>4. Agreement(OmsView, gateway)
      BY <1>1, <1>2, <1>3, <2>2, <2>3, IdleAgreement
    <2> QED
      BY <2>1, <2>4
  <1>7. NothingDue(gateway, tick.receive_ts_ns)
    BY <1>3 DEF NothingDue
  <1>8. PositionFollowsOrder
    <2>1. opened.net = 0
      OBVIOUS
    <2>2. side_sign(order.side) \in Int
      BY DEF side_sign
    <2> QED
      BY <1>2, <2>1, <2>2 DEF PositionFollowsOrder
  <1>9. JournalFollowsOms
    BY <1>2 DEF JournalFollowsOms, EmptyJournal
  <1>10. ~Live
    BY <1>2 DEF Live, LiveStates
  <1>11. ClockIsOrders /\ CancelOnlyWhenAged /\ AgedOrderHandled
    BY <1>2, <1>10 DEF ClockIsOrders, CancelOnlyWhenAged, AgedOrderHandled,
                       may_cancel, Working
  <1>12. RiskIsBounded /\ Desk!DeskInit
    BY <1>10, DecisionAssumption
       DEF RiskIsBounded, Desk!DeskWithinLimit, Desk!Within, Desk!DeskInit
  <1>13. Len(batch) <= 3 /\ overflows = 0 /\ phase = "tick" /\ batch = <<>>
    OBVIOUS
  <1> QED
    BY <1>1, <1>5, <1>6, <1>7, <1>8, <1>9, <1>11, <1>12, <1>13 DEF LoopInv

\* A step that changes neither the order nor the position nor the history of
\* the order keeps what is said of them.
LEMMA SameOrder ==
  ASSUME LoopInv, UNCHANGED <<order, net_qty, opened>>
  PROVE  /\ SoundOrder(order)' /\ PositionFollowsOrder'
         /\ RiskIsBounded' /\ [Desk!DeskNext]_(Desk!deskVars)
  <1>1. SoundOrder(order)' /\ PositionFollowsOrder'
    BY DEF LoopInv, PositionFollowsOrder
  <1>2. DeskMove
    BY DEF DeskMove
  <1> QED
    BY <1>1, <1>2, LoopParts, DeskStep

\* A tick: the gateway runs ahead by the batch it returns.
LEMMA NextTickKeepsInv ==
  ASSUME LoopInv, NEW quote \in Quotes, NEW gap \in TickGaps,
         NextTick(quote, gap)
  PROVE  LoopInv' /\ [Desk!DeskNext]_(Desk!deskVars)
  <1> DEFINE t == [receive_ts_ns |-> tick.receive_ts_ns + gap,
                   bid_price |-> quote.bid_price,
                   ask_price |-> quote.ask_price,
                   bid_qty |-> quote.bid_qty, ask_qty |-> quote.ask_qty]
             p == gateway_on_tick(gateway, t)
  <1>1. /\ phase = "tick" /\ ticks < MaxTicks /\ ticks' = ticks + 1
        /\ tick' = t /\ gateway' = p.gateway /\ batch' = p.batch.events
        /\ overflows' = overflows + p.batch.overflow_count
        /\ journal' = [journal EXCEPT !.emitted = 0, !.fills = 0]
        /\ phase' = "venue"
        /\ UNCHANGED <<order, net_qty, client_order_id, passive_submit_ts,
                       refused, opened>>
    BY DEF NextTick
  <1>2. gap \in Nat /\ tick.receive_ts_ns \in Int
    BY LoopParts, RunnerAssumption
  <1>3. t \in MarketTick /\ t.receive_ts_ns = tick.receive_ts_ns + gap
    <2> DEFINE u == [receive_ts_ns |-> gap, bid_price |-> quote.bid_price,
                     ask_price |-> quote.ask_price,
                     bid_qty |-> quote.bid_qty, ask_qty |-> quote.ask_qty]
    <2>1. u \in MarketTick
      BY RunnerAssumption
    <2>2. /\ quote.bid_price \in Nat \ {0} /\ quote.ask_price \in Nat \ {0}
          /\ quote.bid_qty \in Nat /\ quote.ask_qty \in Nat
          /\ quote.bid_price <= quote.ask_price
      BY <2>1 DEF MarketTick
    <2> QED
      BY <1>2, <2>2 DEF MarketTick
  <1> HIDE DEF t
  <1>4. Agreement(OmsView, gateway)
    BY <1>1, LoopParts
  <1>5. /\ NothingDue(p.gateway, t.receive_ts_ns)
        /\ \E s2 : Batched(OmsView, p.batch, 3, s2) /\ Agreement(s2, p.gateway)
    BY <1>3, <1>4, GatewayTick
  <1> HIDE DEF p
  <1>6. PICK s2 : Batched(OmsView, p.batch, 3, s2) /\ Agreement(s2, p.gateway)
    BY <1>5
  <1>7. /\ batch' \in Seq(VenueEvent) /\ Len(batch') <= 3
        /\ p.batch.overflow_count = 0
        /\ HeardAll(OmsView, batch') = s2
    BY <1>1, <1>6 DEF Batched
  <1>8. OmsView' = OmsView
    BY <1>1 DEF OmsView
  <1>9. Agreement(HeardAll(OmsView, batch), gateway)'
    BY <1>1, <1>6, <1>7, <1>8
  <1>10. NothingDue(gateway, tick.receive_ts_ns)'
    BY <1>1, <1>5
  <1>11. overflows' = 0
    BY <1>1, <1>7 DEF LoopInv
  <1>12. TellsPathTo(journal', order.state)
    BY <1>1, LoopParts, EmittedCount
  <1>13. RunnerTypeOK'
    <2>1. RunnerTypeOK /\ gateway' \in Gateway
      BY <1>1, <1>6 DEF LoopInv, Agreement
    <2>2. ticks' \in 0 .. MaxTicks
      BY <1>1, <2>1, RunnerAssumption DEF RunnerTypeOK
    <2>3. journal' \in Journal
      BY <1>12 DEF TellsPathTo
    <2> QED
      BY <1>1, <1>3, <1>7, <1>11, <2>1, <2>2, <2>3 DEF RunnerTypeOK, Journal
  <1>14. JournalFollowsOms'
    BY <1>1, <1>12 DEF TellsPathTo, JournalFollowsOms
  <1>15. ClockIsOrders' /\ AgedOrderHandled'
    BY <1>1 DEF LoopInv, ClockIsOrders, Live, AgedOrderHandled
  <1>16. CancelOnlyWhenAged'
    <2>1. opened.ts \in Int /\ PassiveCancelAfter \in Nat
      BY RunnerAssumption DEF LoopInv, RunnerTypeOK
    <2> QED
      BY <1>1, <1>2, <1>3, <2>1 DEF LoopInv, CancelOnlyWhenAged
  <1>17. /\ SoundOrder(order)' /\ PositionFollowsOrder'
         /\ RiskIsBounded' /\ [Desk!DeskNext]_(Desk!deskVars)
    BY <1>1, SameOrder
  <1> QED
    BY <1>1, <1>7, <1>9, <1>10, <1>11, <1>13, <1>14, <1>15, <1>16, <1>17
       DEF LoopInv

\* One event: the order manager catches up by the head of the batch.
LEMMA HandleVenueEventKeepsInv ==
  ASSUME LoopInv, HandleVenueEvent
  PROVE  LoopInv' /\ [Desk!DeskNext]_(Desk!deskVars)
  <1> DEFINE e == Head(batch)
             n == order_after(order, e)
  <1>1. /\ phase = "venue" /\ batch # <<>> /\ batch' = Tail(batch)
        /\ order' = n
        /\ net_qty' = position_after(order, e, net_qty)
        /\ IF event_outcome(order, e) = "Applied"
           THEN /\ journal' = journal_of(journal, order, n, e,
                                         fill_out(order, e))
                /\ refused' = refused
           ELSE /\ refused' = refused \cup {<<e.type, event_outcome(order, e)>>}
                /\ journal' = journal
        /\ UNCHANGED <<gateway, phase, ticks, tick, overflows,
                       client_order_id, passive_submit_ts, opened>>
    BY DEF HandleVenueEvent, handle_venue_event
  <1>2. /\ RunnerTypeOK /\ SoundOrder(order) /\ Len(batch) <= 3
        /\ batch \in Seq(VenueEvent) /\ net_qty \in Int
        /\ Agreement(HeardAll(OmsView, batch), gateway)
        /\ NothingDue(gateway, tick.receive_ts_ns) /\ overflows = 0
        /\ PositionFollowsOrder /\ ClockIsOrders /\ CancelOnlyWhenAged
        /\ RiskIsBounded
    BY DEF LoopInv, RunnerTypeOK
  <1>3. /\ e \in VenueEvent
        /\ batch' \in Seq(VenueEvent) /\ Len(batch') <= 2
        /\ HeardAll(Heard(OmsView, e), batch') = HeardAll(OmsView, batch)
    BY <1>1, <1>2, HeardTail
  <1> HIDE DEF e
  <1>4. Len(batch') <= 3
    BY <1>3
  <1>5. OmsView' = Heard(OmsView, e)
    BY <1>1 DEF OmsView, Heard
  <1>6. Agreement(HeardAll(OmsView, batch), gateway)'
    BY <1>1, <1>2, <1>3, <1>5
  <1>7. /\ SoundOrder(n)
        /\ n.side = order.side
        /\ order.state \notin LiveStates => n = order
        /\ n.state = "PendingCancel" => order.state = "PendingCancel"
    BY <1>2, <1>3, EventSound, EventKeepsOrder, EventStates
  <1>8. /\ net_qty' = net_qty + side_sign(order.side) * (n.cum_qty - order.cum_qty)
        /\ net_qty' \in Int /\ Exposure(order) \in Int /\ Exposure(n) \in Int
        /\ \/ net_qty' = net_qty /\ Exposure(n) \in {0, Exposure(order)}
           \/ \E q \in Int : /\ \/ 0 < q /\ q <= Exposure(order)
                                \/ Exposure(order) <= q /\ q < 0
                             /\ net_qty' = net_qty + q
                             /\ Exposure(n) = Exposure(order) - q
    BY <1>1, <1>2, <1>3, EventExposure
  <1> HIDE DEF n
  <1>9. RiskIsBounded' /\ [Desk!DeskNext]_(Desk!deskVars)
    <2>1. DeskMove
      BY <1>1, <1>8 DEF DeskMove
    <2> QED
      BY <1>1, <1>2, <1>8, <2>1, DeskStep
  <1>10. PositionFollowsOrder'
    <2>1. /\ net_qty = opened.net + side_sign(order.side) * order.cum_qty
          /\ opened.net \in Int /\ order.cum_qty \in Int /\ n.cum_qty \in Int
          /\ side_sign(order.side) \in {1, -1}
      BY <1>2, <1>7 DEF PositionFollowsOrder, RunnerTypeOK, SoundOrder,
                        ManagedOrder, side_sign
    <2>2. net_qty' = opened.net + side_sign(order.side) * n.cum_qty
      BY <1>8, <2>1
    <2> QED
      BY <1>1, <1>7, <2>2 DEF PositionFollowsOrder
  <1>11. TellsPathTo(journal', n.state)
    <2>1. n.state \in OrderState /\ TellsPathTo(journal, order.state)
      BY <1>7, LoopParts DEF SoundOrder, ManagedOrder
    <2>2. CASE event_outcome(order, e) = "Applied"
      BY <1>1, <2>1, <2>2, JournalOf
    <2>3. CASE event_outcome(order, e) # "Applied"
      BY <1>1, <2>1, <2>3 DEF n, order_after
    <2> QED
      BY <2>2, <2>3
  <1>12. JournalFollowsOms' /\ journal' \in Journal
    BY <1>1, <1>11 DEF TellsPathTo, JournalFollowsOms
  <1>13. ClockIsOrders'
    BY <1>1, <1>2, <1>7 DEF ClockIsOrders, Live
  <1>14. CancelOnlyWhenAged'
    BY <1>1, <1>2, <1>7 DEF CancelOnlyWhenAged
  <1>15. AgedOrderHandled'
    BY <1>1 DEF AgedOrderHandled
  <1>16. RunnerTypeOK'
    <2>1. order' \in ManagedOrder
      BY <1>1, <1>7 DEF SoundOrder
    <2>2. refused' \subseteq VenueEventType \X VenueEventOutcome
      <3>1. /\ e.type \in VenueEventType
            /\ event_outcome(order, e) \in VenueEventOutcome
        BY <1>3 DEF VenueEvent, event_outcome, VenueEventOutcome
      <3> QED
        BY <1>1, <1>2, <3>1 DEF RunnerTypeOK
    <2> QED
      BY <1>1, <1>2, <1>3, <1>8, <1>12, <2>1, <2>2 DEF RunnerTypeOK, Journal
  <1> QED
    BY <1>1, <1>2, <1>4, <1>6, <1>7, <1>9, <1>10, <1>12, <1>13, <1>14, <1>15,
       <1>16 DEF LoopInv

\* The cancel clock of a live order keeps running.
LEMMA ClockAfterEvents ==
  ASSUME LoopInv, AfterVenueEvents
  PROVE  /\ passive_submit_ts' \in Int
         /\ Live => passive_submit_ts' = passive_submit_ts
         /\ batch = <<>> /\ Agreement(OmsView, gateway)
  <1>1. passive_submit_ts' = cancel_clock(order, passive_submit_ts)
        /\ batch = <<>>
    BY DEF AfterVenueEvents
  <1>2. passive_submit_ts \in Int /\ Agreement(HeardAll(OmsView, batch), gateway)
    BY DEF LoopInv, RunnerTypeOK
  <1>3. HeardAll(OmsView, <<>>) = OmsView
    BY DEF HeardAll
  <1> QED
    BY <1>1, <1>2, <1>3 DEF cancel_clock, Live, LiveStates

\* No cancel: the order is young, or it cannot be canceled.
LEMMA KeepOrderKeepsInv ==
  ASSUME LoopInv, KeepOrder
  PROVE  LoopInv' /\ [Desk!DeskNext]_(Desk!deskVars)
  <1>1. /\ phase = "venue" /\ phase' = "decide" /\ batch = <<>>
        /\ ~(/\ aged(order, tick, passive_submit_ts)
             /\ cancel_request_accepted(gateway, order))
        /\ UNCHANGED <<order, gateway, ticks, tick, batch, overflows, net_qty,
                       client_order_id, journal, refused, opened>>
        /\ AfterVenueEvents
    BY DEF KeepOrder, AfterVenueEvents
  <1>2. /\ passive_submit_ts' \in Int
        /\ Live => passive_submit_ts' = passive_submit_ts
        /\ Agreement(OmsView, gateway)
    BY <1>1, ClockAfterEvents
  <1>3. /\ SoundOrder(order)' /\ PositionFollowsOrder'
        /\ RiskIsBounded' /\ [Desk!DeskNext]_(Desk!deskVars)
    BY <1>1, SameOrder
  <1>4. OmsView' = OmsView
    BY <1>1 DEF OmsView
  <1>5. Agreement(HeardAll(OmsView, batch), gateway)'
    BY <1>1, <1>4 DEF LoopInv
  <1>6. ClockIsOrders'
    BY <1>1, <1>2 DEF LoopInv, ClockIsOrders, Live
  <1>7. AgedOrderHandled'
    <2> SUFFICES ASSUME Style = "Passive", may_cancel(order), opened.ts >= 0,
                        tick.receive_ts_ns - opened.ts >= PassiveCancelAfter
                 PROVE  gateway.active_order.cancel_sent \/ ~busy(gateway)
      BY <1>1 DEF AgedOrderHandled
    <2>1. passive_submit_ts = opened.ts
      BY DEF LoopInv, ClockIsOrders, Live, may_cancel, Working, LiveStates
    <2>2. ~accepts_send_cancel(gateway)
      BY <1>1, <2>1 DEF aged, cancel_request_accepted
    <2>3. ~gateway.pending_new.active
      BY <1>2 DEF Agreement, OmsView, may_cancel, Working
    <2> QED
      BY <2>2, <2>3 DEF accepts_send_cancel, busy
  <1>8. JournalFollowsOms' /\ CancelOnlyWhenAged'
    BY <1>1 DEF LoopInv, JournalFollowsOms, CancelOnlyWhenAged
  <1>9. RunnerTypeOK'
    BY <1>1, <1>2 DEF LoopInv, RunnerTypeOK
  <1>10. /\ NothingDue(gateway, tick.receive_ts_ns)' /\ (overflows = 0)'
         /\ (Len(batch) <= 3)'
    BY <1>1 DEF LoopInv
  <1> QED
    BY <1>1, <1>3, <1>5, <1>6, <1>7, <1>8, <1>9, <1>10 DEF LoopInv

\* A cancel leaves for the gateway, and the order manager waits for it.
LEMMA RequestCancelKeepsInv ==
  ASSUME LoopInv, RequestCancel
  PROVE  LoopInv' /\ [Desk!DeskNext]_(Desk!deskVars)
  <1> DEFINE act == gateway.active_order
             ts == tick.receive_ts_ns
             a1 == [act EXCEPT !.cancel_sent = TRUE]
             a2 == [a1 EXCEPT !.cancel_send_ts_ns = ts + CancelSendLatency]
             h == [gateway EXCEPT !.active_order = a2]
             n == [order EXCEPT !.state = "PendingCancel"]
  <1>1. /\ phase = "venue" /\ phase' = "decide" /\ batch = <<>>
        /\ aged(order, tick, passive_submit_ts)
        /\ cancel_request_accepted(gateway, order)
        /\ gateway' = sent_cancel(gateway, ts)
        /\ order' = cancel_requested(order)
        /\ journal' = emit_transition(journal, order.state, "PendingCancel")
        /\ UNCHANGED <<ticks, tick, batch, overflows, net_qty,
                       client_order_id, refused, opened>>
        /\ AfterVenueEvents
    BY DEF RequestCancel, AfterVenueEvents
  <1>2. /\ may_cancel(order) /\ act.active /\ ~act.cancel_sent
        /\ order.state \in {"Acked", "PartiallyFilled"}
    BY <1>1 DEF cancel_request_accepted, accepts_send_cancel, may_cancel,
                Working
  <1>3. /\ passive_submit_ts' \in Int
        /\ passive_submit_ts' = passive_submit_ts
        /\ Agreement(OmsView, gateway)
    BY <1>1, <1>2, ClockAfterEvents DEF Live, LiveStates
  <1>4. /\ gateway \in Gateway /\ act \in ActiveOrder
        /\ gateway.resting_order.active /\ ~gateway.pending_new.active
        /\ gateway.next_venue_order_id > 0
        /\ Harmless(refused) /\ Style = "Passive"
        /\ act.venue_order_id = order.venue_order_id
        /\ act.leaves_qty = order.leaves_qty
        /\ gateway.resting_order.leaves_qty = order.leaves_qty
        /\ gateway.resting_order.side = order.side
        /\ gateway.resting_order.cancel_pending => ~rejects_cancel(gateway)
    BY <1>2, <1>3, AgreementActive DEF OmsView
  <1>5. ts \in Int /\ ts < ts + CancelSendLatency /\ ts + CancelSendLatency \in Int
    BY LoopParts, GatewayAssumption
  <1>6. gateway' = h /\ order' = n
    BY <1>1, <1>2 DEF sent_cancel, cancel_requested
  <1>7. /\ n \in ManagedOrder /\ n.venue_order_id = order.venue_order_id
        /\ n.side = order.side /\ n.cum_qty = order.cum_qty
        /\ n.leaves_qty = order.leaves_qty /\ n.state = "PendingCancel"
    BY LoopParts, WithState DEF SoundOrder, OrderState
  <1>8. SoundOrder(n)
    <2>1. SoundOrder(cancel_requested(order))
      BY LoopParts, CancelRequestedSound
    <2> HIDE DEF n
    <2> QED
      BY <1>1, <1>6, <2>1
  <1>9. /\ a1 \in ActiveOrder /\ a1.cancel_sent /\ a1.active
        /\ a1.venue_order_id = act.venue_order_id
        /\ a1.leaves_qty = act.leaves_qty
        /\ a1.cancel_reject_once_done = act.cancel_reject_once_done
    BY <1>2, <1>4, WithCancelSent
  <1> HIDE DEF a1, n
  <1>10. /\ a2 \in ActiveOrder /\ a2.cancel_sent /\ a2.active
         /\ a2.venue_order_id = act.venue_order_id
         /\ a2.leaves_qty = act.leaves_qty
         /\ a2.cancel_reject_once_done = act.cancel_reject_once_done
         /\ a2.cancel_send_ts_ns = ts + CancelSendLatency
    BY <1>5, <1>9 DEF ActiveOrder
  <1> HIDE DEF a2
  <1>11. /\ h \in Gateway /\ h.active_order = a2
         /\ h.pending_new = gateway.pending_new
         /\ h.resting_order = gateway.resting_order
         /\ h.next_venue_order_id = gateway.next_venue_order_id
    BY <1>4, <1>10, WithActive
  <1> HIDE DEF h
  <1>12. Agreement(HeardAll(OmsView, batch), gateway)'
    <2>1. OmsView'.order = n /\ OmsView'.refused = refused
      BY <1>1, <1>6 DEF OmsView
    <2>2. HeardAll(OmsView', batch') = OmsView'
      BY <1>1 DEF HeardAll
    <2>3. rejects_cancel(h) <=> rejects_cancel(gateway)
      BY <1>10, <1>11 DEF rejects_cancel
    <2> DEFINE s == OmsView'
    <2> HIDE DEF s
    <2>4. Agreement(s, h)
      BY <1>4, <1>7, <1>8, <1>10, <1>11, <2>1, <2>3, ActiveAgreement DEF s
    <2> QED
      BY <1>6, <2>2, <2>4 DEF s
  <1>13. NothingDue(gateway, tick.receive_ts_ns)'
    BY <1>1, <1>4, <1>5, <1>6, <1>10, <1>11 DEF NothingDue
  <1>14. RiskIsBounded' /\ [Desk!DeskNext]_(Desk!deskVars)
    <2>1. Exposure(n) = Exposure(order)
      BY <1>2, <1>7 DEF Exposure, LiveStates
    <2>2. DeskMove
      BY <1>1, <1>6, <2>1 DEF DeskMove
    <2> QED
      BY <1>6, <2>1, <2>2, LoopParts, DeskStep
  <1>15. TellsPathTo(journal', "PendingCancel")
    <2>1. TellsPathTo(journal, order.state)
      BY LoopParts
    <2> QED
      BY <1>1, <2>1, EmitTransition DEF continues, TellsPathTo, OrderState
  <1>16. JournalFollowsOms' /\ journal' \in Journal
    BY <1>6, <1>7, <1>15 DEF TellsPathTo, JournalFollowsOms
  <1>17. PositionFollowsOrder'
    BY <1>1, <1>6, <1>7 DEF LoopInv, PositionFollowsOrder
  <1>18. ClockIsOrders' /\ CancelOnlyWhenAged'
    <2>1. passive_submit_ts = opened.ts
      BY <1>2, <1>4 DEF LoopInv, ClockIsOrders, Live, LiveStates
    <2> QED
      BY <1>1, <1>3, <1>4, <2>1 DEF ClockIsOrders, CancelOnlyWhenAged, aged
  <1>19. AgedOrderHandled'
    BY <1>6, <1>7 DEF AgedOrderHandled, may_cancel, Working
  <1>20. RunnerTypeOK'
    BY <1>1, <1>3, <1>6, <1>7, <1>11, <1>16 DEF LoopInv, RunnerTypeOK, Journal
  <1>21. (overflows = 0)' /\ (Len(batch) <= 3)'
    BY <1>1 DEF LoopInv
  <1> QED
    BY <1>1, <1>6, <1>8, <1>12, <1>13, <1>14, <1>16, <1>17, <1>18, <1>19,
       <1>20, <1>21 DEF LoopInv

\* The end of an iteration that sends nothing.
LEMMA EndOfTickKeepsInv ==
  ASSUME LoopInv, EndOfTick, NEW j, TellsPathTo(j, order.state), journal' = j,
         client_order_id' \in Nat,
         UNCHANGED <<order, gateway, net_qty, passive_submit_ts, refused, opened>>
  PROVE  LoopInv' /\ [Desk!DeskNext]_(Desk!deskVars)
  <1>1. /\ phase = "decide" /\ phase' = "tick"
        /\ tick' = BetweenTicks(tick.receive_ts_ns)
        /\ UNCHANGED <<ticks, batch, overflows>>
    BY DEF EndOfTick
  <1>2. /\ tick' \in MarketTick
        /\ tick'.receive_ts_ns = tick.receive_ts_ns
    BY <1>1, LoopParts DEF BetweenTicks, MarketTick
  <1>3. /\ SoundOrder(order)' /\ PositionFollowsOrder'
        /\ RiskIsBounded' /\ [Desk!DeskNext]_(Desk!deskVars)
    BY SameOrder
  <1>4. OmsView' = OmsView
    BY DEF OmsView
  <1>5. Agreement(HeardAll(OmsView, batch), gateway)'
    BY <1>1, <1>4 DEF LoopInv
  <1>6. /\ ClockIsOrders' /\ CancelOnlyWhenAged' /\ AgedOrderHandled'
        /\ NothingDue(gateway, tick.receive_ts_ns)'
    BY <1>1, <1>2 DEF LoopInv, ClockIsOrders, Live, CancelOnlyWhenAged,
                      AgedOrderHandled, NothingDue
  <1>7. JournalFollowsOms' /\ journal' \in Journal
    BY DEF TellsPathTo, JournalFollowsOms
  <1>8. RunnerTypeOK'
    BY <1>1, <1>2, <1>7 DEF LoopInv, RunnerTypeOK, Journal
  <1>9. (overflows = 0)' /\ (Len(batch) <= 3)' /\ batch' = <<>>
    BY <1>1 DEF LoopInv
  <1> QED
    BY <1>3, <1>5, <1>6, <1>7, <1>8, <1>9 DEF LoopInv

\* The strategy asks for nothing.
LEMMA NoSignalKeepsInv ==
  ASSUME LoopInv, NoSignal
  PROVE  LoopInv' /\ [Desk!DeskNext]_(Desk!deskVars)
  <1>1. /\ EndOfTick
        /\ UNCHANGED <<order, gateway, net_qty, client_order_id,
                       passive_submit_ts, journal, refused, opened>>
    BY DEF NoSignal
  <1>2. TellsPathTo(journal, order.state) /\ client_order_id' \in Nat
    BY <1>1, LoopParts DEF RunnerTypeOK
  <1> QED
    BY <1>1, <1>2, EndOfTickKeepsInv

\* The risk engine refuses.
LEMMA RiskRejectKeepsInv ==
  ASSUME LoopInv, RiskReject
  PROVE  LoopInv' /\ [Desk!DeskNext]_(Desk!deskVars)
  <1>1. /\ EndOfTick /\ journal' = emit_event(journal)
        /\ UNCHANGED <<order, gateway, net_qty, client_order_id,
                       passive_submit_ts, refused, opened>>
    BY DEF RiskReject, Signal
  <1>2. TellsPathTo(journal, order.state) /\ client_order_id' \in Nat
    BY <1>1, LoopParts DEF RunnerTypeOK
  <1>3. TellsPathTo(journal', order.state)
    <2>1. journal.emitted + 1 \in Nat
      BY <1>2 DEF TellsPathTo, Journal
    <2> QED
      BY <1>1, <1>2, <2>1, EmittedCount DEF emit_event
  <1> QED
    BY <1>1, <1>2, <1>3, EndOfTickKeepsInv

\* What the strategy asks for and the risk check lets through.
LEMMA AcceptedRequest ==
  ASSUME RiskAccept
  PROVE  /\ EndOfTick /\ client_order_id' = client_order_id + 1
         /\ decision.order.side \in Side
         /\ decision.order.quantity = OrderQty
         /\ OrderQty \in Nat /\ OrderQty > 0
         /\ net_qty + side_sign(decision.order.side) * OrderQty
              \in -MaxAbsPosition .. MaxAbsPosition
  <1>1. /\ EndOfTick /\ decision.has_order
        /\ evaluate(net_qty, decision.order) = "None"
        /\ client_order_id' = client_order_id + 1
    BY DEF RiskAccept, Signal
  <1>2. decision.order.side \in Side /\ decision.order.quantity = OrderQty
    BY <1>1 DEF decision, strategy_on_tick, Order, Side
  <1>3. OrderQty \in Nat /\ OrderQty > 0
    BY DecisionAssumption
  <1>4. projected(net_qty, decision.order) \in -MaxAbsPosition .. MaxAbsPosition
    BY <1>1 DEF evaluate
  <1> QED
    BY <1>1, <1>2, <1>3, <1>4 DEF projected

\* The order manager refuses: it holds a live order, and keeps it.
LEMMA LocalRejectKeepsInv ==
  ASSUME LoopInv, LocalReject
  PROVE  LoopInv' /\ [Desk!DeskNext]_(Desk!deskVars)
  <1>1. /\ RiskAccept /\ ~accepts_new(order, decision.order.quantity)
        /\ order' = submitted(order, decision.order.side,
                              decision.order.quantity)
        /\ UNCHANGED <<gateway, net_qty, passive_submit_ts, journal, refused,
                       opened>>
    BY DEF LocalReject
  <1>2. /\ EndOfTick /\ client_order_id' = client_order_id + 1
        /\ decision.order.quantity > 0
    BY <1>1, AcceptedRequest
  <1>3. Recycled(order).state # "Idle"
    BY <1>1, <1>2 DEF accepts_new
  <1>4. Recycled(order) = order
    BY <1>3 DEF Recycled, IdleOrder
  <1>5. order' = order
    BY <1>1, <1>4 DEF submitted
  <1>6. TellsPathTo(journal, order.state) /\ client_order_id' \in Nat
    BY <1>2, LoopParts DEF RunnerTypeOK
  <1> QED
    BY <1>1, <1>2, <1>5, <1>6, EndOfTickKeepsInv

\* A passive request is priced, an aggressive one is not: side and quantity
\* are the strategy's.
LEMMA PricedRequest ==
  ASSUME RiskAccept, tick \in MarketTick
  PROVE  LET r == priced(decision.order, tick) IN
         /\ r.side = decision.order.side
         /\ r.quantity = decision.order.quantity
         /\ r.limit_price \in Int
  <1>1. decision.has_order
    BY DEF RiskAccept, Signal
  <1>2. decision.order \in OrderRequest
    BY <1>1, DecisionAssumption
       DEF decision, strategy_on_tick, Order, OrderRequest, Side
  <1>3. tick.bid_price \in Int /\ tick.ask_price \in Int
    BY DEF MarketTick
  <1> DEFINE d == decision.order
             pr == IF d.side = "Buy" THEN tick.bid_price ELSE tick.ask_price
  <1>4. priced(d, tick) = d \/ priced(d, tick) = [d EXCEPT !.limit_price = pr]
    BY DEF priced
  <1>5. pr \in Int
    BY <1>3
  <1> HIDE DEF d, pr
  <1> QED
    BY <1>2, <1>4, <1>5 DEF OrderRequest, d

\* The gateway is free whenever the order manager is, so it takes every order
\* that the order manager took.
LEMMA SubmitKeepsInv ==
  ASSUME LoopInv, Submit
  PROVE  LoopInv' /\ [Desk!DeskNext]_(Desk!deskVars)
  <1> DEFINE request == priced(decision.order, tick)
             o == submitted(order, request.side, request.quantity)
             ts == tick.receive_ts_ns
             new == [active |-> TRUE, side |-> request.side,
                     quantity |-> request.quantity,
                     limit_price |-> request.limit_price, style |-> Style,
                     ack_ready_ts_ns |-> ts + NewAckLatency,
                     should_reject |-> client_order_id % 3 = 0]
             h == [gateway EXCEPT !.pending_new = new]
  <1>1. /\ RiskAccept /\ accepts_new(order, request.quantity)
        /\ opened' = [ts |-> ts, net |-> net_qty]
        /\ UNCHANGED <<net_qty, refused>>
        /\ accepts_send_new(gateway, request.quantity) =>
             /\ order' = o
             /\ journal' = emit_transition(journal, "Idle", "PendingNewAck")
             /\ gateway' = sent_new(gateway, client_order_id, request, Style, ts)
             /\ passive_submit_ts' = IF Style = "Passive" THEN ts
                                     ELSE passive_submit_ts
    BY DEF Submit
  <1>2. /\ RunnerTypeOK /\ SoundOrder(order) /\ tick \in MarketTick
        /\ ts \in Int /\ net_qty \in Int /\ RiskIsBounded
        /\ Exposure(order) \in Int /\ TellsPathTo(journal, order.state)
    BY LoopParts
  <1>3. /\ EndOfTick /\ client_order_id' = client_order_id + 1
        /\ request.side \in Side /\ request.quantity = OrderQty
        /\ OrderQty \in Nat /\ OrderQty > 0 /\ request.limit_price \in Int
        /\ net_qty + side_sign(request.side) * OrderQty
             \in -MaxAbsPosition .. MaxAbsPosition
    BY <1>1, <1>2, AcceptedRequest, PricedRequest
  <1>4. /\ phase = "decide" /\ phase' = "tick"
        /\ tick' = BetweenTicks(ts)
        /\ UNCHANGED <<ticks, batch, overflows>>
        /\ batch = <<>> /\ Agreement(OmsView, gateway)
    BY <1>3, LoopParts DEF EndOfTick
  <1>5. /\ tick' \in MarketTick /\ tick'.receive_ts_ns = ts
    BY <1>2, <1>4 DEF BetweenTicks, MarketTick
  <1>6. order.state \in {"Idle"} \cup TerminalStates
    BY <1>1 DEF accepts_new, Recycled
  <1>7. /\ gateway \in Gateway /\ gateway.next_venue_order_id > 0
        /\ ~gateway.pending_new.active
        /\ ~gateway.active_order.active /\ ~gateway.active_order.cancel_sent
        /\ ~gateway.resting_order.active
        /\ ~gateway.resting_order.cancel_pending
        /\ Harmless(refused)
    BY <1>4, <1>6 DEF Agreement, OmsView, TerminalStates, Harmless
  <1> HIDE DEF request
  <1>8. accepts_send_new(gateway, request.quantity)
    BY <1>3, <1>7 DEF accepts_send_new, busy
  <1>9. /\ order' = o /\ gateway' = h
        /\ journal' = emit_transition(journal, "Idle", "PendingNewAck")
        /\ passive_submit_ts' = IF Style = "Passive" THEN ts
                                ELSE passive_submit_ts
    BY <1>1, <1>8 DEF sent_new
  <1>10. /\ o.state = "PendingNewAck" /\ o.side = request.side
         /\ o.order_qty = OrderQty /\ o.leaves_qty = OrderQty
         /\ o.cum_qty = 0
    BY <1>1, <1>3 DEF submitted
  <1>11. SoundOrder(o)
    BY <1>2, <1>3, SubmittedSound
  <1> HIDE DEF o
  <1>12. /\ new \in PendingNew /\ new.active /\ new.side = request.side
         /\ new.quantity = OrderQty /\ new.style = Style
         /\ new.ack_ready_ts_ns = ts + NewAckLatency
    <2>1. /\ ts + NewAckLatency \in Int /\ Style \in ExecutionStyle
      BY <1>2, GatewayAssumption, RunnerAssumption
    <2> QED
      BY <1>3, <2>1 DEF PendingNew
  <1> HIDE DEF new
  <1>13. /\ h \in Gateway /\ h.pending_new = new
         /\ h.active_order = gateway.active_order
         /\ h.resting_order = gateway.resting_order
         /\ h.next_venue_order_id = gateway.next_venue_order_id
    BY <1>7, <1>12, WithPending
  <1> HIDE DEF h
  <1>14. Agreement(HeardAll(OmsView, batch), gateway)'
    <2>1. OmsView'.order = o /\ OmsView'.refused = refused
      BY <1>1, <1>9 DEF OmsView
    <2>2. HeardAll(OmsView', batch') = OmsView'
      BY <1>4 DEF HeardAll
    <2> DEFINE s == OmsView'
    <2> HIDE DEF s
    <2>3. s.order = o /\ s.refused = refused
      BY <2>1 DEF s
    <2>4. busy(h)
      BY <1>12, <1>13 DEF busy
    <2>5. Agreement(s, h)
      BY <1>3, <1>7, <1>10, <1>11, <1>12, <1>13, <2>3, <2>4
         DEF Agreement, Harmless
    <2> QED
      BY <1>9, <2>2, <2>5 DEF s
  <1>15. NothingDue(gateway, tick.receive_ts_ns)'
    <2>1. ts < ts + NewAckLatency
      BY <1>2, GatewayAssumption
    <2> QED
      BY <1>5, <1>7, <1>9, <1>12, <1>13, <2>1 DEF NothingDue
  <1>16. RiskIsBounded' /\ [Desk!DeskNext]_(Desk!deskVars)
    <2>1. Exposure(order) = 0
      BY <1>6 DEF Exposure, LiveStates, TerminalStates
    <2>2. Exposure(o) = side_sign(request.side) * OrderQty
      BY <1>10 DEF Exposure, LiveStates
    <2>3. Exposure(o) \in Int
      BY <1>3, <2>2 DEF side_sign
    <2>4. DeskMove
      BY <1>1, <1>3, <1>9, <2>1, <2>2 DEF DeskMove
    <2> QED
      BY <1>2, <1>9, <2>3, <2>4, DeskStep
  <1>17. TellsPathTo(journal', "PendingNewAck")
    <2>1. continues(journal, "Idle")
      BY <1>2, <1>6 DEF continues, TellsPathTo
    <2> QED
      BY <1>2, <1>9, <2>1, EmitTransition DEF OrderState
  <1>18. JournalFollowsOms' /\ journal' \in Journal
    BY <1>9, <1>10, <1>17 DEF TellsPathTo, JournalFollowsOms
  <1>19. PositionFollowsOrder'
    <2>1. opened'.net = net_qty /\ side_sign(o.side) \in Int
      BY <1>1 DEF side_sign
    <2> QED
      BY <1>1, <1>2, <1>9, <1>10, <2>1 DEF PositionFollowsOrder
  <1>20. ClockIsOrders' /\ CancelOnlyWhenAged' /\ AgedOrderHandled'
    <2>1. opened'.ts = ts
      BY <1>1
    <2> QED
      BY <1>9, <1>10, <2>1 DEF ClockIsOrders, CancelOnlyWhenAged,
                               AgedOrderHandled, may_cancel, Working
  <1>21. RunnerTypeOK'
    <2>1. opened' \in [ts : Int, net : Int]
      BY <1>1, <1>2
    <2>2. passive_submit_ts' \in Int /\ client_order_id' \in Nat
      BY <1>2, <1>3, <1>9 DEF RunnerTypeOK
    <2>3. o \in ManagedOrder
      BY <1>11 DEF SoundOrder
    <2> QED
      BY <1>1, <1>2, <1>4, <1>5, <1>9, <1>13, <1>18, <2>1, <2>2, <2>3
         DEF RunnerTypeOK, Journal
  <1>22. (overflows = 0)' /\ (Len(batch) <= 3)' /\ batch' = <<>>
    BY <1>4 DEF LoopInv
  <1> QED
    BY <1>9, <1>11, <1>14, <1>15, <1>16, <1>18, <1>19, <1>20, <1>21, <1>22
       DEF LoopInv

\* Leaving the loop, and nothing at all.
LEMMA ReturnKeepsInv ==
  ASSUME LoopInv, Return \/ UNCHANGED runnerVars
  PROVE  LoopInv' /\ [Desk!DeskNext]_(Desk!deskVars)
  <1>1. /\ UNCHANGED <<order, gateway, ticks, tick, batch, overflows, net_qty,
                       client_order_id, passive_submit_ts, journal, refused,
                       opened>>
        /\ phase' = phase \/ (phase = "tick" /\ phase' = "done")
    BY DEF Return, runnerVars
  <1>2. /\ SoundOrder(order)' /\ PositionFollowsOrder'
        /\ RiskIsBounded' /\ [Desk!DeskNext]_(Desk!deskVars)
    BY <1>1, SameOrder
  <1>3. OmsView' = OmsView
    BY <1>1 DEF OmsView
  <1>4. /\ Agreement(HeardAll(OmsView, batch), gateway)'
        /\ phase' # "venue" => batch' = <<>>
    BY <1>1, <1>3 DEF LoopInv
  <1>5. /\ ClockIsOrders' /\ CancelOnlyWhenAged' /\ AgedOrderHandled'
        /\ NothingDue(gateway, tick.receive_ts_ns)' /\ JournalFollowsOms'
    BY <1>1 DEF LoopInv, ClockIsOrders, Live, CancelOnlyWhenAged,
                AgedOrderHandled, NothingDue, JournalFollowsOms
  <1>6. RunnerTypeOK'
    BY <1>1 DEF LoopInv, RunnerTypeOK
  <1>7. (overflows = 0)' /\ (Len(batch) <= 3)'
    BY <1>1 DEF LoopInv
  <1> QED
    BY <1>2, <1>4, <1>5, <1>6, <1>7 DEF LoopInv

\* Every step keeps the invariant and is a step of the desk.
LEMMA LoopStep ==
  ASSUME LoopInv, [RunnerNext]_runnerVars
  PROVE  LoopInv' /\ [Desk!DeskNext]_(Desk!deskVars)
  <1>1. ASSUME NEW quote \in Quotes, NEW gap \in TickGaps, NextTick(quote, gap)
        PROVE  LoopInv' /\ [Desk!DeskNext]_(Desk!deskVars)
    BY <1>1, NextTickKeepsInv
  <1>2. CASE HandleVenueEvent
    BY <1>2, HandleVenueEventKeepsInv
  <1>3. CASE KeepOrder
    BY <1>3, KeepOrderKeepsInv
  <1>4. CASE RequestCancel
    BY <1>4, RequestCancelKeepsInv
  <1>5. CASE NoSignal
    BY <1>5, NoSignalKeepsInv
  <1>6. CASE RiskReject
    BY <1>6, RiskRejectKeepsInv
  <1>7. CASE LocalReject
    BY <1>7, LocalRejectKeepsInv
  <1>8. CASE Submit
    BY <1>8, SubmitKeepsInv
  <1>9. CASE Return \/ Returned \/ UNCHANGED runnerVars
    BY <1>9, ReturnKeepsInv DEF Returned
  <1> QED
    BY <1>1, <1>2, <1>3, <1>4, <1>5, <1>6, <1>7, <1>8, <1>9 DEF RunnerNext

\* Every step keeps a late CancelAck behind a fill: a tick puts it there, and
\* the order is not replaced while its cancel is on the way.
LEMMA OvertakenStep ==
  ASSUME LoopInv, LateCancelAckOvertaken, [RunnerNext]_runnerVars
  PROVE  LateCancelAckOvertaken'
  <1> DEFINE r == gateway.resting_order
  <1>1. ASSUME NEW quote \in Quotes, NEW gap \in TickGaps, NextTick(quote, gap)
        PROVE  LateCancelAckOvertaken'
    <2>1. /\ phase = "tick" /\ order' = order
          /\ gateway' = gateway_on_tick(gateway, tick').gateway
      BY <1>1 DEF NextTick
    <2>2. tick' \in MarketTick
      BY <1>1, LoopStep DEF LoopInv, RunnerTypeOK, RunnerNext
    <2>3. Overtaken(gateway'.resting_order, tick', order.order_qty)
      BY <2>1, <2>2, LoopParts, TickOvertaken DEF OmsView
    <2> QED
      BY <2>1, <2>3 DEF Overtaken, LateCancelAckOvertaken
  <1>2. ASSUME order'.order_qty = order.order_qty, gateway'.resting_order = r,
               tick'.receive_ts_ns = tick.receive_ts_ns,
               \/ tick' = tick /\ phase = "venue"
               \/ phase' \in {"tick", "done"}
        PROVE  LateCancelAckOvertaken'
    BY <1>2 DEF LateCancelAckOvertaken, cancel_effective
  <1>3. ASSUME gateway'.resting_order = r, ~r.cancel_pending
        PROVE  LateCancelAckOvertaken'
    BY <1>3 DEF LateCancelAckOvertaken, cancel_effective
  <1>4. BetweenTicks(tick.receive_ts_ns).receive_ts_ns = tick.receive_ts_ns
    BY DEF BetweenTicks
  <1>5. CASE HandleVenueEvent
    <2>1. Head(batch) \in VenueEvent /\ SoundOrder(order)
      BY <1>5, HeardTail DEF HandleVenueEvent, LoopInv, RunnerTypeOK
    <2>2. order'.order_qty = order.order_qty
      BY <1>5, <2>1, EventKeepsOrder DEF HandleVenueEvent, handle_venue_event
    <2> QED
      BY <1>2, <1>5, <2>2 DEF HandleVenueEvent
  <1>6. CASE KeepOrder
    BY <1>2, <1>6 DEF KeepOrder, AfterVenueEvents
  <1>7. CASE RequestCancel
    <2>1. order \in ManagedOrder /\ gateway \in Gateway
      BY DEF LoopInv, RunnerTypeOK
    <2>2. order'.order_qty = order.order_qty
      BY <1>7, <2>1 DEF RequestCancel, cancel_requested, ManagedOrder
    <2>3. gateway'.resting_order = r
      BY <1>7, <2>1 DEF RequestCancel, sent_cancel, Gateway
    <2> QED
      BY <1>2, <1>7, <2>2, <2>3 DEF RequestCancel, AfterVenueEvents
  <1>8. CASE NoSignal \/ RiskReject
    BY <1>2, <1>4, <1>8 DEF NoSignal, RiskReject, Signal, EndOfTick
  <1>9. ASSUME phase = "decide", order.state \notin LiveStates
        PROVE  ~r.cancel_pending
    BY <1>9, LoopParts DEF Agreement, OmsView, LiveStates
  <1>10. CASE LocalReject
    <2>1. /\ phase = "decide" /\ phase' = "tick" /\ gateway' = gateway
          /\ tick' = BetweenTicks(tick.receive_ts_ns)
          /\ order' = Recycled(order)
      BY <1>10 DEF LocalReject, RiskAccept, Signal, EndOfTick, submitted
    <2>2. CASE order.state \in LiveStates
      <3>1. order' = order
        BY <2>1, <2>2 DEF Recycled, LiveStates, TerminalStates
      <3> QED
        BY <1>2, <1>4, <2>1, <3>1
    <2>3. CASE order.state \notin LiveStates
      BY <1>3, <1>9, <2>1, <2>3
    <2> QED
      BY <2>2, <2>3
  <1>11. CASE Submit
    <2>1. /\ phase = "decide" /\ order.state \notin LiveStates
      BY <1>11 DEF Submit, RiskAccept, Signal, EndOfTick, accepts_new,
                   Recycled, TerminalStates, LiveStates
    <2>2. gateway'.resting_order = r
      BY <1>11 DEF Submit, sent_new, LoopInv, RunnerTypeOK, Gateway
    <2> QED
      BY <1>3, <1>9, <2>1, <2>2
  <1>12. CASE Return
    BY <1>2, <1>12 DEF Return
  <1>13. CASE Returned \/ UNCHANGED runnerVars
    BY <1>13 DEF Returned, runnerVars, LateCancelAckOvertaken
  <1> QED
    BY <1>1, <1>5, <1>6, <1>7, <1>8, <1>10, <1>11, <1>12, <1>13 DEF RunnerNext

\* What is still to be heard only adds to the refusals.
LEMMA RefusalsStay ==
  ASSUME NEW s, NEW b
  PROVE  s.refused \subseteq HeardAll(s, b).refused
  <1>1. ASSUME NEW q, NEW e PROVE q.refused \subseteq Heard(q, e).refused
    BY DEF Heard
  <1> DEFINE s1 == Heard(s, b[1])
             s2 == Heard(s1, b[2])
             s3 == Heard(s2, b[3])
  <1>2. /\ s.refused \subseteq s1.refused /\ s1.refused \subseteq s2.refused
        /\ s2.refused \subseteq s3.refused
    BY <1>1
  <1>3. HeardAll(s, b) \in {s, s1, s2, s3}
    BY DEF HeardAll
  <1> HIDE DEF s1, s2, s3
  <1> QED
    BY <1>2, <1>3

-----------------------------------------------------------------------------
(* The theorems, for every market, latency, limit and length of the input *)

\* The inductive invariant of run_replay: gateway and order manager agree
\* once the rest of the tick's batch was heard.
THEOREM LoopInvariant == RunnerSpec => []LoopInv
<1>1. RunnerInit => LoopInv
  BY LoopInit
<1>2. LoopInv /\ [RunnerNext]_runnerVars => LoopInv'
  BY LoopStep
<1> QED
  BY <1>1, <1>2, PTL DEF RunnerSpec

\* Every variable of run_replay keeps its type; no quantity of the order or
\* of the gateway is ever negative.
THEOREM RunnerTypeCorrect == RunnerSpec => []RunnerTypeOK
<1>1. LoopInv => RunnerTypeOK
  BY DEF LoopInv
<1> QED
  BY <1>1, LoopInvariant, PTL

\* At every tick boundary the order the gateway works on is the one the order
\* manager holds.
THEOREM GatewayAndOmsAgree == RunnerSpec => []GatewayAgreesWithOms
<1>1. LoopInv => GatewayAgreesWithOms
  <2> SUFFICES ASSUME LoopInv, AtBoundary PROVE GatewayAgreesWithOms
    BY DEF GatewayAgreesWithOms
  <2>1. Agreement(OmsView, gateway)
    BY LoopParts DEF AtBoundary
  <2> QED
    BY <2>1 DEF Agreement, OmsView, GatewayAgreesWithOms, LiveStates
<1> QED
  BY <1>1, LoopInvariant, PTL

\* The order manager refuses no fill, acknowledgment, reject or expiry of this
\* gateway, and of the answers to a cancel only late ones.
THEOREM FillsAreNeverRefused == RunnerSpec => []OnlyCancelAnswersRefused
<1>1. LoopInv => OnlyCancelAnswersRefused
  <2> SUFFICES ASSUME LoopInv PROVE OnlyCancelAnswersRefused
    OBVIOUS
  <2>1. HeardAll(OmsView, batch).refused \subseteq CancelAnswersRefused
    BY DEF LoopInv, Agreement
  <2>2. OmsView.refused \subseteq HeardAll(OmsView, batch).refused
    BY RefusalsStay
  <2>3. OmsView.refused = refused
    BY DEF OmsView
  <2> QED
    BY <2>1, <2>2, <2>3 DEF CancelAnswersRefused, OnlyCancelAnswersRefused
<1> QED
  BY <1>1, LoopInvariant, PTL

\* An order manager that is live without the gateway got there by a cancel
\* acknowledgment that came after a fill.
THEOREM StrandingNeedsTheRace == RunnerSpec => []StrandedOnlyByCancelRace
<1>1. LoopInv => StrandedOnlyByCancelRace
  <2> SUFFICES ASSUME LoopInv, AtBoundary PROVE StrandedOnlyByCancelRace
    BY DEF StrandedOnlyByCancelRace
  <2>1. Agreement(OmsView, gateway)
    BY LoopParts DEF AtBoundary
  <2> QED
    BY <2>1 DEF Agreement, OmsView, StrandedOnlyByCancelRace, Live
<1> QED
  BY <1>1, LoopInvariant, PTL

\* Accounting's position is the one at submission, moved by what the order
\* manager executed.
THEOREM PositionIsTheOrders == RunnerSpec => []PositionFollowsOrder
<1>1. LoopInv => PositionFollowsOrder
  BY DEF LoopInv
<1> QED
  BY <1>1, LoopInvariant, PTL

\* The emitted transitions form one path, and it ends in the order manager's
\* state.
THEOREM JournalIsThePath == RunnerSpec => []JournalFollowsOms
<1>1. LoopInv => JournalFollowsOms
  BY DEF LoopInv
<1> QED
  BY <1>1, LoopInvariant, PTL

\* A tick of the gateway produces at most three events, so its batch of four
\* never overflows.
THEOREM BatchIsLargeEnough == RunnerSpec => []NoBatchOverflow
<1>1. LoopInv => NoBatchOverflow
  BY DEF LoopInv, NoBatchOverflow
<1> QED
  BY <1>1, LoopInvariant, PTL

\* Once on_tick has run no answer of the gateway is overdue, but a CancelAck
\* that a fill overtook on that very tick.
THEOREM AnswersAreOnTime == RunnerSpec => []NoOverdueAnswer
<1>1. RunnerInit => LateCancelAckOvertaken
  BY DEF RunnerInit, GatewayInit, IdleGateway, NoRestingOrder,
         LateCancelAckOvertaken, cancel_effective
<1>2. LoopInv /\ LateCancelAckOvertaken /\ [RunnerNext]_runnerVars
        => LateCancelAckOvertaken'
  BY OvertakenStep
<1>3. LoopInv /\ LateCancelAckOvertaken => NoOverdueAnswer
  BY DEF LoopInv, NothingDue, NoOverdueAnswer
<1> QED
  BY <1>1, <1>2, <1>3, LoopInvariant, PTL DEF RunnerSpec

\* An order that is being canceled is at least passive_cancel_after_ns old.
THEOREM NoEarlyCancel == RunnerSpec => []CancelOnlyWhenAged
<1>1. LoopInv => CancelOnlyWhenAged
  BY DEF LoopInv
<1> QED
  BY <1>1, LoopInvariant, PTL

\* At a tick boundary an aged order's cancel is on its way, unless the order
\* is stranded.
THEOREM AgedOrdersAreCanceled == RunnerSpec => []AgedOrderIsCanceled
<1>1. LoopInv => AgedOrderIsCanceled
  BY DEF LoopInv, AgedOrderHandled, AgedOrderIsCanceled, AtBoundary
<1> QED
  BY <1>1, LoopInvariant, PTL

\* Neither the position nor the position after every pending execution passes
\* RiskEngine's limit.
THEOREM RiskIsAlwaysBounded == RunnerSpec => []RiskIsBounded
<1>1. LoopInv => RiskIsBounded
  BY DEF LoopInv
<1> QED
  BY <1>1, LoopInvariant, PTL

\* run_replay implements the trading desk: each of its steps opens, executes
\* or gives up an exposure, or leaves the desk alone.
THEOREM ReplayIsADesk == RunnerSpec => RefinesTradingDesk
<1>1. RunnerInit => Desk!DeskInit
  BY LoopInit
<1>2. LoopInv /\ [RunnerNext]_runnerVars => [Desk!DeskNext]_(Desk!deskVars)
  BY LoopStep
<1> QED
  BY <1>1, <1>2, LoopInvariant, PTL DEF RunnerSpec, RefinesTradingDesk

\* The abstract desk is safe by itself: with one order at a time, and its
\* complete execution checked against the limit, the position stays within
\* the limit whatever executes.
THEOREM DeskIsSafe == Desk!DeskSpec => []RiskIsBounded
<1> DEFINE p == net_qty
           x == IF Live THEN side_sign(order.side) * order.leaves_qty ELSE 0
           M == MaxAbsPosition
           DeskInv == /\ p \in Int /\ x \in Int
                      /\ -M <= p /\ p <= M /\ -M <= p + x /\ p + x <= M
<1>1. Desk!DeskInit => DeskInv
  BY DecisionAssumption DEF Desk!DeskInit
<1>2. DeskInv /\ [Desk!DeskNext]_(Desk!deskVars) => DeskInv'
  <2> SUFFICES ASSUME DeskInv, [Desk!DeskNext]_(Desk!deskVars) PROVE DeskInv'
    OBVIOUS
  <2>1. \/ UNCHANGED <<p, x>>
        \/ x' = 0 /\ p' = p
        \/ \E q \in -(2 * M) .. 2 * M :
             \/ x = 0 /\ -M <= p + q /\ p + q <= M /\ x' = q /\ p' = p
             \/ /\ (0 < q /\ q <= x) \/ (x <= q /\ q < 0)
                /\ p' = p + q /\ x' = x - q
    BY DEF Desk!DeskNext, Desk!deskVars, Desk!Open, Desk!Execute,
           Desk!GiveUp, Desk!Quantities, Desk!Within
  <2>2. M \in Int
    BY DecisionAssumption
  <2> HIDE DEF p, x, M
  <2> QED
    BY <2>1, <2>2
<1>3. DeskInv => RiskIsBounded
  BY DEF RiskIsBounded, Desk!DeskWithinLimit, Desk!Within
<1> QED
  BY <1>1, <1>2, <1>3, PTL DEF Desk!DeskSpec

\* With aggressive orders the order manager is live at a tick boundary
\* exactly when the gateway works on an order: no order is ever stranded.
THEOREM AggressiveOrdersAgree ==
  ASSUME Style = "Aggressive"
  PROVE  RunnerSpec => []LiveAgreement
<1>1. LoopInv => LiveAgreement
  <2> SUFFICES ASSUME LoopInv, AtBoundary PROVE LiveAgreement
    BY DEF LiveAgreement
  <2>1. Agreement(OmsView, gateway)
    BY LoopParts DEF AtBoundary
  <2> QED
    BY <2>1 DEF Agreement, OmsView, LiveAgreement, Live, busy, LiveStates
<1> QED
  BY <1>1, LoopInvariant, PTL

\* ... and it refuses none of the gateway's events.
THEOREM AggressiveEventsApply ==
  ASSUME Style = "Aggressive"
  PROVE  RunnerSpec => []EveryEventApplied
<1>1. LoopInv => EveryEventApplied
  <2> SUFFICES ASSUME LoopInv PROVE refused = {}
    BY DEF EveryEventApplied
  <2>1. HeardAll(OmsView, batch).refused = {}
    BY DEF LoopInv, Agreement
  <2>2. OmsView.refused \subseteq HeardAll(OmsView, batch).refused
    BY RefusalsStay
  <2> QED
    BY <2>1, <2>2 DEF OmsView
<1> QED
  BY <1>1, LoopInvariant, PTL

-----------------------------------------------------------------------------
(* Tallies *)

\* Everything that is tallied.
Names == ExecutionStats \cup ReplayCounters \cup Collectors

\* The counters of the simulator that the tallies of a tick are about.
AggressiveFills == "aggressive_fill_count"
PassiveFills    == "passive_fill_count"
PartialFills    == "partial_fill_count"
CancelAcks      == "cancel_ack_count"
CancelRequests  == "cancel_request_count"
StaleFills      == "stale_fill_count"
AdverseFills    == "adverse_fill_count"

\* They are counters, and different ones.
LEMMA StatNames ==
  /\ AggressiveFills \in Names /\ PassiveFills \in Names
  /\ PartialFills \in Names /\ CancelAcks \in Names
  /\ CancelRequests \in Names /\ StaleFills \in Names
  /\ AdverseFills \in Names
  /\ AggressiveFills \notin {PassiveFills, PartialFills, CancelAcks,
                             CancelRequests, StaleFills, AdverseFills}
  /\ PassiveFills \notin {PartialFills, CancelAcks, CancelRequests,
                          StaleFills, AdverseFills}
  /\ PartialFills \notin {CancelAcks, CancelRequests, StaleFills,
                          AdverseFills}
  /\ CancelAcks \notin {CancelRequests, StaleFills, AdverseFills}
  /\ CancelRequests \notin {StaleFills, AdverseFills}
  BY DEF Names, ExecutionStats, AggressiveFills, PassiveFills, PartialFills,
         CancelAcks, CancelRequests, StaleFills, AdverseFills

\* How often a sequence of counter names has the name n.
Often(names, n) == Cardinality({i \in DOMAIN names : names[i] = n})

\* The positions of a name are finitely many.
LEMMA OftenNat ==
  ASSUME NEW names \in Seq(Names), NEW n \in Names
  PROVE  /\ IsFiniteSet({i \in DOMAIN names : names[i] = n})
         /\ Often(names, n) \in Nat
  <1> DEFINE S == {i \in DOMAIN names : names[i] = n}
  <1>1. DOMAIN names = 1 .. Len(names) /\ Len(names) \in Nat
    OBVIOUS
  <1>2. IsFiniteSet(1 .. Len(names))
    BY <1>1, FS_Interval
  <1>3. S \in SUBSET (1 .. Len(names))
    BY <1>1
  <1> HIDE DEF S
  <1>4. IsFiniteSet(S)
    BY <1>2, <1>3, FS_Subset
  <1>5. Cardinality(S) \in Nat
    BY <1>4, FS_CardinalityType
  <1> QED
    BY <1>4, <1>5 DEF Often, S

\* Nothing is counted in the empty sequence.
LEMMA OftenNone ==
  ASSUME NEW n \in Names
  PROVE  Often(<<>>, n) = 0
  <1>1. {i \in DOMAIN <<>> : <<>>[i] = n} = {}
    OBVIOUS
  <1> QED
    BY <1>1, FS_EmptySet DEF Often

\* One name counts once.
LEMMA OftenOne ==
  ASSUME NEW x \in Names, NEW n \in Names
  PROVE  Often(<<x>>, n) = IF x = n THEN 1 ELSE 0
  <1>1. CASE x = n
    <2>1. {i \in DOMAIN <<x>> : <<x>>[i] = n} = {1}
      BY <1>1
    <2> QED
      BY <1>1, <2>1, FS_Singleton DEF Often
  <1>2. CASE x # n
    <2>1. {i \in DOMAIN <<x>> : <<x>>[i] = n} = {}
      BY <1>2
    <2> QED
      BY <1>2, <2>1, FS_EmptySet DEF Often
  <1> QED
    BY <1>1, <1>2

\* Counts of a concatenation add up.
LEMMA OftenConcat ==
  ASSUME NEW a \in Seq(Names), NEW b \in Seq(Names), NEW n \in Names
  PROVE  Often(a \o b, n) = Often(a, n) + Often(b, n)
  <1> DEFINE c == a \o b
             S == {i \in DOMAIN a : a[i] = n}
             T == {i \in DOMAIN b : b[i] = n}
             U == {i \in DOMAIN c : c[i] = n}
             V == {i \in U : i > Len(a)}
             f == [i \in T |-> i + Len(a)]
  <1>1. /\ Len(a) \in Nat /\ Len(b) \in Nat
        /\ DOMAIN a = 1 .. Len(a) /\ DOMAIN b = 1 .. Len(b)
        /\ DOMAIN c = 1 .. Len(a) + Len(b)
        /\ \A i \in 1 .. Len(a) : c[i] = a[i]
        /\ \A i \in 1 .. Len(b) : c[i + Len(a)] = b[i]
    OBVIOUS
  <1>2. IsFiniteSet(S) /\ IsFiniteSet(T)
        /\ Cardinality(S) \in Nat /\ Cardinality(T) \in Nat
    BY OftenNat DEF Often
  <1> HIDE DEF c
  <1>3. U = S \cup V /\ S \cap V = {}
    BY <1>1
  <1>4. f \in Bijection(T, V)
    <2>1. f \in [T -> V]
      BY <1>1
    <2>2. \A i, j \in T : f[i] = f[j] => i = j
      BY <1>1
    <2>3. \A v \in V : v - Len(a) \in T /\ f[v - Len(a)] = v
      BY <1>1
    <2> HIDE DEF f, T, V
    <2>4. \A v \in V : \E i \in T : f[i] = v
      BY <2>3
    <2> QED
      BY <2>1, <2>2, <2>4 DEF Bijection, Injection, Surjection, IsInjective
  <1> HIDE DEF S, T, U, V, f
  <1>5. ExistsBijection(T, V)
    BY <1>4 DEF ExistsBijection
  <1>6. IsFiniteSet(V) /\ Cardinality(V) = Cardinality(T)
    BY <1>2, <1>5, FS_Bijection
  <1>7. Cardinality(U) = Cardinality(S) + Cardinality(T)
    <2>1. Cardinality(S \cup V)
            = Cardinality(S) + Cardinality(V) - Cardinality(S \cap V)
      BY <1>2, <1>6, FS_Union
    <2>2. Cardinality(S \cap V) = 0
      BY <1>3, FS_EmptySet
    <2> QED
      BY <1>2, <1>3, <1>6, <2>1, <2>2
  <1> QED
    BY <1>7 DEF Often, S, T, U, c

\* A counter that is counted on a condition.
LEMMA OftenIf ==
  ASSUME NEW x \in Names, NEW n \in Names, NEW p \in BOOLEAN
  PROVE  /\ counted_if(p, x) \in Seq(Names)
         /\ Often(counted_if(p, x), n) = IF p /\ x = n THEN 1 ELSE 0
  <1>1. CASE p
    <2>1. counted_if(p, x) = <<x>>
      BY <1>1 DEF counted_if
    <2>2. <<x>> \in Seq(Names)
      OBVIOUS
    <2>3. Often(<<x>>, n) = IF x = n THEN 1 ELSE 0
      BY OftenOne
    <2> QED
      BY <1>1, <2>1, <2>2, <2>3
  <1>2. CASE ~p
    <2>1. counted_if(p, x) = <<>>
      BY <1>2 DEF counted_if
    <2> QED
      BY <1>2, <2>1, OftenNone
  <1> QED
    BY <1>1, <1>2

-----------------------------------------------------------------------------
(* What one on_tick of the gateway counts *)

\* The fills in a batch of at most three events.
FillAt(b, i) == IF i \in DOMAIN b /\ b[i].type = "Fill" THEN 1 ELSE 0

FillsIn(b) == FillAt(b, 1) + FillAt(b, 2) + FillAt(b, 3)

\* A batch of at most n events.
Room(b, n) ==
  /\ b \in [events : Seq(VenueEvent), overflow_count : Nat]
  /\ Len(b.events) <= n

\* A batch may be weakened to a larger bound.
LEMMA RoomMore ==
  ASSUME NEW b, NEW n \in Nat, NEW m \in Nat, n <= m, Room(b, n)
  PROVE  Room(b, m)
  <1>1. Len(b.events) \in Nat
    BY DEF Room
  <1> QED
    BY <1>1 DEF Room

\* No events, no fills.
LEMMA EmptyRoom ==
  /\ Room(EmptyBatch, 0)
  /\ FillsIn(<<>>) = 0
  /\ FillsIn(EmptyBatch.events) = 0
  <1>1. EmptyBatch.events = <<>>
    BY DEF EmptyBatch
  <1>2. EmptyBatch \in [events : Seq(VenueEvent), overflow_count : Nat]
    BY DEF EmptyBatch
  <1>3. FillAt(<<>>, 1) = 0 /\ FillAt(<<>>, 2) = 0 /\ FillAt(<<>>, 3) = 0
    BY DEF FillAt
  <1> QED
    BY <1>1, <1>2, <1>3 DEF Room, FillsIn

\* A pushed event is one fill more, or none.
LEMMA FillsPush ==
  ASSUME NEW b, NEW n \in 0 .. 2, Room(b, n), NEW e \in VenueEvent
  PROVE  /\ Room(push_event(b, e), n + 1)
         /\ FillsIn(push_event(b, e).events)
              = FillsIn(b.events) + IF e.type = "Fill" THEN 1 ELSE 0
         /\ FillsIn(b.events) \in Nat
  <1> DEFINE q == Append(b.events, e)
             c == push_event(b, e)
             Batch == [events : Seq(VenueEvent), overflow_count : Nat]
  <1>1. /\ b \in Batch /\ b.events \in Seq(VenueEvent)
        /\ Len(b.events) \in Nat /\ Len(b.events) <= n
    BY DEF Room
  <1>2. /\ q \in Seq(VenueEvent) /\ Len(q) = Len(b.events) + 1
        /\ DOMAIN q = 1 .. Len(b.events) + 1
        /\ DOMAIN b.events = 1 .. Len(b.events)
        /\ q[Len(q)] = e
        /\ \A i \in 1 .. Len(b.events) : q[i] = b.events[i]
    BY <1>1
  <1>3. c = [b EXCEPT !.events = q]
    BY <1>1 DEF push_event, BatchCapacity
  <1> HIDE DEF q
  <1>4. c \in Batch /\ c.events = q
    BY <1>1, <1>2, <1>3
  <1> HIDE DEF c
  <1>5. Room(c, n + 1)
    BY <1>1, <1>2, <1>4 DEF Room
  <1> DEFINE k == b.events
             l == Len(k)
             one == IF e.type = "Fill" THEN 1 ELSE 0
  <1>6. l \in {0, 1, 2}
    <2>1. \A i \in Nat : i <= n => i \in {0, 1, 2}
      OBVIOUS
    <2> QED
      BY <1>1, <2>1
  <1>7. /\ \A i \in 1 .. l : FillAt(q, i) = FillAt(k, i)
        /\ FillAt(q, l + 1) = one /\ FillAt(k, l + 1) = 0
        /\ \A i \in {2, 3} : i > l + 1 => FillAt(q, i) = 0 /\ FillAt(k, i) = 0
    BY <1>1, <1>2 DEF FillAt
  <1>8. \A i \in {1, 2, 3} : FillAt(k, i) \in {0, 1}
    BY DEF FillAt
  <1> HIDE DEF k, l, one
  <1>9. FillsIn(q) = FillsIn(k) + one /\ one \in {0, 1}
    <2>1. one \in {0, 1}
      BY DEF one
    <2>2. CASE l = 0
      BY <1>7, <1>8, <2>1, <2>2 DEF FillsIn
    <2>3. CASE l = 1
      BY <1>7, <1>8, <2>1, <2>3 DEF FillsIn
    <2>4. CASE l = 2
      BY <1>7, <1>8, <2>1, <2>4 DEF FillsIn
    <2> QED
      BY <1>6, <2>1, <2>2, <2>3, <2>4
  <1>10. FillsIn(k) \in Nat
    BY <1>8 DEF FillsIn
  <1> QED
    BY <1>4, <1>5, <1>9, <1>10 DEF c, k, one

\* The fills, partial or not, among the counted names.
FillCount(names) ==
  Often(names, AggressiveFills) + Often(names, PassiveFills)

Pend(g) == IF g.resting_order.cancel_pending THEN 1 ELSE 0

Busy(g) == IF busy(g) THEN 1 ELSE 0

\* What on_tick counted so far, progress w, and what it did to gateway g: one
\* fill event for each counted fill, an acknowledgment only of a requested
\* cancel, and only one complete fill or acknowledgment for an order.
Tallied(g, n, w) ==
  /\ w.counted \in Seq(Names)
  /\ Room(w.batch, n)
  /\ FillsIn(w.batch.events) = FillCount(w.counted)
  /\ FillCount(w.counted) \in {0, 1}
  /\ Often(w.counted, CancelAcks) + Pend(w.gateway)
       <= Often(w.counted, CancelRequests) + Pend(g)
  /\ FillCount(w.counted) - Often(w.counted, PartialFills)
       + Often(w.counted, CancelAcks) + Busy(w.gateway) <= Busy(g)

\* The same, of counts that are given.
Counts(names, fills, partials, acks, requests) ==
  /\ names \in Seq(Names)
  /\ FillCount(names) = fills
  /\ Often(names, PartialFills) = partials
  /\ Often(names, CancelAcks) = acks
  /\ Often(names, CancelRequests) = requests

\* Counts add up.
LEMMA CountsConcat ==
  ASSUME NEW a, NEW b,
         NEW f1 \in Nat, NEW p1 \in Nat, NEW k1 \in Nat, NEW r1 \in Nat,
         NEW f2 \in Nat, NEW p2 \in Nat, NEW k2 \in Nat, NEW r2 \in Nat,
         Counts(a, f1, p1, k1, r1), Counts(b, f2, p2, k2, r2)
  PROVE  Counts(a \o b, f1 + f2, p1 + p2, k1 + k2, r1 + r2)
  <1>1. a \in Seq(Names) /\ b \in Seq(Names) /\ a \o b \in Seq(Names)
    BY DEF Counts
  <1>2. \A n \in Names :
               /\ Often(a \o b, n) = Often(a, n) + Often(b, n)
               /\ Often(a, n) \in Nat /\ Often(b, n) \in Nat
    BY <1>1, OftenConcat, OftenNat
  <1>3. /\ FillCount(a \o b) = FillCount(a) + FillCount(b)
        /\ Often(a \o b, PartialFills)
             = Often(a, PartialFills) + Often(b, PartialFills)
        /\ Often(a \o b, CancelAcks)
             = Often(a, CancelAcks) + Often(b, CancelAcks)
        /\ Often(a \o b, CancelRequests)
             = Often(a, CancelRequests) + Often(b, CancelRequests)
    BY <1>2, StatNames DEF FillCount
  <1> QED
    BY <1>1, <1>3 DEF Counts

\* The counts are natural numbers.
LEMMA CountsNat ==
  ASSUME NEW names \in Seq(Names)
  PROVE  /\ FillCount(names) \in Nat
         /\ Often(names, PartialFills) \in Nat
         /\ Often(names, CancelAcks) \in Nat
         /\ Often(names, CancelRequests) \in Nat
         /\ Counts(names, FillCount(names),
                   Often(names, PartialFills),
                   Often(names, CancelAcks),
                   Often(names, CancelRequests))
  <1>1. /\ Often(names, AggressiveFills) \in Nat
        /\ Often(names, PassiveFills) \in Nat
        /\ Often(names, PartialFills) \in Nat
        /\ Often(names, CancelAcks) \in Nat
        /\ Often(names, CancelRequests) \in Nat
    BY OftenNat, StatNames
  <1> QED
    BY <1>1 DEF FillCount, Counts

\* What one conditional name counts.
LEMMA CountsIf ==
  ASSUME NEW p \in BOOLEAN
  PROVE  /\ Counts(counted_if(p, AggressiveFills),
                   IF p THEN 1 ELSE 0, 0, 0, 0)
         /\ Counts(counted_if(p, PartialFills),
                   0, IF p THEN 1 ELSE 0, 0, 0)
         /\ Counts(counted_if(p, CancelRequests),
                   0, 0, 0, IF p THEN 1 ELSE 0)
         /\ Counts(counted_if(p, StaleFills), 0, 0, 0, 0)
         /\ Counts(counted_if(p, AdverseFills), 0, 0, 0, 0)
         /\ Counts(<<PassiveFills>>, 1, 0, 0, 0)
         /\ Counts(<<CancelAcks>>, 0, 0, 1, 0)
         /\ Counts(<<>>, 0, 0, 0, 0)
  <1>1. ASSUME NEW x \in Names, NEW q \in BOOLEAN
        PROVE  /\ counted_if(q, x) \in Seq(Names)
               /\ \A n \in Names :
                    Often(counted_if(q, x), n) = IF q /\ x = n THEN 1 ELSE 0
    BY OftenIf
  <1>3. /\ Counts(counted_if(p, AggressiveFills),
                  IF p THEN 1 ELSE 0, 0, 0, 0)
        /\ Counts(counted_if(p, PartialFills),
                  0, IF p THEN 1 ELSE 0, 0, 0)
    BY <1>1, StatNames DEF Counts, FillCount
  <1>4. Counts(counted_if(p, CancelRequests),
                  0, 0, 0, IF p THEN 1 ELSE 0)
    BY <1>1, StatNames DEF Counts, FillCount
  <1>5. /\ Counts(counted_if(p, StaleFills), 0, 0, 0, 0)
        /\ Counts(counted_if(p, AdverseFills), 0, 0, 0, 0)
    BY <1>1, StatNames DEF Counts, FillCount
  <1>6. Counts(<<PassiveFills>>, 1, 0, 0, 0)
    <2>1. \A n \in Names :
            Often(<<PassiveFills>>, n) = IF PassiveFills = n THEN 1 ELSE 0
      BY StatNames, OftenOne
    <2>2. <<PassiveFills>> \in Seq(Names)
      BY StatNames
    <2> QED
      BY <2>1, <2>2, StatNames DEF Counts, FillCount
  <1>7. Counts(<<CancelAcks>>, 0, 0, 1, 0)
    <2>1. \A n \in Names :
            Often(<<CancelAcks>>, n) = IF CancelAcks = n THEN 1 ELSE 0
      BY StatNames, OftenOne
    <2>2. <<CancelAcks>> \in Seq(Names)
      BY StatNames
    <2> QED
      BY <2>1, <2>2, StatNames DEF Counts, FillCount
  <1>8. Counts(<<>>, 0, 0, 0, 0)
    BY OftenNone, StatNames DEF Counts, FillCount
  <1> QED
    BY <1>3, <1>4, <1>5, <1>6, <1>7, <1>8

\* A passive fill counts once, and once more if it is partial.
LEMMA PassiveCounts ==
  ASSUME NEW r, NEW t, NEW left \in Nat
  PROVE  Counts(passive_counted(r, t, left), 1,
                IF left > 0 THEN 1 ELSE 0, 0, 0)
  <1> DEFINE stale == t.receive_ts_ns - r.submit_ts_ns > StaleAfter
             adverse == detect_adverse_selection(r, t)
             c1 == counted_if(left > 0, PartialFills)
             c2 == counted_if(stale, StaleFills)
             c3 == counted_if(adverse, AdverseFills)
             c4 == <<PassiveFills>>
             k == IF left > 0 THEN 1 ELSE 0
  <1>1. (left > 0) \in BOOLEAN /\ stale \in BOOLEAN /\ adverse \in BOOLEAN
    <2>1. (left > 0) \in BOOLEAN
      OBVIOUS
    <2>2. stale \in BOOLEAN
      OBVIOUS
    <2>3. adverse \in BOOLEAN
      <3> DEFINE mid == (t.bid_price + t.ask_price) \div 2
                 buy == mid + AdverseMove <= r.price
                 sell == mid - AdverseMove >= r.price
      <3>1. buy \in BOOLEAN /\ sell \in BOOLEAN
        OBVIOUS
      <3>2. adverse = IF r.side = "Buy" THEN buy ELSE sell
        BY DEF detect_adverse_selection
      <3> HIDE DEF buy, sell, adverse
      <3> QED
        BY <3>1, <3>2
    <2> QED
      BY <2>1, <2>2, <2>3
  <1>2. passive_counted(r, t, left) = ((c1 \o c2) \o c3) \o c4
    BY DEF passive_counted, PartialFills, StaleFills, AdverseFills,
           PassiveFills
  <1> HIDE DEF stale, adverse
  <1>3. /\ Counts(c1, 0, k, 0, 0) /\ Counts(c2, 0, 0, 0, 0)
        /\ Counts(c3, 0, 0, 0, 0) /\ Counts(c4, 1, 0, 0, 0)
    BY <1>1, CountsIf
  <1>4. k \in Nat
    OBVIOUS
  <1> HIDE DEF c1, c2, c3, c4, k
  <1>5. Counts(c1 \o c2, 0 + 0, k + 0, 0 + 0, 0 + 0)
    BY <1>3, <1>4, CountsConcat
  <1>6. Counts(c1 \o c2, 0, k, 0, 0)
    BY <1>4, <1>5
  <1>7. Counts((c1 \o c2) \o c3, 0 + 0, k + 0, 0 + 0, 0 + 0)
    BY <1>3, <1>4, <1>6, CountsConcat
  <1>8. Counts((c1 \o c2) \o c3, 0, k, 0, 0)
    BY <1>4, <1>7
  <1>9. Counts(((c1 \o c2) \o c3) \o c4, 0 + 1, k + 0, 0 + 0, 0 + 0)
    BY <1>3, <1>4, <1>8, CountsConcat
  <1> QED
    BY <1>2, <1>4, <1>9 DEF k

\* The simulator counts what it reports.
LEMMA ExecCounts ==
  ASSUME NEW r \in RestingOrder, r.active, r.leaves_qty > 0,
         NEW t \in MarketTick
  PROVE  LET x == exec_on_tick(r, t) IN
         /\ x.report.has_fill
              => Counts(x.counted, 1, IF x.report.leaves_qty > 0 THEN 1 ELSE 0,
                        0, 0)
         /\ x.report.cancel_acked => Counts(x.counted, 0, 0, 1, 0)
         /\ ~x.report.has_fill /\ ~x.report.cancel_acked
              => Counts(x.counted, 0, 0, 0, 0)
  <1> DEFINE m == passive_fill_from_market(r, t)
             q == passive_fill_qty(r, t)
             queued == [r EXCEPT !.queue_ahead_qty = @ - queue_consumed(r, t)]
             x == exec_on_tick(r, t)
  <1>1. q \in 0 .. r.leaves_qty /\ r.leaves_qty \in Nat
    BY FillQuantity DEF RestingOrder
  <1>2. CASE q = 0
    <2>1. m = Executed(queued, Quiet(r.leaves_qty), <<>>)
      BY <1>2 DEF passive_fill_from_market
    <2>2. m.resting = queued /\ ~m.report.has_fill
      BY <2>1 DEF Executed, Quiet
    <2> HIDE DEF m, queued
    <2>3. \/ x = Executed(NoRestingOrder,
                          [Quiet(0) EXCEPT !.cancel_acked = TRUE],
                          <<CancelAcks>>)
          \/ x = Executed(queued, Quiet(queued.leaves_qty), <<>>)
      BY <2>2 DEF exec_on_tick, m, CancelAcks
    <2>4. Counts(<<CancelAcks>>, 0, 0, 1, 0) /\ Counts(<<>>, 0, 0, 0, 0)
      BY CountsIf
    <2> HIDE DEF x
    <2>5. CASE x = Executed(NoRestingOrder,
                            [Quiet(0) EXCEPT !.cancel_acked = TRUE],
                            <<CancelAcks>>)
      <3>1. /\ x.counted = <<CancelAcks>> /\ ~x.report.has_fill
            /\ x.report.cancel_acked
        BY <2>5 DEF Executed, Quiet
      <3> QED
        BY <2>4, <3>1 DEF x
    <2>6. CASE x = Executed(queued, Quiet(queued.leaves_qty), <<>>)
      <3>1. /\ x.counted = <<>> /\ ~x.report.has_fill
            /\ ~x.report.cancel_acked
        BY <2>6 DEF Executed, Quiet
      <3> QED
        BY <2>4, <3>1 DEF x
    <2> QED
      BY <2>3, <2>5, <2>6
  <1>3. CASE q # 0
    <2> DEFINE left == r.leaves_qty - q
               fill == [price |-> r.price, quantity |-> q, side |-> r.side]
               rest == IF left = 0 THEN NoRestingOrder
                       ELSE [queued EXCEPT !.leaves_qty = left]
    <2>1. m = Executed(rest, Filling(fill, left), passive_counted(r, t, left))
      BY <1>1, <1>3 DEF passive_fill_from_market
    <2>2. x = m
      BY <2>1 DEF exec_on_tick, Executed, Filling
    <2>3. left \in Nat
      BY <1>1
    <2> HIDE DEF rest, fill, left, m, x
    <2>4. /\ x.counted = passive_counted(r, t, left)
          /\ x.report.has_fill /\ ~x.report.cancel_acked
          /\ x.report.leaves_qty = left
      BY <2>1, <2>2 DEF Executed, Filling
    <2>5. Counts(x.counted, 1, IF left > 0 THEN 1 ELSE 0, 0, 0)
      BY <2>3, <2>4, PassiveCounts
    <2> QED
      BY <2>4, <2>5 DEF x
  <1> QED
    BY <1>2, <1>3

\* work_resting counts what the simulator counts.
LEMMA WorkCounted ==
  ASSUME NEW g, NEW b, NEW c, NEW t, g.active_order.active
  PROVE  work_resting(Progress(g, b, c), t).counted
           = c \o exec_on_tick(g.resting_order, t).counted
  <1> DEFINE p == Progress(g, b, c)
             x == exec_on_tick(g.resting_order, t)
             q == apply_execution_report(p, x)
             w == work_resting(p, t)
  <1>1. p.gateway = g /\ p.batch = b /\ p.counted = c
    BY DEF Progress
  <1> HIDE DEF p
  <1>2. q.counted = c \o x.counted
    <2>1. \E h, b2 : q = Progress(h, b2, p.counted \o x.counted)
      BY DEF apply_execution_report
    <2> HIDE DEF q, x
    <2> QED
      BY <1>1, <2>1 DEF Progress
  <1>3. w = [q EXCEPT !.gateway = close_active_order_if_done(q.gateway)]
    BY <1>1 DEF work_resting
  <1>4. \E h, b2, k : q = Progress(h, b2, k)
    BY DEF apply_execution_report
  <1> HIDE DEF q, x, w
  <1>5. w.counted = q.counted
    BY <1>3, <1>4 DEF Progress
  <1> QED
    BY <1>2, <1>5 DEF w, p, x

\* One step further: the step's own counts d, its fill event, and what it does
\* to the gateway.
LEMMA TalliedStep ==
  ASSUME NEW g0, NEW n, NEW p, Tallied(g0, n, p),
         NEW d, NEW f \in {0, 1}, NEW k \in Nat, NEW a \in Nat, NEW r \in Nat,
         Counts(d, f, k, a, r), f = 0 \/ FillCount(p.counted) = 0,
         NEW m, NEW w, w.counted = p.counted \o d, Room(w.batch, m),
         FillsIn(w.batch.events) = FillsIn(p.batch.events) + f,
         a + Pend(w.gateway) <= r + Pend(p.gateway),
         f - k + a + Busy(w.gateway) <= Busy(p.gateway)
  PROVE  Tallied(g0, m, w)
  <1> DEFINE c == p.counted
             F == FillCount(c)
             K == Often(c, PartialFills)
             A == Often(c, CancelAcks)
             R == Often(c, CancelRequests)
  <1>1. /\ c \in Seq(Names) /\ FillsIn(p.batch.events) = F /\ F \in {0, 1}
        /\ A + Pend(p.gateway) <= R + Pend(g0)
        /\ F - K + A + Busy(p.gateway) <= Busy(g0)
    BY DEF Tallied
  <1>2. F \in Nat /\ K \in Nat /\ A \in Nat /\ R \in Nat
        /\ Counts(c, F, K, A, R)
    BY <1>1, CountsNat
  <1> HIDE DEF F, K, A, R
  <1>3. f \in Nat
    OBVIOUS
  <1>4. Counts(c \o d, F + f, K + k, A + a, R + r)
    BY <1>2, <1>3, CountsConcat
  <1>5. /\ w.counted \in Seq(Names) /\ FillCount(w.counted) = F + f
        /\ Often(w.counted, PartialFills) = K + k
        /\ Often(w.counted, CancelAcks) = A + a
        /\ Often(w.counted, CancelRequests) = R + r
    BY <1>4 DEF Counts
  <1>6. \A g : Pend(g) \in {0, 1} /\ Busy(g) \in {0, 1}
    BY DEF Pend, Busy
  <1> DEFINE P == Pend(p.gateway)
             B == Busy(p.gateway)
             P0 == Pend(g0)
             B0 == Busy(g0)
             P1 == Pend(w.gateway)
             B1 == Busy(w.gateway)
  <1>7. /\ P \in {0, 1} /\ B \in {0, 1} /\ P0 \in {0, 1} /\ B0 \in {0, 1}
        /\ P1 \in {0, 1} /\ B1 \in {0, 1}
    BY <1>6
  <1>8. F + f \in {0, 1}
    BY <1>1, <1>3 DEF F
  <1> HIDE DEF P, B, P0, B0, P1, B1
  <1>9. (A + a) + P1 <= (R + r) + P0
    <2>1. A + P <= R + P0 /\ a + P1 <= r + P
      BY <1>1 DEF P, P0, P1
    <2> QED
      BY <1>2, <1>7, <2>1
  <1>10. (F + f) - (K + k) + (A + a) + B1 <= B0
    <2>1. F - K + A + B <= B0 /\ f - k + a + B1 <= B
      BY <1>1 DEF B, B0, B1
    <2> QED
      BY <1>2, <1>3, <1>7, <2>1
  <1> QED
    BY <1>1, <1>5, <1>8, <1>9, <1>10 DEF Tallied, P0, B0, P1, B1

\* The simulator's answer is tallied.
LEMMA WorkTallied ==
  ASSUME NEW s, NEW g, Agreement(s, g), NEW g0, NEW b, NEW c,
         NEW t \in MarketTick, NEW n \in 0 .. 2,
         Tallied(g0, n, Progress(g, b, c)), FillCount(c) = 0
  PROVE  Tallied(g0, 3, work_resting(Progress(g, b, c), t))
  <1> DEFINE p == Progress(g, b, c)
             w == work_resting(p, t)
             r == g.resting_order
             x == exec_on_tick(r, t)
             act == g.active_order
             id == act.venue_order_id
             o == s.order
  <1>1. p.gateway = g /\ p.batch = b /\ p.counted = c
    BY DEF Progress
  <1>2. n \in Nat /\ n <= 2 /\ n + 1 \in Nat /\ n <= 3 /\ n + 1 <= 3
    OBVIOUS
  <1>3. Room(b, n)
    BY <1>1 DEF Tallied
  <1>4. CASE ~act.active
    <2>1. w = p
      BY <1>1, <1>4 DEF work_resting, Agreement
    <2>2. Room(b, 3)
      BY <1>2, <1>3, RoomMore
    <2> QED
      BY <1>1, <2>1, <2>2 DEF Tallied
  <1>5. CASE act.active
    <2>1. /\ g \in Gateway /\ r \in RestingOrder /\ act \in ActiveOrder
          /\ r.active /\ ~g.pending_new.active /\ id \in Nat
      BY <1>5, GatewayParts DEF Agreement, ActiveOrder
    <2>2. /\ SoundOrder(o) /\ r.leaves_qty = o.leaves_qty
          /\ o.state \in {"Acked", "PartiallyFilled", "PendingCancel"}
      BY <1>5 DEF Agreement
    <2>3. r.leaves_qty > 0 /\ r.leaves_qty \in Nat
      BY <2>2 DEF SoundOrder, ConsistentOrder, ManagedOrder, LiveStates
    <2>4. RestingOutcome(r, x)
      BY <2>1, <2>3, ExecOnTick
    <2>5. /\ x.report.has_fill
              => Counts(x.counted, 1, IF x.report.leaves_qty > 0 THEN 1 ELSE 0,
                        0, 0)
          /\ x.report.cancel_acked => Counts(x.counted, 0, 0, 1, 0)
          /\ ~x.report.has_fill /\ ~x.report.cancel_acked
              => Counts(x.counted, 0, 0, 0, 0)
      BY <2>1, <2>3, ExecCounts
    <2>6. w.counted = c \o x.counted
      BY <1>5, WorkCounted
    <2> HIDE DEF x
    <2>7. ASSUME x.resting \in RestingOrder, x.report.leaves_qty \in Nat
          PROVE  Worked(g, b, x, w)
      BY <1>5, <2>1, <2>7, WorkRestingParts DEF x
    <2> HIDE DEF w, p
    <2>8. /\ Tallied(g0, n, p) /\ FillCount(p.counted) = 0
          /\ w.counted = p.counted \o x.counted
      BY <1>1, <2>6 DEF p
    <2>9. Busy(g) = 1
      BY <1>5 DEF Busy, busy
    <2>10. \A h : Pend(h) \in {0, 1} /\ Busy(h) \in {0, 1}
      BY DEF Pend, Busy
    <2>11. CASE /\ x.report = Quiet(r.leaves_qty)
                /\ StillRests(r, x.resting, r.leaves_qty)
      <3>1. /\ x.resting \in RestingOrder /\ x.resting.active
            /\ x.resting.cancel_pending = r.cancel_pending
            /\ x.report.leaves_qty = r.leaves_qty
            /\ ~x.report.has_fill /\ ~x.report.cancel_acked
        BY <2>11 DEF Quiet, StillRests
      <3>2. w.batch = b /\ w.gateway.resting_order = x.resting
        BY <2>3, <2>7, <3>1 DEF Worked
      <3>3. Pend(w.gateway) = Pend(g)
        BY <3>1, <3>2 DEF Pend
      <3>4. Room(w.batch, 3) /\ Counts(x.counted, 0, 0, 0, 0)
        BY <1>2, <1>3, <2>5, <3>1, <3>2, RoomMore
      <3>5. FillsIn(b.events) + 0 = FillsIn(b.events)
        BY <1>1, <2>8 DEF Tallied
      <3>6. /\ 0 + Pend(w.gateway) <= 0 + Pend(g)
            /\ 0 - 0 + 0 + Busy(w.gateway) <= Busy(g)
        BY <2>9, <2>10, <3>3
      <3>7. Tallied(g0, 3, w)
        BY <1>1, <2>8, <3>2, <3>4, <3>5, <3>6, TalliedStep
      <3> QED
        BY <3>7 DEF w, p
    <2>12. CASE /\ x.report = [Quiet(0) EXCEPT !.cancel_acked = TRUE]
                /\ x.resting = NoRestingOrder
                /\ r.cancel_pending
      <3> DEFINE e == Event("CancelAck", id)
      <3>1. /\ x.resting \in RestingOrder /\ ~x.resting.active
            /\ ~x.resting.cancel_pending
            /\ x.report.leaves_qty = 0
            /\ ~x.report.has_fill /\ x.report.cancel_acked
        BY <2>12, NothingTypes DEF Quiet
      <3>2. /\ w.batch = push_event(b, e)
            /\ w.gateway.active_order = NoActiveOrder
            /\ w.gateway.resting_order = x.resting
            /\ w.gateway.pending_new = g.pending_new
        BY <2>3, <2>7, <3>1 DEF Worked
      <3>3. /\ Pend(w.gateway) = 0 /\ Pend(g) = 1 /\ Busy(w.gateway) = 0
        BY <2>1, <2>12, <3>1, <3>2, NothingTypes DEF Pend, Busy, busy
      <3>4. e \in VenueEvent /\ e.type = "CancelAck"
        BY <2>1, EventTypes DEF VenueEventType
      <3> HIDE DEF e
      <3>5. /\ Room(w.batch, n + 1)
            /\ FillsIn(w.batch.events) = FillsIn(b.events) + 0
        BY <1>3, <3>2, <3>4, FillsPush
      <3>6. Room(w.batch, 3) /\ Counts(x.counted, 0, 0, 1, 0)
        BY <1>2, <2>5, <3>1, <3>5, RoomMore
      <3>7. /\ 1 + Pend(w.gateway) <= 0 + Pend(g)
            /\ 0 - 0 + 1 + Busy(w.gateway) <= Busy(g)
        BY <2>9, <3>3
      <3>8. Tallied(g0, 3, w)
        BY <1>1, <2>8, <3>5, <3>6, <3>7, TalliedStep
      <3> QED
        BY <3>8 DEF w, p
    <2>13. ASSUME NEW q \in 1 .. r.leaves_qty,
                  x.report = Filling([price |-> r.price, quantity |-> q,
                                      side |-> r.side], r.leaves_qty - q),
                  IF q = r.leaves_qty THEN x.resting = NoRestingOrder
                  ELSE StillRests(r, x.resting, r.leaves_qty - q)
           PROVE  Tallied(g0, 3, w)
      <3> DEFINE fill == [price |-> r.price, quantity |-> q, side |-> r.side]
                 left == r.leaves_qty - q
                 e == FillEvent(id, fill)
                 k == IF left > 0 THEN 1 ELSE 0
      <3>1. /\ x.report.has_fill /\ ~x.report.cancel_acked
            /\ x.report.leaves_qty = left /\ x.report.fill = fill
        BY <2>13 DEF Filling
      <3>2. left \in Nat /\ (left = 0 <=> q = r.leaves_qty)
        BY <2>3
      <3>3. e \in VenueEvent /\ e.type = "Fill"
        BY <2>1, FillEventTypes DEF RestingOrder
      <3> HIDE DEF fill
      <3>4. /\ x.resting \in RestingOrder
            /\ left = 0 => ~x.resting.active /\ ~x.resting.cancel_pending
            /\ left # 0 => x.resting.cancel_pending = r.cancel_pending
        BY <2>13, <3>2, NothingTypes DEF StillRests
      <3> HIDE DEF left
      <3>5. /\ w.batch = push_event(b, e)
            /\ w.gateway.resting_order = x.resting
            /\ w.gateway.pending_new = g.pending_new
            /\ left = 0 => w.gateway.active_order = NoActiveOrder
        BY <2>7, <3>1, <3>2, <3>4 DEF Worked
      <3>6. /\ Pend(w.gateway) <= Pend(g)
            /\ left = 0 => Busy(w.gateway) = 0
        BY <2>1, <2>10, <3>4, <3>5, NothingTypes DEF Pend, Busy, busy
      <3> HIDE DEF e
      <3>7. /\ Room(w.batch, n + 1)
            /\ FillsIn(w.batch.events) = FillsIn(b.events) + 1
        BY <1>3, <3>3, <3>5, FillsPush
      <3>8. Room(w.batch, 3) /\ Counts(x.counted, 1, k, 0, 0)
        BY <1>2, <2>5, <3>1, <3>7, RoomMore
      <3>9. k \in Nat /\ (left = 0 \/ k = 1)
        BY <3>2
      <3> HIDE DEF k
      <3>10. /\ 0 + Pend(w.gateway) <= 0 + Pend(g)
             /\ 1 - k + 0 + Busy(w.gateway) <= Busy(g)
        BY <2>9, <2>10, <3>6, <3>9
      <3> QED
        BY <1>1, <2>8, <3>7, <3>8, <3>9, <3>10, TalliedStep
    <2> QED
      BY <2>4, <2>11, <2>12, <2>13 DEF RestingOutcome, w, p
  <1> QED
    BY <1>4, <1>5

\* on_tick starts with nothing counted.
LEMMA StartTallied ==
  ASSUME NEW g
  PROVE  LET p == Progress(g, EmptyBatch, <<>>) IN
         /\ Tallied(g, 0, p) /\ FillCount(p.counted) = 0
         /\ p.gateway = g /\ p.batch = EmptyBatch /\ p.counted = <<>>
  <1> DEFINE p == Progress(g, EmptyBatch, <<>>)
  <1>1. p.gateway = g /\ p.batch = EmptyBatch /\ p.counted = <<>>
    BY DEF Progress
  <1> HIDE DEF p
  <1>2. Counts(<<>>, 0, 0, 0, 0)
    BY CountsIf
  <1>3. Pend(g) \in {0, 1} /\ Busy(g) \in {0, 1}
    BY DEF Pend, Busy
  <1>4. Tallied(g, 0, p)
    BY <1>1, <1>2, <1>3, EmptyRoom DEF Tallied, Counts
  <1> QED
    BY <1>1, <1>2, <1>4 DEF p, Counts

\* An aggressive fill counts once, and once more if it is partial.
LEMMA AggressiveCounts ==
  ASSUME NEW report, report.has_fill \in BOOLEAN, report.leaves_qty \in Nat
  PROVE  Counts(aggressive_counted(report), IF report.has_fill THEN 1 ELSE 0,
                IF report.has_fill /\ report.leaves_qty > 0 THEN 1 ELSE 0,
                0, 0)
  <1> DEFINE p1 == report.has_fill /\ report.leaves_qty > 0
             p2 == report.has_fill
             c1 == counted_if(p1, PartialFills)
             c2 == counted_if(p2, AggressiveFills)
             k == IF p1 THEN 1 ELSE 0
             f == IF p2 THEN 1 ELSE 0
  <1>1. aggressive_counted(report) = c1 \o c2
    BY DEF aggressive_counted, PartialFills, AggressiveFills
  <1>2. p1 \in BOOLEAN /\ p2 \in BOOLEAN
    OBVIOUS
  <1> HIDE DEF p1, p2
  <1>3. Counts(c1, 0, k, 0, 0) /\ Counts(c2, f, 0, 0, 0)
    BY <1>2, CountsIf
  <1>4. k \in Nat /\ f \in Nat
    OBVIOUS
  <1> HIDE DEF c1, c2, k, f
  <1>5. Counts(c1 \o c2, 0 + f, k + 0, 0 + 0, 0 + 0)
    BY <1>3, <1>4, CountsConcat
  <1> QED
    BY <1>1, <1>4, <1>5 DEF k, f, p1, p2

\* ack_pending counts what the simulator counts.
LEMMA AckCounted ==
  ASSUME NEW g \in Gateway, NEW t
  PROVE  ack_pending(g, t).counted
           = <<>> \o submit_order(g.resting_order, t, RequestOf(g.pending_new),
                                  g.pending_new.style).counted
  <1> DEFINE req == g.pending_new
             id == g.next_venue_order_id
             act == [NoActiveOrder EXCEPT !.active = TRUE,
                       !.venue_order_id = id, !.leaves_qty = req.quantity]
             g1 == [g EXCEPT !.next_venue_order_id = id + 1,
                             !.active_order = act]
             b1 == push_event(EmptyBatch, Event("NewAck", id))
             p0 == Progress(g1, b1, <<>>)
             x == submit_order(g1.resting_order, t, RequestOf(req), req.style)
             p == apply_execution_report(p0, x)
             w == ack_pending(g, t)
  <1>1. g1.resting_order = g.resting_order
    <2> HIDE DEF act
    <2> QED
      BY DEF Gateway
  <1>2. p0.counted = <<>>
    BY DEF Progress
  <1>3. \E h, b2 : w = Progress(h, b2, p.counted)
    BY DEF ack_pending, RequestOf
  <1> HIDE DEF w, x, p0
  <1>4. \E h, b2 : p = Progress(h, b2, p0.counted \o x.counted)
    BY DEF apply_execution_report
  <1> HIDE DEF p
  <1>5. w.counted = p.counted
    <2> DEFINE c == p.counted
    <2> HIDE DEF c
    <2>1. \E h, b2 : w = Progress(h, b2, c)
      BY <1>3 DEF c
    <2>2. w.counted = c
      BY <2>1 DEF Progress
    <2> QED
      BY <2>2 DEF c
  <1>6. p.counted = p0.counted \o x.counted
    <2> DEFINE c == p0.counted \o x.counted
    <2> HIDE DEF c
    <2>1. \E h, b2 : p = Progress(h, b2, c)
      BY <1>4 DEF c
    <2>2. p.counted = c
      BY <2>1 DEF Progress
    <2> QED
      BY <2>2 DEF c
  <1> QED
    BY <1>1, <1>2, <1>5, <1>6 DEF w, x

\* An acknowledgment is tallied; a passive order comes without a fill.
LEMMA AckTallied ==
  ASSUME NEW s, NEW g, Agreement(s, g), g.pending_new.active,
         NEW t \in MarketTick
  PROVE  LET w == ack_pending(g, t) IN
         /\ Tallied(g, IF w.gateway.active_order.active THEN 1 ELSE 3, w)
         /\ w.gateway.active_order.active => FillCount(w.counted) = 0
  <1> DEFINE w == ack_pending(g, t)
             new == g.pending_new
             req == RequestOf(new)
             id == g.next_venue_order_id
             x == submit_order(g.resting_order, t, req, new.style)
             ack == Event("NewAck", id)
             b1 == push_event(EmptyBatch, ack)
             p == Progress(g, EmptyBatch, <<>>)
  <1>1. /\ g \in Gateway /\ new \in PendingNew /\ id \in Nat
        /\ g.resting_order \in RestingOrder /\ ~g.resting_order.active
        /\ ~g.resting_order.cancel_pending
        /\ SoundOrder(s.order) /\ s.order.state = "PendingNewAck"
        /\ new.quantity = s.order.order_qty /\ new.style = Style
    BY GatewayParts DEF Agreement
  <1>2. new.quantity \in Nat /\ new.quantity > 0 /\ new.side \in Side
        /\ req.side = new.side /\ req.quantity = new.quantity
        /\ new.limit_price \in Int /\ req.limit_price = new.limit_price
    <2>1. s.order.order_qty > 0
      BY <1>1 DEF SoundOrder, ConsistentOrder, ManagedOrder, LiveStates
    <2> QED
      BY <1>1, <2>1 DEF PendingNew, RequestOf
  <1>3. Pend(g) = 0 /\ Busy(g) = 1
    BY <1>1 DEF Pend, Busy, busy
  <1>4. /\ Tallied(g, 0, p) /\ FillCount(p.counted) = 0
        /\ p.gateway = g /\ p.batch = EmptyBatch /\ p.counted = <<>>
    BY StartTallied
  <1>5. Room(b1, 1) /\ FillsIn(b1.events) = 0
    <2>1. ack \in VenueEvent /\ ack.type = "NewAck"
      BY <1>1, EventTypes DEF VenueEventType
    <2> HIDE DEF ack
    <2>2. /\ Room(b1, 0 + 1)
          /\ FillsIn(b1.events) = FillsIn(EmptyBatch.events) + 0
      BY <2>1, EmptyRoom, FillsPush
    <2> QED
      BY <2>2, EmptyRoom
  <1>6. w.counted = p.counted \o x.counted
    BY <1>1, <1>4, AckCounted
  <1> HIDE DEF x, w, req, ack, b1, p
  <1>7. ASSUME x.resting \in RestingOrder, x.report.leaves_qty \in Nat,
               x.report.cancel_acked = FALSE
        PROVE  Acknowledged(g, x, w)
    BY <1>1, <1>7, AckPendingParts DEF x, w, req
  <1>8. CASE Style = "Passive"
    <2> DEFINE r == rested(t, req)
    <2>1. x = Executed(r, Quiet(new.quantity), <<>>)
      BY <1>1, <1>2, <1>8 DEF x, submit_order
    <2>2. r \in RestingOrder /\ r.active /\ ~r.cancel_pending
      BY <1>2 DEF rested, RestingOrder, MarketTick
    <2> HIDE DEF r
    <2>3. /\ x.resting = r /\ ~x.report.has_fill
          /\ x.report.leaves_qty = new.quantity
          /\ x.report.cancel_acked = FALSE /\ x.counted = <<>>
      BY <2>1 DEF Executed, Quiet
    <2>4. Acknowledged(g, x, w)
      BY <1>2, <1>7, <2>2, <2>3
    <2>5. /\ w.batch = b1 /\ w.gateway.active_order.active
          /\ w.gateway.resting_order = r
      BY <1>1, <1>8, <2>2, <2>3, <2>4 DEF Acknowledged, NewlyActive, b1, ack
    <2>6. Pend(w.gateway) = 0 /\ Busy(w.gateway) = 1
      BY <2>2, <2>5 DEF Pend, Busy, busy
    <2>7. Counts(x.counted, 0, 0, 0, 0)
      BY <2>3, CountsIf
    <2>8. /\ FillsIn(w.batch.events) = FillsIn(p.batch.events) + 0
          /\ 0 + Pend(w.gateway) <= 0 + Pend(p.gateway)
          /\ 0 - 0 + 0 + Busy(w.gateway) <= Busy(p.gateway)
      BY <1>3, <1>4, <1>5, <2>5, <2>6, EmptyRoom
    <2>9. Tallied(g, 1, w)
      BY <1>4, <1>5, <1>6, <2>5, <2>7, <2>8, TalliedStep
    <2>10. FillCount(w.counted) = 0
      <3>1. w.counted = <<>>
        BY <1>4, <1>6, <2>3
      <3> QED
        BY <1>4, <3>1
    <2> QED
      BY <2>5, <2>9, <2>10 DEF w
  <1>9. CASE Style = "Aggressive"
    <2> DEFINE f == IF x.report.has_fill THEN 1 ELSE 0
               k == IF x.report.has_fill /\ x.report.leaves_qty > 0
                    THEN 1 ELSE 0
               b2 == IF x.report.has_fill
                     THEN push_event(b1, FillEvent(id, x.report.fill)) ELSE b1
               left == x.report.leaves_qty
    <2>1. x = Executed(g.resting_order, aggressive_fill(t, req),
                       aggressive_counted(aggressive_fill(t, req)))
      BY <1>1, <1>2, <1>9 DEF x, submit_order
    <2>2. /\ x.resting = g.resting_order /\ x.report = aggressive_fill(t, req)
          /\ x.counted = aggressive_counted(x.report)
      BY <2>1 DEF Executed
    <2>3. /\ x.report.has_fill \in BOOLEAN /\ left \in Nat
          /\ x.report.cancel_acked = FALSE
          /\ x.report.has_fill => /\ x.report.fill.quantity \in Int
                                  /\ x.report.fill.price \in Int
      <3>1. \/ x.report = Quiet(req.quantity)
            \/ \E q \in 1 .. req.quantity, price \in Int :
                 x.report = Filling([price |-> price, quantity |-> q,
                                     side |-> req.side], req.quantity - q)
        <4> DEFINE a == aggressive_fill(t, req)
        <4>1. req.side \in Side /\ req.quantity \in Nat /\ req.quantity > 0
          BY <1>2
        <4>2. \/ a = Quiet(req.quantity)
              \/ \E q \in 1 .. req.quantity, price \in Int :
                   a = Filling([price |-> price, quantity |-> q,
                                side |-> req.side], req.quantity - q)
          BY <4>1, AggressiveFill
        <4> HIDE DEF a
        <4>3. x.report = a
          BY <2>2 DEF a
        <4> QED
          BY <4>2, <4>3
      <3>2. CASE x.report = Quiet(req.quantity)
        BY <1>2, <3>2 DEF Quiet
      <3>3. ASSUME NEW q \in 1 .. req.quantity, NEW price \in Int,
                   x.report = Filling([price |-> price, quantity |-> q,
                                       side |-> req.side], req.quantity - q)
            PROVE  /\ x.report.has_fill = TRUE
                   /\ x.report.leaves_qty \in Nat
                   /\ x.report.cancel_acked = FALSE
                   /\ x.report.fill.quantity \in Int
                   /\ x.report.fill.price \in Int
        BY <1>2, <3>3 DEF Filling
      <3> QED
        BY <3>1, <3>2, <3>3
    <2>4. Counts(x.counted, f, k, 0, 0)
      BY <2>2, <2>3, AggressiveCounts
    <2>5. Acknowledged(g, x, w)
      BY <1>1, <1>7, <2>2, <2>3
    <2>6. /\ w.batch = IF left > 0 THEN push_event(b2, Event("Expired", id))
                       ELSE b2
          /\ w.gateway.active_order = NoActiveOrder
          /\ w.gateway.resting_order = g.resting_order
          /\ w.gateway.pending_new = NoPendingNew
      BY <1>1, <1>9, <2>2, <2>3, <2>5 DEF Acknowledged, b1, ack
    <2>7. /\ Pend(w.gateway) = 0 /\ Busy(w.gateway) = 0
          /\ ~w.gateway.active_order.active
      BY <1>1, <2>6, NothingTypes DEF Pend, Busy, busy
    <2>8. Room(b2, 2) /\ FillsIn(b2.events) = f
      <3>1. CASE x.report.has_fill
        <4> DEFINE e == FillEvent(id, x.report.fill)
        <4>1. e \in VenueEvent /\ e.type = "Fill"
          BY <1>1, <2>3, <3>1, FillEventTypes
        <4> HIDE DEF e
        <4>2. /\ Room(push_event(b1, e), 1 + 1)
              /\ FillsIn(push_event(b1, e).events) = FillsIn(b1.events) + 1
          BY <1>5, <4>1, FillsPush
        <4> QED
          BY <1>5, <3>1, <4>2 DEF e
      <3>2. CASE ~x.report.has_fill
        BY <1>5, <3>2, RoomMore
      <3> QED
        BY <3>1, <3>2
    <2>9. f \in {0, 1} /\ k \in Nat
      OBVIOUS
    <2> HIDE DEF b2, f, k
    <2>10. Room(w.batch, 3) /\ FillsIn(w.batch.events) = f
      <3> DEFINE e == Event("Expired", id)
      <3>1. e \in VenueEvent /\ e.type = "Expired"
        BY <1>1, EventTypes DEF VenueEventType
      <3> HIDE DEF e
      <3>2. /\ Room(push_event(b2, e), 2 + 1)
            /\ FillsIn(push_event(b2, e).events) = FillsIn(b2.events) + 0
        BY <2>8, <3>1, FillsPush
      <3>3. Room(b2, 3)
        BY <2>8, RoomMore
      <3> QED
        BY <2>6, <2>8, <2>9, <3>2, <3>3 DEF e
    <2>11. /\ FillsIn(w.batch.events) = FillsIn(p.batch.events) + f
           /\ 0 + Pend(w.gateway) <= 0 + Pend(p.gateway)
           /\ f - k + 0 + Busy(w.gateway) <= Busy(p.gateway)
      BY <1>3, <1>4, <2>7, <2>9, <2>10, EmptyRoom
    <2>12. Tallied(g, 3, w)
      <3> DEFINE d == x.counted
                 none == 0
                 three == 3
      <3>1. /\ Tallied(g, none, p) /\ FillCount(p.counted) = 0
            /\ w.counted = p.counted \o d /\ Counts(d, f, k, none, none)
            /\ Room(w.batch, three) /\ none \in Nat
        BY <1>4, <1>6, <2>4, <2>10
      <3>2. /\ none + Pend(w.gateway) <= none + Pend(p.gateway)
            /\ f - k + none + Busy(w.gateway) <= Busy(p.gateway)
        BY <2>11
      <3> HIDE DEF d, none, three
      <3>3. Tallied(g, three, w)
        BY <2>9, <2>11, <3>1, <3>2, TalliedStep
      <3> QED
        BY <3>3 DEF three
    <2> QED
      BY <2>7, <2>12 DEF w
  <1> QED
    BY <1>8, <1>9, RunnerAssumption DEF ExecutionStyle

\* A rejected new order is over, without a fill or an acknowledgment.
LEMMA RejectPendingTallied ==
  ASSUME NEW s, NEW g, Agreement(s, g), g.pending_new.active
  PROVE  Tallied(g, 3, reject_pending(g))
  <1> DEFINE p == Progress(g, EmptyBatch, <<>>)
             w == reject_pending(g)
             e == Event("NewReject", 0)
             h == [g EXCEPT !.pending_new = NoPendingNew]
             b == push_event(EmptyBatch, e)
  <1>1. g \in Gateway /\ ~g.active_order.active
    BY DEF Agreement
  <1>2. w = Progress(h, b, <<>>)
    BY DEF reject_pending
  <1>3. /\ h.pending_new = NoPendingNew /\ h.active_order = g.active_order
        /\ h.resting_order = g.resting_order
    BY <1>1, NothingTypes, WithPending
  <1>4. e \in VenueEvent /\ e.type = "NewReject"
    BY EventTypes DEF VenueEventType
  <1> HIDE DEF e
  <1>5. /\ Room(b, 0 + 1) /\ FillsIn(b.events) = FillsIn(EmptyBatch.events) + 0
    BY <1>4, EmptyRoom, FillsPush
  <1>6. Room(b, 3) /\ FillsIn(b.events) = 0
    BY <1>5, EmptyRoom, RoomMore
  <1> HIDE DEF h, b, w, p
  <1>7. w.gateway = h /\ w.batch = b /\ w.counted = <<>>
    BY <1>2 DEF Progress
  <1>8. /\ Pend(h) = Pend(g) /\ Busy(h) = 0 /\ Busy(g) = 1
        /\ Pend(g) \in {0, 1}
    BY <1>1, <1>3, NothingTypes DEF Pend, Busy, busy
  <1>9. Counts(<<>>, 0, 0, 0, 0)
    BY CountsIf
  <1>10. Tallied(g, 3, w)
    BY <1>6, <1>7, <1>8, <1>9 DEF Tallied, Counts
  <1> QED
    BY <1>10 DEF w

\* A rejected cancel leaves the order as it was.
LEMMA RejectCancelTallied ==
  ASSUME NEW s, NEW g, Agreement(s, g), g.active_order.active
  PROVE  Tallied(g, 3, reject_cancel(Progress(g, EmptyBatch, <<>>)))
  <1> DEFINE p == Progress(g, EmptyBatch, <<>>)
             w == reject_cancel(p)
             act == g.active_order
             e == Event("CancelReject", act.venue_order_id)
             a1 == [act EXCEPT !.cancel_sent = FALSE]
             a2 == [a1 EXCEPT !.cancel_reject_once_done = TRUE]
             h == [g EXCEPT !.active_order = a2]
             b == push_event(EmptyBatch, e)
  <1>1. g \in Gateway /\ act \in ActiveOrder
    BY GatewayParts DEF Agreement
  <1>2. w = Progress(h, b, <<>>)
    BY DEF reject_cancel, Progress
  <1>3. a1 \in ActiveOrder /\ a1.active = act.active
    BY <1>1, WithCancelSent
  <1> HIDE DEF a1
  <1>4. a2 \in ActiveOrder /\ a2.active = act.active
    BY <1>3, WithRejectDone
  <1> HIDE DEF a2
  <1>5. /\ h.pending_new = g.pending_new /\ h.active_order = a2
        /\ h.resting_order = g.resting_order
    BY <1>1, <1>4, WithActive
  <1>6. e \in VenueEvent /\ e.type = "CancelReject"
    BY <1>1, EventTypes DEF VenueEventType, ActiveOrder
  <1> HIDE DEF e
  <1>7. /\ Room(b, 0 + 1) /\ FillsIn(b.events) = FillsIn(EmptyBatch.events) + 0
    BY <1>6, EmptyRoom, FillsPush
  <1>8. Room(b, 3) /\ FillsIn(b.events) = 0
    BY <1>7, EmptyRoom, RoomMore
  <1> HIDE DEF h, b, w, p
  <1>9. w.gateway = h /\ w.batch = b /\ w.counted = <<>>
    BY <1>2 DEF Progress
  <1>10. /\ Pend(h) = Pend(g) /\ Busy(h) = Busy(g)
         /\ Pend(g) \in {0, 1} /\ Busy(g) \in {0, 1}
    BY <1>4, <1>5 DEF Pend, Busy, busy
  <1>11. Counts(<<>>, 0, 0, 0, 0)
    BY CountsIf
  <1>12. Tallied(g, 3, w)
    BY <1>8, <1>9, <1>10, <1>11 DEF Tallied, Counts
  <1> QED
    BY <1>12 DEF w, p

\* A forwarded cancel is requested once.
LEMMA ForwardTallied ==
  ASSUME NEW s, NEW g, Agreement(s, g), NEW t \in MarketTick,
         g.active_order.active
  PROVE  LET f == forward_cancel(Progress(g, EmptyBatch, <<>>), t) IN
         Tallied(g, 0, f) /\ FillCount(f.counted) = 0
  <1> DEFINE p == Progress(g, EmptyBatch, <<>>)
             f == forward_cancel(p, t)
             act == g.active_order
             r == g.resting_order
             a1 == [act EXCEPT !.cancel_sent = FALSE]
             r1 == exec_request_cancel(r, t.receive_ts_ns)
             g1 == [g EXCEPT !.active_order = a1]
             h == [g1 EXCEPT !.resting_order = r1]
             take == takes_cancel(r)
             d == counted_if(take, CancelRequests)
             one == IF take THEN 1 ELSE 0
  <1>1. g \in Gateway /\ act \in ActiveOrder /\ r \in RestingOrder
    BY GatewayParts DEF Agreement
  <1>2. a1 \in ActiveOrder /\ a1.active = act.active
    BY <1>1, WithCancelSent
  <1>3. /\ r1.cancel_pending \in BOOLEAN
        /\ (IF r1.cancel_pending THEN 1 ELSE 0)
             = (IF r.cancel_pending THEN 1 ELSE 0) + one
        /\ take \in BOOLEAN
        /\ r1 \in RestingOrder
    <2> DEFINE r0 == [r EXCEPT !.cancel_pending = TRUE]
               r2 == [r0 EXCEPT !.cancel_effective_ts_ns = t.receive_ts_ns + CancelLatency]
    <2>1. r0 \in RestingOrder /\ r0.cancel_pending
      BY <1>1 DEF RestingOrder
    <2>2. t.receive_ts_ns + CancelLatency \in Int
      BY SimulatorAssumption DEF MarketTick
    <2>3. /\ take => r1 = r2 /\ ~r.cancel_pending
          /\ ~take => r1 = r
          /\ take \in BOOLEAN
      BY <1>1 DEF exec_request_cancel, takes_cancel
    <2> HIDE DEF r0
    <2>4. r2 \in RestingOrder /\ r2.cancel_pending
      BY <2>1, <2>2 DEF RestingOrder
    <2> HIDE DEF r1, r2, take
    <2>5. r.cancel_pending \in BOOLEAN
      BY <1>1 DEF RestingOrder
    <2>6. CASE take
      BY <2>3, <2>4, <2>6 DEF RestingOrder
    <2>7. CASE ~take
      BY <1>1, <2>3, <2>5, <2>7
    <2> QED
      BY <2>3, <2>6, <2>7
  <1>4. f = Progress(h, EmptyBatch, <<>> \o d)
    BY DEF forward_cancel, Progress, CancelRequests
  <1> HIDE DEF a1, r1, take
  <1>5. /\ g1 \in Gateway /\ g1.active_order = a1
        /\ g1.pending_new = g.pending_new
    BY <1>1, <1>2, WithActive
  <1> HIDE DEF g1
  <1>6. /\ h.active_order = a1 /\ h.resting_order = r1
        /\ h.pending_new = g.pending_new
    BY <1>3, <1>5, WithResting
  <1> HIDE DEF h, f, d
  <1>7. f.gateway = h /\ f.batch = EmptyBatch /\ f.counted = <<>> \o d
    BY <1>4 DEF Progress
  <1>8. /\ Pend(h) = Pend(g) + one /\ Busy(h) = Busy(g)
        /\ Pend(g) \in {0, 1} /\ Busy(g) \in {0, 1} /\ one \in {0, 1}
    BY <1>2, <1>3, <1>6 DEF Pend, Busy, busy
  <1>9. Counts(d, 0, 0, 0, one) /\ Counts(<<>>, 0, 0, 0, 0)
    BY <1>3, CountsIf DEF d
  <1> HIDE DEF one
  <1>10. one \in Nat
    BY <1>8
  <1>11. Counts(<<>> \o d, 0 + 0, 0 + 0, 0 + 0, 0 + one)
    BY <1>9, <1>10, CountsConcat
  <1>12. Counts(f.counted, 0, 0, 0, one)
    BY <1>7, <1>10, <1>11
  <1>13. Tallied(g, 0, f) /\ FillCount(f.counted) = 0
    BY <1>7, <1>8, <1>12, EmptyRoom DEF Tallied, Counts
  <1> QED
    BY <1>13 DEF f, p

\* What one on_tick counts.
LEMMA GatewayTallied ==
  ASSUME NEW s, NEW g, Agreement(s, g), NEW t \in MarketTick
  PROVE  Tallied(g, 3, gateway_on_tick(g, t))
  <1> DEFINE w == gateway_on_tick(g, t)
  <1>1. CASE ack_due(g, t) /\ g.pending_new.should_reject
    <2>1. w = reject_pending(g)
      BY <1>1 DEF gateway_on_tick
    <2>2. g.pending_new.active
      BY <1>1 DEF ack_due
    <2> QED
      BY <2>1, <2>2, RejectPendingTallied
  <1>2. CASE ack_due(g, t) /\ ~g.pending_new.should_reject
    <2> DEFINE p == ack_pending(g, t)
    <2>1. g.pending_new.active
      BY <1>2 DEF ack_due
    <2>2. /\ p = Progress(p.gateway, p.batch, p.counted)
          /\ ~p.gateway.active_order.cancel_sent
          /\ \E s1 : Agreement(s1, p.gateway)
      BY <2>1, AckPending
    <2>3. /\ Tallied(g, IF p.gateway.active_order.active THEN 1 ELSE 3, p)
          /\ p.gateway.active_order.active => FillCount(p.counted) = 0
      BY <2>1, AckTallied
    <2>4. w = work_resting(p, t)
      BY <1>2, <2>2 DEF gateway_on_tick, cancel_due
    <2> HIDE DEF p
    <2>5. PICK s1 : Agreement(s1, p.gateway)
      BY <2>2
    <2>6. CASE p.gateway.active_order.active
      <3>1. Tallied(g, 1, Progress(p.gateway, p.batch, p.counted))
        BY <2>2, <2>3, <2>6
      <3>2. w = work_resting(Progress(p.gateway, p.batch, p.counted), t)
        BY <2>2, <2>4
      <3> HIDE DEF w
      <3>3. Tallied(g, 3, w)
        BY <2>3, <2>5, <2>6, <3>1, <3>2, WorkTallied
      <3> QED
        BY <3>3 DEF w
    <2>7. CASE ~p.gateway.active_order.active
      <3>1. ~p.gateway.resting_order.active
        BY <2>5, <2>7 DEF Agreement
      <3>2. w = p
        BY <2>4, <2>7, <3>1 DEF work_resting
      <3> QED
        BY <2>3, <2>7, <3>2
    <2> QED
      BY <2>6, <2>7
  <1>3. CASE ~ack_due(g, t)
    <2> DEFINE p == Progress(g, EmptyBatch, <<>>)
    <2>1. w = IF ~cancel_due(g, t) THEN work_resting(p, t)
              ELSE IF rejects_cancel(g) THEN reject_cancel(p)
              ELSE work_resting(forward_cancel(p, t), t)
      BY <1>3 DEF gateway_on_tick, Progress
    <2>2. CASE ~cancel_due(g, t)
      <3>1. w = work_resting(p, t)
        BY <2>1, <2>2
      <3>2. Tallied(g, 0, p) /\ FillCount(<<>>) = 0
        BY StartTallied
      <3> HIDE DEF w
      <3>3. Tallied(g, 3, w)
        BY <3>1, <3>2, WorkTallied
      <3> QED
        BY <3>3 DEF w
    <2>3. CASE cancel_due(g, t) /\ rejects_cancel(g)
      <3>1. w = reject_cancel(p) /\ g.active_order.active
        BY <2>1, <2>3 DEF cancel_due
      <3> QED
        BY <3>1, RejectCancelTallied
    <2>4. CASE cancel_due(g, t) /\ ~rejects_cancel(g)
      <3> DEFINE f == forward_cancel(p, t)
      <3>1. g.active_order.active /\ g.active_order.cancel_sent
        BY <2>4 DEF cancel_due
      <3>2. /\ f = Progress(f.gateway, f.batch, f.counted)
            /\ Agreement(s, f.gateway)
        BY <2>4, <3>1, ForwardCancel
      <3>3. Tallied(g, 0, f) /\ FillCount(f.counted) = 0
        BY <3>1, ForwardTallied
      <3>4. w = work_resting(f, t)
        BY <2>1, <2>4
      <3> HIDE DEF f, w
      <3>5. /\ w = work_resting(Progress(f.gateway, f.batch, f.counted), t)
            /\ Tallied(g, 0, Progress(f.gateway, f.batch, f.counted))
        BY <3>2, <3>3, <3>4
      <3>6. Tallied(g, 3, w)
        BY <3>2, <3>3, <3>5, WorkTallied
      <3> QED
        BY <3>6 DEF w
    <2> QED
      BY <2>2, <2>3, <2>4
  <1> QED
    BY <1>1, <1>2, <1>3

-----------------------------------------------------------------------------
(* What a step adds to the tallies *)

\* The counters and collectors that the report's properties are about.
Booked   == "fills"
Sent     == "gateway_submissions"
Strategy == "strategy"
Risk     == "risk"
Answer   == "execution"
Books    == "accounting"
EndToEnd == "end_to_end"
Sink     == "event_sink"

\* Counters and collectors are different names.
LEMMA ReportNames ==
  /\ Booked \in ReplayCounters /\ Sent \in ReplayCounters
  /\ Strategy \in Collectors /\ Risk \in Collectors /\ Answer \in Collectors
  /\ Books \in Collectors /\ EndToEnd \in Collectors
  /\ Sink \in Collectors
  /\ Booked # Sent
  /\ Strategy \notin {Risk, Answer, Books, EndToEnd, Sink}
  /\ Risk \notin {Answer, Books, EndToEnd, Sink}
  /\ Answer \notin {Books, EndToEnd, Sink}
  /\ Books \notin {EndToEnd, Sink}
  /\ EndToEnd # Sink
  BY DEF ReplayCounters, Collectors, Booked, Sent, Strategy, Risk, Answer,
         Books, EndToEnd, Sink

\* A tally grows by the number of times its name is counted.
LEMMA TallyAt ==
  ASSUME NEW S \in SUBSET Names, NEW f \in [S -> Int], NEW names \in Seq(Names)
  PROVE  /\ Tally(f, names) \in [S -> Int]
         /\ \A n \in S : Tally(f, names)[n] = f[n] + Often(names, n)
  <1>1. \A n \in S : Often(names, n) \in Nat
    BY OftenNat
  <1>2. Tally(f, names) = [n \in S |-> f[n] + Often(names, n)]
    BY DEF Tally, Often
  <1> QED
    BY <1>1, <1>2

One(x, n) == IF x = n THEN 1 ELSE 0

\* One more name.
LEMMA OftenAppend ==
  ASSUME NEW s \in Seq(Names), NEW x \in Names, NEW n \in Names
  PROVE  /\ Append(s, x) \in Seq(Names)
         /\ Often(Append(s, x), n) = Often(s, n) + One(x, n)
  <1>1. <<x>> \in Seq(Names) /\ Append(s, x) = s \o <<x>>
    OBVIOUS
  <1>2. Often(s \o <<x>>, n) = Often(s, n) + Often(<<x>>, n)
    BY <1>1, OftenConcat
  <1> QED
    BY <1>1, <1>2, OftenOne DEF One

\* What two names count ...
LEMMA OftenTwo ==
  ASSUME NEW a \in Names, NEW b \in Names, NEW n \in Names
  PROVE  /\ <<a, b>> \in Seq(Names)
         /\ Often(<<a, b>>, n) = One(a, n) + One(b, n)
  <1> DEFINE s == <<a>>
             all == <<a, b>>
  <1>1. s \in Seq(Names) /\ all = Append(s, b)
    OBVIOUS
  <1>2. Often(s, n) = One(a, n)
    BY OftenOne DEF One
  <1> HIDE DEF s, all
  <1>3. all \in Seq(Names) /\ Often(all, n) = Often(s, n) + One(b, n)
    BY <1>1, OftenAppend
  <1> QED
    BY <1>2, <1>3 DEF all

\* ... and three ...
LEMMA OftenThree ==
  ASSUME NEW a \in Names, NEW b \in Names, NEW c \in Names, NEW n \in Names
  PROVE  /\ <<a, b, c>> \in Seq(Names)
         /\ Often(<<a, b, c>>, n) = One(a, n) + One(b, n) + One(c, n)
  <1> DEFINE s == <<a, b>>
             all == <<a, b, c>>
  <1>1. s \in Seq(Names) /\ all = Append(s, c)
    OBVIOUS
  <1>2. Often(s, n) = One(a, n) + One(b, n)
    BY OftenTwo
  <1> HIDE DEF s, all
  <1>3. all \in Seq(Names) /\ Often(all, n) = Often(s, n) + One(c, n)
    BY <1>1, OftenAppend
  <1> QED
    BY <1>2, <1>3 DEF all

\* ... and four.
LEMMA OftenFour ==
  ASSUME NEW a \in Names, NEW b \in Names, NEW c \in Names, NEW d \in Names,
         NEW n \in Names
  PROVE  /\ <<a, b, c, d>> \in Seq(Names)
         /\ Often(<<a, b, c, d>>, n)
              = One(a, n) + One(b, n) + One(c, n) + One(d, n)
  <1> DEFINE s == <<a, b, c>>
             all == <<a, b, c, d>>
  <1>1. s \in Seq(Names) /\ all = Append(s, d)
    OBVIOUS
  <1>2. Often(s, n) = One(a, n) + One(b, n) + One(c, n)
    BY OftenThree
  <1> HIDE DEF s, all
  <1>3. all \in Seq(Names) /\ Often(all, n) = Often(s, n) + One(d, n)
    BY <1>1, OftenAppend
  <1> QED
    BY <1>2, <1>3 DEF all

\* Samples: what is recorded for each collector but the event sink.
Sampled(names, s, r, x, a, e) ==
  /\ names \in Seq(Names)
  /\ Often(names, Strategy) = s /\ Often(names, Risk) = r
  /\ Often(names, Answer) = x /\ Often(names, Books) = a
  /\ Often(names, EndToEnd) = e

\* The samples of each step.
LEMMA StepSamples ==
  /\ Sampled(<<>>, 0, 0, 0, 0, 0)
  /\ Sampled(<<Answer>>, 0, 0, 1, 0, 0)
  /\ Sampled(<<Strategy, EndToEnd>>, 1, 0, 0, 0, 1)
  /\ Sampled(<<Strategy, Risk, EndToEnd>>, 1, 1, 0, 0, 1)
  /\ Sampled(<<Strategy, Risk, Answer, EndToEnd>>, 1, 1, 1, 0, 1)
  /\ \A p \in BOOLEAN :
       Sampled(counted_if(p, Books), 0, 0, 0, IF p THEN 1 ELSE 0, 0)
  <1>1. /\ Strategy \in Names /\ Risk \in Names /\ Answer \in Names
        /\ Books \in Names /\ EndToEnd \in Names
    BY ReportNames DEF Names
  <1>2. Sampled(<<>>, 0, 0, 0, 0, 0)
    BY <1>1, OftenNone DEF Sampled
  <1>3. Sampled(<<Answer>>, 0, 0, 1, 0, 0)
    <2>1. \A n \in Names : Often(<<Answer>>, n) = IF Answer = n THEN 1 ELSE 0
      BY <1>1, OftenOne
    <2>2. <<Answer>> \in Seq(Names)
      BY <1>1
    <2> QED
      BY <1>1, <2>1, <2>2, ReportNames DEF Sampled
  <1>4. Sampled(<<Strategy, EndToEnd>>, 1, 0, 0, 0, 1)
    <2>1. /\ <<Strategy, EndToEnd>> \in Seq(Names)
          /\ \A n \in Names : Often(<<Strategy, EndToEnd>>, n)
                                = One(Strategy, n) + One(EndToEnd, n)
      BY <1>1, OftenTwo
    <2> QED
      BY <1>1, <2>1, ReportNames DEF Sampled, One
  <1>5. Sampled(<<Strategy, Risk, EndToEnd>>, 1, 1, 0, 0, 1)
    <2>1. /\ <<Strategy, Risk, EndToEnd>> \in Seq(Names)
          /\ \A n \in Names : Often(<<Strategy, Risk, EndToEnd>>, n)
                 = One(Strategy, n) + One(Risk, n) + One(EndToEnd, n)
      BY <1>1, OftenThree
    <2> QED
      BY <1>1, <2>1, ReportNames DEF Sampled, One
  <1>6. Sampled(<<Strategy, Risk, Answer, EndToEnd>>, 1, 1, 1, 0, 1)
    <2>1. /\ <<Strategy, Risk, Answer, EndToEnd>> \in Seq(Names)
          /\ \A n \in Names : Often(<<Strategy, Risk, Answer, EndToEnd>>, n)
                 = One(Strategy, n) + One(Risk, n) + One(Answer, n)
                     + One(EndToEnd, n)
      BY <1>1, OftenFour
    <2> QED
      BY <1>1, <2>1, ReportNames DEF Sampled, One
  <1>7. ASSUME NEW p \in BOOLEAN
        PROVE  Sampled(counted_if(p, Books), 0, 0, 0, IF p THEN 1 ELSE 0, 0)
    <2>1. /\ counted_if(p, Books) \in Seq(Names)
          /\ \A n \in Names : Often(counted_if(p, Books), n)
                                = IF p /\ Books = n THEN 1 ELSE 0
      BY <1>1, OftenIf
    <2> QED
      BY <1>1, <2>1, ReportNames DEF Sampled
  <1> QED
    BY <1>2, <1>3, <1>4, <1>5, <1>6, <1>7

\* Reported: the fills and submissions that are counted.
Counted(names, f, k) ==
  /\ names \in Seq(Names)
  /\ Often(names, Booked) = f /\ Often(names, Sent) = k

\* The counters of each step of the decision.
LEMMA StepCounters ==
  /\ Counted(<<"strategy_signals", "risk_rejects">>, 0, 0)
  /\ Counted(<<"strategy_signals">>, 0, 0)
  /\ \A p \in BOOLEAN :
       Counted(<<"strategy_signals", "local_submissions",
                 "gateway_submissions">> \o counted_if(p, "venue_rejects"),
               0, 1)
  <1> DEFINE signal == "strategy_signals"
             local == "local_submissions"
             riskreject == "risk_rejects"
             reject == "venue_rejects"
  <1>1. /\ signal \in Names /\ local \in Names /\ riskreject \in Names
        /\ reject \in Names /\ Booked \in Names /\ Sent \in Names
        /\ signal \notin {Booked, Sent} /\ local \notin {Booked, Sent}
        /\ riskreject \notin {Booked, Sent} /\ reject \notin {Booked, Sent}
        /\ Booked # Sent
    BY DEF Names, ReplayCounters, Booked, Sent
  <1>2. Sent = "gateway_submissions"
    BY DEF Sent
  <1> HIDE DEF signal, local, riskreject, reject
  <1>3. Counted(<<signal, riskreject>>, 0, 0)
    <2>1. /\ <<signal, riskreject>> \in Seq(Names)
          /\ \A n \in Names : Often(<<signal, riskreject>>, n)
                                = One(signal, n) + One(riskreject, n)
      BY <1>1, OftenTwo
    <2> QED
      BY <1>1, <2>1 DEF Counted, One
  <1>4. Counted(<<signal>>, 0, 0)
    <2>1. \A n \in Names : Often(<<signal>>, n) = IF signal = n THEN 1 ELSE 0
      BY <1>1, OftenOne
    <2>2. <<signal>> \in Seq(Names)
      BY <1>1
    <2> QED
      BY <1>1, <2>1, <2>2 DEF Counted
  <1>5. ASSUME NEW p \in BOOLEAN
        PROVE  Counted(<<signal, local, Sent>> \o counted_if(p, reject), 0, 1)
    <2> DEFINE a == <<signal, local, Sent>>
               b == counted_if(p, reject)
    <2>1. /\ a \in Seq(Names)
          /\ \A n \in Names : Often(a, n) = One(signal, n) + One(local, n)
                                              + One(Sent, n)
      BY <1>1, OftenThree
    <2>2. /\ b \in Seq(Names)
          /\ \A n \in Names : Often(b, n) = IF p /\ reject = n THEN 1 ELSE 0
      BY <1>1, OftenIf
    <2> HIDE DEF a, b
    <2>3. \A n \in Names : Often(a \o b, n) = Often(a, n) + Often(b, n)
      BY <2>1, <2>2, OftenConcat
    <2>4. Often(a, Booked) = 0 /\ Often(a, Sent) = 1
      BY <1>1, <2>1 DEF One
    <2>5. Often(b, Booked) = 0 /\ Often(b, Sent) = 0
      BY <1>1, <2>2
    <2>6. Often(a \o b, Booked) = 0 /\ Often(a \o b, Sent) = 1
      BY <1>1, <2>3, <2>4, <2>5
    <2> QED
      BY <2>1, <2>2, <2>6 DEF Counted, a, b
  <1> QED
    BY <1>2, <1>3, <1>4, <1>5 DEF signal, local, riskreject, reject

\* Handling the first event of a batch takes its fill out of the batch.
LEMMA FillsTail ==
  ASSUME NEW b \in Seq(VenueEvent), b # <<>>, Len(b) <= 3
  PROVE  FillsIn(b) = FillsIn(Tail(b))
                        + IF Head(b).type = "Fill" THEN 1 ELSE 0
  <1> DEFINE r == Tail(b)
  <1>1. /\ Len(b) \in Nat /\ Len(b) # 0 /\ Head(b) = b[1]
        /\ r \in Seq(VenueEvent) /\ Len(r) = Len(b) - 1
        /\ \A i \in 1 .. Len(b) - 1 : r[i] = b[i + 1]
    BY EmptySeq, HeadTailProperties
  <1>2. Len(b) \in 1 .. 3 /\ DOMAIN b = 1 .. Len(b)
    BY <1>1
  <1>3. DOMAIN r = 1 .. Len(b) - 1
    BY <1>1
  <1> HIDE DEF r
  <1>4. FillAt(r, 1) = FillAt(b, 2)
    BY <1>1, <1>2, <1>3 DEF FillAt
  <1>5. FillAt(r, 2) = FillAt(b, 3)
    BY <1>1, <1>2, <1>3 DEF FillAt
  <1>6. FillAt(r, 3) = 0
    BY <1>1, <1>2, <1>3 DEF FillAt
  <1>7. FillAt(b, 1) = IF Head(b).type = "Fill" THEN 1 ELSE 0
    BY <1>1, <1>2, <1>3 DEF FillAt
  <1>8. \A i \in {1, 2, 3} : FillAt(b, i) \in {0, 1}
    BY DEF FillAt
  <1> QED
    BY <1>4, <1>5, <1>6, <1>7, <1>8 DEF FillsIn, r

\* The order manager applies every fill of the gateway.
LEMMA FillIsApplied ==
  ASSUME LoopInv, batch # <<>>, Head(batch).type = "Fill"
  PROVE  event_outcome(order, Head(batch)) = "Applied"
  <1> DEFINE e == Head(batch)
             s == Heard(OmsView, e)
             outcome == event_outcome(order, e)
  <1>1. /\ batch \in Seq(VenueEvent) /\ Len(batch) <= 3
        /\ Agreement(HeardAll(OmsView, batch), gateway)
    BY DEF LoopInv, RunnerTypeOK
  <1>2. HeardAll(s, Tail(batch)) = HeardAll(OmsView, batch)
    BY <1>1, HeardTail
  <1>3. s.refused \subseteq HeardAll(s, Tail(batch)).refused
    BY RefusalsStay
  <1>4. s.refused \subseteq CancelAnswersRefused
    BY <1>1, <1>2, <1>3 DEF Agreement
  <1>5. OmsView.order = order
    BY DEF OmsView
  <1>6. outcome # "Applied" => <<e.type, outcome>> \in s.refused
    BY <1>5 DEF Heard
  <1> HIDE DEF s, outcome
  <1>7. <<e.type, outcome>> \notin CancelAnswersRefused
    BY DEF CancelAnswersRefused
  <1> QED
    BY <1>4, <1>6, <1>7 DEF outcome

\* handle_venue_event counts a fill for each fill event, and no submission.
LEMMA EventCounted ==
  ASSUME LoopInv, batch # <<>>
  PROVE  LET e == Head(batch)
             p == fill_out(order, e).quantity > 0
             one == IF p THEN 1 ELSE 0
         IN /\ p \in BOOLEAN
            /\ Counted(venue_event_counted(order, e), one, 0)
            /\ FillsIn(batch) = FillsIn(Tail(batch)) + one
  <1> DEFINE e == Head(batch)
             p == fill_out(order, e).quantity > 0
             one == IF p THEN 1 ELSE 0
             outcome == event_outcome(order, e)
             rejects == e.type \in {"NewReject", "CancelReject"}
             names == venue_event_counted(order, e)
  <1>1. /\ batch \in Seq(VenueEvent) /\ Len(batch) <= 3
        /\ order \in ManagedOrder
    BY DEF LoopInv, RunnerTypeOK
  <1>2. e \in VenueEvent
    BY <1>1, HeardTail
  <1>3. FillsIn(batch) = FillsIn(Tail(batch))
                           + IF e.type = "Fill" THEN 1 ELSE 0
    BY <1>1, FillsTail
  <1>4. p <=> e.type = "Fill"
    <2>1. CASE e.type = "Fill"
      <3>1. outcome = "Applied"
        BY <2>1, FillIsApplied
      <3>2. e.fill_qty \in 1 .. order.leaves_qty
        BY <1>1, <1>2, <2>1, <3>1, AppliedEventChecked
      <3>3. fill_out(order, e).quantity = e.fill_qty
        BY <2>1, <3>1 DEF fill_out
      <3> QED
        BY <1>1, <2>1, <3>2, <3>3 DEF ManagedOrder
    <2>2. CASE e.type # "Fill"
      BY <2>2 DEF fill_out, NoFill
    <2> QED
      BY <2>1, <2>2
  <1>5. p \in BOOLEAN /\ rejects \in BOOLEAN
    OBVIOUS
  <1> DEFINE reject == "venue_rejects"
             invalid == "invalid_venue_events"
             others == {"wrong_state_events", "wrong_order_events",
                        "invalid_quantity_events",
                        "invalid_venue_order_id_events"}
  <1>6. /\ reject \in Names /\ invalid \in Names
        /\ Booked \in Names /\ Sent \in Names
        /\ reject \notin {Booked, Sent} /\ invalid \notin {Booked, Sent}
        /\ Booked # Sent
        /\ \A x \in others : x \in Names /\ x \notin {Booked, Sent}
    BY DEF Names, ReplayCounters, Booked, Sent
  <1>7. CASE outcome = "Applied"
    <2> DEFINE a == counted_if(p, Booked)
               b == counted_if(rejects, reject)
    <2>1. names = a \o b
      BY <1>7 DEF venue_event_counted, Booked
    <2> HIDE DEF p, rejects, reject, names
    <2>2. /\ a \in Seq(Names)
          /\ \A n \in Names : Often(a, n) = IF p /\ Booked = n THEN 1 ELSE 0
      BY <1>5, <1>6, OftenIf
    <2>3. /\ b \in Seq(Names)
          /\ \A n \in Names :
               Often(b, n) = IF rejects /\ reject = n THEN 1 ELSE 0
      BY <1>5, <1>6, OftenIf
    <2> HIDE DEF a, b
    <2>4. \A n \in Names : Often(a \o b, n) = Often(a, n) + Often(b, n)
      BY <2>2, <2>3, OftenConcat
    <2>5. Often(a, Booked) = one /\ Often(a, Sent) = 0
      BY <1>6, <2>2
    <2>6. Often(b, Booked) = 0 /\ Often(b, Sent) = 0
      BY <1>6, <2>3
    <2>7. Often(a \o b, Booked) = one /\ Often(a \o b, Sent) = 0
      BY <1>6, <2>4, <2>5, <2>6
    <2>8. Counted(names, one, 0)
      BY <2>1, <2>2, <2>3, <2>7 DEF Counted
    <2> QED
      BY <1>3, <1>4, <1>5, <2>8 DEF names, p
  <1>8. CASE outcome # "Applied"
    <2>1. PICK x \in others : names = <<invalid, x>>
      <3>1. outcome \in {"WrongState", "InvalidVenueOrderId", "WrongOrder",
                         "InvalidQuantity"}
        BY <1>8 DEF event_outcome
      <3> QED
        BY <1>8, <3>1 DEF venue_event_counted
    <2>2. ~p
      BY <1>4, <1>8, FillIsApplied
    <2> HIDE DEF p, names, others, invalid
    <2>3. /\ <<invalid, x>> \in Seq(Names)
          /\ \A n \in Names :
               Often(<<invalid, x>>, n) = One(invalid, n) + One(x, n)
      BY <1>6, OftenTwo
    <2>4. Counted(names, 0, 0)
      BY <1>6, <2>1, <2>3 DEF Counted, One
    <2> QED
      BY <1>3, <1>4, <1>5, <2>2, <2>4 DEF names, p
  <1> QED
    BY <1>7, <1>8

-----------------------------------------------------------------------------
(* The invariant of the report *)

ResultTypes ==
  /\ counters \in [ReplayCounters -> Int]
  /\ stats \in [ExecutionStats -> Int]
  /\ samples \in [Collectors -> Int]

\* What the simulator executed.
Executions == stats[AggressiveFills] + stats[PassiveFills]

\* CountersReconcile inside a tick: a fill that is still in the batch is not
\* booked, a cancel that is pending is not acknowledged, and the order that
\* the gateway works on is neither filled nor canceled.
Reconciled ==
  /\ counters[Booked] + FillsIn(batch) = Executions
  /\ Executions <= ticks
  /\ stats[CancelAcks] + Pend(gateway) <= stats[CancelRequests]
  /\ Executions - stats[PartialFills] + stats[CancelAcks] + Busy(gateway)
       <= counters[Sent]

\* A tick that is not over has one sample to come.
InTick == IF phase \in {"venue", "decide"} THEN 1 ELSE 0

\* CollectorsHold inside a tick.
Sampling ==
  /\ samples[Books] = counters[Booked]
  /\ samples[Strategy] = ticks - InTick
  /\ samples[EndToEnd] = ticks - InTick
  /\ samples[Risk] <= ticks - InTick
  /\ samples[Answer] <= 2 * ticks - InTick

ResultInv == ResultTypes /\ Reconciled /\ Sampling

\* A step counts each name as often as it says.
LEMMA CountAt ==
  ASSUME ResultTypes, NEW names, NEW b, NEW k, Counted(names, b, k),
         Count(names)
  PROVE  /\ counters' \in [ReplayCounters -> Int]
         /\ counters'[Booked] = counters[Booked] + b
         /\ counters'[Sent] = counters[Sent] + k
  <1>1. ReplayCounters \in SUBSET Names
    BY DEF Names
  <1>2. /\ Tally(counters, names) \in [ReplayCounters -> Int]
        /\ \A n \in ReplayCounters :
             Tally(counters, names)[n] = counters[n] + Often(names, n)
    BY <1>1, TallyAt DEF ResultTypes, Counted
  <1> QED
    BY <1>2, ReportNames DEF Counted, Count

\* A step records each sample as often as it says.
LEMMA RecordAt ==
  ASSUME ResultTypes, NEW names,
         NEW s, NEW r, NEW x, NEW a, NEW e, Sampled(names, s, r, x, a, e),
         journal.emitted \in Int, journal'.emitted \in Int, Record(names)
  PROVE  /\ samples' \in [Collectors -> Int]
         /\ samples'[Strategy] = samples[Strategy] + s
         /\ samples'[Risk] = samples[Risk] + r
         /\ samples'[Answer] = samples[Answer] + x
         /\ samples'[Books] = samples[Books] + a
         /\ samples'[EndToEnd] = samples[EndToEnd] + e
  <1> DEFINE t == Tally(samples, names)
             grown == t[Sink] + journal'.emitted - journal.emitted
  <1>1. Collectors \in SUBSET Names
    BY DEF Names
  <1>2. /\ t \in [Collectors -> Int]
        /\ \A n \in Collectors : t[n] = samples[n] + Often(names, n)
    BY <1>1, TallyAt DEF ResultTypes, Sampled
  <1>3. samples' = [t EXCEPT ![Sink] = grown]
    BY DEF Record, Sink
  <1> HIDE DEF t
  <1>4. grown \in Int
    BY <1>2, ReportNames
  <1> HIDE DEF grown
  <1>5. /\ samples' \in [Collectors -> Int]
        /\ \A n \in Collectors : n # Sink => samples'[n] = t[n]
    BY <1>2, <1>3, <1>4
  <1> QED
    BY <1>2, <1>5, ReportNames DEF Sampled

\* A step inside a tick: it books b fills, counts k submissions, ends the tick
\* or not, s, and records r samples of the risk and x of the answer.
LEMMA ReportStep ==
  ASSUME ResultInv, ticks \in Nat, ticks' = ticks, UNCHANGED stats,
         NEW b \in {0, 1}, NEW k \in {0, 1}, NEW s \in {0, 1},
         NEW r \in 0 .. s, NEW x \in 0 .. s,
         counters' \in [ReplayCounters -> Int],
         counters'[Booked] = counters[Booked] + b,
         counters'[Sent] = counters[Sent] + k,
         samples' \in [Collectors -> Int],
         samples'[Strategy] = samples[Strategy] + s,
         samples'[Risk] = samples[Risk] + r,
         samples'[Answer] = samples[Answer] + x,
         samples'[Books] = samples[Books] + b,
         samples'[EndToEnd] = samples[EndToEnd] + s,
         FillsIn(batch') \in Nat, FillsIn(batch) = FillsIn(batch') + b,
         InTick = InTick' + s,
         Pend(gateway') = Pend(gateway),
         Busy(gateway') <= Busy(gateway) + k
  PROVE  ResultInv'
  <1>1. /\ Booked \in ReplayCounters /\ Sent \in ReplayCounters
        /\ Strategy \in Collectors /\ Risk \in Collectors
        /\ Answer \in Collectors /\ Books \in Collectors
        /\ EndToEnd \in Collectors
    BY ReportNames
  <1>2. /\ AggressiveFills \in ExecutionStats /\ PassiveFills \in ExecutionStats
        /\ PartialFills \in ExecutionStats /\ CancelAcks \in ExecutionStats
        /\ CancelRequests \in ExecutionStats
    BY DEF ExecutionStats, AggressiveFills, PassiveFills, PartialFills,
           CancelAcks, CancelRequests
  <1>3. /\ counters[Booked] \in Int /\ counters[Sent] \in Int
        /\ Executions \in Int /\ stats[PartialFills] \in Int
        /\ stats[CancelAcks] \in Int /\ stats[CancelRequests] \in Int
        /\ samples[Strategy] \in Int /\ samples[Risk] \in Int
        /\ samples[Answer] \in Int /\ samples[Books] \in Int
        /\ samples[EndToEnd] \in Int
    BY <1>1, <1>2 DEF ResultInv, ResultTypes, Executions
  <1>4. /\ Busy(gateway) \in {0, 1} /\ Busy(gateway') \in {0, 1}
        /\ Pend(gateway) \in {0, 1}
        /\ InTick \in {0, 1} /\ InTick' \in {0, 1}
    BY DEF Busy, Pend, InTick
  <1>5. stats' = stats /\ Executions' = Executions
    BY DEF Executions
  <1>6. ResultTypes'
    BY <1>5 DEF ResultInv, ResultTypes
  <1>7. Reconciled'
    <2>1. Reconciled
      BY DEF ResultInv
    <2>2. (counters[Booked] + FillsIn(batch))' = Executions
      BY <1>3, <2>1 DEF Reconciled
    <2>3. Executions - stats[PartialFills] + stats[CancelAcks] + Busy(gateway')
            <= counters'[Sent]
      BY <1>3, <1>4, <2>1 DEF Reconciled
    <2> QED
      BY <1>5, <2>1, <2>2, <2>3 DEF Reconciled
  <1>8. Sampling'
    <2>1. /\ samples[Books] = counters[Booked]
          /\ samples[Strategy] = ticks - InTick
          /\ samples[EndToEnd] = ticks - InTick
          /\ samples[Risk] <= ticks - InTick
          /\ samples[Answer] <= 2 * ticks - InTick
      BY DEF ResultInv, Sampling
    <2>2. ticks - InTick' = (ticks - InTick) + s
      BY <1>4
    <2>3. samples'[Books] = counters'[Booked]
      BY <2>1
    <2>4. /\ samples'[Strategy] = ticks - InTick'
          /\ samples'[EndToEnd] = ticks - InTick'
      BY <2>1, <2>2
    <2>5. samples'[Risk] <= ticks - InTick'
      BY <1>3, <1>4, <2>1, <2>2
    <2>6. samples'[Answer] <= 2 * ticks - InTick'
      BY <1>3, <1>4, <2>1, <2>2
    <2> QED
      BY <2>3, <2>4, <2>5, <2>6 DEF Sampling
  <1> QED
    BY <1>6, <1>7, <1>8 DEF ResultInv

\* Fills, pending cancels and orders in work are counted by numbers.
LEMMA SmallNumbers ==
  ASSUME NEW b, NEW g
  PROVE  /\ FillsIn(b) \in Nat /\ Pend(g) \in {0, 1} /\ Busy(g) \in {0, 1}
  <1>1. \A i : FillAt(b, i) \in {0, 1}
    BY DEF FillAt
  <1>2. /\ FillAt(b, 1) \in {0, 1} /\ FillAt(b, 2) \in {0, 1}
        /\ FillAt(b, 3) \in {0, 1}
    BY <1>1
  <1>3. FillsIn(b) \in Nat
    BY <1>2 DEF FillsIn
  <1> QED
    BY <1>3 DEF Pend, Busy

\* What a step of the loop is known to keep.
LEMMA LoopTypes ==
  ASSUME LoopInv
  PROVE  /\ ticks \in Nat /\ gateway \in Gateway /\ journal.emitted \in Int
         /\ tick \in MarketTick /\ batch \in Seq(VenueEvent)
         /\ Len(batch) <= 3
  <1>1. RunnerTypeOK /\ MaxTicks \in Nat
    BY RunnerAssumption DEF LoopInv
  <1> QED
    BY <1>1 DEF LoopInv, RunnerTypeOK

\* ... and its next state.
LEMMA LoopTypesNext ==
  ASSUME LoopInv'
  PROVE  journal'.emitted \in Int /\ tick' \in MarketTick
  <1>1. RunnerTypeOK'
    BY DEF LoopInv
  <1> QED
    BY <1>1 DEF RunnerTypeOK

\* A step that ends the tick, with gateway and batch as they are.
LEMMA TickEndStep ==
  ASSUME ResultInv, LoopInv, LoopInv', EndOfTick, UNCHANGED <<stats, gateway>>,
         counters' \in [ReplayCounters -> Int],
         counters'[Booked] = counters[Booked],
         counters'[Sent] = counters[Sent],
         NEW names, NEW r \in {0, 1}, NEW x \in {0, 1},
         Sampled(names, 1, r, x, 0, 1), Record(names)
  PROVE  ResultInv'
  <1>1. ResultTypes
    BY DEF ResultInv
  <1>2. ticks \in Nat /\ journal.emitted \in Int /\ journal'.emitted \in Int
    BY LoopTypes, LoopTypesNext
  <1>3. /\ samples' \in [Collectors -> Int]
        /\ samples'[Strategy] = samples[Strategy] + 1
        /\ samples'[Risk] = samples[Risk] + r
        /\ samples'[Answer] = samples[Answer] + x
        /\ samples'[Books] = samples[Books] + 0
        /\ samples'[EndToEnd] = samples[EndToEnd] + 1
    BY <1>1, <1>2, RecordAt
  <1>4. /\ ticks' = ticks /\ batch' = batch /\ gateway' = gateway
        /\ stats' = stats /\ phase = "decide" /\ phase' = "tick"
    BY DEF EndOfTick
  <1>5. InTick = 1 /\ InTick' = 0
    BY <1>4 DEF InTick
  <1>6. /\ counters[Booked] \in Int /\ counters[Sent] \in Int
    BY <1>1, ReportNames DEF ResultTypes
  <1>7. /\ FillsIn(batch') \in Nat /\ Pend(gateway) \in {0, 1}
        /\ Busy(gateway) \in {0, 1}
    BY SmallNumbers
  <1>8. /\ counters'[Booked] = counters[Booked] + 0
        /\ counters'[Sent] = counters[Sent] + 0
        /\ FillsIn(batch) = FillsIn(batch') + 0
        /\ InTick = InTick' + 1
        /\ Pend(gateway') = Pend(gateway)
        /\ Busy(gateway') <= Busy(gateway) + 0
    BY <1>4, <1>5, <1>6, <1>7
  <1>9. r \in 0 .. 1 /\ x \in 0 .. 1
    OBVIOUS
  <1> QED
    BY <1>2, <1>3, <1>4, <1>7, <1>8, <1>9, ReportStep

\* The step that handles a venue event books the fill it takes from the batch.
LEMMA VenueEventKeepsReport ==
  ASSUME ResultInv, LoopInv, LoopInv', ResultVenueEvent
  PROVE  ResultInv'
  <1> DEFINE e == Head(batch)
             p == fill_out(order, e).quantity > 0
             b == IF p THEN 1 ELSE 0
             cn == venue_event_counted(order, e)
             sn == counted_if(p, Books)
  <1>1. /\ phase = "venue" /\ batch # <<>> /\ batch' = Tail(batch)
        /\ gateway' = gateway /\ phase' = phase /\ ticks' = ticks
        /\ stats' = stats
    BY DEF ResultVenueEvent, HandleVenueEvent
  <1>2. Count(cn) /\ Record(sn)
    BY DEF ResultVenueEvent, Books
  <1>3. /\ p \in BOOLEAN /\ Counted(cn, b, 0)
        /\ FillsIn(batch) = FillsIn(Tail(batch)) + b
    BY <1>1, EventCounted
  <1> HIDE DEF p, cn
  <1>4. Sampled(sn, 0, 0, 0, b, 0)
    BY <1>3, StepSamples
  <1>5. ResultTypes
    BY DEF ResultInv
  <1>6. ticks \in Nat /\ journal.emitted \in Int /\ journal'.emitted \in Int
    BY LoopTypes, LoopTypesNext
  <1>7. b \in {0, 1}
    OBVIOUS
  <1> HIDE DEF b, sn
  <1>8. /\ counters' \in [ReplayCounters -> Int]
        /\ counters'[Booked] = counters[Booked] + b
        /\ counters'[Sent] = counters[Sent] + 0
    BY <1>2, <1>3, <1>5, CountAt
  <1>9. /\ samples' \in [Collectors -> Int]
        /\ samples'[Strategy] = samples[Strategy] + 0
        /\ samples'[Risk] = samples[Risk] + 0
        /\ samples'[Answer] = samples[Answer] + 0
        /\ samples'[Books] = samples[Books] + b
        /\ samples'[EndToEnd] = samples[EndToEnd] + 0
    BY <1>2, <1>4, <1>5, <1>6, RecordAt
  <1>10. /\ FillsIn(batch') \in Nat /\ Pend(gateway) \in {0, 1}
         /\ Busy(gateway) \in {0, 1}
    BY SmallNumbers
  <1>11. InTick' = InTick /\ InTick \in {0, 1}
    BY <1>1 DEF InTick
  <1>12. /\ FillsIn(batch) = FillsIn(batch') + b
         /\ InTick = InTick' + 0
         /\ Pend(gateway') = Pend(gateway)
         /\ Busy(gateway') <= Busy(gateway) + 0
    BY <1>1, <1>3, <1>10, <1>11
  <1>13. 0 \in 0 .. 0 /\ 0 \in {0, 1}
    OBVIOUS
  <1> QED
    BY <1>1, <1>6, <1>7, <1>8, <1>9, <1>10, <1>12, <1>13, ReportStep

\* The cancel step records nothing that is bounded.
LEMMA CancelStepKeepsReport ==
  ASSUME ResultInv, LoopInv, LoopInv', ResultCancelStep
  PROVE  ResultInv'
  <1>1. /\ phase = "venue" /\ phase' = "decide" /\ ticks' = ticks
        /\ batch' = batch /\ counters' = counters /\ stats' = stats
        /\ Record(<<>>)
    BY DEF ResultCancelStep, KeepOrder, RequestCancel, AfterVenueEvents
  <1>2. /\ ticks \in Nat /\ journal.emitted \in Int /\ journal'.emitted \in Int
        /\ gateway \in Gateway
    BY LoopTypes, LoopTypesNext
  <1>3. Pend(gateway') = Pend(gateway) /\ Busy(gateway') = Busy(gateway)
    <2>1. CASE KeepOrder
      <3>1. gateway' = gateway
        BY <2>1 DEF KeepOrder
      <3> QED
        BY <3>1
    <2>2. CASE RequestCancel
      <3> DEFINE act == gateway.active_order
                 ts == tick.receive_ts_ns + CancelSendLatency
                 a1 == [act EXCEPT !.cancel_sent = TRUE]
                 a2 == [a1 EXCEPT !.cancel_send_ts_ns = ts]
                 h == [gateway EXCEPT !.active_order = a2]
      <3>1. gateway' = h
        BY <1>2, <2>2 DEF RequestCancel, sent_cancel
      <3>2. act \in ActiveOrder
        BY <1>2, GatewayParts
      <3>3. a1 \in ActiveOrder /\ a1.active = act.active
        BY <3>2, WithCancelSent
      <3> HIDE DEF a1
      <3>4. a2.active = act.active
        BY <3>3 DEF ActiveOrder
      <3> HIDE DEF a2
      <3>5. /\ h.active_order = a2 /\ h.pending_new = gateway.pending_new
            /\ h.resting_order = gateway.resting_order
        BY <1>2 DEF Gateway
      <3> HIDE DEF h
      <3>6. Pend(h) = Pend(gateway) /\ Busy(h) = Busy(gateway)
        BY <3>4, <3>5 DEF Pend, Busy, busy
      <3> QED
        BY <3>1, <3>6
    <2> QED
      BY <2>1, <2>2 DEF ResultCancelStep
  <1>4. ResultTypes
    BY DEF ResultInv
  <1>5. Sampled(<<>>, 0, 0, 0, 0, 0)
    BY StepSamples
  <1>6. /\ samples' \in [Collectors -> Int]
        /\ samples'[Strategy] = samples[Strategy] + 0
        /\ samples'[Risk] = samples[Risk] + 0
        /\ samples'[Answer] = samples[Answer] + 0
        /\ samples'[Books] = samples[Books] + 0
        /\ samples'[EndToEnd] = samples[EndToEnd] + 0
    BY <1>1, <1>2, <1>4, <1>5, RecordAt
  <1>7. /\ FillsIn(batch') \in Nat /\ Busy(gateway) \in {0, 1}
    BY SmallNumbers
  <1>8. InTick' = 1 /\ InTick = 1
    BY <1>1 DEF InTick
  <1>9. /\ counters \in [ReplayCounters -> Int]
        /\ counters[Booked] \in Int /\ counters[Sent] \in Int
    BY <1>4, ReportNames DEF ResultTypes
  <1>10. /\ counters' \in [ReplayCounters -> Int]
         /\ counters'[Booked] = counters[Booked] + 0
         /\ counters'[Sent] = counters[Sent] + 0
         /\ FillsIn(batch) = FillsIn(batch') + 0
         /\ InTick = InTick' + 0
         /\ Busy(gateway') <= Busy(gateway) + 0
    BY <1>1, <1>3, <1>7, <1>8, <1>9
  <1>11. 0 \in 0 .. 0 /\ 0 \in {0, 1}
    OBVIOUS
  <1> QED
    BY <1>1, <1>2, <1>3, <1>6, <1>7, <1>10, <1>11, ReportStep

\* A tick without a signal, or whose order goes no further than the runner.
LEMMA NoOrderKeepsReport ==
  ASSUME ResultInv, LoopInv, LoopInv',
         ResultNoSignal \/ ResultRiskReject \/ ResultLocalReject
  PROVE  ResultInv'
  <1>1. /\ ResultTypes /\ counters \in [ReplayCounters -> Int]
        /\ counters[Booked] \in Int /\ counters[Sent] \in Int
    BY ReportNames DEF ResultInv, ResultTypes
  <1>2. /\ Sampled(<<Strategy, EndToEnd>>, 1, 0, 0, 0, 1)
        /\ Sampled(<<Strategy, Risk, EndToEnd>>, 1, 1, 0, 0, 1)
        /\ Sampled(<<Strategy, Risk, Answer, EndToEnd>>, 1, 1, 1, 0, 1)
    BY StepSamples
  <1>3. CASE ResultNoSignal
    <2>1. /\ EndOfTick /\ UNCHANGED <<stats, gateway>> /\ counters' = counters
          /\ Record(<<Strategy, EndToEnd>>)
      BY <1>3 DEF ResultNoSignal, NoSignal, Strategy, EndToEnd
    <2> QED
      BY <1>1, <1>2, <2>1, TickEndStep
  <1>4. CASE ResultRiskReject
    <2> DEFINE cn == <<"strategy_signals", "risk_rejects">>
    <2>1. /\ EndOfTick /\ UNCHANGED <<stats, gateway>> /\ Count(cn)
          /\ Record(<<Strategy, Risk, EndToEnd>>)
      BY <1>4 DEF ResultRiskReject, RiskReject, Signal, Strategy, Risk,
                  EndToEnd
    <2>2. Counted(cn, 0, 0)
      BY StepCounters
    <2> HIDE DEF cn
    <2>3. /\ counters' \in [ReplayCounters -> Int]
          /\ counters'[Booked] = counters[Booked] + 0
          /\ counters'[Sent] = counters[Sent] + 0
      BY <1>1, <2>1, <2>2, CountAt
    <2> QED
      BY <1>1, <1>2, <2>1, <2>3, TickEndStep
  <1>5. CASE ResultLocalReject
    <2> DEFINE cn == <<"strategy_signals">>
    <2>1. /\ EndOfTick /\ UNCHANGED <<stats, gateway>> /\ Count(cn)
          /\ Record(<<Strategy, Risk, Answer, EndToEnd>>)
      BY <1>5 DEF ResultLocalReject, LocalReject, RiskAccept, Signal,
                  Strategy, Risk, Answer, EndToEnd
    <2>2. Counted(cn, 0, 0)
      BY StepCounters
    <2> HIDE DEF cn
    <2>3. /\ counters' \in [ReplayCounters -> Int]
          /\ counters'[Booked] = counters[Booked] + 0
          /\ counters'[Sent] = counters[Sent] + 0
      BY <1>1, <2>1, <2>2, CountAt
    <2> QED
      BY <1>1, <1>2, <2>1, <2>3, TickEndStep
  <1> QED
    BY <1>3, <1>4, <1>5

\* A submission is counted, and the gateway may start to work on it.
LEMMA SubmitKeepsReport ==
  ASSUME ResultInv, LoopInv, LoopInv', ResultSubmit
  PROVE  ResultInv'
  <1> DEFINE p == order'.state = "Rejected"
             cn == <<"strategy_signals", "local_submissions",
                     "gateway_submissions">> \o counted_if(p, "venue_rejects")
             sn == <<Strategy, Risk, Answer, EndToEnd>>
  <1>1. /\ Submit /\ Count(cn) /\ Record(sn) /\ stats' = stats
    BY DEF ResultSubmit, Strategy, Risk, Answer, EndToEnd
  <1>2. /\ phase = "decide" /\ phase' = "tick" /\ ticks' = ticks
        /\ batch' = batch
    BY <1>1 DEF Submit, RiskAccept, Signal, EndOfTick
  <1>3. /\ ticks \in Nat /\ journal.emitted \in Int /\ journal'.emitted \in Int
        /\ gateway \in Gateway
    BY LoopTypes, LoopTypesNext
  <1>4. Pend(gateway') = Pend(gateway)
    <2>1. \/ gateway' = gateway
          \/ \E new : gateway' = [gateway EXCEPT !.pending_new = new]
      BY <1>1 DEF Submit, sent_new
    <2>2. gateway'.resting_order = gateway.resting_order
      BY <1>3, <2>1 DEF Gateway
    <2> QED
      BY <2>2 DEF Pend
  <1>5. ResultTypes
    BY DEF ResultInv
  <1>6. Sampled(sn, 1, 1, 1, 0, 1)
    BY StepSamples
  <1>7. Counted(cn, 0, 1)
    <2>1. p \in BOOLEAN
      OBVIOUS
    <2> HIDE DEF p
    <2> QED
      BY <2>1, StepCounters
  <1> HIDE DEF sn, cn
  <1>8. /\ counters' \in [ReplayCounters -> Int]
        /\ counters'[Booked] = counters[Booked] + 0
        /\ counters'[Sent] = counters[Sent] + 1
    BY <1>1, <1>5, <1>7, CountAt
  <1>9. /\ samples' \in [Collectors -> Int]
        /\ samples'[Strategy] = samples[Strategy] + 1
        /\ samples'[Risk] = samples[Risk] + 1
        /\ samples'[Answer] = samples[Answer] + 1
        /\ samples'[Books] = samples[Books] + 0
        /\ samples'[EndToEnd] = samples[EndToEnd] + 1
    BY <1>1, <1>3, <1>5, <1>6, RecordAt
  <1>10. /\ FillsIn(batch') \in Nat /\ Busy(gateway) \in {0, 1}
         /\ Busy(gateway') \in {0, 1}
    BY SmallNumbers
  <1>11. InTick' = 0 /\ InTick = 1
    BY <1>2 DEF InTick
  <1>12. /\ FillsIn(batch) = FillsIn(batch') + 0
         /\ InTick = InTick' + 1
         /\ Busy(gateway') <= Busy(gateway) + 1
    BY <1>2, <1>10, <1>11
  <1>13. 1 \in 0 .. 1 /\ 0 \in {0, 1} /\ 1 \in {0, 1}
    OBVIOUS
  <1> QED
    BY <1>1, <1>2, <1>3, <1>4, <1>8, <1>9, <1>10, <1>12, <1>13, ReportStep

\* A tick adds what the gateway counts, and its fill to the batch.
LEMMA TickKeepsReport ==
  ASSUME ResultInv, LoopInv, LoopInv', ResultTick
  PROVE  ResultInv'
  <1> DEFINE w == gateway_on_tick(gateway, tick')
             c == w.counted
             F == FillCount(c)
             K == Often(c, PartialFills)
             A == Often(c, CancelAcks)
             R == Often(c, CancelRequests)
  <1>1. PICK quote \in Quotes, gap \in TickGaps : NextTick(quote, gap)
    BY DEF ResultTick
  <1>2. /\ phase = "tick" /\ phase' = "venue" /\ ticks' = ticks + 1
        /\ gateway' = w.gateway /\ batch' = w.batch.events
    BY <1>1 DEF NextTick
  <1>3. /\ stats' = Tally(stats, c) /\ counters' = counters
        /\ samples' = Tally(samples, <<Answer>>)
    BY DEF ResultTick, Answer
  <1>4. ticks \in Nat /\ tick' \in MarketTick
    BY LoopTypes, LoopTypesNext
  <1>5. batch = <<>> /\ Agreement(OmsView, gateway)
    BY <1>2, LoopParts
  <1>6. Tallied(gateway, 3, w)
    BY <1>4, <1>5, GatewayTallied
  <1> HIDE DEF w
  <1>7. /\ c \in Seq(Names) /\ FillsIn(batch') = F /\ F \in {0, 1}
        /\ A + Pend(gateway') <= R + Pend(gateway)
        /\ F - K + A + Busy(gateway') <= Busy(gateway)
    BY <1>2, <1>6 DEF Tallied
  <1>8. ResultTypes /\ Reconciled /\ Sampling
    BY DEF ResultInv
  <1>9. ExecutionStats \in SUBSET Names /\ Collectors \in SUBSET Names
    BY DEF Names
  <1>10. /\ stats' \in [ExecutionStats -> Int]
         /\ \A n \in ExecutionStats : stats'[n] = stats[n] + Often(c, n)
    BY <1>3, <1>7, <1>8, <1>9, TallyAt DEF ResultTypes
  <1>11. Sampled(<<Answer>>, 0, 0, 1, 0, 0)
    BY StepSamples
  <1> DEFINE sn == <<Answer>>
  <1> HIDE DEF sn, c
  <1>12. /\ samples' \in [Collectors -> Int]
         /\ \A n \in Collectors : samples'[n] = samples[n] + Often(sn, n)
    <2>1. sn \in Seq(Names)
      BY <1>11 DEF sn, Sampled
    <2>2. samples' = Tally(samples, sn)
      BY <1>3 DEF sn
    <2> QED
      BY <1>8, <1>9, <2>1, <2>2, TallyAt DEF ResultTypes
  <1>13. /\ samples'[Strategy] = samples[Strategy] + 0
         /\ samples'[Risk] = samples[Risk] + 0
         /\ samples'[Answer] = samples[Answer] + 1
         /\ samples'[Books] = samples[Books] + 0
         /\ samples'[EndToEnd] = samples[EndToEnd] + 0
    BY <1>11, <1>12, ReportNames DEF Sampled, sn
  <1>14. /\ AggressiveFills \in ExecutionStats /\ PassiveFills \in ExecutionStats
         /\ PartialFills \in ExecutionStats /\ CancelAcks \in ExecutionStats
         /\ CancelRequests \in ExecutionStats
    BY DEF ExecutionStats, AggressiveFills, PassiveFills, PartialFills,
           CancelAcks, CancelRequests
  <1> DEFINE X == Executions
             SK == stats[PartialFills]
             SA == stats[CancelAcks]
             SR == stats[CancelRequests]
             B == counters[Booked]
             S == counters[Sent]
             P0 == Pend(gateway)
             P1 == Pend(gateway')
             B0 == Busy(gateway)
             B1 == Busy(gateway')
  <1>15. /\ X \in Int /\ SK \in Int /\ SA \in Int /\ SR \in Int
         /\ B \in Int /\ S \in Int
         /\ samples[Strategy] \in Int /\ samples[Risk] \in Int
         /\ samples[Answer] \in Int /\ samples[Books] \in Int
         /\ samples[EndToEnd] \in Int
    BY <1>8, <1>14, ReportNames DEF ResultTypes, Executions
  <1>16. F \in Nat /\ K \in Nat /\ A \in Nat /\ R \in Nat
    BY <1>7, CountsNat
  <1>17. X' = X + F
    <2>1. /\ stats[AggressiveFills] \in Int /\ stats[PassiveFills] \in Int
      BY <1>8, <1>14 DEF ResultTypes
    <2>2. /\ Often(c, AggressiveFills) \in Nat /\ Often(c, PassiveFills) \in Nat
      BY <1>7, OftenNat, StatNames
    <2>3. /\ stats'[AggressiveFills]
               = stats[AggressiveFills] + Often(c, AggressiveFills)
          /\ stats'[PassiveFills]
               = stats[PassiveFills] + Often(c, PassiveFills)
      BY <1>10, <1>14
    <2> QED
      BY <2>1, <2>2, <2>3 DEF Executions, FillCount
  <1>18. SK' = SK + K /\ SA' = SA + A /\ SR' = SR + R
    BY <1>10, <1>14
  <1>19. /\ FillsIn(batch) = 0 /\ P0 \in {0, 1} /\ P1 \in {0, 1}
         /\ B0 \in {0, 1} /\ B1 \in {0, 1}
    BY <1>5, EmptyRoom, SmallNumbers
  <1>20. InTick = 0 /\ InTick' = 1
    BY <1>2 DEF InTick
  <1> HIDE DEF F, K, A, R
  <1>21. ResultTypes'
    BY <1>3, <1>8, <1>10, <1>12 DEF ResultTypes
  <1>22. Reconciled'
    <2>1. /\ B + FillsIn(batch) = X /\ X <= ticks
          /\ SA + P0 <= SR
          /\ X - SK + SA + B0 <= S
      BY <1>8 DEF Reconciled
    <2>2. A + P1 <= R + P0 /\ F - K + A + B1 <= B0
      BY <1>7
    <2>3. B = X
      BY <1>15, <1>19, <2>1
    <2> HIDE DEF X, SK, SA, SR, B, S, P0, P1, B0, B1
    <2>4. B + F = X + F /\ X + F <= ticks + 1
      BY <1>4, <1>7, <1>15, <1>16, <2>1, <2>3
    <2>5. (SA + A) + P1 <= SR + R
      BY <1>15, <1>16, <1>19, <2>1, <2>2
    <2>6. (X + F) - (SK + K) + (SA + A) + B1 <= S
      BY <1>15, <1>16, <1>19, <2>1, <2>2
    <2> QED
      BY <1>2, <1>3, <1>7, <1>17, <1>18, <2>4, <2>5, <2>6
         DEF Reconciled, X, SK, SA, SR, B, S, P1, B1
  <1>23. Sampling'
    <2>1. /\ samples[Books] = counters[Booked]
          /\ samples[Strategy] = ticks - InTick
          /\ samples[EndToEnd] = ticks - InTick
          /\ samples[Risk] <= ticks - InTick
          /\ samples[Answer] <= 2 * ticks - InTick
      BY <1>8 DEF Sampling
    <2>2. /\ samples'[Books] = counters'[Booked]
          /\ samples'[Strategy] = ticks' - InTick'
          /\ samples'[EndToEnd] = ticks' - InTick'
          /\ samples'[Risk] <= ticks' - InTick'
          /\ samples'[Answer] <= 2 * ticks' - InTick'
      BY <1>2, <1>3, <1>4, <1>13, <1>15, <1>20, <2>1
    <2> QED
      BY <2>2 DEF Sampling
  <1> QED
    BY <1>21, <1>22, <1>23 DEF ResultInv

\* Nothing is reported before the first tick.
LEMMA ReportInit ==
  ASSUME ResultInit
  PROVE  ResultInv
  <1>1. /\ phase = "tick" /\ ticks = 0 /\ batch = <<>>
        /\ gateway = IdleGateway
    BY DEF ResultInit, RunnerInit, GatewayInit
  <1>2. ResultTypes
    BY DEF ResultInit, ResultTypes
  <1>3. /\ \A n \in ReplayCounters : counters[n] = 0
        /\ \A n \in ExecutionStats : stats[n] = 0
        /\ \A n \in Collectors : samples[n] = 0
    BY DEF ResultInit
  <1>4. /\ AggressiveFills \in ExecutionStats /\ PassiveFills \in ExecutionStats
        /\ PartialFills \in ExecutionStats /\ CancelAcks \in ExecutionStats
        /\ CancelRequests \in ExecutionStats
    BY DEF ExecutionStats, AggressiveFills, PassiveFills, PartialFills,
           CancelAcks, CancelRequests
  <1>5. Pend(gateway) = 0 /\ Busy(gateway) = 0 /\ FillsIn(batch) = 0
    BY <1>1, EmptyRoom DEF Pend, Busy, busy, IdleGateway, NoPendingNew,
                           NoActiveOrder, NoRestingOrder
  <1>6. InTick = 0
    BY <1>1 DEF InTick
  <1>7. Reconciled
    BY <1>1, <1>3, <1>4, <1>5, ReportNames DEF Reconciled, Executions
  <1>8. Sampling
    BY <1>1, <1>3, <1>6, ReportNames DEF Sampling
  <1> QED
    BY <1>2, <1>7, <1>8 DEF ResultInv

\* The end of the input changes no tally.
LEMMA ReturnKeepsReport ==
  ASSUME ResultInv, ResultReturn \/ UNCHANGED resultVars
  PROVE  ResultInv'
  <1>1. /\ counters' = counters /\ stats' = stats /\ samples' = samples
        /\ ticks' = ticks /\ batch' = batch /\ gateway' = gateway
        /\ InTick' = InTick
    BY DEF ResultReturn, Return, Returned, resultVars, runnerVars, InTick
  <1>2. ResultTypes' /\ Reconciled' /\ Sampling'
    BY <1>1 DEF ResultInv, ResultTypes, Reconciled, Sampling, Executions
  <1> QED
    BY <1>2 DEF ResultInv

\* Every step keeps the report.
LEMMA ReportNext ==
  ASSUME ResultInv, LoopInv, LoopInv', [ResultNext]_resultVars
  PROVE  ResultInv'
  <1>1. CASE ResultTick
    BY <1>1, TickKeepsReport
  <1>2. CASE ResultVenueEvent
    BY <1>2, VenueEventKeepsReport
  <1>3. CASE ResultCancelStep
    BY <1>3, CancelStepKeepsReport
  <1>4. CASE ResultNoSignal \/ ResultRiskReject \/ ResultLocalReject
    BY <1>4, NoOrderKeepsReport
  <1>5. CASE ResultSubmit
    BY <1>5, SubmitKeepsReport
  <1>6. CASE ResultReturn \/ UNCHANGED resultVars
    BY <1>6, ReturnKeepsReport
  <1> QED
    BY <1>1, <1>2, <1>3, <1>4, <1>5, <1>6 DEF ResultNext

\* The report is kept by the loop it reports about.
LEMMA ReportingLoops ==
  ASSUME [ResultNext]_resultVars
  PROVE  [RunnerNext]_runnerVars
  BY DEF ResultNext, ResultTick, ResultVenueEvent, ResultCancelStep,
         ResultNoSignal, ResultRiskReject, ResultLocalReject, ResultSubmit,
         ResultReturn, RunnerNext, resultVars

\* The inductive invariant of the report, over that of the loop.
THEOREM ReportInvariant == ResultSpec => [](LoopInv /\ ResultInv)
<1>1. ResultInit => LoopInv /\ ResultInv
  BY LoopInit, ReportInit DEF ResultInit
<1>2. LoopInv /\ ResultInv /\ [ResultNext]_resultVars
        => (LoopInv /\ ResultInv)'
  <2> SUFFICES ASSUME LoopInv, ResultInv, [ResultNext]_resultVars
               PROVE  LoopInv' /\ ResultInv'
    OBVIOUS
  <2>1. [RunnerNext]_runnerVars
    BY ReportingLoops
  <2>2. LoopInv'
    BY <2>1, LoopStep
  <2> QED
    BY <2>2, ReportNext
<1> QED
  BY <1>1, <1>2, PTL DEF ResultSpec

\* The report adds up at every tick boundary: what the simulator executed is
\* what accounting booked, no cancel is acknowledged more often than
\* requested, and complete fills and acknowledged cancels together are at most
\* as many as the orders sent.
THEOREM ReportAddsUp == ResultSpec => []CountersReconcile
<1>1. LoopInv /\ ResultInv => CountersReconcile
  <2> SUFFICES ASSUME LoopInv, ResultInv, AtBoundary
               PROVE  /\ counters[Booked] = Executions
                      /\ stats[CancelAcks] <= stats[CancelRequests]
                      /\ counters[Booked] - stats[PartialFills]
                           <= counters[Sent] - stats[CancelAcks]
    BY DEF CountersReconcile, Executions, Booked, Sent, AggressiveFills,
           PassiveFills, PartialFills, CancelAcks, CancelRequests
  <2>1. FillsIn(batch) = 0
    <3>1. batch = <<>>
      BY LoopParts DEF AtBoundary
    <3> QED
      BY <3>1, EmptyRoom
  <2>2. /\ PartialFills \in ExecutionStats /\ CancelAcks \in ExecutionStats
        /\ CancelRequests \in ExecutionStats
        /\ AggressiveFills \in ExecutionStats /\ PassiveFills \in ExecutionStats
    BY DEF ExecutionStats, PartialFills, CancelAcks, CancelRequests,
           AggressiveFills, PassiveFills
  <2>3. /\ counters[Booked] \in Int /\ counters[Sent] \in Int
        /\ stats[PartialFills] \in Int /\ stats[CancelAcks] \in Int
        /\ stats[CancelRequests] \in Int /\ Executions \in Int
    BY <2>2, ReportNames DEF ResultInv, ResultTypes, Executions
  <2>4. Pend(gateway) \in {0, 1} /\ Busy(gateway) \in {0, 1}
    BY SmallNumbers
  <2>5. Reconciled
    BY DEF ResultInv
  <2> QED
    BY <2>1, <2>3, <2>4, <2>5 DEF Reconciled
<1> QED
  BY <1>1, ReportInvariant, PTL

\* Every collector but the event sink's is large enough for any input.
THEOREM CollectorsAreLargeEnough == ResultSpec => []CollectorsHold
<1>1. LoopInv /\ ResultInv => CollectorsHold
  <2> SUFFICES ASSUME LoopInv, ResultInv PROVE CollectorsHold
    OBVIOUS
  <2> SUFFICES ASSUME phase = "done", NEW c \in Collectors, c # Sink
               PROVE  samples[c] <= MaxPerTick[c] * ticks
    <3>1. \A c \in Collectors : samples[c] \in Int /\ MaxPerTick[c] \in Int
      BY DEF ResultInv, ResultTypes, MaxPerTick
    <3>2. ticks \in Nat
      BY LoopTypes
    <3> QED
      BY <3>1, <3>2 DEF CollectorsHold, overflowed, Sink
  <2>1. /\ ticks \in Nat /\ InTick = 0
    BY LoopTypes DEF InTick
  <2>2. counters[Booked] \in Int /\ samples[c] \in Int
    BY ReportNames DEF ResultInv, ResultTypes
  <2>3. samples[Books] <= ticks
    <3>1. /\ samples[Books] = counters[Booked]
          /\ counters[Booked] + FillsIn(batch) <= ticks
      BY DEF ResultInv, Sampling, Reconciled
    <3> QED
      BY <2>1, <2>2, <3>1, SmallNumbers
  <2>4. /\ samples[Strategy] <= ticks /\ samples[EndToEnd] <= ticks
        /\ samples[Risk] <= ticks /\ samples[Answer] <= 2 * ticks
    BY <2>1 DEF ResultInv, Sampling
  <2>5. c \in {Strategy, Risk, Answer, Books, EndToEnd}
    BY DEF Collectors, Strategy, Risk, Answer, Books, EndToEnd, Sink
  <2>6. MaxPerTick[c] = IF c = Answer THEN 2 ELSE 1
    BY DEF MaxPerTick, Answer, Sink
  <2> QED
    BY <2>1, <2>2, <2>3, <2>4, <2>5, <2>6
<1> QED
  BY <1>1, ReportInvariant, PTL
=============================================================================
