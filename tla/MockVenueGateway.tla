-------------------------- MODULE MockVenueGateway --------------------------
(***************************************************************************)
(* llt::MockVenueGateway: the venue the kernel trades with.  It holds at   *)
(* most one order, either pending (sent, not yet acknowledged) or active,  *)
(* answers after fixed latencies, rejects every third new order and the    *)
(* first cancel of every order with an odd venue id, and drives the        *)
(* execution simulator.  on_tick returns the events of one tick in a batch *)
(* of fixed capacity.                                                      *)
(*                                                                         *)
(* A pending or active order that is not active is reset to its initial    *)
(* record: the code leaves the other fields stale and reads none of them.  *)
(* Fields that nothing reads (client_order_id, side and limit_price of the *)
(* active order, submit_ts_ns once the ack time is known) are left out.    *)
(***************************************************************************)
EXTENDS ExecutionSimulator, OrderManager

CONSTANTS
  NewAckLatency,       \* new_ack_latency_ns_, 200
  CancelSendLatency    \* cancel_send_latency_ns_, 200

ASSUME GatewayAssumption ==
  /\ NewAckLatency \in Nat \ {0}
  /\ CancelSendLatency \in Nat \ {0}

VARIABLE gateway

PendingNew ==
  [active : BOOLEAN, side : Side, quantity : Nat, limit_price : Int,
   style : ExecutionStyle, ack_ready_ts_ns : Int, should_reject : BOOLEAN]

NoPendingNew ==
  [active |-> FALSE, side |-> "Buy", quantity |-> 0, limit_price |-> 0,
   style |-> "Aggressive", ack_ready_ts_ns |-> 0, should_reject |-> FALSE]

ActiveOrder ==
  [active : BOOLEAN, venue_order_id : Nat, leaves_qty : Nat,
   cancel_sent : BOOLEAN, cancel_send_ts_ns : Int,
   cancel_reject_once_done : BOOLEAN]

NoActiveOrder ==
  [active |-> FALSE, venue_order_id |-> 0, leaves_qty |-> 0,
   cancel_sent |-> FALSE, cancel_send_ts_ns |-> 0,
   cancel_reject_once_done |-> FALSE]

FirstVenueOrderId == 100000

Gateway ==
  [pending_new : PendingNew, active_order : ActiveOrder,
   next_venue_order_id : Nat, resting_order : RestingOrder]

IdleGateway ==
  [pending_new |-> NoPendingNew, active_order |-> NoActiveOrder,
   next_venue_order_id |-> FirstVenueOrderId,
   resting_order |-> NoRestingOrder]

\* The gateway is working on an order.
busy(g) == g.pending_new.active \/ g.active_order.active

-----------------------------------------------------------------------------
(* send_new, send_cancel *)

accepts_send_new(g, quantity) == quantity > 0 /\ ~busy(g)

sent_new(g, client_order_id, request, style, submit_ts_ns) ==
  [g EXCEPT !.pending_new =
     [active |-> TRUE, side |-> request.side, quantity |-> request.quantity,
      limit_price |-> request.limit_price, style |-> style,
      ack_ready_ts_ns |-> submit_ts_ns + NewAckLatency,
      should_reject |-> client_order_id % 3 = 0]]

accepts_send_cancel(g) == g.active_order.active /\ ~g.active_order.cancel_sent

sent_cancel(g, request_ts_ns) ==
  [g EXCEPT !.active_order.cancel_sent = TRUE,
            !.active_order.cancel_send_ts_ns =
              request_ts_ns + CancelSendLatency]

\* submit_cancel_request: the OMS state is looked at before the gateway is
\* asked, and the OMS moves to PendingCancel only if the gateway took the
\* cancel.
cancel_request_accepted(g, o) == may_cancel(o) /\ accepts_send_cancel(g)

-----------------------------------------------------------------------------
(* The batch of one on_tick *)

\* Mutant of BatchCapacity: room for the acknowledgment and one more event.
BatchCapacity_too_small == 2

BatchCapacity == 4

EmptyBatch == [events |-> <<>>, overflow_count |-> 0]

push_event(batch, event) ==
  IF Len(batch.events) >= BatchCapacity
  THEN [batch EXCEPT !.overflow_count = @ + 1]
  ELSE [batch EXCEPT !.events = Append(@, event)]

Event(type, id) ==
  [type |-> type, venue_order_id |-> id, fill_qty |-> 0, fill_price |-> 0]

FillEvent(id, fill) ==
  [type |-> "Fill", venue_order_id |-> id, fill_qty |-> fill.quantity,
   fill_price |-> fill.price]

\* A step of on_tick: the gateway, the batch and the ExecutionStats counters
\* incremented so far.
Progress(g, batch, counted) ==
  [gateway |-> g, batch |-> batch, counted |-> counted]

\* apply_execution_report, with the leaves and the resting order that the
\* simulator's answer x comes with.
apply_execution_report(p, x) ==
  LET report == x.report
      g == [p.gateway EXCEPT !.active_order.leaves_qty = report.leaves_qty,
                             !.resting_order = x.resting]
      id == g.active_order.venue_order_id
      b1 == IF report.has_fill /\ g.active_order.active
            THEN push_event(p.batch, FillEvent(id, report.fill)) ELSE p.batch
      b2 == IF report.cancel_acked /\ g.active_order.active
            THEN push_event(b1, Event("CancelAck", id)) ELSE b1
  IN Progress(g, b2, p.counted \o x.counted)

\* Mutant of close_active_order_if_done: a finished order is never released.
close_active_order_never(g) == g

close_active_order_if_done(g) ==
  IF g.active_order.active /\ g.active_order.leaves_qty = 0
     /\ ~g.resting_order.active
  THEN [g EXCEPT !.active_order = NoActiveOrder] ELSE g

-----------------------------------------------------------------------------
(* on_tick *)

\* Mutant of ack_due: the latency has to be exceeded.
ack_due_strict(g, tick) ==
  g.pending_new.active /\ tick.receive_ts_ns > g.pending_new.ack_ready_ts_ns

ack_due(g, tick) ==
  g.pending_new.active /\ tick.receive_ts_ns >= g.pending_new.ack_ready_ts_ns

reject_pending(g) ==
  Progress([g EXCEPT !.pending_new = NoPendingNew],
           push_event(EmptyBatch, Event("NewReject", 0)), <<>>)

\* The venue id is assigned, the order goes to the simulator, and what an
\* aggressive order leaves unfilled expires at once (IOC).
ack_pending(g, tick) ==
  LET req == g.pending_new
      id  == g.next_venue_order_id
      g1  == [g EXCEPT !.next_venue_order_id = id + 1,
                       !.active_order = [NoActiveOrder EXCEPT
                          !.active = TRUE, !.venue_order_id = id,
                          !.leaves_qty = req.quantity]]
      b1  == push_event(EmptyBatch, Event("NewAck", id))
      x   == submit_order(g1.resting_order, tick,
               [side |-> req.side, quantity |-> req.quantity,
                limit_price |-> req.limit_price], req.style)
      p   == apply_execution_report(Progress(g1, b1, <<>>), x)
      expires == req.style = "Aggressive"
                   /\ p.gateway.active_order.leaves_qty > 0
      g2  == [p.gateway EXCEPT !.active_order.leaves_qty =
                                  IF expires THEN 0 ELSE @,
                               !.pending_new = NoPendingNew]
      b2  == IF expires THEN push_event(p.batch, Event("Expired", id))
             ELSE p.batch
  IN Progress(close_active_order_if_done(g2), b2, p.counted)

cancel_due(g, tick) ==
  /\ g.active_order.active
  /\ g.active_order.cancel_sent
  /\ tick.receive_ts_ns >= g.active_order.cancel_send_ts_ns

rejects_cancel(g) ==
  /\ ~g.active_order.cancel_reject_once_done
  /\ g.active_order.venue_order_id % 2 = 1

\* A rejected cancel ends the tick: the simulator does not see it.
reject_cancel(p) ==
  Progress([p.gateway EXCEPT !.active_order.cancel_sent = FALSE,
                             !.active_order.cancel_reject_once_done = TRUE],
           push_event(p.batch,
             Event("CancelReject", p.gateway.active_order.venue_order_id)),
           p.counted)

forward_cancel(p, tick) ==
  LET r == p.gateway.resting_order
  IN Progress([p.gateway EXCEPT
                 !.active_order.cancel_sent = FALSE,
                 !.resting_order = exec_request_cancel(r, tick.receive_ts_ns)],
              p.batch,
              p.counted \o counted_if(takes_cancel(r), "cancel_request_count"))

work_resting(p, tick) ==
  IF p.gateway.active_order.active \/ p.gateway.resting_order.active
  THEN LET x == exec_on_tick(p.gateway.resting_order, tick)
           q == apply_execution_report(p, x)
       IN [q EXCEPT !.gateway = close_active_order_if_done(q.gateway)]
  ELSE p

gateway_on_tick(g, tick) ==
  IF ack_due(g, tick) /\ g.pending_new.should_reject THEN reject_pending(g)
  ELSE LET p == IF ack_due(g, tick) THEN ack_pending(g, tick)
                ELSE Progress(g, EmptyBatch, <<>>)
       IN IF ~cancel_due(p.gateway, tick) THEN work_resting(p, tick)
          ELSE IF rejects_cancel(p.gateway) THEN reject_cancel(p)
          ELSE work_resting(forward_cancel(p, tick), tick)

GatewayInit == gateway = IdleGateway
=============================================================================
