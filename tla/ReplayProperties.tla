-------------------------- MODULE ReplayProperties --------------------------
(***************************************************************************)
(* What run_replay promises.  "At a tick boundary" is phase "tick": the    *)
(* loop is between two ticks and every event of the last one was handled.  *)
(***************************************************************************)
EXTENDS ReplayRunner

AtBoundary == phase = "tick"

Live == order.state \in LiveStates

\* Every variable of the loop keeps its type.
RunnerTypeOK ==
  /\ order \in ManagedOrder
  /\ gateway \in Gateway
  /\ phase \in {"tick", "venue", "decide", "done"}
  /\ ticks \in 0 .. MaxTicks
  /\ tick \in MarketTick
  /\ batch \in Seq(VenueEvent)
  /\ overflows \in Nat
  /\ net_qty \in Int
  /\ client_order_id \in Nat
  /\ passive_submit_ts \in Int
  /\ journal \in [state : OrderState, path : BOOLEAN, emitted : Nat,
                  fills : Nat]
  /\ refused \subseteq VenueEventType \X VenueEventOutcome
  /\ opened \in [ts : Int, net : Int]

\* While the gateway works on an order, the order manager holds the same one,
\* live: the same side and quantity before the acknowledgment, the same venue
\* id and remaining quantity after it, and a passive order rests in the
\* simulator with that quantity.
GatewayAgreesWithOms ==
  LET new == gateway.pending_new
      act == gateway.active_order
      res == gateway.resting_order
  IN AtBoundary =>
       /\ ~(new.active /\ act.active)
       /\ res.active <=> act.active
       /\ new.active =>
            /\ order.state = "PendingNewAck"
            /\ new.side = order.side
            /\ new.quantity = order.order_qty
       /\ act.active =>
            /\ order.state \in LiveStates \ {"PendingNewAck"}
            /\ act.venue_order_id = order.venue_order_id
            /\ act.leaves_qty = order.leaves_qty
            /\ res.leaves_qty = order.leaves_qty
            /\ res.side = order.side

\* SPEC.md: gateway and OMS agree on whether an order is live, and no scenario
\* leaves the OMS live when the gateway has no active order.
LiveAgreement == AtBoundary => (Live <=> busy(gateway))

\* The order manager refuses nothing this gateway says.
EveryEventApplied == refused = {}

\* With passive orders the order manager may refuse the answer to a cancel
\* that a fill overtook, and nothing else: above all no fill is ever refused,
\* so accounting misses none of the venue's executions.
OnlyCancelAnswersRefused ==
  refused \subseteq {"CancelAck", "CancelReject"} \X {"WrongState"}

\* The order manager can be live without the gateway in one way only: a cancel
\* took effect at the venue after a fill had taken the order out of
\* PendingCancel.
StrandedOnlyByCancelRace ==
  AtBoundary /\ Live /\ ~busy(gateway)
    => order.state = "PartiallyFilled" /\ <<"CancelAck", "WrongState">> \in refused

\* Accounting is updated exactly once for every fill the order manager
\* applied: the position is where it was when the order was sent, moved by
\* what the order executed.
PositionFollowsOrder ==
  net_qty = opened.net + side_sign(order.side) * order.cum_qty

\* A reader of the journal knows the order manager's state at every point,
\* and its OMS transitions form one path.
JournalFollowsOms == journal.path /\ journal.state = order.state

\* The gateway's batch of four never loses an event.
NoBatchOverflow == overflows = 0

\* The market of tick t trades with the resting order r: it crosses the
\* order's price, displays quantity, and leaves nobody ahead in the queue.
TradesWith(t, r) ==
  /\ is_marketable(r, t)
  /\ opposite_qty(t, r.side) > 0
  /\ r.queue_ahead_qty = 0

\* A cancel that took effect is not acknowledged yet only because a fill took
\* precedence: the order was executed in part, and this very tick trades with
\* it.  (The loop forgets the market of a tick when it leaves the tick.)
LateCancelAckOvertaken ==
  LET r == gateway.resting_order
  IN cancel_effective(r, tick) =>
       /\ r.leaves_qty < order.order_qty
       /\ phase \in {"venue", "decide"} => TradesWith(tick, r)

\* Once on_tick has run, no answer of the gateway is overdue but one.  The ack
\* or reject of a new order and the forwarding or reject of a cancel are on
\* time; the CancelAck of a forwarded cancel is late only if a fill overtook it.
NoOverdueAnswer ==
  /\ gateway.pending_new.active
       => tick.receive_ts_ns < gateway.pending_new.ack_ready_ts_ns
  /\ gateway.active_order.cancel_sent
       => tick.receive_ts_ns < gateway.active_order.cancel_send_ts_ns
  /\ LateCancelAckOvertaken

\* No order is asked to cancel before passive_cancel_after_ns has passed since
\* it was sent: the clock that passive_submit_ts keeps is this order's, never
\* an earlier one's.
CancelOnlyWhenAged ==
  order.state = "PendingCancel"
    => /\ Style = "Passive"
       /\ tick.receive_ts_ns - opened.ts >= PassiveCancelAfter

\* An order older than passive_cancel_after_ns never just rests: at a tick
\* boundary its cancel is on the way, or it is stranded.  The clock compares
\* with 0 to see whether it runs, so an order sent at a negative time is
\* outside this promise: it is never asked to cancel.
AgedOrderIsCanceled ==
  /\ AtBoundary
  /\ Style = "Passive"
  /\ may_cancel(order)
  /\ opened.ts >= 0
  /\ tick.receive_ts_ns - opened.ts >= PassiveCancelAfter
  => gateway.active_order.cancel_sent \/ ~busy(gateway)

\* The kernel is a trading desk that never risks more than its limit: the
\* risk check sees only the position, and the order manager makes it
\* sufficient by holding one order at a time.
Desk ==
  INSTANCE TradingDesk WITH
    Limit <- MaxAbsPosition,
    position <- net_qty,
    exposure <- IF Live THEN side_sign(order.side) * order.leaves_qty ELSE 0

RiskIsBounded == Desk!DeskWithinLimit

RefinesTradingDesk == Desk!DeskInit /\ [][Desk!DeskNext]_(Desk!deskVars)
=============================================================================
