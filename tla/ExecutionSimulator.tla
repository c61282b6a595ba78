------------------------- MODULE ExecutionSimulator -------------------------
(***************************************************************************)
(* llt::ExecutionSimulator: immediate execution of aggressive orders       *)
(* against the displayed quantity, and one resting passive order with a    *)
(* queue ahead of it and a delayed cancel.  Every method is a function of  *)
(* the resting order r and its arguments; it returns the new resting       *)
(* order, the ExecutionReport, and the ExecutionStats counters that the    *)
(* call increments, in order.                                              *)
(*                                                                         *)
(* A resting order that is not active is NoRestingOrder: no method reads   *)
(* the other fields of an inactive one.  Of the report the model keeps     *)
(* what the gateway reads; was_partial, stale_quote and adverse_selection  *)
(* show in the counters only.                                              *)
(***************************************************************************)
EXTENDS TradingTypes, Sequences

CONSTANTS
  CancelLatency,   \* cancel_latency_ns_, 1000
  StaleAfter,      \* stale_after_ns_, 1000
  AdverseMove      \* adverse_move_threshold_, PRICE_SCALE

ASSUME SimulatorAssumption ==
  /\ CancelLatency \in Nat \ {0}
  /\ StaleAfter \in Nat
  /\ AdverseMove \in Nat

\* A displayed market; CsvReader admits no other (positive prices, bid not
\* above ask, quantities not negative).  Timestamps may be negative.
MarketTick ==
  {t \in [receive_ts_ns : Int, bid_price : Nat \ {0}, ask_price : Nat \ {0},
          bid_qty : Nat, ask_qty : Nat] : t.bid_price <= t.ask_price}

RestingOrder ==
  [active : BOOLEAN, side : Side, price : Int, leaves_qty : Nat,
   queue_ahead_qty : Nat, submit_ts_ns : Int, cancel_pending : BOOLEAN,
   cancel_effective_ts_ns : Int]

NoRestingOrder ==
  [active |-> FALSE, side |-> "Buy", price |-> 0, leaves_qty |-> 0,
   queue_ahead_qty |-> 0, submit_ts_ns |-> 0, cancel_pending |-> FALSE,
   cancel_effective_ts_ns |-> 0]

ExecutionStats ==
  {"aggressive_fill_count", "passive_fill_count", "partial_fill_count",
   "cancel_request_count", "cancel_ack_count", "stale_fill_count",
   "adverse_fill_count"}

\* What a method returns.
Executed(resting, report, counted) ==
  [resting |-> resting, report |-> report, counted |-> counted]

counted_if(condition, counter) == IF condition THEN <<counter>> ELSE <<>>

\* A report without a fill.
Quiet(leaves) ==
  [has_fill |-> FALSE, cancel_acked |-> FALSE, fill |-> NoFill,
   leaves_qty |-> leaves]

Filling(fill, leaves) ==
  [has_fill |-> TRUE, cancel_acked |-> FALSE, fill |-> fill,
   leaves_qty |-> leaves]

-----------------------------------------------------------------------------
(* submit_order *)

\* The displayed quantity an order on this side trades against.
opposite_qty(tick, side) == IF side = "Buy" THEN tick.ask_qty ELSE tick.bid_qty

opposite_price(tick, side) ==
  IF side = "Buy" THEN tick.ask_price ELSE tick.bid_price

\* Mutant of aggressive_fill: the defect EXEC-001 of SPEC.md describes, a
\* partial fill reported with nothing left.
aggressive_fill_forgets_leaves(tick, request) ==
  LET fill_qty == Smaller(opposite_qty(tick, request.side), request.quantity)
  IN IF fill_qty <= 0 THEN Quiet(0)
     ELSE Filling([price |-> opposite_price(tick, request.side),
                   quantity |-> fill_qty, side |-> request.side], 0)

aggressive_fill(tick, request) ==
  LET fill_qty == Smaller(opposite_qty(tick, request.side), request.quantity)
  IN IF fill_qty <= 0 THEN Quiet(request.quantity)
     ELSE Filling([price |-> opposite_price(tick, request.side),
                   quantity |-> fill_qty, side |-> request.side],
                  request.quantity - fill_qty)

\* A passive order joins the back of the displayed queue on its own side.
rested(tick, request) ==
  [active |-> TRUE, side |-> request.side, price |-> request.limit_price,
   leaves_qty |-> request.quantity,
   queue_ahead_qty |-> IF request.side = "Buy"
                       THEN tick.bid_qty ELSE tick.ask_qty,
   submit_ts_ns |-> tick.receive_ts_ns, cancel_pending |-> FALSE,
   cancel_effective_ts_ns |-> 0]

aggressive_counted(report) ==
  counted_if(report.has_fill /\ report.leaves_qty > 0, "partial_fill_count")
    \o counted_if(report.has_fill, "aggressive_fill_count")

\* Mutant of submit_order: a passive order takes what the market shows first.
submit_order_takes_then_rests(r, tick, request, style) ==
  LET taken == aggressive_fill(tick, request)
  IN IF style = "Aggressive" \/ taken.leaves_qty = 0
     THEN Executed(r, taken, aggressive_counted(taken))
     ELSE Executed([rested(tick, request) EXCEPT
                      !.leaves_qty = taken.leaves_qty],
                   taken, aggressive_counted(taken))

submit_order(r, tick, request, style) ==
  IF request.quantity <= 0 THEN Executed(r, Quiet(0), <<>>)
  ELSE IF style = "Aggressive"
  THEN LET report == aggressive_fill(tick, request)
       IN Executed(r, report, aggressive_counted(report))
  ELSE IF r.active THEN Executed(r, Quiet(r.leaves_qty), <<>>)
  ELSE Executed(rested(tick, request), Quiet(request.quantity), <<>>)

-----------------------------------------------------------------------------
(* on_tick *)

is_marketable(r, tick) ==
  /\ r.active
  /\ IF r.side = "Buy" THEN tick.ask_price <= r.price
     ELSE tick.bid_price >= r.price

\* The queue ahead consumes the displayed quantity first, fill or no fill.
queue_consumed(r, tick) ==
  IF is_marketable(r, tick)
  THEN Smaller(r.queue_ahead_qty, opposite_qty(tick, r.side))
  ELSE 0

\* Mutant of passive_fill_qty: the fill is not capped by what is left.
passive_fill_qty_uncapped(r, tick) ==
  IF is_marketable(r, tick)
  THEN opposite_qty(tick, r.side) - queue_consumed(r, tick)
  ELSE 0

passive_fill_qty(r, tick) ==
  IF is_marketable(r, tick)
  THEN Smaller(r.leaves_qty,
               opposite_qty(tick, r.side) - queue_consumed(r, tick))
  ELSE 0

detect_adverse_selection(r, tick) ==
  LET mid_price == (tick.bid_price + tick.ask_price) \div 2
  IN IF r.side = "Buy" THEN mid_price + AdverseMove <= r.price
     ELSE mid_price - AdverseMove >= r.price

passive_counted(r, tick, left) ==
  counted_if(left > 0, "partial_fill_count")
    \o counted_if(tick.receive_ts_ns - r.submit_ts_ns > StaleAfter,
                  "stale_fill_count")
    \o counted_if(detect_adverse_selection(r, tick), "adverse_fill_count")
    \o <<"passive_fill_count">>

passive_fill_from_market(r, tick) ==
  LET queued == [r EXCEPT !.queue_ahead_qty = @ - queue_consumed(r, tick)]
      qty    == passive_fill_qty(r, tick)
      left   == r.leaves_qty - qty
  IN IF qty <= 0 THEN Executed(queued, Quiet(r.leaves_qty), <<>>)
     ELSE Executed(IF left = 0 THEN NoRestingOrder
                   ELSE [queued EXCEPT !.leaves_qty = left],
                   Filling([price |-> r.price, quantity |-> qty,
                            side |-> r.side], left),
                   passive_counted(r, tick, left))

cancel_effective(r, tick) ==
  r.cancel_pending /\ tick.receive_ts_ns >= r.cancel_effective_ts_ns

\* A fill takes precedence over a cancel that takes effect on the same tick.
exec_on_tick(r, tick) ==
  LET filled_r == passive_fill_from_market(r, tick)
      rest     == filled_r.resting
  IN IF ~r.active THEN Executed(r, Quiet(0), <<>>)
     ELSE IF filled_r.report.has_fill THEN filled_r
     ELSE IF cancel_effective(rest, tick)
     THEN Executed(NoRestingOrder, [Quiet(0) EXCEPT !.cancel_acked = TRUE],
                   <<"cancel_ack_count">>)
     ELSE Executed(rest, Quiet(rest.leaves_qty), <<>>)

-----------------------------------------------------------------------------
(* request_cancel *)

takes_cancel(r) == r.active /\ ~r.cancel_pending

exec_request_cancel(r, ts_ns) ==
  IF takes_cancel(r)
  THEN [r EXCEPT !.cancel_pending = TRUE,
                 !.cancel_effective_ts_ns = ts_ns + CancelLatency]
  ELSE r
=============================================================================
