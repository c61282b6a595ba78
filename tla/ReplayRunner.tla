---------------------------- MODULE ReplayRunner ----------------------------
(***************************************************************************)
(* llt::run_replay: the loop that takes one market tick at a time through  *)
(* the gateway, the order manager, accounting, the strategy and the risk   *)
(* engine.  One iteration is a NextTick, a HandleVenueEvent for each event *)
(* of the batch, the passive-cancel step and one decision.                 *)
(*                                                                         *)
(* Accounting is reduced to the position it keeps.  The event journal      *)
(* written by emit_event is reduced to what a reader of it knows: the last *)
(* OMS state it names, whether its transitions form one path, and how many *)
(* events and fills the current tick emitted.  The latency collectors are  *)
(* measurements and are left out.                                          *)
(***************************************************************************)
EXTENDS MockVenueGateway, TradeDecision

CONSTANTS
  Style,                \* config.execution_style
  PassiveCancelAfter,   \* config.passive_cancel_after_ns
  Quotes,               \* the markets a tick may show
  Epoch,                \* the earliest time of the first tick
  TickGaps,             \* time between two ticks
  MaxTicks              \* bound: length of the input

ASSUME RunnerAssumption ==
  /\ Style \in ExecutionStyle
  /\ PassiveCancelAfter \in Nat
  /\ Epoch \in Int
  /\ TickGaps \subseteq Nat
  /\ MaxTicks \in Nat \ {0}
  /\ \A q \in Quotes, ts \in TickGaps :
       [receive_ts_ns |-> ts, bid_price |-> q.bid_price,
        ask_price |-> q.ask_price, bid_qty |-> q.bid_qty,
        ask_qty |-> q.ask_qty] \in MarketTick

VARIABLES
  phase,              \* where in the loop body the runner is
  ticks,              \* ticks taken so far
  tick,               \* the tick of this iteration
  batch,              \* the venue events of this tick still to be handled
  overflows,          \* counters.venue_batch_overflows
  net_qty,            \* accounting.position().net_qty
  client_order_id,
  passive_submit_ts,
  journal,            \* what the emitted events say
  refused,            \* venue events not Applied, with their outcome
  opened              \* history: time and position when the order was sent

runnerVars ==
  <<order, gateway, phase, ticks, tick, batch, overflows, net_qty,
    client_order_id, passive_submit_ts, journal, refused, opened>>

\* Between iterations only the time of the last tick matters.
BetweenTicks(ts) ==
  [receive_ts_ns |-> ts, bid_price |-> 1, ask_price |-> 1, bid_qty |-> 0,
   ask_qty |-> 0]

-----------------------------------------------------------------------------
(* emit_transition, emit_event, handle_fill, handle_venue_event *)

EmptyJournal ==
  [state |-> "Idle", path |-> TRUE, emitted |-> 0, fills |-> 0]

\* submit_new clears a terminal order before it takes a new one, so a new
\* path may start at Idle.
continues(j, from) ==
  \/ from = j.state
  \/ from = "Idle" /\ j.state \in TerminalStates

\* Mutant of emit_transition: one transition per tick.
emit_transition_first_only(j, from, to) ==
  IF from = to \/ j.emitted > 0 THEN j
  ELSE [j EXCEPT !.state = to, !.path = @ /\ continues(j, from),
                 !.emitted = @ + 1]

emit_transition(j, from, to) ==
  IF from = to THEN j
  ELSE [j EXCEPT !.state = to, !.path = @ /\ continues(j, from),
                 !.emitted = @ + 1]

emit_event(j) == [j EXCEPT !.emitted = @ + 1]

emit_fill(j) == [j EXCEPT !.emitted = @ + 1, !.fills = @ + 1]

\* The journal after an Applied event that takes order o to n.
journal_of(j, o, n, e, fill) ==
  LET j1 == emit_transition(j, o.state, n.state)
      j2 == IF fill.quantity > 0 THEN emit_fill(j1) ELSE j1
  IN IF e.type \in {"NewReject", "CancelReject"} THEN emit_event(j2) ELSE j2

\* Mutant of position_after: a sell adds to the position.
position_after_unsigned(o, e, net) == net + fill_out(o, e).quantity

\* handle_fill ignores an empty fill; accounting adds the signed quantity.
position_after(o, e, net) ==
  LET fill == fill_out(o, e)
  IN IF fill.quantity <= 0 THEN net
     ELSE net + side_sign(fill.side) * fill.quantity

\* handle_venue_event for order o, the journal, position and refusals.
handle_venue_event(o, e) ==
  LET outcome == event_outcome(o, e)
  IN /\ order' = order_after(o, e)
     /\ net_qty' = position_after(o, e, net_qty)
     /\ IF outcome = "Applied"
        THEN /\ journal' = journal_of(journal, o, order_after(o, e), e,
                                      fill_out(o, e))
             /\ UNCHANGED refused
        ELSE /\ refused' = refused \cup {<<e.type, outcome>>}
             /\ UNCHANGED journal

-----------------------------------------------------------------------------
(* The loop *)

RunnerInit ==
  /\ OmsInit
  /\ GatewayInit
  /\ phase = "tick"
  /\ ticks = 0
  /\ tick = BetweenTicks(Epoch)
  /\ batch = <<>>
  /\ overflows = 0
  /\ net_qty = 0
  /\ client_order_id = 1
  /\ passive_submit_ts = -1
  /\ journal = EmptyJournal
  /\ refused = {}
  /\ opened = [ts |-> 0, net |-> 0]

\* The next line of the input: timestamps do not decrease.
NextTick(quote, gap) ==
  LET t == [receive_ts_ns |-> tick.receive_ts_ns + gap,
            bid_price |-> quote.bid_price, ask_price |-> quote.ask_price,
            bid_qty |-> quote.bid_qty, ask_qty |-> quote.ask_qty]
      p == gateway_on_tick(gateway, t)
  IN /\ phase = "tick"
     /\ ticks < MaxTicks
     /\ ticks' = ticks + 1
     /\ tick' = t
     /\ gateway' = p.gateway
     /\ batch' = p.batch.events
     /\ overflows' = overflows + p.batch.overflow_count
     /\ journal' = [journal EXCEPT !.emitted = 0, !.fills = 0]
     /\ phase' = "venue"
     /\ UNCHANGED <<order, net_qty, client_order_id, passive_submit_ts,
                    refused, opened>>

HandleVenueEvent ==
  /\ phase = "venue"
  /\ batch # <<>>
  /\ handle_venue_event(order, Head(batch))
  /\ batch' = Tail(batch)
  /\ UNCHANGED <<gateway, phase, ticks, tick, overflows, client_order_id,
                 passive_submit_ts, opened>>

\* Mutant of cancel_clock: any execution stops the clock.
cancel_clock_stopped_by_fill(o, ts) ==
  IF o.state \in {"PartiallyFilled", "Filled", "Canceled", "Expired"}
  THEN -1 ELSE ts

\* An order that ended stops the cancel clock; Rejected does not.
cancel_clock(o, ts) ==
  IF o.state \in {"Filled", "Canceled", "Expired"} THEN -1 ELSE ts

\* Mutant of aged: the clock is not looked at.
aged_any_time(o, t, ts) == Style = "Passive" /\ may_cancel(o)

aged(o, t, ts) ==
  /\ Style = "Passive"
  /\ may_cancel(o)
  /\ ts >= 0
  /\ t.receive_ts_ns - ts >= PassiveCancelAfter

AfterVenueEvents ==
  /\ phase = "venue"
  /\ batch = <<>>
  /\ phase' = "decide"
  /\ passive_submit_ts' = cancel_clock(order, passive_submit_ts)

KeepOrder ==
  /\ AfterVenueEvents
  /\ ~(/\ aged(order, tick, passive_submit_ts)
       /\ cancel_request_accepted(gateway, order))
  /\ UNCHANGED <<order, gateway, ticks, tick, batch, overflows, net_qty,
                 client_order_id, journal, refused, opened>>

RequestCancel ==
  /\ AfterVenueEvents
  /\ aged(order, tick, passive_submit_ts)
  /\ cancel_request_accepted(gateway, order)
  /\ gateway' = sent_cancel(gateway, tick.receive_ts_ns)
  /\ order' = cancel_requested(order)
  /\ journal' = emit_transition(journal, order.state, "PendingCancel")
  /\ UNCHANGED <<ticks, tick, batch, overflows, net_qty, client_order_id,
                 refused, opened>>

decision == strategy_on_tick(tick)

\* The end of the loop body.
EndOfTick ==
  /\ phase = "decide"
  /\ phase' = "tick"
  /\ tick' = BetweenTicks(tick.receive_ts_ns)
  /\ UNCHANGED <<ticks, batch, overflows>>

NoSignal ==
  /\ EndOfTick
  /\ ~decision.has_order
  /\ UNCHANGED <<order, gateway, net_qty, client_order_id, passive_submit_ts,
                 journal, refused, opened>>

Signal ==
  /\ EndOfTick
  /\ decision.has_order

RiskReject ==
  /\ Signal
  /\ evaluate(net_qty, decision.order) # "None"
  /\ journal' = emit_event(journal)
  /\ UNCHANGED <<order, gateway, net_qty, client_order_id, passive_submit_ts,
                 refused, opened>>

RiskAccept ==
  /\ Signal
  /\ evaluate(net_qty, decision.order) = "None"
  /\ client_order_id' = client_order_id + 1

\* The order manager still holds a live order: the client id is used up and
\* nothing is emitted.
LocalReject ==
  /\ RiskAccept
  /\ ~accepts_new(order, decision.order.quantity)
  /\ order' = submitted(order, decision.order.side, decision.order.quantity)
  /\ UNCHANGED <<gateway, net_qty, passive_submit_ts, journal, refused, opened>>

\* A passive order is priced at the near side of the market.
priced(request, t) ==
  IF Style = "Passive"
  THEN [request EXCEPT !.limit_price = IF request.side = "Buy"
                                       THEN t.bid_price ELSE t.ask_price]
  ELSE request

\* The OMS takes the order first.  If the gateway then refuses, the runner
\* applies a NewReject of its own.
Submit ==
  LET request == priced(decision.order, tick)
      o == submitted(order, request.side, request.quantity)
      j == emit_transition(journal, "Idle", "PendingNewAck")
      e == Event("NewReject", 0)
      accepted == accepts_send_new(gateway, request.quantity)
  IN /\ RiskAccept
     /\ accepts_new(order, request.quantity)
     /\ opened' = [ts |-> tick.receive_ts_ns, net |-> net_qty]
     /\ UNCHANGED <<net_qty, refused>>
     /\ IF accepted
        THEN /\ order' = o
             /\ journal' = j
             /\ gateway' = sent_new(gateway, client_order_id, request, Style,
                                    tick.receive_ts_ns)
             /\ passive_submit_ts' = IF Style = "Passive"
                                     THEN tick.receive_ts_ns
                                     ELSE passive_submit_ts
        ELSE /\ order' = order_after(o, e)
             /\ journal' = journal_of(j, o, order_after(o, e), e, NoFill)
             /\ UNCHANGED <<gateway, passive_submit_ts>>

\* The input is used up and run_replay returns; an empty input is refused
\* before the loop.
Return ==
  /\ phase = "tick"
  /\ ticks > 0
  /\ phase' = "done"
  /\ UNCHANGED <<order, gateway, ticks, tick, batch, overflows, net_qty,
                 client_order_id, passive_submit_ts, journal, refused, opened>>

Returned == phase = "done" /\ UNCHANGED runnerVars

RunnerNext ==
  \/ \E quote \in Quotes, gap \in TickGaps : NextTick(quote, gap)
  \/ HandleVenueEvent
  \/ KeepOrder
  \/ RequestCancel
  \/ NoSignal
  \/ RiskReject
  \/ LocalReject
  \/ Submit
  \/ Return
  \/ Returned

RunnerSpec == RunnerInit /\ [][RunnerNext]_runnerVars
=============================================================================
