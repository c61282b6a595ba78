---------------------------- MODULE ReplayResult ----------------------------
(***************************************************************************)
(* What run_replay reports: the ReplayCounters, the ExecutionStats of the  *)
(* simulator and the fill level of the six latency collectors, tallied by  *)
(* the steps of the loop.                                                  *)
(*                                                                         *)
(* A collector is sized for MaxPerTick samples of every tick of the input  *)
(* and drops what does not fit; samples holds the number of record calls.  *)
(* Counters that ReplayRunner already keeps (venue_batch_overflows,        *)
(* accepted_events as the samples of event_sink) or that the side channel  *)
(* determines (persisted_events, dropped_events) are not repeated.         *)
(***************************************************************************)
EXTENDS ReplayProperties, FiniteSets

VARIABLES counters, stats, samples

resultVars == <<runnerVars, counters, stats, samples>>

ReplayCounters ==
  {"strategy_signals", "local_submissions", "gateway_submissions",
   "risk_rejects", "venue_rejects", "invalid_venue_events", "fills",
   "wrong_state_events", "wrong_order_events", "invalid_quantity_events",
   "invalid_venue_order_id_events"}

Collectors ==
  {"strategy", "risk", "execution", "accounting", "event_sink", "end_to_end"}

MaxPerTick ==
  [c \in Collectors |-> CASE c = "execution"  -> 2
                          [] c = "event_sink" -> 4
                          [] OTHER            -> 1]

\* Every name of the sequence increments its tally.
Tally(f, names) ==
  [n \in DOMAIN f |-> f[n] + Cardinality({i \in DOMAIN names : names[i] = n})]

\* The counters handle_venue_event increments for event e of order o.
venue_event_counted(o, e) ==
  LET outcome == event_outcome(o, e)
  IN IF outcome = "Applied"
     THEN counted_if(fill_out(o, e).quantity > 0, "fills")
            \o counted_if(e.type \in {"NewReject", "CancelReject"},
                          "venue_rejects")
     ELSE <<"invalid_venue_events",
            CASE outcome = "WrongState"          -> "wrong_state_events"
              [] outcome = "WrongOrder"          -> "wrong_order_events"
              [] outcome = "InvalidQuantity"     -> "invalid_quantity_events"
              [] outcome = "InvalidVenueOrderId" ->
                   "invalid_venue_order_id_events">>

\* emit_event records one event_sink sample for each event of this step.
Record(names) ==
  samples' = [Tally(samples, names) EXCEPT
                !["event_sink"] = @ + journal'.emitted - journal.emitted]

Count(names) == counters' = Tally(counters, names)

-----------------------------------------------------------------------------

ResultInit ==
  /\ RunnerInit
  /\ counters = [c \in ReplayCounters |-> 0]
  /\ stats = [s \in ExecutionStats |-> 0]
  /\ samples = [c \in Collectors |-> 0]

ResultTick ==
  /\ \E quote \in Quotes, gap \in TickGaps : NextTick(quote, gap)
  /\ stats' = Tally(stats, gateway_on_tick(gateway, tick').counted)
  /\ samples' = Tally(samples, <<"execution">>)
  /\ UNCHANGED counters

ResultVenueEvent ==
  /\ HandleVenueEvent
  /\ Count(venue_event_counted(order, Head(batch)))
  /\ Record(counted_if(fill_out(order, Head(batch)).quantity > 0,
                       "accounting"))
  /\ UNCHANGED stats

ResultCancelStep ==
  /\ KeepOrder \/ RequestCancel
  /\ Record(<<>>)
  /\ UNCHANGED <<counters, stats>>

ResultNoSignal ==
  /\ NoSignal
  /\ Record(<<"strategy", "end_to_end">>)
  /\ UNCHANGED <<counters, stats>>

ResultRiskReject ==
  /\ RiskReject
  /\ Count(<<"strategy_signals", "risk_rejects">>)
  /\ Record(<<"strategy", "risk", "end_to_end">>)
  /\ UNCHANGED stats

ResultLocalReject ==
  /\ LocalReject
  /\ Count(<<"strategy_signals">>)
  /\ Record(<<"strategy", "risk", "execution", "end_to_end">>)
  /\ UNCHANGED stats

ResultSubmit ==
  /\ Submit
  /\ Count(<<"strategy_signals", "local_submissions", "gateway_submissions">>
             \o counted_if(order'.state = "Rejected", "venue_rejects"))
  /\ Record(<<"strategy", "risk", "execution", "end_to_end">>)
  /\ UNCHANGED stats

ResultReturn ==
  /\ Return \/ Returned
  /\ UNCHANGED <<counters, stats, samples>>

ResultNext ==
  \/ ResultTick
  \/ ResultVenueEvent
  \/ ResultCancelStep
  \/ ResultNoSignal
  \/ ResultRiskReject
  \/ ResultLocalReject
  \/ ResultSubmit
  \/ ResultReturn

ResultSpec == ResultInit /\ [][ResultNext]_resultVars

overflowed(c) == samples[c] > MaxPerTick[c] * ticks

\* result.latency_overflow
latency_overflow == \E c \in Collectors : overflowed(c)

-----------------------------------------------------------------------------

\* The report adds up: what the simulator executed is what accounting booked,
\* no cancel is acknowledged more often than requested, and complete fills and
\* acknowledged cancels together are at most as many as the orders sent.
CountersReconcile ==
  AtBoundary =>
    /\ counters["fills"]
         = stats["aggressive_fill_count"] + stats["passive_fill_count"]
    /\ stats["cancel_ack_count"] <= stats["cancel_request_count"]
    /\ counters["fills"] - stats["partial_fill_count"]
         <= counters["gateway_submissions"] - stats["cancel_ack_count"]

\* No collector but event_sink runs out of room, whatever the input: one fill
\* per tick is all the gateway can report.
CollectorsHold ==
  phase = "done" => \A c \in Collectors \ {"event_sink"} : ~overflowed(c)

\* SPEC.md: the event sink gets up to four events per tick, and worst-case
\* inputs produce no collector overflow.  main fails the run on an overflow.
NoLatencyOverflow == phase = "done" => ~latency_overflow
=============================================================================
