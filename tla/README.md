# Verification of the low-latency trading kernel

TLA+ modules for the replay kernel in `src/`: one replay thread takes market
ticks through a mock venue, an order manager, accounting, a strategy and a risk
check, and hands events to a sink that may run on a thread of its own. Around
it are the process that reads the input and writes the journal, the benchmark,
and a thread-pool exercise in two languages. TLC
checks the modules on small instances; TLAPS proves the results listed under
"Proofs" for every value of the constants.

## The system

| Part | State | Operations | Must hold |
|---|---|---|---|
| Order manager (`order_manager.cpp`) | one order: state, side, order/cum/leaves quantity, venue id | `submit_new`, `request_cancel`, `on_venue_event` | quantities agree with the state; no overfill; an ended order never changes; one order at a time |
| Mock venue gateway (`mock_venue_gateway.cpp`) | pending new order, active order, cancel under way, next venue id | `send_new`, `send_cancel`, `on_tick`, `submit_cancel_request` | works on the order the OMS holds; answers are on time, except a cancel's that a fill overtakes; at most four events a tick |
| Execution simulator (`execution_simulator.cpp`) | one resting order: price, leaves, queue ahead, pending cancel | `submit_order`, `on_tick`, `request_cancel` | never fills more than leaves or the quote; its statistics agree with what was booked |
| Strategy, risk engine | none | `on_tick`, `evaluate` | position and outstanding order stay within `max_abs_position` |
| Replay loop (`replay_runner.cpp`) | client id, cancel clock, counters | one iteration per tick | accounting and the journal follow the OMS; a cancel is asked for only when the order is old enough |
| Accounting (`accounting_engine.cpp`) | position, average price, cash, realized/unrealized/total PnL | `apply_fill`, `mark_to_market` | the books reconcile; average-cost rules |
| Event side channel (`spsc_ring_buffer.h`, `replay_runner.cpp`) | ring, `sink_done`, counters, sink thread | `emit_event`, `try_push`, `try_pop`, sink loop, join | bounded FIFO, no race on a slot, nothing unaccounted for, shutdown ends |
| CSV reader (`csv_reader.cpp`) | line number, accepted ticks | `read_all`, `parse_line` | fail fast, at the first row that does not belong into the file |
| Process entry (`main.cpp`, `fill_logger.cpp`) | persistence stream, failure reasons, exit status | `main`, `LoggingEventSink::consume` | status 0 only for a complete journal; bad input destroys nothing |
| Latency statistics (`latency_stats.cpp`) | samples, capacity, overflow count | `initialize`, `record`, `summarize` | capacities do not wrap; percentiles are nearest-rank |
| Benchmark (`bench_replay.cpp`) | aggregate collectors, checksums, CSV stream | warm-ups, trials, summaries, verdict | "ok" only for lossless replays of one event stream |
| Thread pools (`interview/thread_pool`) | queue, workers, `accepting_` | `submit`, `worker_loop`, `shutdown` | accepted tasks run, shutdown drains and returns |

The replay thread calls the gateway first (`on_tick` returns a batch of at most
four venue events), applies each event to the OMS and each fill to accounting,
asks for a cancel of an aged passive order, and then lets strategy and risk
decide on one new order. Everything but the sink is sequential; the gateway is
still a remote party in effect, because its answers are delayed by simulated
latencies and are overtaken by fills. What is hard here is therefore:

- events that cross: a fill after a cancel request, a cancel answer after a
  fill, several answers due on one tick, ticks with equal times;
- two records of one order, in the OMS and in the gateway, that must agree;
- events the OMS must survive from a venue it does not control: duplicated,
  late, forged, addressed to another order;
- the lock-free ring, two threads, and a shutdown that must neither hang nor
  lose events, on the returning and on the throwing path;
- integer division in average prices, positions that flip;
- counts that several places keep of the same thing: fills, cancels, samples and
  the capacities computed for them in advance;
- a buffered journal whose failures show late, at a flush or never;
- a condition variable that is notified after the lock is released.

`PROJECT.json` lists these as hazards, each at its line with the properties
that would catch it.

## Modules

| Module | Models | Extends |
|---|---|---|
| `TradingTypes` | sides, styles, OMS states, venue events | |
| `OrderManager` | the OMS as pure functions on the order (`event_outcome`, `order_after`, `fill_out`, `submitted`, `cancel_requested`) | `TradingTypes` |
| `HostileVenue` | the OMS driven by a venue that may send any event at any time | `OrderManager` |
| `ExecutionSimulator` | matching, the resting order, its queue and its cancel | `TradingTypes` |
| `MockVenueGateway` | the gateway over the simulator, with its batch | `OrderManager`, `ExecutionSimulator` |
| `TradeDecision` | strategy and risk check | `TradingTypes` |
| `ReplayRunner` | the loop that composes gateway, OMS, position, decision | `MockVenueGateway`, `TradeDecision` |
| `ReplayProperties` | what the loop promises; the mapping to `TradingDesk` | `ReplayRunner` |
| `TradingDesk` | abstract: a position and an exposure that never pass a limit | |
| `ReplayResult` | the counters, execution statistics and collectors that `run_replay` reports | `ReplayProperties` |
| `Accounting` | `AccountingEngine` with truncating division | `TradingTypes` |
| `SideChannel` | ring buffer, sink thread, shutdown, memory visibility | |
| `EventChannel` | abstract: a bounded FIFO that may drop at the entrance | |
| `LatencyStats` | a collector and its estimators, with `size_t` of finite width | |
| `BenchReplay` | the benchmark over `run_replay` as a black box | `LatencyStats` |
| `TradingMain` | arguments, `read_all`, persistence, exit status | |
| `ThreadPool` | the C++ and the Python thread pool | |
| `MC*` | instances for TLC | |
| `OrderManagerProofs`, `HostileVenueProofs`, `ReplayRunnerProofs`, `AccountingProofs`, `SideChannelProofs`, `BenchReplayProofs`, `TradingMainProofs`, `ThreadPoolProofs` | theorems on the modules of these names; `ReplayRunnerProofs` has those on `ReplayProperties`, `TradingDesk` and `ReplayResult` too, `BenchReplayProofs` those on `LatencyStats` | |

Definitions keep the source's names; `map` in `PROJECT.json` gives the lines.
Definitions named `x_something` above a definition `x` are faulty variants of
`x`, used to see that a property notices the fault.

How state and actions correspond to the code:

- **OrderManager / HostileVenue.** `order` is `ManagedOrder` without
  `client_order_id` and `limit_price`, which the OMS stores and never reads. The
  actions are `submit_new`, `request_cancel` and `on_venue_event`, accepted or
  refused. `executed` adds up `fill_out`, the only thing accounting is given.
- **Gateway and simulator.** A record each; an inactive record is reset to its
  initial value, since the code reads nothing of it while `active` is false.
  The rules "every third client id is rejected" and "odd venue ids reject their
  first cancel" are kept. Each operation also says which `ExecutionStats` it
  counts (`counted`), stale and adverse fills included.
- **ReplayRunner.** One iteration is `NextTick` (the gateway's whole
  `on_tick`), one `HandleVenueEvent` for each event of the batch, `KeepOrder` or
  `RequestCancel`, and one of `NoSignal`, `RiskReject`, `LocalReject`, `Submit`.
  Accounting is reduced to `net_qty`, the only field the loop reads. The journal
  is reduced to what its reader knows of the OMS. `opened` is a history variable.
  `Epoch` is the time before the first tick: the passive runs use -1, since the
  reader accepts negative times and the cancel clock uses -1 for "none".
  `Submit` keeps the branch in which the gateway refuses an order the OMS took;
  the proof (`SubmitKeepsInv`) shows that it is never taken: when the OMS accepts
  an order, this gateway is not busy.
- **ReplayResult.** The same steps, each with the counters it increments, the
  statistics of the simulator and the `record` calls of the six collectors.
  `overflowed` compares with the capacity `run_replay` computes from the number
  of ticks.
- **Accounting.** `apply_fill` and `mark_to_market`, each with its trailing
  `refresh_derived`. `trunc_div` truncates toward zero as C++ does.
- **SideChannel.** The full and empty tests, payload copy, cursor store and
  `consume` are steps of their own. A store with release becomes visible to the
  other thread later (`SeeHead`, `SeeTail`, `SeeDone`), in order; seeing
  `sink_done` makes visible the `head_` stored before it. `head` and `tail` are
  counts, compared through the index modulo `capacity_` as in the code.
  `consume` may fail at any event.
- **LatencyStats / BenchReplay.** Every sum and product wraps at `SizeMax`. Of
  the samples only their number is kept: a summary is a choice of positions in
  the sorted samples. A replay may deliver any checksum, overflow a collector or
  drop events; whether replays agree is what the benchmark finds out. `history`
  records what really happened in every warm-up and every trial, whatever the
  code's own tests make of it, to compare the verdict with. An eventful input
  fills every collector; a quiet one gives one sample a tick to `execution`,
  `strategy` and `end_to_end` and none to the others.
- **TradingMain.** One action per line that is read, then opening (which
  truncates the file), writes to a buffered stream, the replay's return, the
  flush. A row is a sequence of fields that are integers, empty or junk. A write
  may stay in the buffer, reach the disk or fail.
- **ThreadPool.** A critical section is one step; `notify_one` and `notify_all`
  come after the lock is released and are steps of their own. A worker sleeps
  only with the predicate tested under the lock, and may wake spuriously. Python
  tasks may be canceled while they are queued.

## Runs

| Run | Shows | Instance |
|---|---|---|
| `oms_hostile_venue` | quantities, executions and identity of the order survive any venue | quantities up to 3, venue ids and fill quantities on both sides of every comparison (negative, zero, too large) |
| `oms_rejected_leaves` | **violation** of SPEC.md's "A terminal order has `leaves_qty == 0`" | same |
| `replay_aggressive` | OMS and gateway agree at every tick boundary, no event is refused or lost, risk is bounded | 9 ticks, 7 quotes, gaps {0,1} |
| `replay_passive` | the loop implements `TradingDesk`; position and journal follow the OMS; the only refused events are answers to overtaken cancels, and the only late answer is a CancelAck behind a fill | 7 ticks, 7 quotes, gaps {0,1,4}, latencies 1, 1, 5 |
| `replay_agreement` | **violation** of SPEC.md's agreement on liveness, passive orders | as `replay_passive` |
| `replay_event_budget` | **violation** of SPEC.md's "up to four emitted events per tick": the event collector overflows and a healthy run is reported as failed | aggressive, 9 ticks, 37 events |
| `replay_result` | counters, statistics and collectors add up; no collector but that of the events runs out of room | 7 passive ticks, latencies 1, 1, 2 |
| `accounting` | books reconcile; basis stays within the prices that can be traded; reducing keeps the average; only closing realizes | small prices and quantities whose averages do not divide evenly |
| `side_channel` | ring, sink and shutdown implement `EventChannel`; no slot race; every event is accounted for; `run_replay` ends | capacity 2, 6 events |
| `benchmark` | capacities never wrap, aggregates hold every trial, "ok" means one event stream and no loss in any warm-up or trial, percentiles are nearest-rank | 20-bit `size_t`, every input of 1 to 1100 ticks, four larger loads |
| `trading_main` | status 0 means a complete journal of the whole input; the first offending line is the one reported; bad input leaves the old journal alone | all files of up to 3 rows out of 12, read errors after every line, 3 events |
| `thread_pools` | accepted tasks are served, before and through a shutdown, and shutdown returns | 2 workers, 3 submitters, 1 nested task, both languages |

Bounds. `MaxTicks` is the input's length. Seven passive ticks are enough for an
order to be sent, acknowledged, aged, canceled, filled twice while the cancel is
under way and answered, and for a next order; nine aggressive ticks reach the
third client id (rejected) and an order after it. The quotes have buy, sell and
no-signal markets, locked and open ones, with quantities below, at and above the
order's. The latencies keep the order of the code's defaults (200, 200, 1000 ns:
the venue's cancel is slower than the two sends), and the gaps are below, at and
above them, 0 included. `OrderQty = 3` allows two partial fills before the last;
`MaxAbsPosition = 4` lets one order pass and refuses the second. Capacity 2
makes three slots, and six events go around the ring twice.

A `size_t` of 20 bits (`SizeMax = 1048575`) is the smallest round width at which
`(n % 1000) * 999` still fits, as it does in 64 bits, while `n * 999` wraps from
1050 samples on: 1100 ticks give up to 4400 samples, enough for that and for
every remainder. 65 trials of 16383 ticks wrap to a product below `SamplesMax`;
17 trials of 16383 ticks do not, but four events for each of them wrap to 65468,
so the check in `initialize` has to refuse them; and 16384 ticks exceed
`SamplesMax` by one in the event collector. Three rows
tell a comparison with the previous row from one with the first. The 12 rows are
good ones of three times and two symbols and one for each kind of defect. Two
workers are needed for one to sleep through a notification meant for both; the
nested task is submitted by a worker, also during the drain. Nine ticks are the
shortest aggressive input that overflows the event collector.

Fairness is used in two runs. `side_channel`: weak fairness of the replay thread
and of the sink thread, which the operating system schedules (neither blocks on a
lock, and the sink yields), and of each store's becoming visible, which C++ asks
of atomics "in a finite period of time". The input is finite (`MaxEvents`).
Nothing is assumed of the sink's writes: they may all fail. `thread_pools`: weak
fairness of each worker, of each pending `notify_one`, of `notify_all` and of the
join; a worker holds the lock only for a bounded time, and a task that runs ends.
Nothing is assumed of submitters, of cancellation, of spurious wakeups, or that
anybody calls `shutdown`.

The runner ends in a state that stutters (`Returned`, `Ended`), so deadlock is
checked in every run.

## Proofs

Every invariant and action property of the passing runs, and both refinements,
are proved for every value of the constants that the named assumptions of the
modules admit. Each proof has an inductive invariant, one lemma per action that
preserves it, and theorems that read the properties off it. The integers are
unbounded, except the sizes in `LatencyStats`.

- **`OrderManagerProofs`** has the lemmas on the OMS's functions: each event
  keeps `ConsistentOrder`, a refused event changes nothing, a fill adds what it
  hands out. The hostile venue and the loop both use them.
- **`HostileVenueProofs`**, for all quantities, ids and prices. The inductive
  invariant is `HostileInv`: the types, `QuantitiesConsistent` (what each state
  says of cum and leaves) and `ExecutedIsCum`. None is inductive alone: that
  leaves never goes below zero needs the fill's validation, and that needs
  `cum + leaves = order_qty`, which only the states before the end satisfy. From
  it follow `HostileTypeCorrect`, `QuantitiesAlwaysConsistent`,
  `NeverOverfilled` and the action property `OneOrderAtATime`.
- **`ReplayRunnerProofs`**, the loop, for every set of quotes and gaps, all
  latencies, limits, order sizes and thresholds, and inputs of any length.
  `GatewayAgreesWithOms` holds at tick boundaries only: inside a tick the gateway
  has finished while the OMS still has to hear of it. `LoopInv` therefore says
  what the OMS *will* be once it has heard the rest of the batch,
  `Agreement(HeardAll(OmsView, batch), gateway)`. `NextTick` establishes it for
  every batch `on_tick` can produce (at most three events, `BatchIsLargeEnough`),
  and `HandleVenueEvent` keeps it because it moves an event from the future into
  the past. The other conjuncts are the types, position, journal, the cancel
  clock, that no ack or cancel to forward is overdue, and the limit. From
  `LoopInv` follow the invariants of `ReplayProperties`; `AnswersAreOnTime` needs
  `LateCancelAckOvertaken` too, which is inductive on top of `LoopInv`
  (`OvertakenStep`): a cancel that took effect outlives a tick of the simulator
  only behind a fill, and then the queue ahead is used up and the tick still
  trades with the order. `LiveAgreement` and `EveryEventApplied` are proved under
  `Style = "Aggressive"`, because they fail for passive orders (finding 2).
  `StrandingNeedsTheRace` shows for every input that finding 2's race is the only
  way to lose an order.
- The **refinement** `ReplayIsADesk`: under `LoopInv` every step of the loop is a
  step of `TradingDesk` or a stutter. `DeskIsSafe` proves the bound on the risk
  from the desk alone.
- The **report** (`ReportInvariant`, in the same module): `ResultInv` on top of
  `LoopInv`. The counters do not agree in the middle of a tick, so the invariant
  says by how much they differ: by the fills still in the batch, by a cancel that
  is pending, by the order in work and by the tick that is open. `ReportAddsUp`
  and `CollectorsAreLargeEnough` follow; the latter leaves out the event
  collector, which does overflow (finding 3).
- **`AccountingProofs`**, for every set of positive prices with a lowest and a
  highest (as int64 prices have) and all quantities. `BookInv` is the types and
  the equations that `refresh_derived` establishes; `BooksReconcile` and
  `RealizedOnlyWhenClosing` follow. `BasisInv` adds that the cost of an open
  position has its sign and lies between the position at the lowest and at the
  highest price. The bound on the average is not inductive by itself, since a
  partial close truncates the cost; the bound on the cost survives that, and
  yields `BasisStaysWithinPrices`. `ReducingKeepsAverage` shows that what is
  truncated from the cost never moves the quotient.
- **`SideChannelProofs`**, for every capacity and number of events. `SideInv` has
  the types and the order of the cursors and of each thread's view of the other's
  cursor (`RingInv`), what the counters add up to at each program point
  (`CountInv`), what `sink_done` and its visibility imply (`ShutdownInv`) and
  which event is in which slot (`ContentInv`). It yields `SlotsAreNotShared`,
  `EventsAreAccountedFor`, `JournalIsComplete` and the refinement of
  `EventChannel`, `SideChannelIsAChannel`.
- **`BenchReplayProofs`**. `SummaryAlwaysCorrect`: for every number of samples up
  to `SamplesMax` and every `SizeMax` of at least 10^6 (`LatencyAssumption`). The
  argument splits `n` into `1000 * q + r`: the rank the code computes is then
  `q * p + ceil(r * p / 1000)`, no part of which can wrap because it never
  exceeds `n` or 1000 * 1000, and this is the nearest rank. `BenchInv` says that
  the collectors hold exactly the trials so far (`CollectorInv`) and that a run
  that goes on has seen one checksum in each mode and no flawed replay
  (`ChecksumInv`); the four properties of
  the run follow for every workload.
- **`TradingMainProofs`**, for files of any length. `MainInv` relates the reader's
  position to the rows it has accepted (`ReadInv`) and the stream's state to what
  is on disk (`JournalInv`). That the line reported is the *first* offending one
  is shown with the least counterexample: the rows below it were all accepted.
- **`ThreadPoolProofs`**, for any finite set of workers, any tasks and both
  languages. `PoolInv`: an accepted task is queued, running or over (`KeptInv`),
  the sentinels come last (`QueueInv`), and a worker leaves only when nothing is
  left to do (`ExitInv`). `ShutdownDrains` follows. The assumption that no task is
  called like a sentinel or a worker's state is about the encoding.

Only model-checked: the liveness properties `ReplayEnds`, `TasksAreServed` and
`ShutdownReturns`, since liveness under fairness is out of the prover's reach.
The three runs that end in a violation are counterexamples, hence TLC's.

## Findings

1. A rejected order keeps `leaves_qty == order_qty`, although SPEC.md asks
   `leaves_qty == 0` of every terminal order (`order_manager.cpp`, NewReject).
2. With passive orders the OMS can stay `PartiallyFilled` for good after the
   gateway closed the order: two partial fills overtake two cancel requests, the
   third request is refused because the second is still under way, and the OMS
   refuses the CancelAck of the first. From then on every new order is rejected
   locally. `StrandedOnlyByCancelRace` shows that this is the only way, and
   `replay_aggressive` that aggressive orders do not have it.
3. A tick can emit five events (to Acked, to PartiallyFilled, the fill, to
   Expired, and the next order's transition), one more than the event collector
   is sized for. Two such ticks out of three are enough: after nine ticks 37
   events were emitted into a collector of 36, `latency_overflow` is set, and
   `main` fails a run in which nothing went wrong.

Two observations that no document contradicts, modelled as they are: the
benchmark skips the final check of its CSV stream when the stream failed earlier
(`bench_replay.cpp:221`) and then still says ok; and a second Python `shutdown`
returns at once, so that leaving a `with` block after `shutdown(wait=False)`
does not wait for the tasks (left out of the model).

## Not modelled

- 64-bit overflow of prices, cash and cost: TLC cannot reach it, the proofs are
  over the integers, and the code states no bound on prices. Sizes do wrap, in
  `LatencyStats`.
- Measured durations, means and the text of any output: no decision reads them.
- The syntax of arguments: `ParseConfig` accepts or refuses.
- Layout utilities (sizes of types) and the input generator (a fixed seed to a
  file): no state that outlives them.
- Thread pools: `shutdown` called by a task (it joins itself and the `noexcept`
  function terminates the process), a second `shutdown`, moved-from futures.

## Plan

Done, in this order: the OMS and its proofs; gateway, simulator and loop; the
abstract desk; accounting and its proofs; the side channel; execution statistics
and the replay's result; collectors, benchmark and their proof; input, journal
and exit status; the thread pools; the proofs of the loop, of both refinements,
of the report and of the remaining components.

Next:

1. A tick emits at most five events, for every input: the bound that a collector
   of sufficient size would need (finding 3).
2. Bounds on prices and quantities under which no sum or product of the
   accounting leaves int64, from `BasisInv`.
3. Shorter proofs of the loop and of its report: lemmas that several actions
   share.
