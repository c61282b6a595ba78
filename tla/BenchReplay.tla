----------------------------- MODULE BenchReplay -----------------------------
(***************************************************************************)
(* bench_replay: warm-up and measured replays of one input in both sink    *)
(* modes, the aggregate collectors and the verdict of the process.         *)
(*                                                                         *)
(* run_replay is a black box here: whether its events are the same every   *)
(* time is what the benchmark finds out, so every replay may deliver any   *)
(* checksum, overflow a collector and, when asynchronous, drop events.     *)
(* ChecksumSink never fails, and the venue batch never overflows           *)
(* (NoBatchOverflow).  The samples of a replay depend on the input, which  *)
(* fills each collector completely or never trades.                        *)
(***************************************************************************)
EXTENDS LatencyStats

CONSTANTS
  Workloads,   \* ticks of the input, --warmup and --measured
  Checksums    \* what ChecksumSink may compute

ASSUME BenchAssumption ==
  Workloads \subseteq [ticks : Nat \ {0}, warmup : Nat \ {0},
                       measured : Nat \ {0}]

VARIABLES
  load,        \* the workload of this process
  eventful,    \* the input makes every tick trade, or none
  pc,          \* "start", "warmup", "trials", "summary" or "exit"
  mode,        \* "sync", then "async"
  done,        \* warm-ups or trials of this mode so far
  aggregate,   \* the collectors of this mode
  checksum,    \* reference checksum of each mode
  csv,         \* the CSV output stream
  status,      \* exit status
  history      \* what happened, whether the code looked at it or not: the
               \* checksums measured, a flawed replay, an append that threw

benchVars ==
  <<load, eventful, pc, mode, done, aggregate, checksum, csv, status, history>>

Collectors ==
  {"strategy", "risk", "execution", "accounting", "event_sink", "end_to_end"}

\* The sizes run_replay gives its collectors.
ReplayPerTick ==
  [c \in Collectors |-> CASE c = "execution"  -> 2
                          [] c = "event_sink" -> 4
                          [] OTHER            -> 1]

\* Mutant of AggregatePerTick: one execution sample per tick.
AggregatePerTick_stale ==
  [c \in Collectors |-> IF c = "event_sink" THEN 4 ELSE 1]

\* The sizes initialize_aggregates gives its own.
AggregatePerTick ==
  [c \in Collectors |-> CASE c = "execution"  -> 2
                          [] c = "event_sink" -> 4
                          [] OTHER            -> 1]

\* source.samples(): never more than the replay's collector holds.  A tick
\* without a signal has one sample of on_tick (execution), of the strategy and
\* of the whole tick.
ReplaySamples(c) ==
  IF eventful THEN ReplayPerTick[c] * load.ticks
  ELSE IF c \in {"execution", "strategy", "end_to_end"} THEN load.ticks ELSE 0

\* run_replay throws before the first tick when a collector is too large.
ReplayStarts ==
  \A c \in Collectors : initialize_accepts(load.ticks, ReplayPerTick[c])

-----------------------------------------------------------------------------

BenchInit ==
  /\ load \in Workloads
  /\ eventful \in BOOLEAN
  /\ pc = "start"
  /\ mode = "sync"
  /\ done = 0
  /\ aggregate = <<>>
  /\ checksum = <<>>
  /\ csv = "unopened"
  /\ status = "running"
  /\ history = [sums |-> {}, flawed |-> FALSE, append_thrown |-> FALSE]

Exit(verdict) ==
  /\ pc' = "exit"
  /\ status' = verdict

\* The options, the input, the hash or the opening of the output fail, or the
\* measurements begin.  Without --emit-csv the stream is never opened.
Start ==
  /\ pc = "start"
  /\ UNCHANGED <<load, eventful, mode, done, aggregate, checksum, history>>
  /\ \/ Exit("failed") /\ csv' \in {"unopened", "good", "failed"}
     \/ /\ pc' = "warmup"
        /\ csv' \in {"unopened", "good", "failed"}
        /\ UNCHANGED status

\* What may be wrong with a replay that returned.
Flaws ==
  {"none", "latency_overflow"} \cup
    IF mode = "async" THEN {"dropped_events"} ELSE {}

warmup_valid(flaw) == flaw = "none"

WarmUp(flaw) ==
  /\ pc = "warmup"
  /\ done < load.warmup
  /\ UNCHANGED <<load, eventful, mode, aggregate, checksum, csv>>
  /\ history' = [history EXCEPT !.flawed = @ \/ (ReplayStarts /\ flaw # "none")]
  /\ IF ReplayStarts /\ warmup_valid(flaw)
     THEN done' = done + 1 /\ UNCHANGED <<pc, status>>
     ELSE Exit("failed") /\ UNCHANGED done

\* Mutant of aggregate_ticks_fit: the product is not checked.
aggregate_ticks_fit_unchecked == TRUE

aggregate_ticks_fit == load.ticks <= SizeMax \div load.measured

aggregate_ticks == wrap(load.ticks * load.measured)

InitializeAggregates ==
  /\ pc = "warmup"
  /\ done = load.warmup
  /\ done' = 0
  /\ UNCHANGED <<load, eventful, mode, checksum, csv, history>>
  /\ IF /\ aggregate_ticks_fit
        /\ \A c \in Collectors :
             initialize_accepts(aggregate_ticks, AggregatePerTick[c])
     THEN /\ aggregate' = [c \in Collectors |->
                             initialized(aggregate_ticks, AggregatePerTick[c])]
          /\ pc' = "trials"
          /\ UNCHANGED status
     ELSE Exit("failed") /\ UNCHANGED aggregate

appended(agg) == [c \in Collectors |-> recorded(agg[c], ReplaySamples(c))]

\* Mutant of trial_valid: dropped events are not looked at.
trial_valid_with_drops(flaw) == flaw # "latency_overflow"

trial_valid(flaw) == flaw = "none"

\* A trial is refused when it is flawed or its checksum differs from the
\* first trial's; an accepted one is appended, which throws when a sample
\* finds no room.
Trial(flaw, sum) ==
  LET reference == IF done = 0 THEN sum ELSE checksum[mode]
      accepted  == trial_valid(flaw) /\ sum = reference
      overflow  == \E c \in Collectors : appended(aggregate)[c].overflow_count > 0
  IN /\ pc = "trials"
     /\ done < load.measured
     /\ done' = done + 1
     /\ UNCHANGED <<load, eventful, mode, csv>>
     /\ history' = [history EXCEPT !.sums = @ \cup {sum},
                                   !.flawed = @ \/ flaw # "none",
                                   !.append_thrown = accepted /\ overflow]
     /\ IF ~accepted
        THEN Exit("failed") /\ UNCHANGED <<aggregate, checksum>>
        ELSE /\ aggregate' = appended(aggregate)
             /\ checksum' = [m \in DOMAIN checksum \cup {mode} |->
                               IF m = mode THEN reference ELSE checksum[m]]
             /\ IF overflow THEN Exit("failed") ELSE UNCHANGED <<pc, status>>

\* The six rows of a mode go to the stream if it looks good; a stream that was
\* never opened does, and fails on the first row.
rows_written(stream) ==
  CASE stream = "good"     -> {"good", "failed"}
    [] stream = "unopened" -> {"failed"}
    [] stream = "failed"   -> {"failed"}

Summarize ==
  /\ pc = "trials"
  /\ done = load.measured
  /\ pc' = "summary"
  /\ csv' \in rows_written(csv)
  /\ UNCHANGED <<load, eventful, mode, done, aggregate, checksum, status, history>>

NextMode ==
  /\ pc = "summary"
  /\ mode = "sync"
  /\ mode' = "async"
  /\ pc' = "warmup"
  /\ done' = 0
  /\ aggregate' = <<>>
  /\ UNCHANGED <<load, eventful, checksum, csv, status, history>>

side_channel_equivalent == checksum["sync"] = checksum["async"]

\* The verdict.  The flush is tried, and its failure reported, only while the
\* stream still looks good.
Verdict ==
  /\ pc = "summary"
  /\ mode = "async"
  /\ csv' \in IF csv = "good" THEN {"good", "failed"} ELSE {csv}
  /\ Exit(IF side_channel_equivalent /\ (csv = "good" => csv' = "good")
          THEN "ok" ELSE "failed")
  /\ UNCHANGED <<load, eventful, mode, done, aggregate, checksum, history>>

Exited == pc = "exit" /\ UNCHANGED benchVars

BenchNext ==
  \/ Start
  \/ \E flaw \in Flaws : WarmUp(flaw)
  \/ InitializeAggregates
  \/ \E flaw \in Flaws, sum \in Checksums : Trial(flaw, sum)
  \/ Summarize
  \/ NextMode
  \/ Verdict
  \/ Exited

BenchSpec == BenchInit /\ [][BenchNext]_benchVars

-----------------------------------------------------------------------------

\* A collector is as large as the arithmetic says: no product of ticks,
\* trials and samples per tick ever wraps around to a small capacity.
CapacityExact ==
  \A c \in DOMAIN aggregate :
    /\ aggregate[c].capacity
         = load.ticks * load.measured * AggregatePerTick[c]
    /\ aggregate[c].capacity <= SamplesMax

\* The aggregate collectors hold the samples of every trial that was
\* accepted: append never throws, although it copies sizes that run_replay
\* states elsewhere.
AggregatesHoldEveryTrial == ~history.append_thrown

\* benchmark_status=ok is said only of measurements of the same events: every
\* measured replay of both modes delivered one event stream, and no replay,
\* warm-up or measured, dropped an event or overflowed a collector.
OkMeansSameEvents ==
  status = "ok" => /\ \E sum \in Checksums : history.sums = {sum}
                   /\ ~history.flawed

\* The summary of every collector with samples that a mode prints is their
\* nearest-rank summary, also where a plain product would wrap.
EstimatorsMatchReference ==
  pc = "summary" =>
    \A c \in Collectors : aggregate[c].sample_count > 0
                            => SummaryCorrect(aggregate[c].sample_count)
=============================================================================
