---------------------------- MODULE LatencyStats ----------------------------
(***************************************************************************)
(* llt::LatencyStats: a collector with a capacity fixed before the replay, *)
(* and the nearest-rank estimators of its summary.  std::size_t wraps at   *)
(* SizeMax.  Of the samples the model keeps how many there are: a summary  *)
(* is a choice of positions in the sorted samples, counted from 0.         *)
(***************************************************************************)
EXTENDS Integers

CONSTANTS
  SizeMax,      \* the largest std::size_t
  SamplesMax    \* samples_.max_size()

ASSUME LatencyAssumption ==
  /\ SizeMax \in Nat
  /\ SizeMax >= 1000 * 1000
  /\ SamplesMax \in 1 .. SizeMax

wrap(x) == x % (SizeMax + 1)

Collector == [capacity : Nat, sample_count : Nat, overflow_count : Nat]

\* initialize throws when this is false.
initialize_accepts(tick_count, max_per_tick) ==
  /\ max_per_tick # 0
  /\ tick_count <= SizeMax \div max_per_tick
  /\ wrap(tick_count * max_per_tick) <= SamplesMax

initialized(tick_count, max_per_tick) ==
  [capacity |-> wrap(tick_count * max_per_tick), sample_count |-> 0,
   overflow_count |-> 0]

\* The collector after k calls of record: what does not fit is counted.
recorded(s, k) ==
  LET room == s.capacity - s.sample_count
      kept == IF k <= room THEN k ELSE room
  IN [s EXCEPT !.sample_count = @ + kept, !.overflow_count = @ + (k - kept)]

\* Mutant of percentile_rank: ceil(n * p) as it is usually written.
percentile_rank_product(n, permille) ==
  wrap(wrap(n * permille) + 999) \div 1000

percentile_rank(n, permille) ==
  wrap(wrap((n \div 1000) * permille)
         + (wrap(wrap((n % 1000) * permille) + 999) \div 1000))

percentile_index_permille(n, permille) ==
  IF n = 0 \/ percentile_rank(n, permille) = 0 THEN 0
  ELSE percentile_rank(n, permille) - 1

tail_count_for_top_percent(n, percent) ==
  LET tail_count == wrap(wrap((n \div 100) * percent)
                           + (wrap(wrap((n % 100) * percent) + 99) \div 100))
  IN IF n = 0 THEN 0 ELSE IF tail_count = 0 THEN 1 ELSE tail_count

p99_min_samples == 100

p99_9_min_samples == 1000

\* The summary of n > 0 samples; the mean over the tail begins at tail_start.
summarize(n) ==
  [p50 |-> percentile_index_permille(n, 500),
   p99 |-> percentile_index_permille(n, 990),
   p99_9 |-> percentile_index_permille(n, 999),
   has_p99 |-> n >= p99_min_samples,
   has_p99_9 |-> n >= p99_9_min_samples,
   tail_start |-> n - (IF n >= p99_min_samples
                       THEN tail_count_for_top_percent(n, 1) ELSE 0)]

\* Position i holds the nearest-rank percentile of n samples: the smallest
\* one that at least permille thousandths of them do not exceed.
NearestRank(i, n, permille) ==
  /\ i \in 0 .. n - 1
  /\ 1000 * (i + 1) >= n * permille
  /\ 1000 * i < n * permille

\* What a summary of n samples must say: percentiles are nearest-rank, their
\* order is kept, and the tail mean averages the slowest ceil(n / 100)
\* samples, none of them below the p99 that is reported next to it.
SummaryCorrect(n) ==
  LET s == summarize(n)
  IN /\ NearestRank(s.p50, n, 500)
     /\ s.has_p99 =>
          /\ NearestRank(s.p99, n, 990)
          /\ 100 * (n - s.tail_start) >= n
          /\ 100 * (n - s.tail_start - 1) < n
          /\ s.p99 <= s.tail_start
          /\ s.p50 <= s.p99
     /\ s.has_p99_9 => NearestRank(s.p99_9, n, 999) /\ s.p99 <= s.p99_9
=============================================================================
