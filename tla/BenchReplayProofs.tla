-------------------------- MODULE BenchReplayProofs ---------------------------
(***************************************************************************)
(* Proofs about LatencyStats and the benchmark that uses it.  The          *)
(* estimators compute what they are documented to, for every number of     *)
(* samples a std::size_t can hold and every width of it from 20 bits on:   *)
(* splitting n into quotient and remainder never wraps.  The benchmark     *)
(* sizes its collectors exactly, fills them without loss, and says ok only *)
(* of one event stream, for every workload (BenchInv).                     *)
(***************************************************************************)
EXTENDS BenchReplay, TLAPS

\* Arithmetic below the width of std::size_t does not wrap.
LEMMA NoWrap ==
  ASSUME NEW x \in 0 .. SizeMax
  PROVE  wrap(x) = x
  BY LatencyAssumption DEF wrap

\* Division with remainder by the constants the code divides by.
LEMMA Split1000 ==
  ASSUME NEW n \in Nat
  PROVE  /\ n \div 1000 \in Nat
         /\ n % 1000 \in 0 .. 999
         /\ n = 1000 * (n \div 1000) + (n % 1000)
  OBVIOUS

\* The same, by 100.
LEMMA Split100 ==
  ASSUME NEW n \in Nat
  PROVE  /\ n \div 100 \in Nat
         /\ n % 100 \in 0 .. 99
         /\ n = 100 * (n \div 100) + (n % 100)
  OBVIOUS

\* percentile_rank without wrapping, for the three percentiles reported.
LEMMA RankDoesNotWrap ==
  ASSUME NEW n \in 0 .. SizeMax, NEW p \in {500, 990, 999}
  PROVE  percentile_rank(n, p)
           = (n \div 1000) * p + (((n % 1000) * p + 999) \div 1000)
  <1> DEFINE q == n \div 1000
             r == n % 1000
  <1>1. q \in Nat /\ r \in 0 .. 999 /\ n = 1000 * q + r
    BY LatencyAssumption, Split1000
  <1> HIDE DEF q, r
  <1>2. /\ q * p \in 0 .. SizeMax
        /\ r * p \in 0 .. SizeMax
        /\ r * p + 999 \in 0 .. SizeMax
        /\ q * p + ((r * p + 999) \div 1000) \in 0 .. SizeMax
    <2>1. CASE p = 500
      BY <1>1, <2>1, LatencyAssumption
    <2>2. CASE p = 990
      BY <1>1, <2>2, LatencyAssumption
    <2>3. CASE p = 999
      BY <1>1, <2>3, LatencyAssumption
    <2> QED
      BY <2>1, <2>2, <2>3
  <1>3. wrap(wrap(q * p) + (wrap(wrap(r * p) + 999) \div 1000))
          = q * p + ((r * p + 999) \div 1000)
    BY <1>2, NoWrap
  <1> QED
    BY <1>3 DEF percentile_rank, q, r

\* The index is the nearest-rank position.
LEMMA IndexIsNearestRank ==
  ASSUME NEW n \in 1 .. SizeMax, NEW p \in {500, 990, 999}
  PROVE  NearestRank(percentile_index_permille(n, p), n, p)
  <1> DEFINE q == n \div 1000
             r == n % 1000
             k == q * p + ((r * p + 999) \div 1000)
  <1>1. q \in Nat /\ r \in 0 .. 999 /\ n = 1000 * q + r
    BY LatencyAssumption, Split1000
  <1>2. percentile_rank(n, p) = k
    <2>1. n \in 0 .. SizeMax
      BY LatencyAssumption
    <2> QED
      BY <2>1, RankDoesNotWrap
  <1> HIDE DEF q, r
  <1>3. k \in 1 .. n /\ 1000 * k >= n * p /\ 1000 * (k - 1) < n * p
    <2>1. CASE p = 500
      BY <1>1, <2>1, LatencyAssumption
    <2>2. CASE p = 990
      BY <1>1, <2>2, LatencyAssumption
    <2>3. CASE p = 999
      BY <1>1, <2>3, LatencyAssumption
    <2> QED
      BY <2>1, <2>2, <2>3
  <1> HIDE DEF k
  <1>4. percentile_index_permille(n, p) = k - 1
    BY <1>2, <1>3, LatencyAssumption DEF percentile_index_permille
  <1> QED
    BY <1>3, <1>4, LatencyAssumption DEF NearestRank

\* The tail is the smallest count that covers one percent of the samples.
LEMMA TailIsOnePercent ==
  ASSUME NEW n \in 1 .. SizeMax
  PROVE  /\ tail_count_for_top_percent(n, 1) \in 1 .. n
         /\ 100 * tail_count_for_top_percent(n, 1) >= n
         /\ 100 * (tail_count_for_top_percent(n, 1) - 1) < n
  <1> DEFINE q == n \div 100
             r == n % 100
             k == q + ((r + 99) \div 100)
  <1>1. q \in Nat /\ r \in 0 .. 99 /\ n = 100 * q + r
    BY LatencyAssumption, Split100
  <1> HIDE DEF q, r
  <1>2. /\ q * 1 = q /\ r * 1 = r
        /\ q \in 0 .. SizeMax
        /\ r \in 0 .. SizeMax
        /\ r + 99 \in 0 .. SizeMax
        /\ k \in 0 .. SizeMax
    BY <1>1, LatencyAssumption
  <1>3. k \in 1 .. n /\ 100 * k >= n /\ 100 * (k - 1) < n
    BY <1>1, LatencyAssumption
  <1>4. wrap(wrap(q * 1) + (wrap(wrap(r * 1) + 99) \div 100)) = k
    BY <1>2, NoWrap
  <1> HIDE DEF k
  <1>5. tail_count_for_top_percent(n, 1) = k
    BY <1>3, <1>4, LatencyAssumption DEF tail_count_for_top_percent, q, r
  <1> QED
    BY <1>3, <1>5

\* Every summary is correct, for every number of samples: the percentiles are
\* nearest-rank and ordered, and the tail mean averages the slowest
\* ceil(n / 100) samples, none of them below the reported p99.
THEOREM SummaryAlwaysCorrect ==
  \A n \in 1 .. SizeMax : SummaryCorrect(n)
  <1> SUFFICES ASSUME NEW n \in 1 .. SizeMax
               PROVE  SummaryCorrect(n)
    OBVIOUS
  <1> DEFINE a == percentile_index_permille(n, 500)
             b == percentile_index_permille(n, 990)
             c == percentile_index_permille(n, 999)
             t == tail_count_for_top_percent(n, 1)
  <1>1. NearestRank(a, n, 500) /\ NearestRank(b, n, 990) /\ NearestRank(c, n, 999)
    BY IndexIsNearestRank
  <1>2. t \in 1 .. n /\ 100 * t >= n /\ 100 * (t - 1) < n
    BY TailIsOnePercent
  <1> HIDE DEF a, b, c, t
  <1>3. a <= b /\ b <= c /\ b <= n - t
    BY <1>1, <1>2, LatencyAssumption DEF NearestRank
  <1> DEFINE s == summarize(n)
  <1>4. /\ s.p50 = a /\ s.p99 = b /\ s.p99_9 = c
        /\ s.has_p99 <=> n >= 100
        /\ s.has_p99_9 <=> n >= 1000
        /\ s.tail_start = n - (IF n >= 100 THEN t ELSE 0)
    BY DEF summarize, p99_min_samples, p99_9_min_samples, a, b, c, t
  <1> HIDE DEF s
  <1>5. NearestRank(s.p50, n, 500)
    BY <1>1, <1>4
  <1>6. s.has_p99 => /\ NearestRank(s.p99, n, 990)
                     /\ 100 * (n - s.tail_start) >= n
                     /\ 100 * (n - s.tail_start - 1) < n
                     /\ s.p99 <= s.tail_start
                     /\ s.p50 <= s.p99
    <2> SUFFICES ASSUME s.has_p99
                 PROVE  /\ NearestRank(s.p99, n, 990)
                        /\ 100 * (n - s.tail_start) >= n
                        /\ 100 * (n - s.tail_start - 1) < n
                        /\ s.p99 <= s.tail_start
                        /\ s.p50 <= s.p99
      OBVIOUS
    <2>1. s.tail_start = n - t
      BY <1>4
    <2> QED
      BY <1>1, <1>2, <1>3, <1>4, <2>1
  <1>7. s.has_p99_9 => NearestRank(s.p99_9, n, 999) /\ s.p99 <= s.p99_9
    BY <1>1, <1>3, <1>4
  <1> QED
    BY <1>5, <1>6, <1>7 DEF SummaryCorrect, s

-----------------------------------------------------------------------------
(* The benchmark *)

\* The mode has no measured trial yet.
Fresh == pc \in {"start", "warmup"} \/ (pc = "trials" /\ done = 0)

BenchTypeOK ==
  /\ load \in Workloads
  /\ eventful \in BOOLEAN
  /\ pc \in {"start", "warmup", "trials", "summary", "exit"}
  /\ mode \in {"sync", "async"}
  /\ done \in Nat

\* Every collector holds the samples of the trials so far, and no sample was
\* refused.
Filled ==
  /\ aggregate \in [Collectors -> Collector]
  /\ \A c \in Collectors :
       /\ aggregate[c].sample_count = done * ReplaySamples(c)
       /\ aggregate[c].overflow_count = 0

CollectorInv ==
  /\ CapacityExact
  /\ pc \in {"start", "warmup"} => aggregate = <<>>
  /\ pc \in {"trials", "summary"} => done <= load.measured /\ Filled
  /\ pc = "summary" => done = load.measured
  /\ AggregatesHoldEveryTrial

\* The modes that have a checksum, and the checksums that were measured.
ChecksumInv ==
  /\ pc # "exit" =>
       /\ DOMAIN checksum = (IF mode = "async" THEN {"sync"} ELSE {})
                              \cup (IF Fresh THEN {} ELSE {mode})
       /\ \A m \in DOMAIN checksum : checksum[m] \in Checksums
       /\ \A sum : sum \in history.sums
                     <=> \E m \in DOMAIN checksum : checksum[m] = sum
       /\ ~history.flawed
  /\ history \in [sums : SUBSET Checksums, flawed : BOOLEAN,
                  append_thrown : {FALSE}]
  /\ status = "ok" => pc = "exit"
  /\ OkMeansSameEvents

\* The inductive invariant.
BenchInv == BenchTypeOK /\ CollectorInv /\ ChecksumInv

\* A product of numbers.
LEMMA ProductNat ==
  ASSUME NEW a \in Nat, NEW b \in Nat
  PROVE  a * b \in Nat
  OBVIOUS

\* Products keep the order.
LEMMA ProductMonotone ==
  ASSUME NEW a \in Nat, NEW b \in Nat, NEW c \in Nat, a <= b
  PROVE  a * c <= b * c
  <1>1. PICK d \in Nat : b = a + d
    <2>1. b - a \in Nat /\ b = a + (b - a)
      OBVIOUS
    <2> QED
      BY <2>1
  <1>2. b * c = a * c + d * c
    BY <1>1
  <1>3. a * c \in Nat /\ d * c \in Nat
    BY ProductNat
  <1> QED
    BY <1>2, <1>3

\* The check of the code before it multiplies: the product does not wrap.
LEMMA DivisionBounds ==
  ASSUME NEW a \in Nat, NEW b \in Nat, NEW M \in Nat, b > 0, a <= M \div b
  PROVE  a * b \in 0 .. M
  <1> DEFINE q == M \div b
             r == M % b
  <1>1. q \in Nat /\ r \in 0 .. b - 1 /\ M = b * q + r
    OBVIOUS
  <1> HIDE DEF q, r
  <1>2. a * b <= q * b
    BY <1>1, ProductMonotone DEF q
  <1>3. q * b = b * q /\ a * b \in Nat /\ b * q \in Nat
    BY <1>1
  <1> QED
    BY <1>1, <1>2, <1>3

\* The two places that state the samples per tick agree.
LEMMA SamplesPerTick ==
  ASSUME NEW c \in Collectors
  PROVE  /\ AggregatePerTick[c] = ReplayPerTick[c]
         /\ AggregatePerTick[c] \in Nat /\ AggregatePerTick[c] >= 1
  BY DEF AggregatePerTick, ReplayPerTick

\* A replay fills its collector at most.
LEMMA SamplesOfAReplay ==
  ASSUME BenchTypeOK, NEW c \in Collectors
  PROVE  /\ ReplaySamples(c) \in Nat
         /\ ReplaySamples(c) <= load.ticks * AggregatePerTick[c]
         /\ load.ticks \in Nat /\ load.measured \in Nat
         /\ load.ticks >= 1 /\ load.measured >= 1
         /\ load.warmup \in Nat
  <1> DEFINE n == load.ticks
             p == AggregatePerTick[c]
  <1>1. /\ n \in Nat /\ n >= 1
        /\ load.measured \in Nat /\ load.measured >= 1 /\ load.warmup \in Nat
    BY BenchAssumption DEF BenchTypeOK
  <1>2. p \in Nat /\ p >= 1 /\ ReplayPerTick[c] = p
    BY SamplesPerTick
  <1>3. ReplaySamples(c) \in {p * n, n, 0}
    BY <1>2 DEF ReplaySamples
  <1> HIDE DEF n, p
  <1>4. n * p \in Nat /\ p * n = n * p /\ n <= n * p
    <2>1. 1 * n <= p * n
      BY <1>1, <1>2, ProductMonotone
    <2>2. n * p \in Nat /\ 1 * n = n /\ p * n = n * p
      BY <1>1, <1>2
    <2> QED
      BY <2>1, <2>2
  <1> QED
    BY <1>1, <1>3, <1>4 DEF n, p

\* A collector with room takes all samples.
LEMMA RecordedFits ==
  ASSUME NEW s \in Collector, NEW k \in Nat,
         s.sample_count + k <= s.capacity
  PROVE  /\ recorded(s, k) \in Collector
         /\ recorded(s, k).capacity = s.capacity
         /\ recorded(s, k).sample_count = s.sample_count + k
         /\ recorded(s, k).overflow_count = s.overflow_count
  <1>1. k <= s.capacity - s.sample_count
    BY DEF Collector
  <1> DEFINE n == s.sample_count + k
             t == [s EXCEPT !.sample_count = n]
             u == [t EXCEPT !.overflow_count = @ + (k - k)]
  <1>2. recorded(s, k) = u
    BY <1>1 DEF recorded
  <1>3. n \in Nat
    BY DEF Collector
  <1> HIDE DEF n
  <1>4. /\ t \in Collector /\ t.capacity = s.capacity /\ t.sample_count = n
        /\ t.overflow_count = s.overflow_count
    BY <1>3 DEF Collector
  <1> HIDE DEF t
  <1>5. t.overflow_count + (k - k) = t.overflow_count
    BY <1>4 DEF Collector
  <1>6. /\ u \in Collector /\ u.capacity = t.capacity
        /\ u.sample_count = t.sample_count
        /\ u.overflow_count = t.overflow_count
    BY <1>4, <1>5 DEF Collector
  <1> QED
    BY <1>2, <1>4, <1>6 DEF n

\* Steps that measure nothing.
LEMMA StartInv ==
  ASSUME BenchInv, Start
  PROVE  BenchInv'
  <1> USE DEF BenchInv, Start, Exit
  <1>1. BenchTypeOK'
    BY DEF BenchTypeOK
  <1>2. CollectorInv'
    BY DEF CollectorInv, CapacityExact, AggregatesHoldEveryTrial
  <1>3. ChecksumInv'
    BY DEF ChecksumInv, Fresh, OkMeansSameEvents
  <1> QED
    BY <1>1, <1>2, <1>3

\* A flawed warm-up ends the process.
LEMMA WarmUpInv ==
  ASSUME BenchInv, NEW flaw \in Flaws, WarmUp(flaw)
  PROVE  BenchInv'
  <1> USE DEF BenchInv, WarmUp, Exit
  <1>1. BenchTypeOK'
    BY DEF BenchTypeOK
  <1>2. /\ history' \in [sums : SUBSET Checksums, flawed : BOOLEAN,
                         append_thrown : {FALSE}]
        /\ history'.sums = history.sums
        /\ pc' # "exit" => ~history'.flawed
    BY DEF ChecksumInv, warmup_valid
  <1>3. CollectorInv'
    BY <1>2 DEF CollectorInv, CapacityExact, AggregatesHoldEveryTrial
  <1>4. ChecksumInv'
    BY <1>2 DEF ChecksumInv, Fresh, OkMeansSameEvents
  <1> QED
    BY <1>1, <1>3, <1>4

\* The collectors are as large as the products say, since no product wraps.
LEMMA InitializeInv ==
  ASSUME BenchInv, InitializeAggregates
  PROVE  BenchInv'
  <1> USE DEF BenchInv, InitializeAggregates, Exit
  <1>1. BenchTypeOK'
    BY DEF BenchTypeOK
  <1>2. ChecksumInv'
    BY DEF ChecksumInv, Fresh, OkMeansSameEvents
  <1>3. CollectorInv'
    <2>1. CASE /\ aggregate_ticks_fit
               /\ \A c \in Collectors :
                    initialize_accepts(aggregate_ticks, AggregatePerTick[c])
      <3> DEFINE n == load.ticks * load.measured
                 size(c) == n * AggregatePerTick[c]
      <3>1. n \in 0 .. SizeMax
        <4>1. /\ load.ticks \in Nat /\ load.measured \in Nat
              /\ load.measured > 0
          BY BenchAssumption DEF BenchTypeOK
        <4> QED
          BY <2>1, <4>1, LatencyAssumption, DivisionBounds
             DEF aggregate_ticks_fit
      <3>2. aggregate_ticks = n
        BY <3>1, NoWrap DEF aggregate_ticks
      <3> HIDE DEF n
      <3>3. \A c \in Collectors :
              /\ size(c) \in Nat /\ size(c) <= SamplesMax
              /\ wrap(size(c)) = size(c)
        <4> TAKE c \in Collectors
        <4>1. n \in Nat /\ SizeMax \in Nat
          BY <3>1, LatencyAssumption
        <4>2. AggregatePerTick[c] \in Nat /\ AggregatePerTick[c] > 0
          BY SamplesPerTick
        <4>3. /\ n <= SizeMax \div AggregatePerTick[c]
              /\ wrap(size(c)) <= SamplesMax
          BY <2>1, <3>2 DEF initialize_accepts
        <4>4. size(c) \in 0 .. SizeMax
          BY <4>1, <4>2, <4>3, DivisionBounds
        <4>5. wrap(size(c)) = size(c)
          BY <4>4, NoWrap
        <4> QED
          BY <4>3, <4>4, <4>5
      <3>4. aggregate' = [c \in Collectors |->
                            [capacity |-> wrap(size(c)), sample_count |-> 0,
                             overflow_count |-> 0]]
        BY <2>1, <3>2 DEF initialized
      <3> HIDE DEF size
      <3>5. aggregate' \in [Collectors -> Collector]
        BY <3>3, <3>4 DEF Collector
      <3>6. \A c \in Collectors : /\ aggregate'[c].capacity = size(c)
                                  /\ aggregate'[c].sample_count = 0
                                  /\ aggregate'[c].overflow_count = 0
        BY <3>3, <3>4
      <3>7. CapacityExact'
        BY <3>3, <3>5, <3>6 DEF CapacityExact, size, n
      <3>8. Filled'
        <4>1. \A c \in Collectors : ReplaySamples(c)' \in Nat
          BY <1>1, SamplesOfAReplay DEF BenchTypeOK, ReplaySamples
        <4>2. \A c \in Collectors : done' * ReplaySamples(c)' = 0
          BY <4>1
        <4> QED
          BY <3>5, <3>6, <4>2 DEF Filled
      <3>9. done' <= load'.measured /\ pc' = "trials"
        BY <2>1, BenchAssumption DEF BenchTypeOK
      <3> QED
        BY <3>7, <3>8, <3>9 DEF CollectorInv, AggregatesHoldEveryTrial
    <2>2. CASE ~(/\ aggregate_ticks_fit
                 /\ \A c \in Collectors :
                      initialize_accepts(aggregate_ticks, AggregatePerTick[c]))
      BY <2>2 DEF CollectorInv, CapacityExact, AggregatesHoldEveryTrial
    <2> QED
      BY <2>1, <2>2
  <1> QED
    BY <1>1, <1>2, <1>3

\* One more trial still fits into every collector.
LEMMA TrialFits ==
  ASSUME BenchInv, pc = "trials", done < load.measured, NEW c \in Collectors
  PROVE  /\ aggregate[c] \in Collector
         /\ ReplaySamples(c) \in Nat
         /\ aggregate[c].sample_count + ReplaySamples(c) <= aggregate[c].capacity
         /\ aggregate[c].sample_count + ReplaySamples(c)
              = (done + 1) * ReplaySamples(c)
  <1> DEFINE k == ReplaySamples(c)
             t == load.ticks
             m == load.measured
             p == AggregatePerTick[c]
  <1>1. /\ k \in Nat /\ k <= t * p /\ t \in Nat /\ m \in Nat /\ p \in Nat
        /\ done \in Nat /\ done + 1 <= m
    BY SamplesOfAReplay, SamplesPerTick DEF BenchInv, BenchTypeOK
  <1>2. /\ aggregate[c] \in Collector /\ aggregate[c].sample_count = done * k
        /\ aggregate[c].capacity = t * m * p
    BY DEF BenchInv, CollectorInv, Filled, CapacityExact
  <1> HIDE DEF k, t, m, p
  <1>3. (done + 1) * k <= m * k
    BY <1>1, ProductMonotone
  <1>4. k * m <= (t * p) * m
    BY <1>1, ProductMonotone, ProductNat
  <1>5. (t * p) * m = t * m * p /\ k * m = m * k /\ (done + 1) * k = done * k + k
    BY <1>1
  <1>6. /\ m * k \in Nat /\ done * k \in Nat /\ t * m * p \in Nat
    BY <1>1, ProductNat
  <1>7. done * k + k <= t * m * p
    BY <1>1, <1>3, <1>4, <1>5, <1>6
  <1> QED
    BY <1>1, <1>2, <1>5, <1>7 DEF k

\* A trial is refused, or its samples all find room and its checksum is the
\* one of its mode.
LEMMA TrialInv ==
  ASSUME BenchInv, NEW flaw \in Flaws, NEW sum \in Checksums, Trial(flaw, sum)
  PROVE  BenchInv'
  <1> DEFINE reference == IF done = 0 THEN sum ELSE checksum[mode]
             accepted  == trial_valid(flaw) /\ sum = reference
             overflow  == \E c \in Collectors :
                            appended(aggregate)[c].overflow_count > 0
             sums == history.sums \cup {sum}
  <1>1. /\ pc = "trials" /\ done < load.measured /\ done' = done + 1
        /\ UNCHANGED <<load, eventful, mode, csv>>
        /\ history' = [history EXCEPT !.sums = @ \cup {sum},
                                      !.flawed = @ \/ flaw # "none",
                                      !.append_thrown = accepted /\ overflow]
    BY DEF Trial
  <1>2. CASE ~accepted
    <2>0. history' \in [sums : SUBSET Checksums, flawed : BOOLEAN,
                        append_thrown : {FALSE}]
      <3>1. history \in [sums : SUBSET Checksums, flawed : BOOLEAN,
                         append_thrown : {FALSE}]
        BY DEF BenchInv, ChecksumInv
      <3>2. (accepted /\ overflow) = FALSE
        BY <1>2
      <3> HIDE DEF accepted, overflow
      <3> QED
        BY <1>1, <3>1, <3>2
    <2>1. pc' = "exit" /\ status' = "failed"
            /\ UNCHANGED <<aggregate, checksum>>
      BY <1>2 DEF Trial, Exit
    <2>2. BenchTypeOK'
      BY <1>1, <2>1 DEF BenchInv, BenchTypeOK
    <2>3. CollectorInv'
      BY <1>1, <2>0, <2>1 DEF BenchInv, CollectorInv, CapacityExact,
                              AggregatesHoldEveryTrial
    <2>4. ChecksumInv'
      BY <1>1, <2>0, <2>1 DEF BenchInv, ChecksumInv, OkMeansSameEvents
    <2> QED
      BY <2>2, <2>3, <2>4 DEF BenchInv
  <1>3. CASE accepted
    <2> DEFINE next == appended(aggregate)
    <2>1. \A c \in Collectors :
            /\ next[c] \in Collector
            /\ next[c].capacity = aggregate[c].capacity
            /\ next[c].sample_count = (done + 1) * ReplaySamples(c)
            /\ next[c].overflow_count = 0
      <3> TAKE c \in Collectors
      <3>1. next[c] = recorded(aggregate[c], ReplaySamples(c))
        BY DEF appended
      <3>2. aggregate[c].overflow_count = 0
        BY <1>1 DEF BenchInv, CollectorInv, Filled
      <3> HIDE DEF next
      <3> QED
        BY <1>1, <3>1, <3>2, TrialFits, RecordedFits
    <2>2. next \in [Collectors -> Collector]
      BY <2>1 DEF appended
    <2>3. overflow = FALSE
      BY <2>1
    <2>4. /\ aggregate' = next
          /\ checksum' = [m \in DOMAIN checksum \cup {mode} |->
                            IF m = mode THEN reference ELSE checksum[m]]
          /\ sum = reference
          /\ UNCHANGED <<pc, status>>
      BY <1>3, <2>3 DEF Trial
    <2>5. /\ history' \in [sums : SUBSET Checksums, flawed : BOOLEAN,
                           append_thrown : {FALSE}]
          /\ history'.sums = sums
          /\ ~history'.flawed
      <3>1. /\ history \in [sums : SUBSET Checksums, flawed : BOOLEAN,
                            append_thrown : {FALSE}]
            /\ ~history.flawed
        BY <1>1 DEF BenchInv, ChecksumInv
      <3>2. (accepted /\ overflow) = FALSE /\ flaw = "none"
        BY <1>3, <2>3 DEF trial_valid
      <3> HIDE DEF accepted, overflow
      <3> QED
        BY <1>1, <3>1, <3>2
    <2> HIDE DEF next, overflow, accepted
    <2>6. BenchTypeOK'
      BY <1>1, <2>4 DEF BenchInv, BenchTypeOK
    <2>7. CollectorInv'
      <3>1. CapacityExact'
        BY <1>1, <2>1, <2>2, <2>4
           DEF BenchInv, CollectorInv, CapacityExact, Filled
      <3>2. Filled'
        BY <1>1, <2>1, <2>2, <2>4 DEF Filled, ReplaySamples
      <3>3. done' <= load'.measured
        BY <1>1, BenchAssumption DEF BenchInv, BenchTypeOK
      <3> QED
        BY <1>1, <2>4, <2>5, <3>1, <3>2, <3>3
           DEF CollectorInv, AggregatesHoldEveryTrial
    <2>8. ChecksumInv'
      <3>1. /\ DOMAIN checksum = (IF mode = "async" THEN {"sync"} ELSE {})
                                   \cup (IF done = 0 THEN {} ELSE {mode})
            /\ \A m \in DOMAIN checksum : checksum[m] \in Checksums
            /\ \A x : x \in history.sums
                        <=> \E m \in DOMAIN checksum : checksum[m] = x
        BY <1>1 DEF BenchInv, ChecksumInv, Fresh
      <3>2. DOMAIN checksum' = (IF mode = "async" THEN {"sync"} ELSE {})
                                 \cup {mode}
        BY <2>4, <3>1
      <3>3. ~Fresh'
        BY <1>1, <2>4 DEF Fresh, BenchInv, BenchTypeOK
      <3>4. checksum'[mode] = sum
        BY <2>4
      <3>5. \A m \in DOMAIN checksum' :
              m = mode \/ (m \in DOMAIN checksum /\ checksum'[m] = checksum[m])
        BY <2>4
      <3>6. \A m \in DOMAIN checksum :
              m \in DOMAIN checksum' /\ checksum'[m] = checksum[m]
        <4> TAKE m \in DOMAIN checksum
        <4>1. CASE m = mode
          <5>1. done # 0
            BY <3>1, <4>1 DEF BenchInv, BenchTypeOK
          <5> QED
            BY <2>4, <4>1, <5>1
        <4>2. CASE m # mode
          BY <2>4, <4>2
        <4> QED
          BY <4>1, <4>2
      <3>7. \A m \in DOMAIN checksum' : checksum'[m] \in Checksums
        BY <3>1, <3>4, <3>5
      <3>8. \A x : x \in sums
                     <=> \E m \in DOMAIN checksum' : checksum'[m] = x
        <4>1. mode \in DOMAIN checksum'
          BY <3>2
        <4> QED
          BY <3>1, <3>4, <3>5, <3>6, <4>1
      <3>9. status' # "ok"
        BY <1>1, <2>4 DEF BenchInv, ChecksumInv
      <3> QED
        BY <1>1, <2>4, <2>5, <3>2, <3>3, <3>7, <3>8, <3>9
           DEF ChecksumInv, OkMeansSameEvents
    <2> QED
      BY <2>6, <2>7, <2>8 DEF BenchInv
  <1> QED
    BY <1>2, <1>3

\* The summary of a mode changes the output stream only.
LEMMA SummarizeInv ==
  ASSUME BenchInv, Summarize
  PROVE  BenchInv'
  <1> USE DEF BenchInv, Summarize
  <1>1. BenchTypeOK'
    BY DEF BenchTypeOK
  <1>2. CollectorInv'
    BY DEF CollectorInv, CapacityExact, Filled, ReplaySamples,
           AggregatesHoldEveryTrial
  <1>3. ~Fresh /\ ~Fresh'
    BY BenchAssumption DEF BenchTypeOK, Fresh
  <1>4. ChecksumInv'
    BY <1>3 DEF ChecksumInv, OkMeansSameEvents
  <1> QED
    BY <1>1, <1>2, <1>4

\* The second mode begins with collectors of its own.
LEMMA NextModeInv ==
  ASSUME BenchInv, NextMode
  PROVE  BenchInv'
  <1> USE DEF BenchInv, NextMode
  <1>1. BenchTypeOK'
    BY DEF BenchTypeOK
  <1>2. CollectorInv'
    BY DEF CollectorInv, CapacityExact, AggregatesHoldEveryTrial
  <1>3. ~Fresh /\ Fresh'
    BY DEF Fresh
  <1>4. ChecksumInv'
    BY <1>3 DEF ChecksumInv, OkMeansSameEvents
  <1> QED
    BY <1>1, <1>2, <1>4

\* ok is said when the two reference checksums are the same.
LEMMA VerdictInv ==
  ASSUME BenchInv, Verdict
  PROVE  BenchInv'
  <1> USE DEF BenchInv, Verdict, Exit
  <1>1. BenchTypeOK'
    BY DEF BenchTypeOK
  <1>2. CollectorInv'
    BY DEF CollectorInv, CapacityExact, AggregatesHoldEveryTrial
  <1>3. ~Fresh
    BY DEF Fresh
  <1>4. /\ DOMAIN checksum = {"sync", "async"}
        /\ \A m \in DOMAIN checksum : checksum[m] \in Checksums
        /\ \A x : x \in history.sums
                    <=> \E m \in DOMAIN checksum : checksum[m] = x
        /\ ~history.flawed
    BY <1>3 DEF ChecksumInv
  <1>5. side_channel_equivalent
          => history.sums = {checksum["sync"]} /\ checksum["sync"] \in Checksums
    BY <1>4 DEF side_channel_equivalent
  <1>6. status' = "ok" => side_channel_equivalent
    OBVIOUS
  <1>7. ChecksumInv'
    BY <1>4, <1>5, <1>6 DEF ChecksumInv, OkMeansSameEvents
  <1> QED
    BY <1>1, <1>2, <1>7

\* Every step of the benchmark keeps the invariant.
LEMMA BenchStepInv ==
  ASSUME BenchInv, [BenchNext]_benchVars
  PROVE  BenchInv'
  <1>1. CASE UNCHANGED benchVars
    <2> USE <1>1 DEF BenchInv, benchVars
    <2>1. BenchTypeOK'
      BY DEF BenchTypeOK
    <2>2. CollectorInv'
      BY DEF CollectorInv, CapacityExact, Filled, ReplaySamples,
             AggregatesHoldEveryTrial
    <2>3. ChecksumInv'
      BY DEF ChecksumInv, Fresh, OkMeansSameEvents
    <2> QED
      BY <2>1, <2>2, <2>3
  <1> QED
    BY <1>1, StartInv, WarmUpInv, InitializeInv, TrialInv, SummarizeInv,
       NextModeInv, VerdictInv DEF BenchNext, Exited

\* The inductive invariant of the benchmark.
THEOREM BenchInvariant == BenchSpec => []BenchInv
  <1>1. BenchInit => BenchInv
    <2> SUFFICES ASSUME BenchInit PROVE BenchInv
      OBVIOUS
    <2> USE DEF BenchInit
    <2>1. BenchTypeOK
      BY DEF BenchTypeOK
    <2>2. CollectorInv
      BY DEF CollectorInv, CapacityExact, AggregatesHoldEveryTrial
    <2>3. ChecksumInv
      BY DEF ChecksumInv, Fresh, OkMeansSameEvents
    <2> QED
      BY <2>1, <2>2, <2>3 DEF BenchInv
  <1>2. BenchInv /\ [BenchNext]_benchVars => BenchInv'
    BY BenchStepInv
  <1> QED
    BY <1>1, <1>2, PTL DEF BenchSpec

\* No product of ticks, trials and samples per tick wraps around: every
\* collector is as large as the arithmetic says, for every workload.
THEOREM CollectorsAreExact == BenchSpec => []CapacityExact
  <1>1. BenchInv => CapacityExact
    BY DEF BenchInv, CollectorInv
  <1> QED
    BY <1>1, BenchInvariant, PTL

\* append never throws: the samples of every accepted trial find room.
THEOREM AppendNeverThrows == BenchSpec => []AggregatesHoldEveryTrial
  <1>1. BenchInv => AggregatesHoldEveryTrial
    BY DEF BenchInv, CollectorInv
  <1> QED
    BY <1>1, BenchInvariant, PTL

\* benchmark_status=ok means that all measured replays of both modes delivered
\* the same events, and that no replay, warm-up or measured, was flawed.
THEOREM OkIsOneEventStream == BenchSpec => []OkMeansSameEvents
  <1>1. BenchInv => OkMeansSameEvents
    BY DEF BenchInv, ChecksumInv
  <1> QED
    BY <1>1, BenchInvariant, PTL

\* Every summary that is printed is the nearest-rank summary of its samples:
\* no collector holds more than SizeMax of them.
THEOREM PrintedSummariesAreCorrect == BenchSpec => []EstimatorsMatchReference
  <1>1. ASSUME BenchInv PROVE EstimatorsMatchReference
    <2> SUFFICES ASSUME pc = "summary", NEW c \in Collectors,
                        aggregate[c].sample_count > 0
                 PROVE  SummaryCorrect(aggregate[c].sample_count)
      BY DEF EstimatorsMatchReference
    <2> DEFINE k == ReplaySamples(c)
               t == load.ticks
               m == load.measured
               p == AggregatePerTick[c]
               n == aggregate[c].sample_count
    <2>1. /\ k \in Nat /\ k <= t * p /\ t \in Nat /\ m \in Nat
          /\ p \in Nat
      BY <1>1, SamplesOfAReplay, SamplesPerTick DEF BenchInv
    <2>2. n = m * k /\ n > 0 /\ t * m * p <= SamplesMax
      BY <1>1 DEF BenchInv, CollectorInv, Filled, CapacityExact
    <2> HIDE DEF k, t, m, p, n
    <2>3. k * m <= (t * p) * m
      BY <2>1, ProductMonotone, ProductNat
    <2>4. (t * p) * m = t * m * p /\ k * m = m * k /\ m * k \in Nat
      BY <2>1, ProductNat
    <2>5. n \in 1 .. SizeMax
      <3>1. t * m * p \in Nat /\ SamplesMax \in Nat /\ SamplesMax <= SizeMax
        BY <2>1, ProductNat, LatencyAssumption
      <3> QED
        BY <2>1, <2>2, <2>3, <2>4, <3>1, LatencyAssumption
    <2> QED
      BY <2>5, SummaryAlwaysCorrect DEF n
  <1> QED
    BY <1>1, BenchInvariant, PTL
=============================================================================
