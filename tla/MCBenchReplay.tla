---------------------------- MODULE MCBenchReplay ----------------------------
(* std::size_t of 20 bits: n * 999 wraps from 1050 samples on, and 65 trials *)
(* of 16383 ticks wrap to 16319, whose collectors would be accepted.  17     *)
(* trials of 16383 ticks do not wrap, but four events for each tick do, to   *)
(* 65468, which would be accepted.                                           *)
EXTENDS BenchReplay

MCWorkloads ==
  {[ticks |-> n, warmup |-> 1, measured |-> 1] : n \in 1 .. 1100}
    \cup {[ticks |-> 60, warmup |-> 2, measured |-> 3],
          [ticks |-> 16383, warmup |-> 1, measured |-> 17],
          [ticks |-> 16383, warmup |-> 1, measured |-> 65],
          [ticks |-> 16384, warmup |-> 1, measured |-> 1]}
=============================================================================
