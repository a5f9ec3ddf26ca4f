------------------------------ MODULE Histogram ------------------------------
(***************************************************************************)
(* The power-of-two histograms of the three tracers under trace/: the      *)
(* bucket a value is counted in, and the range histogram_show prints for   *)
(* a bucket.  The three files have their own loop each, and the loops      *)
(* differ; histogram_show is the same code in all three.                   *)
(***************************************************************************)
EXTENDS Integers

\* The last bucket takes everything above it.
Clamp(index, size) == IF index >= size THEN size - 1 ELSE index

\* trace_runqlat.c: how often a latency in ms can be halved before it is 0,
\* less one.
Halvings[ms \in Nat] == IF ms < 2 THEN 0 ELSE 1 + Halvings[ms \div 2]

\* trace_noschedule.c, hist_update: the loop runs at least once, and -1 means
\* that a value below one step is not counted.
NoschedIndex(delta, step) ==
  LET f[d \in Nat] == IF d < step THEN -1 ELSE 1 + f[d \div 2] IN f[delta]

\* MUTANT: the halving before the loop is missing.
IrqoffIndex_NoHalving(delta, throttle) ==
  LET f[d \in Nat] == IF d <= throttle THEN 0 ELSE 1 + f[d \div 2]
  IN  IF delta < throttle THEN -1 ELSE f[delta]

\* trace_irqoff.c, trace_irqoff_record: one halving comes before the loop,
\* and the loop stops when delta is equal to the throttle.
IrqoffIndex(delta, throttle) ==
  LET f[d \in Nat] == IF d <= throttle THEN 0 ELSE 1 + f[d \div 2]
  IN  IF delta < throttle THEN -1 ELSE f[delta \div 2]

\* histogram_show: the bounds printed for bucket i.
scale_max(i, factor) == 2 ^ (i + 1) * factor - 1
scale_min(i, factor) == (IF i = 0 THEN 1 ELSE 2 ^ i) * factor

------------------------------------------------------------------------------
(* What the histograms should show. *)

\* The range printed for a bucket contains the value counted in it; the last
\* bucket also takes all larger values.
Shown(index, factor, ms, size) ==
  LET i == Clamp(index, size)
  IN  /\ scale_min(i, factor) <= ms
      /\ i < size - 1 => ms <= scale_max(i, factor)

\* A time of delta ns is counted in the bucket whose printed range contains it,
\* with the exact exceptions of each tracer.  hist_update of trace-noschedule
\* counts from two periods on.  latency_histogram_store of runqlat counts less
\* than 1 ms in "1 -> 1".  trace_irqoff_record counts a time on the lower bound
\* of a range, up to rounding, one bucket lower.
RightBucket(delta, period, NsPerMs, size) ==
  LET ms == delta \div NsPerMs
      step == period * 2
      factor == step \div NsPerMs
  IN  /\ IF delta < step THEN NoschedIndex(delta, step) = -1
         ELSE Shown(NoschedIndex(delta, step), factor, ms, size)
      /\ IF ms = 0 THEN Halvings[ms] = 0 ELSE Shown(Halvings[ms], 1, ms, size)
      /\ delta >= step =>
           IF \E k \in 1 .. size : delta \div 2 ^ k = step
           THEN Shown(IrqoffIndex(delta, step) + 1, factor, ms, size)
           ELSE Shown(IrqoffIndex(delta, step), factor, ms, size)
==============================================================================
