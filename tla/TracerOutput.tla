----------------------------- MODULE TracerOutput -----------------------------
(***************************************************************************)
(* What the tracers print: a reader of /proc/trace_irqoff/trace_latency    *)
(* against the handler that saves the stacks (IrqOffShow), and, side by    *)
(* side with it, the histograms of the files distribute and runqlat        *)
(* (Histogram), for every measured time up to MaxDelta.                    *)
(***************************************************************************)
EXTENDS Histogram, IrqOffShow

CONSTANTS
  NsPerMilli, SamplingPeriods, Buckets, \* of the histograms, in ns and ms
  MaxDelta                              \* bound: the time measured

\* With a period of 0, which trace_irqoff.c accepts, histogram_show prints 0 for
\* every bound: there is no right bucket.
ASSUME HistogramAssumption ==
  /\ NsPerMilli \in Nat \ {0} /\ SamplingPeriods \subseteq Nat \ {0}
  /\ Buckets \in Nat \ {0}

VARIABLES
  elapsed,    \* a measured time, or NULL
  sampling    \* the sampling period in force

histogram == <<elapsed, sampling>>

\* Each write to sampling_period stores a number of ms.
MeasureInit == elapsed = 0 /\ sampling \in {p * NsPerMilli : p \in SamplingPeriods}
Measure == elapsed < MaxDelta /\ elapsed' = elapsed + 1 /\ UNCHANGED sampling
MeasureSpec == MeasureInit /\ [][Measure]_histogram

\* RightBucket of Histogram: each tracer counts a measured time in the bucket
\* whose printed range contains it, with the exceptions stated there.
CountedWhereShown ==
  elapsed # NULL => RightBucket(elapsed, sampling, NsPerMilli, Buckets)
==============================================================================
