---------------------------- MODULE MCTracerFiles ----------------------------
(***************************************************************************)
(* The /proc files of the tracers, for TLC: what is read from them         *)
(* (TracerOutput), and writes to the files of trace-noschedule and of      *)
(* trace-irqoff and module exit, on two CPUs.  A behaviour is about one of *)
(* these subjects, chosen in Init.  The variables of the others are NULL,  *)
(* and nothing is shown; variables of the same name are shared.            *)
(***************************************************************************)
EXTENDS TracerOutput, TLC

CONSTANTS
  Idle, Cpus, Tasks, Writers,
  Stacks,                         \* MAX_STACE_TRACE_ENTRIES of NoSched and IrqOff
  MAX_TRACE_ENTRIES, Depths,
  Thresholds, Failing, MaxLate,                                    \* see NoSched
  InitPeriod, InitLatency, Periods, Latencies, Word, Jiffy, WheelSlack,  \* see IrqOff
  MaxTime, MaxToggles, MaxWrites                                   \* bounds

VARIABLES
  subject,
  trace_enable, loaded, now,
  stack_trace, expires, duration_threshold, tp, writer, toggles, run, mode, others,
  switched, busy,
  cpu_stack_trace, hrtimer, timer, sampling_period, trace_irqoff_latency, overflowed,
  proc, writes, irq, bh, hard_off, soft_off, allowed

nosched == <<stack_trace, expires, duration_threshold, tp, writer, toggles, run, mode,
             others, switched, busy>>
irqoff == <<cpu_stack_trace, hrtimer, timer, sampling_period, trace_irqoff_latency,
            overflowed, proc, writes, irq, bh, hard_off, soft_off, allowed>>
vars == <<subject, clears, trace_enable, loaded, now, nosched, irqoff, show, histogram>>

N == INSTANCE NoSched WITH sampling_period <- 1, DURATION_HISTOGRAM_ENTRY <- Buckets,
                           MAX_STACE_TRACE_ENTRIES <- Stacks
I == INSTANCE IrqOff WITH Procs <- Writers, MAX_LATENCY_RECORD <- Buckets,
                          NsPerMs <- NsPerMilli, MaxTime <- 1, MAX_STACE_TRACE_ENTRIES <- Stacks

\* The subject that is not chosen.
NoNosched ==
  /\ stack_trace = NULL /\ expires = NULL /\ duration_threshold = NULL /\ tp = NULL
  /\ writer = NULL /\ toggles = NULL /\ run = NULL /\ mode = NULL /\ others = NULL
  /\ switched = NULL /\ busy = NULL
NoIrqoff ==
  /\ cpu_stack_trace = NULL /\ hrtimer = NULL /\ timer = NULL
  /\ sampling_period = NULL /\ trace_irqoff_latency = NULL /\ overflowed = NULL
  /\ proc = NULL /\ writes = NULL /\ irq = NULL /\ bh = NULL /\ hard_off = NULL /\ soft_off = NULL
  /\ allowed = NULL

NoShow ==
  /\ nr_irqoff_trace = NULL /\ slot = NULL /\ records = NULL /\ filling = NULL
  /\ reader = NULL /\ shown = <<>>
NoHistogram == elapsed = NULL /\ sampling = NULL

Init ==
  \/ subject = "nosched" /\ N!Init /\ NoIrqoff /\ NoShow /\ NoHistogram
  \/ subject = "irqoff" /\ I!Init /\ clears = NULL /\ NoNosched /\ NoShow /\ NoHistogram
  \/ /\ subject = "show" /\ ShowInit
     /\ trace_enable = NULL /\ loaded = NULL /\ now = NULL
     /\ NoNosched /\ NoIrqoff /\ NoHistogram
  \/ /\ subject = "histogram" /\ MeasureInit
     /\ trace_enable = NULL /\ loaded = NULL /\ clears = NULL /\ now = NULL
     /\ NoNosched /\ NoIrqoff /\ NoShow

Next ==
  /\ UNCHANGED subject
  /\ \/ subject = "nosched" /\ N!Next /\ UNCHANGED <<irqoff, show, histogram>>
     \/ subject = "irqoff" /\ I!Next /\ UNCHANGED <<clears, nosched, show, histogram>>
     \/ /\ subject = "show" /\ ShowNext
        /\ UNCHANGED <<trace_enable, loaded, now, nosched, irqoff, histogram>>
     \/ /\ subject = "histogram" /\ Measure
        /\ UNCHANGED <<trace_enable, loaded, clears, now, nosched, irqoff, show>>

Spec == Init /\ [][Next]_vars

\* CPUs are interchangeable.
Symmetry == Permutations(Cpus)

------------------------------------------------------------------------------
(* Properties, beside ExactUntilCleared of IrqOffShow and CountedWhereShown of TracerOutput. *)

\* QuietWhenOff of NoSched and of IrqOff: nothing of a tracer is active when
\* it is disabled or has been unloaded, although enabling and disabling go CPU
\* by CPU and the tracepoint calls may fail in between.
QuietWhenOff ==
  /\ subject = "nosched" => N!QuietWhenOff
  /\ subject = "irqoff" => I!QuietWhenOff

\* LatencyAboveThrottle of IrqOff: in whatever order sampling_period and
\* trace_latency are written, and although some writes overflow 64 bits, a
\* stack is saved only for a delay that is counted too while the values last
\* written fit.
LatencyAboveThrottle == subject = "irqoff" => I!LatencyAboveThrottle
==============================================================================
