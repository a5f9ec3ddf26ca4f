-------------------------------- MODULE IrqOff --------------------------------
(***************************************************************************)
(* trace/trace-irqoff/trace_irqoff.c: a kernel module that measures for    *)
(* how long interrupts, and softirqs, were off.  Each CPU has an hrtimer,  *)
(* which fires in hard interrupt context, and a timer_list timer, which    *)
(* fires in softirq context.  A handler that comes late by a period or     *)
(* more has found interrupts (or softirqs) off, counts it in a histogram   *)
(* and, from trace_irqoff_latency on, saves the stack.                     *)
(*                                                                         *)
(* Handlers and IPI functions run on the CPU whose data they touch, with   *)
(* interrupts off: each is one step.  The writers of the /proc files take  *)
(* no lock: the tests they make, the calls to each CPU and the final       *)
(* stores are steps that interleave with everything else.                  *)
(*                                                                         *)
(* The environment turns interrupts and softirqs off and on.  Time is      *)
(* urgent: it does not pass while a handler is due and may run.            *)
(***************************************************************************)
EXTENDS Integers, Histogram

CONSTANTS
  Cpus, Procs,                \* CPUs; processes that write the /proc files
  NULL,
  MAX_STACE_TRACE_ENTRIES,    \* stacks per CPU and kind
  MAX_TRACE_ENTRIES,          \* stack frames per CPU and kind
  MAX_LATENCY_RECORD,         \* histogram buckets
  NsPerMs,                    \* 1000000 in the code
  Word,                       \* 2^64: an unsigned long, and u64, counts modulo Word
  InitPeriod, InitLatency,    \* 10 and 50 (ms) in the code
  Periods, Latencies,         \* the values (ms) written to the files
  Depths,                     \* depths of a kernel stack
  Jiffy,                      \* the length of a jiffy
  WheelSlack,                 \* jiffies by which the timer wheel rounds up
  MaxTime, MaxWrites          \* bounds: the clock, writes to the files

ASSUME IrqOffAssumption ==
  /\ NULL \notin Nat
  /\ MAX_STACE_TRACE_ENTRIES \in Nat \ {0}
  /\ MAX_TRACE_ENTRIES \in Nat \ {0}
  /\ MAX_LATENCY_RECORD \in Nat \ {0}
  /\ NsPerMs \in Nat \ {0} /\ Jiffy \in Nat \ {0} /\ WheelSlack \subseteq Nat
  /\ InitPeriod \in Nat \ {0} /\ InitLatency \in Nat
  /\ InitLatency >= 2 * InitPeriod
  /\ Periods \subseteq Nat /\ Latencies \subseteq Nat /\ Depths \subseteq Nat
  /\ Word \in Nat \ {0} /\ InitLatency * NsPerMs < Word

\* A write to a /proc file in progress.
Writing == [at : {"start", "cancel", "store", "period", "clear", "latency"},
            todo : SUBSET Cpus, val : Nat]
ASSUME WritingAssumption == NULL \notin Writing /\ NULL # "store"

VARIABLES
  cpu_stack_trace,        \* per CPU: struct per_cpu_stack_trace
  hrtimer, timer,         \* per CPU: when it is due; NULL: not started
  trace_enable, sampling_period, trace_irqoff_latency,
  overflowed,             \* the settings written last with a value that did not
                          \* fit (history)
  proc,                   \* per process: what is left of its write
  writes,                 \* writes so far
  loaded,                 \* FALSE once trace_irqoff_exit has run
  irq, bh,                \* per CPU: interrupts, softirqs are on
  hard_off, soft_off,     \* per CPU: the start of the interval without
                          \* interrupts, softirqs, that lasts or ended just
                          \* now, or NULL (history)
  allowed,                \* per CPU: the softirq delay that the hrtimer handler
                          \* let pass, threshold and period, when it last ran
                          \* (history)
  now

timers == <<hrtimer, timer>>
settings == <<trace_enable, sampling_period, trace_irqoff_latency, overflowed>>
files == <<proc, writes, loaded>>
env == <<irq, bh, hard_off, soft_off, allowed, now>>
vars == <<cpu_stack_trace, timers, settings, files, env>>

TraceIdx == 0 .. (MAX_STACE_TRACE_ENTRIES - 1)
CountIdx == 0 .. (MAX_LATENCY_RECORD - 1)

\* Milliseconds as nanoseconds, and `sampling_period << 1', in 64 bits.
Ns(ms) == (ms * NsPerMs) % Word
Throttle(period) == (2 * period) % Word

------------------------------------------------------------------------------
(* Operations on struct stack_trace_metadata. *)

EmptyTrace == [nsecs |-> 0, more |-> FALSE, entries |-> 0, nr_entries |-> 0]

InitMeta == [last_timestamp |-> 0, nr_irqoff_trace |-> 0, nr_entries |-> 0,
             trace |-> [k \in TraceIdx |-> EmptyTrace],
             latency_count |-> [k \in CountIdx |-> 0]]

\* MUTANT: the number of stacks is not tested.
HasRoom_FramesOnly(m) == m.nr_entries < MAX_TRACE_ENTRIES - 1

HasRoom(m) ==
  /\ m.nr_irqoff_trace < MAX_STACE_TRACE_ENTRIES
  /\ m.nr_entries < MAX_TRACE_ENTRIES - 1

\* save_trace: the stack is cut to the frames that are left.
save_trace(m, latency, more, depth) ==
  LET left == MAX_TRACE_ENTRIES - m.nr_entries
      n == IF depth < left THEN depth ELSE left
  IN  IF ~HasRoom(m) THEN m
      ELSE [m EXCEPT !.trace[m.nr_irqoff_trace] =
                        [nsecs |-> latency, more |-> more,
                         entries |-> m.nr_entries, nr_entries |-> n],
                     !.nr_entries = @ + n,
                     !.nr_irqoff_trace = @ + 1]

\* The bucket trace_irqoff_record counts delta in.
CountIndex(delta, period) == Clamp(IrqoffIndex(delta, Throttle(period)), MAX_LATENCY_RECORD)

\* MUTANT: a delay of exactly two periods is not recorded.
trace_irqoff_record_Strict(m, delta, period, latency, count, more, depth) ==
  LET c == IF count THEN [m EXCEPT !.latency_count[CountIndex(delta, period)] = @ + 1]
           ELSE m
  IN  IF delta <= Throttle(period) THEN m
      ELSE IF delta >= latency THEN save_trace(c, delta, more, depth)
      ELSE c

\* trace_irqoff_record on the hardirq or softirq data m.  `count' is FALSE
\* for the early sample of a softirq delay, which is also marked `more'.
\* The code returns whether delta has reached the throttle.
trace_irqoff_record(m, delta, period, latency, count, more, depth) ==
  LET c == IF count THEN [m EXCEPT !.latency_count[CountIndex(delta, period)] = @ + 1]
           ELSE m
  IN  IF delta < Throttle(period) THEN m
      ELSE IF delta >= latency THEN save_trace(c, delta, more, depth)
      ELSE c

\* MUTANT: the softirq delay is looked at only when the hrtimer is late.
HrtimerHandler_NoElse(s, period, latency, depth, t) ==
  LET delta == t - s.hard.last_timestamp
  IN  [s EXCEPT !.hard = trace_irqoff_record([@ EXCEPT !.last_timestamp = t],
                           delta, period, latency, TRUE, FALSE, depth),
                !.soft.last_timestamp = IF delta >= Throttle(period) THEN t ELSE @]

\* trace_irqoff_hrtimer_handler, on the data of its CPU.
HrtimerHandler(s, period, latency, depth, t) ==
  LET delta == t - s.hard.last_timestamp
      delta_soft == t - s.soft.last_timestamp
      h == [s EXCEPT !.hard = trace_irqoff_record([@ EXCEPT !.last_timestamp = t],
                                delta, period, latency, TRUE, FALSE, depth)]
  IN  IF delta >= Throttle(period) THEN [h EXCEPT !.soft.last_timestamp = t]
      ELSE IF s.delayed \/ delta_soft < latency THEN h
      ELSE [h EXCEPT !.delayed = TRUE,
                     !.soft = trace_irqoff_record(@, delta_soft, period, latency,
                                                  FALSE, TRUE, depth)]

\* MUTANT: the time stamp is not renewed.
TimerHandler_KeepsStamp(s, period, latency, depth, t) ==
  [s EXCEPT !.delayed = FALSE,
            !.soft = trace_irqoff_record(@, t - s.soft.last_timestamp, period, latency,
                                         TRUE, FALSE, depth)]

\* trace_irqoff_timer_handler, on the data of its CPU.
TimerHandler(s, period, latency, depth, t) ==
  [s EXCEPT !.delayed = FALSE,
            !.soft = trace_irqoff_record([@ EXCEPT !.last_timestamp = t],
                       t - s.soft.last_timestamp, period, latency, TRUE, FALSE, depth)]

\* MUTANT: the frames stay in use.
ClearMeta_KeepsFrames(m) == [m EXCEPT !.nr_irqoff_trace = 0,
                                      !.latency_count = [k \in CountIdx |-> 0]]

\* smp_clear_stack_trace.
ClearMeta(m) == [m EXCEPT !.nr_entries = 0, !.nr_irqoff_trace = 0,
                          !.latency_count = [k \in CountIdx |-> 0]]
smp_clear_stack_trace(s) ==
  [s EXCEPT !.hard = ClearMeta(@), !.soft = ClearMeta(@)]

------------------------------------------------------------------------------
Init ==
  /\ cpu_stack_trace = [c \in Cpus |-> [hard |-> InitMeta, soft |-> InitMeta,
                                        delayed |-> FALSE]]
  /\ hrtimer = [c \in Cpus |-> NULL]
  /\ timer = [c \in Cpus |-> NULL]
  /\ trace_enable = FALSE
  /\ sampling_period = InitPeriod * NsPerMs
  /\ trace_irqoff_latency = InitLatency * NsPerMs
  /\ overflowed = {}
  /\ proc = [p \in Procs |-> NULL]
  /\ writes = 0
  /\ loaded = TRUE
  /\ irq = [c \in Cpus |-> TRUE]
  /\ bh = [c \in Cpus |-> TRUE]
  /\ hard_off = [c \in Cpus |-> NULL]
  /\ soft_off = [c \in Cpus |-> NULL]
  /\ allowed = [c \in Cpus |-> 0]
  /\ now = 0

------------------------------------------------------------------------------
(* The environment. *)

Due(t, c) == t[c] # NULL /\ t[c] <= now
HrtimerRuns(c) == Due(hrtimer, c) /\ irq[c]
TimerRuns(c) == Due(timer, c) /\ irq[c] /\ bh[c]

Tick ==
  /\ now < MaxTime
  /\ \A c \in Cpus : ~HrtimerRuns(c) /\ ~TimerRuns(c)
  /\ now' = now + 1
  /\ hard_off' = [c \in Cpus |-> IF irq[c] THEN NULL ELSE hard_off[c]]
  /\ soft_off' = [c \in Cpus |-> IF irq[c] /\ bh[c] THEN NULL ELSE soft_off[c]]
  /\ UNCHANGED <<cpu_stack_trace, timers, settings, files, irq, bh, allowed>>

local_irq_disable(c) ==
  /\ irq[c] /\ ~HrtimerRuns(c) /\ ~TimerRuns(c)
  /\ irq' = [irq EXCEPT ![c] = FALSE]
  /\ hard_off' = [hard_off EXCEPT ![c] = now]
  /\ soft_off' = [soft_off EXCEPT ![c] = IF bh[c] THEN now ELSE @]
  /\ UNCHANGED <<cpu_stack_trace, timers, settings, files, bh, allowed, now>>

local_irq_enable(c) ==
  /\ ~irq[c]
  /\ irq' = [irq EXCEPT ![c] = TRUE]
  /\ UNCHANGED <<cpu_stack_trace, timers, settings, files, bh, hard_off, soft_off,
                 allowed, now>>

local_bh_disable(c) ==
  /\ irq[c] /\ bh[c] /\ ~HrtimerRuns(c) /\ ~TimerRuns(c)
  /\ bh' = [bh EXCEPT ![c] = FALSE]
  /\ soft_off' = [soft_off EXCEPT ![c] = now]
  /\ UNCHANGED <<cpu_stack_trace, timers, settings, files, irq, hard_off, allowed, now>>

local_bh_enable(c) ==
  /\ irq[c] /\ ~bh[c] /\ ~HrtimerRuns(c)
  /\ bh' = [bh EXCEPT ![c] = TRUE]
  /\ UNCHANGED <<cpu_stack_trace, timers, settings, files, irq, hard_off, soft_off,
                 allowed, now>>

------------------------------------------------------------------------------
(* The timer handlers. *)

\* hrtimer_forward_now: the first multiple of the period after now (the
\* kernel takes the resolution of the clock for a period of 0).
Forward(due) ==
  LET p == IF sampling_period = 0 THEN 1 ELSE sampling_period
  IN  due + ((now - due) \div p + 1) * p

\* jiffies + msecs_to_jiffies(sampling_period / 1000000UL), as a time.
TimerExpiry(slack) ==
  LET ms == sampling_period \div NsPerMs
      delay == (ms * NsPerMs + Jiffy - 1) \div Jiffy
  IN  (now \div Jiffy + delay + slack) * Jiffy

trace_irqoff_hrtimer_handler(c) ==
  /\ HrtimerRuns(c)
  /\ \E depth \in Depths :
       cpu_stack_trace' = [cpu_stack_trace EXCEPT
         ![c] = HrtimerHandler(@, sampling_period, trace_irqoff_latency, depth, now)]
  /\ hrtimer' = [hrtimer EXCEPT ![c] = Forward(@)]
  /\ allowed' = [allowed EXCEPT ![c] = trace_irqoff_latency + sampling_period]
  /\ UNCHANGED <<timer, settings, files, irq, bh, hard_off, soft_off, now>>

trace_irqoff_timer_handler(c) ==
  /\ TimerRuns(c)
  /\ \E depth \in Depths :
       cpu_stack_trace' = [cpu_stack_trace EXCEPT
         ![c] = TimerHandler(@, sampling_period, trace_irqoff_latency, depth, now)]
  /\ \E slack \in WheelSlack : timer' = [timer EXCEPT ![c] = TimerExpiry(slack)]
  /\ UNCHANGED <<hrtimer, settings, files, env>>

------------------------------------------------------------------------------
(* The /proc files. *)

\* A write starts: `rec' is what the process has left to do.
Begins(p, rec) ==
  /\ loaded /\ proc[p] = NULL
  /\ writes < MaxWrites
  /\ writes' = writes + 1
  /\ proc' = [proc EXCEPT ![p] = rec]
  /\ UNCHANGED <<cpu_stack_trace, timers, settings, loaded, env>>

At(p, at) == proc[p] # NULL /\ proc[p].at = at
Return(p) == proc' = [proc EXCEPT ![p] = NULL]

\* One CPU is done; after the last one the process goes on to `at', or
\* returns.
CpuDone(p, c, at) ==
  LET rec == proc[p]
      rest == [rec EXCEPT !.todo = @ \ {c}]
      next == IF at = NULL THEN NULL ELSE [rec EXCEPT !.todo = {}, !.at = at]
  IN  proc' = [proc EXCEPT ![p] = IF rec.todo # {c} THEN rest ELSE next]

\* enable_write: the unlocked test of trace_enable.
enable_write(p, enable) ==
  /\ enable # trace_enable
  /\ Begins(p, [at |-> IF enable THEN "start" ELSE "cancel", todo |-> Cpus,
                val |-> IF enable THEN 1 ELSE 0])

\* smp_timers_start on CPU c, in an interrupt.
smp_timers_start(p, c) ==
  /\ At(p, "start") /\ c \in proc[p].todo /\ irq[c]
  /\ cpu_stack_trace' = [cpu_stack_trace EXCEPT ![c].hard.last_timestamp = now,
                                                ![c].soft.last_timestamp = now]
  /\ hrtimer' = [hrtimer EXCEPT ![c] = now + sampling_period]
  /\ \E slack \in WheelSlack : timer' = [timer EXCEPT ![c] = TimerExpiry(slack)]
  /\ allowed' = [allowed EXCEPT ![c] = trace_irqoff_latency + sampling_period]
  /\ CpuDone(p, c, "store")
  /\ UNCHANGED <<settings, writes, loaded, irq, bh, hard_off, soft_off, now>>

trace_irqoff_cancel_timers(p, c) ==
  /\ At(p, "cancel") /\ c \in proc[p].todo
  /\ hrtimer' = [hrtimer EXCEPT ![c] = NULL]
  /\ timer' = [timer EXCEPT ![c] = NULL]
  /\ CpuDone(p, c, "store")
  /\ UNCHANGED <<cpu_stack_trace, settings, writes, loaded, env>>

store_trace_enable(p) ==
  /\ At(p, "store")
  /\ trace_enable' = (proc[p].val = 1)
  /\ Return(p)
  /\ UNCHANGED <<cpu_stack_trace, timers, sampling_period, trace_irqoff_latency,
                 overflowed, writes, loaded, env>>

\* sampling_period_write: the test of trace_enable, and the stores.
sampling_period_write(p, ms) ==
  /\ ~trace_enable
  /\ Begins(p, [at |-> "period", todo |-> {}, val |-> ms])

\* MUTANT: the latency is compared with the period, not with twice the period.
store_sampling_period_Half(p) ==
  LET period == Ns(proc[p].val)
  IN  /\ At(p, "period")
      /\ sampling_period' = period
      /\ trace_irqoff_latency' = IF period > trace_irqoff_latency
                                 THEN Throttle(period) ELSE trace_irqoff_latency
      /\ overflowed' = IF 2 * (proc[p].val * NsPerMs) < Word THEN {} ELSE {"period"}
      /\ Return(p)
      /\ UNCHANGED <<cpu_stack_trace, timers, trace_enable, writes, loaded, env>>

\* The product, and twice it for the threshold, lose the bits beyond the word.
\* A period that fits settles the threshold, whatever was written before.
store_sampling_period(p) ==
  LET period == Ns(proc[p].val)
  IN  /\ At(p, "period")
      /\ sampling_period' = period
      /\ trace_irqoff_latency' = IF period > trace_irqoff_latency \div 2
                                 THEN Throttle(period) ELSE trace_irqoff_latency
      /\ overflowed' = IF 2 * (proc[p].val * NsPerMs) < Word THEN {} ELSE {"period"}
      /\ Return(p)
      /\ UNCHANGED <<cpu_stack_trace, timers, trace_enable, writes, loaded, env>>

\* trace_latency_write: 0 clears the buffers of one CPU after the other.
trace_latency_write(p, ms) ==
  \/ ms = 0 /\ Begins(p, [at |-> "clear", todo |-> Cpus, val |-> 0])
  \/ /\ ms > 0
     /\ ms >= Throttle(sampling_period) \div NsPerMs
     /\ Begins(p, [at |-> "latency", todo |-> {}, val |-> ms])

clear_one_cpu(p, c) ==
  /\ At(p, "clear") /\ c \in proc[p].todo /\ irq[c]
  /\ cpu_stack_trace' = [cpu_stack_trace EXCEPT ![c] = smp_clear_stack_trace(@)]
  /\ CpuDone(p, c, NULL)
  /\ UNCHANGED <<timers, settings, writes, loaded, env>>

\* A large enough number of milliseconds passes the test and is stored as a
\* small number of nanoseconds.
store_latency(p) ==
  /\ At(p, "latency")
  /\ trace_irqoff_latency' = Ns(proc[p].val)
  /\ overflowed' = IF proc[p].val * NsPerMs < Word THEN overflowed \ {"latency"}
                   ELSE overflowed \cup {"latency"}
  /\ Return(p)
  /\ UNCHANGED <<cpu_stack_trace, timers, trace_enable, sampling_period, writes, loaded, env>>

\* trace_irqoff_exit, run while no file is being written.
trace_irqoff_exit ==
  /\ loaded /\ \A p \in Procs : proc[p] = NULL
  /\ hrtimer' = IF trace_enable THEN [c \in Cpus |-> NULL] ELSE hrtimer
  /\ timer' = IF trace_enable THEN [c \in Cpus |-> NULL] ELSE timer
  /\ loaded' = FALSE
  /\ UNCHANGED <<cpu_stack_trace, settings, proc, writes, env>>

------------------------------------------------------------------------------
Environment ==
  \/ Tick
  \/ \E c \in Cpus : \/ local_irq_disable(c) \/ local_irq_enable(c)
                     \/ local_bh_disable(c) \/ local_bh_enable(c)

Handlers ==
  \E c \in Cpus : trace_irqoff_hrtimer_handler(c) \/ trace_irqoff_timer_handler(c)

Files ==
  \E p \in Procs :
    \/ \E enable \in BOOLEAN : enable_write(p, enable)
    \/ \E c \in Cpus : \/ smp_timers_start(p, c)
                       \/ trace_irqoff_cancel_timers(p, c)
                       \/ clear_one_cpu(p, c)
    \/ store_trace_enable(p)
    \/ \E ms \in Periods : sampling_period_write(p, ms)
    \/ store_sampling_period(p)
    \/ \E ms \in Latencies : trace_latency_write(p, ms)
    \/ store_latency(p)

Next == Environment \/ Handlers \/ Files \/ trace_irqoff_exit

Spec == Init /\ [][Next]_vars

------------------------------------------------------------------------------
(* Properties. *)

Trace == [nsecs : Nat, more : BOOLEAN, entries : 0 .. MAX_TRACE_ENTRIES,
          nr_entries : 0 .. MAX_TRACE_ENTRIES]

Meta == [last_timestamp : Nat, nr_irqoff_trace : 0 .. MAX_STACE_TRACE_ENTRIES,
         nr_entries : 0 .. MAX_TRACE_ENTRIES, trace : [TraceIdx -> Trace],
         latency_count : [CountIdx -> Nat]]

\* Type invariant: the counters stay within the arrays of struct
\* stack_trace_metadata.
TypeOK ==
  /\ cpu_stack_trace \in [Cpus -> [hard : Meta, soft : Meta, delayed : BOOLEAN]]
  /\ hrtimer \in [Cpus -> Nat \cup {NULL}]
  /\ timer \in [Cpus -> Nat \cup {NULL}]
  /\ trace_enable \in BOOLEAN
  /\ sampling_period \in Nat
  /\ trace_irqoff_latency \in Nat
  /\ overflowed \subseteq {"period", "latency"}
  /\ proc \in [Procs -> Writing \cup {NULL}]
  /\ writes \in Nat
  /\ loaded \in BOOLEAN
  /\ irq \in [Cpus -> BOOLEAN]
  /\ bh \in [Cpus -> BOOLEAN]
  /\ hard_off \in [Cpus -> Nat \cup {NULL}]
  /\ soft_off \in [Cpus -> Nat \cup {NULL}]
  /\ allowed \in [Cpus -> Nat]
  /\ now \in Nat

Used(m) == {k \in TraceIdx : k < m.nr_irqoff_trace}

\* The variables keep their types, the counters within the arrays included, and
\* the stacks trace_latency_show prints lie one behind the other in entries[]
\* and fill exactly its used part: a frame of a saved stack is not
\* overwritten by a later one.
Packed(m) ==
  /\ m.nr_irqoff_trace = 0 => m.nr_entries = 0
  /\ \A k \in Used(m) :
       /\ k = 0 => m.trace[k].entries = 0
       /\ m.trace[k].entries + m.trace[k].nr_entries =
            IF k + 1 \in Used(m) THEN m.trace[k + 1].entries ELSE m.nr_entries
FramesPacked ==
  TypeOK /\ \A c \in Cpus : Packed(cpu_stack_trace[c].hard) /\ Packed(cpu_stack_trace[c].soft)

\* How long interrupts, softirqs, had been off when they came on just now.
JustOff(off, c) == IF off[c] # NULL THEN now - off[c] ELSE 0

\* The handler of a timer has run: the timer was due and is due again later.
Ran(before, after, c) == Due(before, c) /\ after[c] \notin {before[c], NULL}

\* README.md of the tracer, lines 94 and 143: an interval without interrupts
\* of two periods or more is always counted, nothing is counted without one,
\* and the measured time is at most one period longer than the interval,
\* for every period that fits (less than 292 years).
HardMeasured(c) ==
  LET delta == now - cpu_stack_trace[c].hard.last_timestamp
      counted == cpu_stack_trace'[c].hard.latency_count
                   # cpu_stack_trace[c].hard.latency_count
  IN  Ran(hrtimer, hrtimer', c) /\ "period" \notin overflowed =>
        /\ JustOff(hard_off, c) >= 2 * sampling_period => counted
        /\ counted => /\ JustOff(hard_off, c) <= delta
                      /\ delta <= JustOff(hard_off, c) + sampling_period
                      /\ JustOff(hard_off, c) > 0
HardOffMeasured == [][\A c \in Cpus : HardMeasured(c)]_vars

\* Softirqs are never reported off while they were on: the softirq timer
\* counts a delay only when it was really held up, by softirqs or interrupts
\* that were off until now (for a period that fits).
SoftMeasured(c) ==
  /\ Ran(timer, timer', c) /\ "period" \notin overflowed
  /\ cpu_stack_trace'[c].soft.latency_count # cpu_stack_trace[c].soft.latency_count
  => JustOff(soft_off, c) > 0
SoftOffReal == [][\A c \in Cpus : SoftMeasured(c)]_vars

\* While softirqs are off the hrtimer notices: a softirq delay longer than
\* the threshold and a period, as they were when its handler last ran, is
\* marked, so its stack has been sampled if there was room for it.
SoftDelayMarked ==
  \A c \in Cpus :
    /\ hrtimer[c] # NULL /\ irq[c] /\ ~HrtimerRuns(c)
    /\ now - cpu_stack_trace[c].soft.last_timestamp > allowed[c]
    => cpu_stack_trace[c].delayed

\* README.md of the tracer, line 198: softirqs that were off for longer than
\* the threshold leave two stacks, the early one of the hrtimer and that of
\* the softirq timer with the actual latency.
SoftDelayHasTwoStacks ==
  [][\A c \in Cpus :
       Ran(timer, timer', c) /\ cpu_stack_trace[c].delayed =>
         now - cpu_stack_trace[c].soft.last_timestamp >= trace_irqoff_latency]_vars

Started(c) == hrtimer[c] # NULL \/ timer[c] # NULL

\* Once enable reads "disabled" and no write is under way, no timer is
\* started.  trace_irqoff_exit relies on it: it cancels the timers only if
\* trace_enable is set, and afterwards the handlers and their data are gone.
QuietWhenOff ==
  ~loaded \/ (~trace_enable /\ \A p \in Procs : proc[p] = NULL) => \A c \in Cpus : ~Started(c)

\* A stack is saved only for a delay that is also counted: the threshold is
\* not below twice the sampling period, in whatever order the two files are
\* written, provided the values fit.  A threshold of 2^64 ns or more, or a
\* period of half that, loses its upper bits and undoes the relation, until
\* the next write of a period that fits, or of a threshold if the period does.
LatencyAboveThrottle ==
  overflowed = {} => trace_irqoff_latency >= 2 * sampling_period
==============================================================================
