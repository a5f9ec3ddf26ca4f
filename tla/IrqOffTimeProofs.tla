--------------------------- MODULE IrqOffTimeProofs ---------------------------
(* Machine-checked proofs about what IrqOff measures: which delays the two    *)
(* timers of a CPU notice, count and mark, and that nothing is left running   *)
(* once tracing is off.                                                       *)
EXTENDS IrqOffProofs

------------------------------------------------------------------------------
(* A long softirq delay is marked. *)

\* hrtimer_forward_now gives the first time after now, at most a period away,
\* or 1 for a period of 0.
LEMMA ForwardNext ==
  ASSUME now \in Nat, sampling_period \in Nat, NEW due \in Nat, due <= now
  PROVE  /\ Forward(due) \in Nat /\ now < Forward(due)
         /\ Forward(due) <= now + sampling_period + 1
         /\ sampling_period # 0 => Forward(due) <= now + sampling_period
<1> DEFINE p == IF sampling_period = 0 THEN 1 ELSE sampling_period
           d == now - due
           q == d \div p
           r == d % p
<1>1. d \in Nat
  OBVIOUS
<1>2. /\ p \in Nat \ {0} /\ p <= sampling_period + 1
      /\ sampling_period # 0 => p = sampling_period
  OBVIOUS
<1>3. Forward(due) = due + (q + 1) * p
  BY DEF Forward
<1> HIDE DEF p
<1>4. q \in Nat /\ r \in 0 .. (p - 1) /\ d = p * q + r
  <2> HIDE DEF d
  <2> QED
    BY <1>1, <1>2, SMTT(30)
<1> HIDE DEF q, r
<1>5. (q + 1) * p = p * q + p
  BY <1>2, <1>4, SMTT(30)
<1> DEFINE m == p * q
<1>6. m \in Nat
  BY <1>2, <1>4, SMTT(30)
<1> HIDE DEF m
<1>7. Forward(due) = due + (m + p) /\ now - due = m + r
  BY <1>3, <1>4, <1>5, Zenon DEF m, d
<1> QED
  BY <1>2, <1>4, <1>6, <1>7

\* The hrtimer of a CPU with data s, due at h: it is due soon, and if the
\* softirq delay is not marked, soon after the softirqs last ran.
Timely(h, s, a, t) ==
  h # NULL => /\ h <= t + a + 1
              /\ s.delayed = FALSE => h <= s.soft.last_timestamp + a + 1

TInv == \A c \in Cpus : Timely(hrtimer[c], cpu_stack_trace[c], allowed[c], now)

\* The values of a CPU.
LEMMA CpuFacts ==
  ASSUME IInv, NEW c \in Cpus
  PROVE  /\ now \in Nat /\ sampling_period \in Nat /\ trace_irqoff_latency \in Nat
         /\ GoodData(cpu_stack_trace[c], now) /\ cpu_stack_trace[c] \in Data
         /\ hrtimer[c] \in Nat \cup {NULL} /\ timer[c] \in Nat \cup {NULL}
         /\ hard_off[c] \in Nat \cup {NULL} /\ soft_off[c] \in Nat \cup {NULL}
         /\ irq[c] \in BOOLEAN /\ bh[c] \in BOOLEAN
         /\ allowed[c] \in Nat
         /\ cpu_stack_trace[c].hard.last_timestamp \in Nat
         /\ cpu_stack_trace[c].soft.last_timestamp \in Nat
         /\ cpu_stack_trace[c].hard.last_timestamp <= now
         /\ cpu_stack_trace[c].soft.last_timestamp <= now
         /\ cpu_stack_trace[c].delayed \in BOOLEAN
<1>1. TypeOK /\ GoodData(cpu_stack_trace[c], now)
  BY DEF IInv
<1>2. /\ now \in Nat /\ sampling_period \in Nat /\ trace_irqoff_latency \in Nat
      /\ hrtimer[c] \in Nat \cup {NULL} /\ timer[c] \in Nat \cup {NULL}
      /\ hard_off[c] \in Nat \cup {NULL} /\ soft_off[c] \in Nat \cup {NULL}
      /\ irq[c] \in BOOLEAN /\ bh[c] \in BOOLEAN
      /\ allowed[c] \in Nat
  BY <1>1 DEF TypeOK
<1>3. /\ cpu_stack_trace[c] \in Data
      /\ Good(cpu_stack_trace[c].hard, now) /\ Good(cpu_stack_trace[c].soft, now)
  BY <1>1 DEF GoodData
<1>4. cpu_stack_trace[c].delayed \in BOOLEAN
  BY <1>3 DEF Data
<1>5. /\ cpu_stack_trace[c].hard.last_timestamp \in Nat
      /\ cpu_stack_trace[c].soft.last_timestamp \in Nat
      /\ cpu_stack_trace[c].hard.last_timestamp <= now
      /\ cpu_stack_trace[c].soft.last_timestamp <= now
  BY <1>3, MetaFields DEF Good
<1> QED
  BY <1>1, <1>2, <1>3, <1>4, <1>5, Zenon

\* Every step keeps the hrtimer of a CPU timely.
LEMMA TimelyStep ==
  ASSUME IInv, NEW c \in Cpus, Timely(hrtimer[c], cpu_stack_trace[c], allowed[c], now),
         CpuView(c)
  PROVE  Timely(hrtimer'[c], cpu_stack_trace'[c], allowed'[c], now')
<1> DEFINE h == hrtimer[c]
           s == cpu_stack_trace[c]
           a == allowed[c]
           r == cpu_stack_trace'[c]
<1>1. /\ now \in Nat /\ sampling_period \in Nat /\ trace_irqoff_latency \in Nat
      /\ GoodData(s, now) /\ s \in Data /\ h \in Nat \cup {NULL} /\ a \in Nat
      /\ s.soft.last_timestamp \in Nat /\ s.soft.last_timestamp <= now
      /\ s.delayed \in BOOLEAN
  BY CpuFacts, Zenon
<1>2. NULL \notin Nat
  BY IrqOffAssumption
<1>3. CASE Ticks(c)
  <2>1. hrtimer'[c] = h /\ r = s /\ allowed'[c] = a /\ now' = now + 1
    BY <1>3 DEF Ticks, SameData, SameTimers
  <2> HIDE DEF h, s, a, r
  <2>2. Timely(h, s, a, now)
    BY DEF h, s, a
  <2>3. Timely(h, s, a, now + 1)
    BY <1>1, <1>2, <2>2 DEF Timely
  <2> QED
    BY <2>1, <2>3, Zenon DEF r
<1>4. CASE Switches(c)
  BY <1>4, Zenon DEF Switches, SameData, SameTimers, SameTime
<1>5. CASE HrtimerFires(c)
  <2>1. PICK depth \in Nat : r = HrtimerHandler(s, sampling_period, trace_irqoff_latency,
                                                depth, now)
    BY <1>5, Zenon DEF HrtimerFires
  <2>2. /\ hrtimer'[c] = Forward(h) /\ h \in Nat /\ h <= now /\ now' = now
        /\ allowed'[c] = trace_irqoff_latency + sampling_period
    BY <1>1, <1>5 DEF HrtimerFires, HrtimerRuns, Due, SameTime
  <2>3. \/ r.soft.last_timestamp = now
        \/ /\ r.soft.last_timestamp = s.soft.last_timestamp
           /\ r.delayed = s.delayed
           /\ s.delayed = TRUE \/ now - s.soft.last_timestamp < trace_irqoff_latency
        \/ r.delayed = TRUE
    <3> HIDE DEF s, r
    <3>1. HrtimerMeasured(r, s, sampling_period, trace_irqoff_latency, now)
      BY <1>1, <2>1, HrtimerMeasures, Zenon
    <3> QED
      BY <3>1, Zenon DEF HrtimerMeasured
  <2>4. Forward(h) \in Nat /\ Forward(h) <= now + sampling_period + 1
        /\ (sampling_period # 0 => Forward(h) <= now + sampling_period)
    BY <1>1, <2>2, ForwardNext
  <2> DEFINE x == Forward(h)
             y == trace_irqoff_latency + sampling_period
  <2> HIDE DEF h, s, r, x
  <2>5. x <= now + y + 1
    BY <1>1, <2>4 DEF x
  <2>6. ASSUME r.delayed = FALSE
        PROVE  x <= r.soft.last_timestamp + y + 1
    BY <1>1, <2>3, <2>4, <2>6 DEF x
  <2>7. Timely(x, r, y, now)
    BY <2>5, <2>6, Zenon DEF Timely
  <2> QED
    BY <2>2, <2>7, Zenon DEF r, x
<1>6. CASE TimerFires(c)
  <2>1. PICK depth \in Nat : r = TimerHandler(s, sampling_period, trace_irqoff_latency,
                                              depth, now)
    BY <1>6, Zenon DEF TimerFires
  <2>2. hrtimer'[c] = h /\ allowed'[c] = a /\ now' = now
    BY <1>6 DEF TimerFires, SameTime
  <2> HIDE DEF s, r, h, a
  <2>3. TimerMeasured(r, s, sampling_period, now)
    BY <1>1, <2>1, TimerMeasures, Zenon
  <2>4. Timely(h, s, a, now)
    BY DEF h, s, a
  <2>5. Timely(h, r, a, now)
    BY <2>3, <2>4 DEF Timely, TimerMeasured
  <2> QED
    BY <2>2, <2>5, Zenon DEF r
<1>7. ASSUME NEW p \in Procs, Starts(p, c)
      PROVE  Timely(hrtimer'[c], cpu_stack_trace'[c], allowed'[c], now')
  <2> DEFINE y == trace_irqoff_latency + sampling_period
  <2>1. /\ r = [s EXCEPT !.hard.last_timestamp = now, !.soft.last_timestamp = now]
        /\ hrtimer'[c] = now + sampling_period
        /\ allowed'[c] = y /\ now' = now
    BY <1>7, Zenon DEF Starts, SameTime
  <2> HIDE DEF s, r
  <2>2. r.soft.last_timestamp = now
    BY <1>1, <2>1, StartKeeps, Zenon
  <2>3. Timely(now + sampling_period, r, y, now)
    BY <1>1, <2>2 DEF Timely
  <2> QED
    BY <2>1, <2>3, Zenon DEF r
<1>8. CASE Halts(c)
  BY <1>8 DEF Halts, Timely
<1>9. CASE Rests(c)
  <2>1. hrtimer'[c] = h /\ allowed'[c] = a /\ now' = now
    BY <1>9, Zenon DEF Rests, SameTimers
  <2>2. r = s \/ r = smp_clear_stack_trace(s)
    BY <1>9, Zenon DEF Rests, SameData
  <2> HIDE DEF s, r, h, a
  <2>3. r.soft.last_timestamp = s.soft.last_timestamp /\ r.delayed = s.delayed
    BY <1>1, <2>2, ClearKeeps, Zenon
  <2>4. Timely(h, s, a, now)
    BY DEF h, s, a
  <2>5. Timely(h, r, a, now)
    BY <2>3, <2>4, Zenon DEF Timely
  <2> QED
    BY <2>1, <2>5, Zenon DEF r
<1> QED
  BY <1>3, <1>4, <1>5, <1>6, <1>7, <1>8, <1>9, Zenon DEF CpuView

\* While softirqs are off the hrtimer notices: a softirq delay longer than the
\* threshold and a period, as they were when its handler last ran, is marked.
\* For any number of CPUs, of processes that write the files meanwhile, and any
\* settings.
THEOREM SoftDelayTheorem == Spec => []SoftDelayMarked
<1>1. Init => TInv
  BY DEF Init, TInv, Timely
<1>2. IInv /\ TInv /\ [Next]_vars => TInv'
  <2> SUFFICES ASSUME IInv, TInv, [Next]_vars, NEW c \in Cpus
               PROVE  Timely(hrtimer'[c], cpu_stack_trace'[c], allowed'[c], now')
    BY Zenon DEF TInv
  <2> QED
    BY StepView, TimelyStep, Zenon DEF TInv
<1>3. IInv /\ TInv => SoftDelayMarked
  <2> SUFFICES ASSUME IInv, TInv, NEW c \in Cpus,
                      hrtimer[c] # NULL, irq[c], ~HrtimerRuns(c),
                      now - cpu_stack_trace[c].soft.last_timestamp > allowed[c]
               PROVE  cpu_stack_trace[c].delayed
    BY Zenon DEF SoftDelayMarked
  <2>1. Timely(hrtimer[c], cpu_stack_trace[c], allowed[c], now)
    BY DEF TInv
  <2>2. /\ now \in Nat /\ hrtimer[c] \in Nat \cup {NULL} /\ allowed[c] \in Nat
        /\ cpu_stack_trace[c].soft.last_timestamp \in Nat
        /\ cpu_stack_trace[c].delayed \in BOOLEAN
    BY CpuFacts, Zenon
  <2>3. hrtimer[c] \in Nat /\ ~(hrtimer[c] <= now)
    BY <2>2 DEF HrtimerRuns, Due
  <2> QED
    BY <2>1, <2>2, <2>3 DEF Timely
<1> QED
  BY <1>1, <1>2, <1>3, InitIInv, StepIInv, PTL DEF Spec

------------------------------------------------------------------------------
(* Writes to the files that do not overlap. *)

\* No timer is started.
Quiet == \A c \in Cpus : ~Started(c)

\* A process that neither starts nor cancels timers.
Idle(p) == proc[p] = NULL \/ proc[p].at \in {"period", "clear", "latency"}

\* What is known at each point of a write.
Progress(p) ==
  proc[p] # NULL =>
    /\ loaded = TRUE
    /\ proc[p].at = "start" => /\ trace_enable = FALSE /\ proc[p].val = 1
                               /\ \A c \in Cpus : c \in proc[p].todo => ~Started(c)
    /\ proc[p].at = "cancel" => /\ trace_enable = TRUE /\ proc[p].val = 0
                                /\ \A c \in Cpus : Started(c) => c \in proc[p].todo
    /\ proc[p].at = "store" => /\ proc[p].val = 1 => trace_enable = FALSE
                               /\ proc[p].val # 1 => Quiet
    /\ proc[p].at = "period" => /\ trace_enable = FALSE
                                /\ proc[p].val \in Periods
    /\ proc[p].at = "latency" /\ "period" \notin overflowed =>
         proc[p].val * NsPerMs >= 2 * sampling_period

\* Nothing is started while tracing is off, or the module unloaded.
Stopped ==
  loaded = FALSE \/ (trace_enable = FALSE /\ \A p \in Procs : Idle(p)) => Quiet

\* Twice every period that is written fits the 64 bits of the code.
PeriodsFit == \A k \in Periods : 2 * (k * NsPerMs) < Word

\* While what was written fits, the period is a number of milliseconds, and the
\* threshold is high enough.
Settings ==
  /\ "period" \notin overflowed =>
       /\ \E k \in Periods \cup {InitPeriod} : sampling_period = k * NsPerMs
       /\ 2 * sampling_period < Word
  /\ overflowed = {} => trace_irqoff_latency >= 2 * sampling_period
  /\ PeriodsFit => "period" \notin overflowed

QInv == (\A p \in Procs : Progress(p)) /\ Stopped /\ Settings

\* The files are not written by two processes at a time, which the code leaves
\* to its users.
OneWriter == \A p, q \in Procs : p = q

\* A step that starts and stops no timer and touches no file.
LEMMA QuietStays ==
  ASSUME QInv, UNCHANGED <<proc, loaded, settings>>,
         \A c \in Cpus : Started(c)' <=> Started(c)
  PROVE  QInv'
<1> USE DEF settings
<1>1. Quiet' <=> Quiet
  BY Zenon DEF Quiet
<1>2. ASSUME NEW p \in Procs
      PROVE  Progress(p)'
  <2>1. Progress(p)
    BY DEF QInv
  <2> QED
    BY <1>1, <2>1, Zenon DEF Progress
<1>3. Stopped'
  BY <1>1, Zenon DEF QInv, Stopped, Idle
<1>4. Settings'
  BY Zenon DEF QInv, Settings
<1> QED
  BY <1>2, <1>3, <1>4, Zenon DEF QInv

\* The environment and the handlers start and stop no timer.
LEMMA EnvironmentQuiet ==
  ASSUME IInv, QInv, Environment \/ Handlers
  PROVE  QInv'
<1>1. UNCHANGED <<proc, loaded, settings>>
  <2>1. CASE Environment
    BY <2>1 DEF Environment, Tick, local_irq_disable, local_irq_enable, local_bh_disable,
                local_bh_enable, files
  <2>2. CASE Handlers
    BY <2>2 DEF Handlers, trace_irqoff_hrtimer_handler, trace_irqoff_timer_handler, files
  <2> QED
    BY <2>1, <2>2
<1>2. ASSUME NEW c \in Cpus
      PROVE  Started(c)' <=> Started(c)
  <2>1. CASE Environment
    <3>1. UNCHANGED timers
      BY <2>1 DEF Environment, Tick, local_irq_disable, local_irq_enable, local_bh_disable,
                  local_bh_enable
    <3> QED
      BY <3>1 DEF timers, Started
  <2>2. ASSUME NEW d \in Cpus, trace_irqoff_hrtimer_handler(d)
        PROVE  Started(c)' <=> Started(c)
    <3>1. hrtimer[d] \in Nat /\ hrtimer[d] <= now
      BY <2>2, CpuFacts DEF trace_irqoff_hrtimer_handler, HrtimerRuns, Due
    <3>2. Forward(hrtimer[d]) \in Nat
      BY <3>1, Facts, ForwardNext
    <3>3. hrtimer' = [hrtimer EXCEPT ![d] = Forward(hrtimer[d])] /\ timer' = timer
      BY <2>2 DEF trace_irqoff_hrtimer_handler
    <3>4. hrtimer \in [Cpus -> Nat \cup {NULL}]
      BY Facts DEF TypeOK
    <3> QED
      BY <3>1, <3>2, <3>3, <3>4, IrqOffAssumption DEF Started
  <2>3. ASSUME NEW d \in Cpus, trace_irqoff_timer_handler(d)
        PROVE  Started(c)' <=> Started(c)
    <3>1. timer[d] # NULL
      BY <2>3 DEF trace_irqoff_timer_handler, TimerRuns, Due
    <3>2. PICK slack \in WheelSlack : timer' = [timer EXCEPT ![d] = TimerExpiry(slack)]
      BY <2>3, Zenon DEF trace_irqoff_timer_handler
    <3>3. slack \in Nat
      BY IrqOffAssumption
    <3>4. TimerExpiry(slack) \in Nat
      BY <3>3, Facts, ExpiryNat
    <3>5. timer \in [Cpus -> Nat \cup {NULL}] /\ hrtimer' = hrtimer
      BY <2>3, Facts DEF TypeOK, trace_irqoff_timer_handler
    <3> QED
      BY <3>1, <3>2, <3>4, <3>5, IrqOffAssumption DEF Started
  <2> QED
    BY <2>1, <2>2, <2>3, Zenon DEF Handlers
<1> QED
  BY <1>1, <1>2, QuietStays

\* What is left of a write after one more CPU.
LEMMA CpuDoneIs ==
  ASSUME TypeOK, NEW p \in Procs, NEW c \in Cpus, NEW at \in {"store", NULL},
         proc[p] # NULL, CpuDone(p, c, at)
  PROVE  \/ /\ proc'[p] # NULL /\ proc'[p].at = proc[p].at
            /\ proc'[p].todo = proc[p].todo \ {c} /\ proc'[p].val = proc[p].val
         \/ /\ proc'[p] # NULL /\ at # NULL /\ proc'[p].at = at /\ proc[p].todo = {c}
            /\ proc'[p].val = proc[p].val
         \/ proc'[p] = NULL /\ at = NULL
<1> DEFINE x == proc[p]
           y == [x EXCEPT !.todo = @ \ {c}]
           z == [x EXCEPT !.todo = {}, !.at = at]
<1>1. x \in Writing /\ proc \in [Procs -> Writing \cup {NULL}]
  BY DEF TypeOK
<1>2. y \in Writing /\ y.at = x.at /\ y.todo = x.todo \ {c} /\ y.val = x.val
  BY <1>1 DEF Writing
<1>3. at # NULL => z \in Writing /\ z.at = at /\ z.val = x.val
  BY <1>1, Zenon DEF Writing
<1>4. proc' = [proc EXCEPT ![p] = IF x.todo # {c} THEN y ELSE IF at = NULL THEN NULL ELSE z]
  BY DEF CpuDone
<1> HIDE DEF x, y, z
<1>5. proc'[p] = IF x.todo # {c} THEN y ELSE IF at = NULL THEN NULL ELSE z
  BY <1>1, <1>4
<1>6. NULL \notin Writing
  BY WritingAssumption
<1> QED
  BY <1>2, <1>3, <1>5, <1>6, Zenon DEF x

\* trace_latency_write compares milliseconds, which is as good as comparing
\* nanoseconds because the period is a number of milliseconds.
LEMMA LatencyTest ==
  ASSUME NEW k \in Nat, NEW ms \in Nat, sampling_period = k * NsPerMs,
         2 * sampling_period < Word, ms >= Throttle(sampling_period) \div NsPerMs
  PROVE  ms * NsPerMs >= 2 * sampling_period
<1> DEFINE d == 2 * sampling_period
           q == d \div NsPerMs
           a == 2 * k
<1>1. NsPerMs \in Nat \ {0}
  BY IrqOffAssumption
<1>2. d \in Nat /\ a \in Nat /\ a * NsPerMs = d
  BY <1>1, SMTT(30)
<1>3. ms >= q
  <2>1. sampling_period \in Nat
    BY <1>1, SMTT(30)
  <2>2. Throttle(sampling_period) = d
    BY <2>1, ThrottleNat, Zenon
  <2> QED
    BY <2>2, Zenon
<1> HIDE DEF a, d
<1>4. q \in Nat /\ (a * NsPerMs <= d <=> a <= q)
  BY <1>1, <1>2, DivBound
<1> HIDE DEF q
<1>5. a <= ms
  BY <1>2, <1>3, <1>4
<1>6. a * NsPerMs <= ms * NsPerMs
  BY <1>1, <1>2, <1>5, SMTT(30)
<1> DEFINE x == ms * NsPerMs
<1>7. x \in Nat /\ d <= x
  BY <1>1, <1>2, <1>6
<1> HIDE DEF x
<1>8. x >= d
  BY <1>2, <1>7
<1> QED
  BY <1>8, Zenon DEF x, d

\* A write begins.
LEMMA BeginQuiet ==
  ASSUME IInv, QInv, OneWriter, NEW p \in Procs,
         \/ \E enable \in BOOLEAN : enable_write(p, enable)
         \/ \E ms \in Periods : sampling_period_write(p, ms)
         \/ \E ms \in Latencies : trace_latency_write(p, ms)
  PROVE  QInv'
<1> USE DEF timers, settings
<1>1. TypeOK
  BY DEF IInv
<1>2. proc \in [Procs -> Writing \cup {NULL}] /\ trace_enable \in BOOLEAN
  BY <1>1 DEF TypeOK
<1>3. \A q \in Procs : q = p
  BY DEF OneWriter
<1>4. ASSUME NEW rec \in Writing, Begins(p, rec)
      PROVE  /\ proc[p] = NULL /\ proc'[p] = rec /\ rec # NULL
             /\ loaded = TRUE /\ loaded' = TRUE /\ Quiet' = Quiet /\ Settings'
             /\ \A c \in Cpus : Started(c)' = Started(c)
             /\ trace_enable' = trace_enable /\ sampling_period' = sampling_period
             /\ overflowed' = overflowed
             /\ trace_enable = FALSE => Quiet
  <2>1. /\ proc[p] = NULL /\ loaded /\ UNCHANGED <<timers, settings, loaded>>
        /\ proc'[p] = rec
    BY <1>2, <1>4 DEF Begins
  <2>2. rec # NULL
    BY WritingAssumption
  <2>3. loaded \in BOOLEAN
    BY <1>1 DEF TypeOK
  <2>4. trace_enable = FALSE => Quiet
    BY <1>3, <2>1, Zenon DEF QInv, Stopped, Idle
  <2>5. (\A c \in Cpus : Started(c)' = Started(c)) /\ Quiet' = Quiet
    BY <2>1, Zenon DEF Started, Quiet
  <2>6. Settings'
    BY <2>1, Zenon DEF QInv, Settings
  <2> QED
    BY <2>1, <2>2, <2>3, <2>4, <2>5, <2>6, Zenon
<1>5. ASSUME NEW enable \in BOOLEAN, enable_write(p, enable)
      PROVE  QInv'
  <2> DEFINE rec == [at |-> IF enable THEN "start" ELSE "cancel", todo |-> Cpus,
                     val |-> IF enable THEN 1 ELSE 0]
  <2>1. /\ rec \in Writing /\ rec.at = (IF enable THEN "start" ELSE "cancel")
        /\ rec.todo = Cpus /\ rec.val = IF enable THEN 1 ELSE 0
    BY DEF Writing
  <2>2. Begins(p, rec) /\ enable # trace_enable
    BY <1>5 DEF enable_write
  <2> HIDE DEF rec
  <2>3. /\ proc'[p] = rec /\ rec # NULL /\ loaded' = TRUE /\ Settings'
        /\ \A c \in Cpus : Started(c)' = Started(c)
        /\ trace_enable' = trace_enable /\ (trace_enable = FALSE => Quiet)
    BY <1>4, <2>1, <2>2, Zenon
  <2>4. enable = (trace_enable = FALSE) /\ rec.at \notin {"period", "clear", "latency", "store"}
    BY <1>2, <2>1, <2>2, Zenon
  <2>5. Progress(p)'
    BY <1>2, <2>1, <2>3, <2>4, Zenon DEF Progress, Quiet
  <2>6. Stopped'
    BY <2>3, <2>4, Zenon DEF Stopped, Idle
  <2> QED
    BY <1>3, <2>3, <2>5, <2>6, Zenon DEF QInv
<1>6. ASSUME NEW ms \in Periods, sampling_period_write(p, ms)
      PROVE  QInv'
  <2> DEFINE rec == [at |-> "period", todo |-> {}, val |-> ms]
  <2>1. rec \in Writing /\ rec.at = "period" /\ rec.val = ms
    BY IrqOffAssumption DEF Writing
  <2>2. Begins(p, rec) /\ trace_enable = FALSE
    BY <1>2, <1>6, Zenon DEF sampling_period_write
  <2> HIDE DEF rec
  <2>3. /\ proc'[p] = rec /\ rec # NULL /\ loaded' = TRUE /\ Settings' /\ Quiet' = Quiet
        /\ trace_enable' = trace_enable /\ Quiet
    BY <1>4, <2>1, <2>2, Zenon
  <2>4. Progress(p)'
    BY <2>1, <2>2, <2>3 DEF Progress
  <2> QED
    BY <1>3, <2>3, <2>4, Zenon DEF QInv, Stopped
<1>7. ASSUME NEW ms \in Latencies, trace_latency_write(p, ms)
      PROVE  QInv'
  <2>1. ms \in Nat
    BY IrqOffAssumption
  <2>2. CASE Begins(p, [at |-> "clear", todo |-> Cpus, val |-> 0])
    <3> DEFINE rec == [at |-> "clear", todo |-> Cpus, val |-> 0]
    <3>1. rec \in Writing /\ rec.at = "clear"
      BY DEF Writing
    <3> HIDE DEF rec
    <3>2. /\ proc'[p] = rec /\ rec # NULL /\ loaded' = TRUE /\ Settings' /\ Quiet' = Quiet
          /\ trace_enable' = trace_enable /\ (trace_enable = FALSE => Quiet)
      BY <1>4, <2>2, <3>1, Zenon DEF rec
    <3>3. Progress(p)'
      BY <3>1, <3>2 DEF Progress
    <3> QED
      BY <1>3, <3>2, <3>3, Zenon DEF QInv, Stopped
  <2>3. CASE /\ ms >= Throttle(sampling_period) \div NsPerMs
             /\ Begins(p, [at |-> "latency", todo |-> {}, val |-> ms])
    <3> DEFINE rec == [at |-> "latency", todo |-> {}, val |-> ms]
    <3>1. rec \in Writing /\ rec.at = "latency" /\ rec.val = ms
      BY <2>1 DEF Writing
    <3> HIDE DEF rec
    <3>2. /\ proc'[p] = rec /\ rec # NULL /\ loaded' = TRUE /\ Settings' /\ Quiet' = Quiet
          /\ trace_enable' = trace_enable /\ (trace_enable = FALSE => Quiet)
          /\ sampling_period' = sampling_period /\ overflowed' = overflowed
      BY <1>4, <2>3, <3>1, Zenon DEF rec
    <3>3. ASSUME "period" \notin overflowed
          PROVE  ms * NsPerMs >= 2 * sampling_period
      <4>1. PICK k \in Periods \cup {InitPeriod} : sampling_period = k * NsPerMs
        BY <3>3, Zenon DEF QInv, Settings
      <4>2. 2 * sampling_period < Word
        BY <3>3, Zenon DEF QInv, Settings
      <4>3. k \in Nat
        BY IrqOffAssumption
      <4> QED
        BY <2>1, <2>3, <4>1, <4>2, <4>3, LatencyTest, Zenon
    <3>4. Progress(p)'
      BY <3>1, <3>2, <3>3, Zenon DEF Progress
    <3> QED
      BY <1>3, <3>2, <3>4, Zenon DEF QInv, Stopped
  <2> QED
    BY <1>7, <2>2, <2>3, Zenon DEF trace_latency_write
<1> QED
  BY <1>5, <1>6, <1>7, Zenon

\* A write goes on.
LEMMA WriteQuiet ==
  ASSUME IInv, QInv, OneWriter, NEW p \in Procs,
         \/ \E c \in Cpus : \/ smp_timers_start(p, c)
                            \/ trace_irqoff_cancel_timers(p, c)
                            \/ clear_one_cpu(p, c)
         \/ store_trace_enable(p) \/ store_sampling_period(p) \/ store_latency(p)
  PROVE  QInv'
<1> USE DEF timers, settings
<1>1. TypeOK
  BY DEF IInv
<1>2. /\ proc \in [Procs -> Writing \cup {NULL}] /\ trace_enable \in BOOLEAN
      /\ hrtimer \in [Cpus -> Nat \cup {NULL}] /\ timer \in [Cpus -> Nat \cup {NULL}]
      /\ sampling_period \in Nat /\ trace_irqoff_latency \in Nat
  BY <1>1 DEF TypeOK
<1>3. (\A q \in Procs : q = p) /\ Progress(p) /\ Stopped /\ Settings
  BY DEF OneWriter, QInv
<1>4. SUFFICES (Progress(p) /\ Stopped /\ Settings)'
  BY <1>3, Zenon DEF QInv
<1> DEFINE x == proc[p]
           y == proc'[p]
<1>5. ASSUME NEW c \in Cpus, smp_timers_start(p, c)
      PROVE  (Progress(p) /\ Stopped /\ Settings)'
  <2>1. /\ x # NULL /\ x.at = "start" /\ c \in x.todo /\ CpuDone(p, c, "store")
        /\ UNCHANGED <<settings, loaded>>
    BY <1>5 DEF smp_timers_start, At
  <2>2. /\ y # NULL /\ y.val = x.val
        /\ \/ y.at = "start" /\ y.todo = x.todo \ {c}
           \/ y.at = "store"
    BY <1>1, <2>1, CpuDoneIs, WritingAssumption, Zenon
  <2>3. \A d \in Cpus : d # c => Started(d)' = Started(d)
    BY <1>2, <1>5, Zenon DEF smp_timers_start, Started
  <2> HIDE DEF Started
  <2>4. /\ loaded = TRUE /\ trace_enable = FALSE /\ x.val = 1
        /\ \A d \in Cpus : d \in x.todo => ~Started(d)
    BY <1>3, <2>1, Zenon DEF Progress
  <2>5. y.at = "start" => \A d \in Cpus : d \in y.todo => ~Started(d)'
    BY <2>2, <2>3, <2>4, Zenon
  <2>6. Progress(p)'
    BY <2>1, <2>2, <2>4, <2>5 DEF Progress
  <2>7. Stopped'
    BY <2>1, <2>2, <2>4, Zenon DEF Stopped, Idle
  <2> QED
    BY <1>3, <2>1, <2>6, <2>7, Zenon DEF Settings
<1>6. ASSUME NEW c \in Cpus, trace_irqoff_cancel_timers(p, c)
      PROVE  (Progress(p) /\ Stopped /\ Settings)'
  <2>1. /\ x # NULL /\ x.at = "cancel" /\ c \in x.todo /\ CpuDone(p, c, "store")
        /\ UNCHANGED <<settings, loaded>>
    BY <1>6 DEF trace_irqoff_cancel_timers, At
  <2>2. /\ y # NULL /\ y.val = x.val
        /\ \/ y.at = "cancel" /\ y.todo = x.todo \ {c}
           \/ y.at = "store" /\ x.todo = {c}
    BY <1>1, <2>1, CpuDoneIs, WritingAssumption, Zenon
  <2>3. /\ \A d \in Cpus : d # c => Started(d)' = Started(d)
        /\ ~Started(c)'
    BY <1>2, <1>6, Zenon DEF trace_irqoff_cancel_timers, Started
  <2> HIDE DEF Started
  <2>4. /\ loaded = TRUE /\ trace_enable = TRUE /\ x.val = 0
        /\ \A d \in Cpus : Started(d) => d \in x.todo
    BY <1>3, <2>1, Zenon DEF Progress
  <2>5. /\ y.at = "cancel" => \A d \in Cpus : Started(d)' => d \in y.todo
        /\ y.at = "store" => Quiet'
    BY <2>2, <2>3, <2>4, Zenon DEF Quiet
  <2>6. Progress(p)'
    BY <2>1, <2>2, <2>4, <2>5 DEF Progress
  <2>7. Stopped'
    BY <2>1, <2>2, <2>4, Zenon DEF Stopped, Idle
  <2> QED
    BY <1>3, <2>1, <2>6, <2>7, Zenon DEF Settings
<1>7. ASSUME NEW c \in Cpus, clear_one_cpu(p, c)
      PROVE  (Progress(p) /\ Stopped /\ Settings)'
  <2>1. /\ x # NULL /\ x.at = "clear" /\ CpuDone(p, c, NULL)
        /\ UNCHANGED <<hrtimer, timer, settings, loaded>>
    BY <1>7 DEF clear_one_cpu, At
  <2>2. y = NULL \/ y.at = "clear"
    BY <1>1, <2>1, CpuDoneIs, WritingAssumption, Zenon
  <2>3. Quiet' = Quiet
    BY <2>1, Zenon DEF Quiet, Started
  <2>4. Progress(p)'
    BY <1>3, <2>1, <2>2, <2>3 DEF Progress
  <2>5. Stopped'
    <3>1. Idle(p)
      BY <2>1 DEF Idle
    <3> QED
      BY <1>3, <2>1, <2>3, <3>1, Zenon DEF Stopped
  <2> QED
    BY <1>3, <2>1, <2>4, <2>5, Zenon DEF Settings
<1>8. CASE store_trace_enable(p)
  <2>1. /\ x # NULL /\ x.at = "store" /\ y = NULL
        /\ trace_enable' = (x.val = 1)
        /\ UNCHANGED <<hrtimer, timer, sampling_period, trace_irqoff_latency, overflowed, loaded>>
    BY <1>2, <1>8 DEF store_trace_enable, At, Return
  <2>2. Quiet' = Quiet
    BY <2>1, Zenon DEF Quiet, Started
  <2>3. loaded = TRUE /\ (x.val # 1 => Quiet)
    BY <1>3, <2>1, Zenon DEF Progress
  <2>4. Progress(p)'
    BY <2>1, Zenon DEF Progress
  <2>5. Stopped'
    BY <2>1, <2>2, <2>3, Zenon DEF Stopped
  <2> QED
    BY <1>3, <2>1, <2>4, <2>5, Zenon DEF Settings
<1>9. CASE store_sampling_period(p)
  <2> DEFINE period == Ns(x.val)
             n == x.val * NsPerMs
  <2>1. /\ x # NULL /\ x.at = "period" /\ y = NULL /\ sampling_period' = period
        /\ trace_irqoff_latency' = IF period > trace_irqoff_latency \div 2
                                   THEN Throttle(period) ELSE trace_irqoff_latency
        /\ overflowed' = IF 2 * n < Word THEN {} ELSE {"period"}
        /\ UNCHANGED <<hrtimer, timer, trace_enable, loaded>>
    BY <1>2, <1>9 DEF store_sampling_period, At, Return
  <2>2. Quiet' = Quiet /\ loaded = TRUE /\ trace_enable = FALSE /\ x.val \in Periods
    BY <1>3, <2>1, Zenon DEF Quiet, Started, Progress
  <2>3. Quiet
    <3>1. Idle(p)
      BY <2>1 DEF Idle
    <3> QED
      BY <1>3, <2>2, <3>1, Zenon DEF Stopped
  <2>4. x.val \in Nat /\ n \in Nat
    <3>1. x.val \in Nat
      BY <1>1, <2>1, ProcOK
    <3> HIDE DEF x
    <3> QED
      BY <3>1, IrqOffAssumption
  <2> HIDE DEF x
  <2>5. ASSUME 2 * n < Word
        PROVE  sampling_period' = n /\ trace_irqoff_latency' >= 2 * sampling_period'
    <3>1. n < Word
      <4> HIDE DEF n
      <4> QED
        BY <2>4, <2>5, IrqOffAssumption
    <3>2. period = n
      BY <2>4, <3>1, NsNat, Zenon
    <3>3. Throttle(period) = 2 * n
      BY <2>4, <2>5, <3>2, ThrottleNat, Zenon
    <3> HIDE DEF n, period
    <3> QED
      BY <1>2, <2>1, <2>4, <3>2, <3>3
  <2>6. Settings'
    <3>1. CASE 2 * n < Word
      <4>1. overflowed' = {} /\ (\E k \in Periods : sampling_period' = k * NsPerMs)
        BY <2>1, <2>2, <2>5, <3>1, Zenon
      <4> QED
        BY <2>5, <3>1, <4>1, Zenon DEF Settings
    <3>2. CASE ~(2 * n < Word)
      <4>1. overflowed' = {"period"} /\ ~PeriodsFit
        BY <2>1, <2>2, <3>2, Zenon DEF PeriodsFit
      <4> QED
        BY <4>1, Zenon DEF Settings
    <3> QED
      BY <3>1, <3>2, Zenon
  <2>7. Progress(p)' /\ Stopped'
    BY <2>1, <2>2, <2>3, Zenon DEF Progress, Stopped
  <2> QED
    BY <2>6, <2>7
<1>10. CASE store_latency(p)
  <2> DEFINE n == x.val * NsPerMs
  <2>1. /\ x # NULL /\ x.at = "latency" /\ y = NULL /\ trace_irqoff_latency' = Ns(x.val)
        /\ overflowed' = IF n < Word THEN overflowed \ {"latency"}
                         ELSE overflowed \cup {"latency"}
        /\ UNCHANGED <<hrtimer, timer, trace_enable, sampling_period, loaded>>
    BY <1>2, <1>10 DEF store_latency, At, Return
  <2>2. Quiet' = Quiet /\ ("period" \notin overflowed => n >= 2 * sampling_period)
    BY <1>3, <2>1, Zenon DEF Quiet, Started, Progress
  <2>3. "period" \in overflowed' <=> "period" \in overflowed
    BY <2>1, "period" # "latency", Zenon
  <2>4. Settings'
    <3>1. ASSUME overflowed' = {}
          PROVE  trace_irqoff_latency' >= 2 * sampling_period'
      <4>1. n < Word /\ "period" \notin overflowed
        BY <2>1, <2>3, <3>1, Zenon
      <4>2. x.val \in Nat
        BY <1>1, <2>1, ProcOK
      <4>3. trace_irqoff_latency' = n
        BY <2>1, <4>1, <4>2, NsNat, Zenon
      <4> QED
        BY <2>1, <2>2, <4>1, <4>3, Zenon
    <3> QED
      BY <1>3, <2>1, <2>3, <3>1, Zenon DEF Settings
  <2>5. Stopped'
    <3>1. Idle(p)
      BY <2>1 DEF Idle
    <3> QED
      BY <1>3, <2>1, <2>2, <3>1, Zenon DEF Stopped
  <2>6. Progress(p)'
    BY <2>1, Zenon DEF Progress
  <2> QED
    BY <2>4, <2>5, <2>6
<1> QED
  BY <1>5, <1>6, <1>7, <1>8, <1>9, <1>10, Zenon

\* The module is loaded with nothing started, and with settings that fit.
LEMMA InitQInv ==
  Init => QInv
<1> SUFFICES ASSUME Init PROVE QInv
  OBVIOUS
<1>1. \A p \in Procs : Progress(p)
  BY DEF Init, Progress
<1>2. Stopped
  BY DEF Init, Stopped, Quiet, Started
<1>3. Settings
  <2>1. InitLatency * NsPerMs >= 2 * (InitPeriod * NsPerMs)
    <3>1. /\ NsPerMs \in Nat /\ InitPeriod \in Nat /\ InitLatency \in Nat
          /\ 2 * InitPeriod <= InitLatency
      BY IrqOffAssumption
    <3>2. (2 * InitPeriod) * NsPerMs <= InitLatency * NsPerMs
      BY <3>1, SMTT(30)
    <3>3. (2 * InitPeriod) * NsPerMs = 2 * (InitPeriod * NsPerMs)
      BY <3>1, SMTT(30)
    <3> DEFINE a == InitLatency * NsPerMs
               b == 2 * (InitPeriod * NsPerMs)
    <3>4. a \in Nat /\ b \in Nat /\ b <= a
      BY <3>1, <3>2, <3>3, SMTT(30)
    <3> HIDE DEF a, b
    <3>5. a >= b
      BY <3>4
    <3> QED
      BY <3>5, Zenon DEF a, b
  <2>2. 2 * (InitPeriod * NsPerMs) < Word
    <3> DEFINE a == InitLatency * NsPerMs
               b == 2 * (InitPeriod * NsPerMs)
    <3>1. a \in Nat /\ b \in Nat /\ Word \in Nat /\ a < Word
      BY IrqOffAssumption
    <3> HIDE DEF a, b
    <3>2. b < Word
      BY <2>1, <3>1 DEF a, b
    <3> QED
      BY <3>2, Zenon DEF b
  <2> QED
    BY <2>1, <2>2, Zenon DEF Init, Settings
<1> QED
  BY <1>1, <1>2, <1>3, Zenon DEF QInv

\* With one writer every step keeps what is known of its write.
LEMMA StepQInv ==
  OneWriter /\ IInv /\ QInv /\ [Next]_vars => QInv'
<1> SUFFICES ASSUME OneWriter, IInv, QInv, [Next]_vars PROVE QInv'
  OBVIOUS
<1>1. CASE Environment \/ Handlers
  BY <1>1, EnvironmentQuiet, Zenon
<1>2. CASE Files
  BY <1>2, BeginQuiet, WriteQuiet, Zenon DEF Files
<1>3. CASE trace_irqoff_exit
  <2>1. /\ \A p \in Procs : proc[p] = NULL /\ proc'[p] = NULL
        /\ UNCHANGED settings
        /\ \/ trace_enable = TRUE /\ Quiet'
           \/ trace_enable = FALSE /\ UNCHANGED <<hrtimer, timer>>
    BY <1>3, IrqOffAssumption DEF trace_irqoff_exit, Quiet, Started, IInv, TypeOK
  <2>2. Quiet'
    <3>1. trace_enable = FALSE => Quiet
      BY <2>1, Zenon DEF QInv, Stopped, Idle
    <3> QED
      BY <2>1, <3>1, Zenon DEF Quiet, Started
  <2>3. (\A p \in Procs : Progress(p)') /\ Stopped'
    BY <2>1, <2>2, Zenon DEF Progress, Stopped
  <2>4. Settings'
    BY <2>1, Zenon DEF QInv, Settings, settings
  <2> QED
    BY <2>3, <2>4, Zenon DEF QInv
<1>4. CASE UNCHANGED vars
  <2>1. UNCHANGED <<proc, loaded, settings, hrtimer, timer>>
    BY <1>4 DEF vars, files, timers
  <2>2. \A c \in Cpus : Started(c)' <=> Started(c)
    BY <2>1, Zenon DEF Started
  <2> QED
    BY <2>1, <2>2, QuietStays, Zenon
<1> QED
  BY <1>1, <1>2, <1>3, <1>4, Zenon DEF Next

\* When the files are written by one process at a time, a disabled or unloaded
\* trace_irqoff has no timer started.
THEOREM QuietTheorem ==
  ASSUME OneWriter
  PROVE  Spec => []QuietWhenOff
<1>1. IInv /\ QInv => QuietWhenOff
  <2> SUFFICES ASSUME IInv, QInv,
                      ~loaded \/ (~trace_enable /\ \A p \in Procs : proc[p] = NULL)
               PROVE  Quiet
    BY Zenon DEF QuietWhenOff, Quiet
  <2>1. loaded \in BOOLEAN /\ trace_enable \in BOOLEAN
    BY DEF IInv, TypeOK
  <2> QED
    BY <2>1, Zenon DEF QInv, Stopped, Idle
<1> QED
  BY <1>1, InitIInv, StepIInv, InitQInv, StepQInv, PTL DEF Spec

\* With one writer, in whatever order trace_latency and sampling_period are
\* written, and whatever overflowed before: while the values last written fit
\* their 64 bits, the threshold is not below twice the sampling period.
THEOREM LatencyTheorem ==
  ASSUME OneWriter
  PROVE  Spec => []LatencyAboveThrottle
<1>1. QInv => LatencyAboveThrottle
  BY DEF QInv, Settings, LatencyAboveThrottle
<1> QED
  BY <1>1, InitIInv, StepIInv, InitQInv, StepQInv, PTL DEF Spec

------------------------------------------------------------------------------
(* Interrupts that were off are measured. *)

\* The hrtimer of a CPU, due at h and last run at `last', with interrupts `on'
\* and the interval without them starting at `off'.  It is due a period after it
\* last ran, and is only late because interrupts are, or just were, off.
HardOK(h, last, on, off, period, t) ==
  /\ on = FALSE => off # NULL
  /\ off # NULL => off <= t
  /\ h # NULL =>
       /\ last < h /\ h <= last + period
       /\ on = TRUE /\ off = NULL => t <= h
       /\ off # NULL => off <= h /\ (last <= off \/ (on = TRUE /\ last = t))

HInv ==
  \A c \in Cpus : HardOK(hrtimer[c], cpu_stack_trace[c].hard.last_timestamp, irq[c],
                         hard_off[c], sampling_period, now)

\* With one writer no timer is started when the period is about to change.
LEMMA PeriodStays ==
  ASSUME QInv, OneWriter, NEW c \in Cpus, Rests(c), Started(c)
  PROVE  sampling_period' = sampling_period
<1> SUFFICES ASSUME NEW p \in Procs, At(p, "period") PROVE ~Started(c)
  BY Zenon DEF Rests
<1>1. trace_enable = FALSE
  BY Zenon DEF QInv, Progress, At
<1>2. \A q \in Procs : Idle(q)
  BY Zenon DEF OneWriter, Idle, At
<1> QED
  BY <1>1, <1>2, Zenon DEF QInv, Stopped, Quiet

\* The period is not 0, if 0 is never written to the file.
LEMMA PeriodPositive ==
  ASSUME QInv, PeriodsFit, 0 \notin Periods
  PROVE  sampling_period \in Nat \ {0}
<1>1. PICK k \in Periods \cup {InitPeriod} : sampling_period = k * NsPerMs
  BY Zenon DEF QInv, Settings
<1>2. k \in Nat \ {0} /\ NsPerMs \in Nat \ {0}
  BY IrqOffAssumption
<1> QED
  BY <1>1, <1>2

\* Every step keeps the invariant of the hrtimer of a CPU.
LEMMA HardStep ==
  ASSUME IInv, QInv, OneWriter, PeriodsFit, 0 \notin Periods, NEW c \in Cpus, CpuView(c),
         HardOK(hrtimer[c], cpu_stack_trace[c].hard.last_timestamp, irq[c], hard_off[c],
                sampling_period, now)
  PROVE  HardOK(hrtimer'[c], cpu_stack_trace'[c].hard.last_timestamp, irq'[c], hard_off'[c],
                sampling_period', now')
<1> DEFINE h == hrtimer[c]
           s == cpu_stack_trace[c]
           r == cpu_stack_trace'[c]
           on == irq[c]
           off == hard_off[c]
           period == sampling_period
           t == now
<1>1. /\ t \in Nat /\ period \in Nat \ {0} /\ trace_irqoff_latency \in Nat
      /\ GoodData(s, t) /\ s \in Data /\ h \in Nat \cup {NULL} /\ off \in Nat \cup {NULL}
      /\ on \in BOOLEAN /\ s.hard.last_timestamp \in Nat /\ s.hard.last_timestamp <= t
  BY CpuFacts, PeriodPositive, Zenon
<1>2. NULL \notin Nat
  BY IrqOffAssumption
<1>3. HardOK(h, s.hard.last_timestamp, on, off, period, t)
  OBVIOUS
<1>4. CASE Ticks(c)
  <2>1. /\ hrtimer'[c] = h /\ r = s /\ irq'[c] = on /\ sampling_period' = period
        /\ now' = t + 1 /\ hard_off'[c] = (IF on THEN NULL ELSE off)
        /\ ~(h # NULL /\ h <= t /\ on)
    BY <1>4, Zenon DEF Ticks, SameData, SameTimers, HrtimerRuns, Due
  <2> HIDE DEF h, s, r, on, off, period, t
  <2>2. HardOK(h, s.hard.last_timestamp, on, IF on THEN NULL ELSE off, period, t + 1)
    <3>1. CASE on = TRUE
      BY <1>1, <1>2, <1>3, <2>1, <3>1 DEF HardOK
    <3>2. CASE on = FALSE
      BY <1>1, <1>2, <1>3, <3>2 DEF HardOK
    <3> QED
      BY <1>1, <3>1, <3>2, Zenon
  <2> QED
    BY <2>1, <2>2, Zenon DEF r
<1>5. CASE Switches(c)
  <2>1. /\ hrtimer'[c] = h /\ r = s /\ sampling_period' = period /\ now' = t
        /\ \/ /\ ~(h # NULL /\ h <= t) /\ irq'[c] = FALSE /\ hard_off'[c] = t
           \/ on = FALSE /\ irq'[c] = TRUE /\ hard_off'[c] = off
           \/ irq'[c] = on /\ hard_off'[c] = off
    BY <1>1, <1>5, Zenon DEF Switches, SameData, SameTimers, SameTime, HrtimerRuns, Due
  <2> HIDE DEF h, s, r, on, off, period, t
  <2>2. ~(h # NULL /\ h <= t) => HardOK(h, s.hard.last_timestamp, FALSE, t, period, t)
    BY <1>1, <1>2, <1>3 DEF HardOK
  <2>3. on = FALSE => HardOK(h, s.hard.last_timestamp, TRUE, off, period, t)
    BY <1>1, <1>2, <1>3 DEF HardOK
  <2> QED
    BY <1>3, <2>1, <2>2, <2>3, Zenon DEF r
<1>6. CASE HrtimerFires(c)
  <2>1. PICK depth \in Nat : r = HrtimerHandler(s, period, trace_irqoff_latency, depth, t)
    BY <1>6, Zenon DEF HrtimerFires
  <2>2. /\ hrtimer'[c] = Forward(h) /\ h \in Nat /\ h <= t /\ now' = t /\ on
        /\ sampling_period' = period /\ irq'[c] = on /\ hard_off'[c] = off
    BY <1>1, <1>6 DEF HrtimerFires, HrtimerRuns, Due, SameTime, SameMasks
  <2>3. r.hard.last_timestamp = t
    <3> HIDE DEF s, r, t, period
    <3>1. HrtimerMeasured(r, s, period, trace_irqoff_latency, t)
      BY <1>1, <2>1, period \in Nat, HrtimerMeasures, Zenon
    <3> QED
      BY <3>1, Zenon DEF HrtimerMeasured
  <2>4. Forward(h) \in Nat /\ t < Forward(h) /\ Forward(h) <= t + period
    BY <1>1, <2>2, ForwardNext
  <2> DEFINE x == Forward(h)
  <2> HIDE DEF h, s, r, x, on, off, period, t
  <2>5. HardOK(x, t, on, off, period, t)
    BY <1>1, <1>2, <1>3, <2>2, <2>4 DEF HardOK, x
  <2> QED
    BY <2>2, <2>3, <2>5, Zenon DEF r, x
<1>7. CASE TimerFires(c)
  <2>1. PICK depth \in Nat : r = TimerHandler(s, period, trace_irqoff_latency, depth, t)
    BY <1>7, Zenon DEF TimerFires
  <2>2. /\ hrtimer'[c] = h /\ now' = t /\ sampling_period' = period /\ irq'[c] = on
        /\ hard_off'[c] = off
    BY <1>7, Zenon DEF TimerFires, SameTime, SameMasks
  <2> HIDE DEF h, s, r, on, off, period, t
  <2>3. TimerMeasured(r, s, period, t)
    BY <1>1, <2>1, TimerMeasures, Zenon
  <2>4. r.hard = s.hard
    BY <2>3 DEF TimerMeasured
  <2> QED
    BY <1>3, <2>2, <2>4, Zenon DEF r
<1>8. ASSUME NEW p \in Procs, Starts(p, c)
      PROVE  HardOK(hrtimer'[c], cpu_stack_trace'[c].hard.last_timestamp, irq'[c],
                    hard_off'[c], sampling_period', now')
  <2>1. /\ r = [s EXCEPT !.hard.last_timestamp = t, !.soft.last_timestamp = t]
        /\ hrtimer'[c] = t + period /\ now' = t /\ sampling_period' = period
        /\ on /\ irq'[c] = on /\ hard_off'[c] = off
    BY <1>8, Zenon DEF Starts, SameTime, SameMasks
  <2> HIDE DEF h, s, r, on, off, period, t
  <2>2. r.hard.last_timestamp = t
    BY <1>1, <2>1, StartKeeps, Zenon
  <2>3. HardOK(t + period, t, on, off, period, t)
    BY <1>1, <1>2, <1>3, <2>1 DEF HardOK
  <2> QED
    BY <2>1, <2>2, <2>3, Zenon DEF r
<1>9. CASE Halts(c)
  <2>1. /\ hrtimer'[c] = NULL /\ r = s /\ now' = t /\ sampling_period' = period
        /\ irq'[c] = on /\ hard_off'[c] = off
    BY <1>9, Zenon DEF Halts, SameData, SameTime, SameMasks
  <2> HIDE DEF h, s, r, on, off, period, t
  <2>2. HardOK(NULL, s.hard.last_timestamp, on, off, period, t)
    BY <1>3 DEF HardOK
  <2> QED
    BY <2>1, <2>2, Zenon DEF r
<1>10. CASE Rests(c)
  <2>1. hrtimer'[c] = h /\ now' = t /\ irq'[c] = on /\ hard_off'[c] = off
    BY <1>10, Zenon DEF Rests, SameTimers, SameMasks
  <2>2. r = s \/ r = smp_clear_stack_trace(s)
    BY <1>10, Zenon DEF Rests, SameData
  <2>3. h # NULL => sampling_period' = period
    BY <1>10, PeriodStays, Zenon DEF Started
  <2> HIDE DEF h, s, r, on, off, t
  <2>4. r.hard.last_timestamp = s.hard.last_timestamp
    BY <1>1, <2>2, ClearKeeps, Zenon
  <2>5. HardOK(h, s.hard.last_timestamp, on, off, sampling_period', t)
    <3>1. CASE h = NULL
      BY <1>3, <3>1, Zenon DEF HardOK
    <3>2. CASE h # NULL
      BY <1>3, <2>3, <3>2, Zenon
    <3> QED
      BY <3>1, <3>2, Zenon
  <2> QED
    BY <2>1, <2>4, <2>5, Zenon DEF r
<1> QED
  BY <1>4, <1>5, <1>6, <1>7, <1>8, <1>9, <1>10, Zenon DEF CpuView

\* The throttle is twice the period.
LEMMA ThrottleOfPeriod ==
  ASSUME IInv, QInv, PeriodsFit
  PROVE  Throttle(sampling_period) = 2 * sampling_period
<1>1. 2 * sampling_period < Word /\ sampling_period \in Nat
  BY Zenon DEF QInv, Settings, IInv, TypeOK
<1> QED
  BY <1>1, ThrottleNat, Zenon

\* A step that runs the hrtimer handler of a CPU measures right.
LEMMA HardMeasures ==
  ASSUME IInv, QInv, PeriodsFit, 0 \notin Periods, NEW c \in Cpus, CpuView(c),
         HardOK(hrtimer[c], cpu_stack_trace[c].hard.last_timestamp, irq[c], hard_off[c],
                sampling_period, now)
  PROVE  HardMeasured(c)
<1> SUFFICES ASSUME Ran(hrtimer, hrtimer', c) PROVE HardMeasured(c)
  BY Zenon DEF HardMeasured
<1>1. hrtimer[c] # NULL /\ hrtimer[c] <= now /\ hrtimer'[c] # hrtimer[c] /\ hrtimer'[c] # NULL
  BY DEF Ran, Due
<1>2. HrtimerFires(c)
  <2>1. ASSUME NEW p \in Procs, Starts(p, c)
        PROVE  FALSE
    <3>1. ~Started(c)
      BY <2>1, Zenon DEF Starts, At, QInv, Progress
    <3> QED
      BY <1>1, <3>1 DEF Started
  <2>2. hrtimer'[c] = hrtimer[c] \/ hrtimer'[c] = NULL \/ HrtimerFires(c)
    BY <2>1, Zenon DEF CpuView, Ticks, Switches, TimerFires, Halts, Rests, SameTimers
  <2> QED
    BY <1>1, <2>2, Zenon
<1> DEFINE h == hrtimer[c]
           s == cpu_stack_trace[c]
           r == cpu_stack_trace'[c]
           on == irq[c]
           off == hard_off[c]
           period == sampling_period
           t == now
           last == s.hard.last_timestamp
           delta == t - last
           counted == r.hard.latency_count # s.hard.latency_count
           interval == IF off # NULL THEN t - off ELSE 0
<1>3. /\ t \in Nat /\ period \in Nat \ {0} /\ trace_irqoff_latency \in Nat
      /\ GoodData(s, t) /\ h \in Nat \cup {NULL} /\ off \in Nat \cup {NULL}
      /\ on \in BOOLEAN /\ last \in Nat /\ last <= t
  BY CpuFacts, PeriodPositive, Zenon
<1>4. HardOK(h, last, on, off, period, t) /\ h # NULL /\ h <= t
  BY <1>1
<1>5. PICK depth \in Nat : r = HrtimerHandler(s, period, trace_irqoff_latency, depth, t)
  BY <1>2, Zenon DEF HrtimerFires
<1>6. on = TRUE
  BY <1>2, <1>3, Zenon DEF HrtimerFires, HrtimerRuns
<1> HIDE DEF h, s, r, on, off, period, t
<1>7. HrtimerMeasured(r, s, period, trace_irqoff_latency, t)
  BY <1>3, <1>5, period \in Nat, HrtimerMeasures, Zenon
<1>8. (counted => delta >= 2 * period) /\ (delta >= 2 * period /\ 2 * period # 0 => counted)
  BY <1>7, ThrottleOfPeriod, Zenon DEF HrtimerMeasured, period
<1> HIDE DEF counted, last
<1>9. /\ interval >= 2 * period => delta >= 2 * period
      /\ delta >= 2 * period => /\ interval <= delta
                                /\ delta <= interval + period
                                /\ interval > 0
  <2>1. CASE off = NULL
    BY <1>3, <1>4, <1>6, <2>1 DEF HardOK
  <2>2. CASE off # NULL
    <3>1. off \in Nat /\ off <= t /\ off <= h /\ last < h /\ h <= last + period
          /\ (last <= off \/ last = t)
      BY <1>3, <1>4, <1>6, <2>2 DEF HardOK
    <3>2. h \in Nat
      BY <1>3, <1>4
    <3> QED
      BY <1>3, <1>4, <2>2, <3>1, <3>2
  <2> QED
    BY <2>1, <2>2, Zenon
<1>10. /\ interval >= 2 * period => counted
       /\ counted => /\ interval <= delta /\ delta <= interval + period /\ interval > 0
  BY <1>3, <1>8, <1>9
<1> QED
  BY <1>10, Zenon DEF HardMeasured, JustOff, h, s, r, on, off, period, t, counted, last

\* README.md of trace-irqoff, with one writer that never sets the period to 0 and
\* only to periods whose double fits 64 bits (292 years): an
\* interval without interrupts of two periods or more is always counted, nothing
\* is counted without one, and the measured time is at most one period longer
\* than the interval.
THEOREM HardOffTheorem ==
  ASSUME OneWriter, PeriodsFit, 0 \notin Periods
  PROVE  Spec => HardOffMeasured
<1>1. Init => HInv
  BY IrqOffAssumption DEF Init, HInv, HardOK
<1>2. IInv /\ QInv /\ HInv /\ [Next]_vars => HInv'
  <2> SUFFICES ASSUME IInv, QInv, HInv, [Next]_vars, NEW c \in Cpus
               PROVE  HardOK(hrtimer'[c], cpu_stack_trace'[c].hard.last_timestamp, irq'[c],
                             hard_off'[c], sampling_period', now')
    BY Zenon DEF HInv
  <2>1. CpuView(c)
    BY StepView, Zenon
  <2> QED
    BY <2>1, HardStep, Zenon DEF HInv
<1>3. IInv /\ QInv /\ HInv /\ [Next]_vars => [\A c \in Cpus : HardMeasured(c)]_vars
  <2> SUFFICES ASSUME IInv, QInv, HInv, [Next]_vars, NEW c \in Cpus
               PROVE  HardMeasured(c)
    BY Zenon
  <2>1. CpuView(c)
    BY StepView, Zenon
  <2> QED
    BY <2>1, HardMeasures, Zenon DEF HInv
<1> QED
  BY <1>1, <1>2, <1>3, InitIInv, StepIInv, InitQInv, StepQInv, PTL DEF Spec, HardOffMeasured

------------------------------------------------------------------------------
(* Softirqs are not reported off while they were on. *)

\* A period is long enough for the rounding of the timer wheel: the jiffy that
\* msecs_to_jiffies and the current time may lose, and the slack.
FineJiffies ==
  \A k \in Periods \cup {InitPeriod}, slack \in WheelSlack :
    (1 + slack) * Jiffy <= k * NsPerMs

\* Dividing leaves a remainder.
LEMMA DivRemainder ==
  ASSUME NEW d \in Nat, NEW n \in Nat \ {0}
  PROVE  d \div n \in Nat /\ n * (d \div n) \in Nat
         /\ n * (d \div n) <= d /\ d < n * (d \div n) + n
<1> DEFINE q == d \div n
           r == d % n
<1>1. q \in Nat /\ r \in Nat /\ r < n /\ d = n * q + r
  BY SMTT(30)
<1> HIDE DEF q, r
<1>2. n * q \in Nat
  BY <1>1, SMTT(30)
<1> DEFINE m == n * q
<1> HIDE DEF m
<1>3. m \in Nat /\ d = m + r
  BY <1>1, <1>2, Zenon DEF m
<1>4. m <= d /\ d < m + n
  BY <1>1, <1>3
<1> QED
  BY <1>1, <1>3, <1>4, Zenon DEF m, q

\* The softirq timer is due after now, and within two periods.
LEMMA ExpiryBounds ==
  ASSUME now \in Nat, NEW k \in Nat, sampling_period = k * NsPerMs,
         NEW slack \in Nat, (1 + slack) * Jiffy <= k * NsPerMs
  PROVE  /\ TimerExpiry(slack) \in Nat /\ now < TimerExpiry(slack)
         /\ TimerExpiry(slack) < now + 2 * sampling_period
<1>1. NsPerMs \in Nat \ {0} /\ Jiffy \in Nat \ {0}
  BY IrqOffAssumption
<1> DEFINE period == sampling_period
           ms == period \div NsPerMs
           J == Jiffy
           w == slack * J
<1>2. period \in Nat /\ period = k * NsPerMs
  BY <1>1
<1> HIDE DEF period
<1>3. ms * NsPerMs = period
  <2>1. ms \in Nat /\ (k * NsPerMs <= period <=> k <= ms)
    BY <1>1, <1>2, DivBound
  <2>2. (k + 1) * NsPerMs <= period <=> k + 1 <= ms
    BY <1>1, <1>2, DivBound
  <2>3. (k + 1) * NsPerMs = k * NsPerMs + NsPerMs
    BY <1>1, SMTT(30)
  <2>4. ~((k + 1) * NsPerMs <= period)
    BY <1>1, <1>2, <2>3
  <2> HIDE DEF ms
  <2>5. ms = k
    BY <1>2, <2>1, <2>2, <2>4
  <2> QED
    BY <1>2, <2>5, Zenon
<1> HIDE DEF ms
<1> DEFINE d == period + J - 1
           delay == d \div J
           j == now \div J
<1>4. TimerExpiry(slack) = (j + delay + slack) * J
  BY <1>3, Zenon DEF TimerExpiry, ms, period
<1>5. w \in Nat /\ (1 + slack) * J = J + w
  BY <1>1, SMTT(30)
<1>6. J + w <= period
  BY <1>2, <1>5, Zenon
<1> HIDE DEF w
<1>7. d \in Nat
  BY <1>1, <1>2
<1>8. delay \in Nat /\ J * delay \in Nat /\ J * delay <= d /\ d < J * delay + J
  <2> HIDE DEF d
  <2> QED
    BY <1>1, <1>7, DivRemainder, Zenon
<1>9. j \in Nat /\ J * j \in Nat /\ J * j <= now /\ now < J * j + J
  BY <1>1, DivRemainder, Zenon
<1> DEFINE a == J * delay
           b == J * j
<1>10. (j + delay + slack) * J = b + a + w
  <2> HIDE DEF j, delay
  <2> QED
    BY <1>1, <1>8, <1>9, SMTT(30) DEF w
<1>11. J <= a
  <2>1. delay # 0
    <3>1. delay = 0 => J * delay = 0
      BY <1>1
    <3> HIDE DEF delay
    <3> QED
      BY <1>1, <1>2, <1>5, <1>6, <1>8, <3>1
  <2> HIDE DEF delay
  <2> QED
    BY <1>1, <1>8, <2>1, SMTT(30)
<1>12. /\ a \in Nat /\ a <= d /\ b \in Nat /\ b <= now /\ now < b + J
       /\ TimerExpiry(slack) = b + a + w
  BY <1>4, <1>8, <1>9, <1>10, Zenon
<1> HIDE DEF a, b
<1>13. /\ TimerExpiry(slack) \in Nat /\ now < TimerExpiry(slack)
       /\ TimerExpiry(slack) < now + 2 * period
  BY <1>1, <1>2, <1>5, <1>6, <1>11, <1>12
<1> QED
  BY <1>13, Zenon DEF period

\* The softirq timer of a CPU, due at e, with softirqs last seen at `last',
\* interrupts i and softirqs b enabled or not, and the interval without softirqs
\* starting at `off'.  It is due within two periods, and is only late because
\* softirqs are, or just were, off.
SoftOK(e, last, i, b, off, period, t) ==
  /\ i = FALSE \/ b = FALSE => off # NULL
  /\ off # NULL => off <= t
  /\ e # NULL =>
       /\ e < last + 2 * period
       /\ i = TRUE /\ b = TRUE /\ off = NULL => t <= e
       /\ off = t => t < e

SInv ==
  \A c \in Cpus : SoftOK(timer[c], cpu_stack_trace[c].soft.last_timestamp, irq[c], bh[c],
                         soft_off[c], sampling_period, now)

\* A timer that is set now.
LEMMA ExpirySet ==
  ASSUME IInv, QInv, PeriodsFit, FineJiffies, NEW slack \in WheelSlack
  PROVE  /\ TimerExpiry(slack) \in Nat /\ now < TimerExpiry(slack)
         /\ TimerExpiry(slack) < now + 2 * sampling_period
<1>1. PICK k \in Periods \cup {InitPeriod} : sampling_period = k * NsPerMs
  BY Zenon DEF QInv, Settings
<1>2. k \in Nat /\ slack \in Nat
  BY IrqOffAssumption
<1>3. (1 + slack) * Jiffy <= k * NsPerMs
  BY Zenon DEF FineJiffies
<1>4. now \in Nat
  BY Facts
<1> QED
  BY <1>1, <1>2, <1>3, <1>4, ExpiryBounds, Zenon

\* Every step keeps the invariant of the softirq timer of a CPU.
LEMMA SoftStep ==
  ASSUME IInv, QInv, OneWriter, PeriodsFit, FineJiffies, NEW c \in Cpus, CpuView(c),
         SoftOK(timer[c], cpu_stack_trace[c].soft.last_timestamp, irq[c], bh[c], soft_off[c],
                sampling_period, now)
  PROVE  SoftOK(timer'[c], cpu_stack_trace'[c].soft.last_timestamp, irq'[c], bh'[c],
                soft_off'[c], sampling_period', now')
<1> DEFINE e == timer[c]
           s == cpu_stack_trace[c]
           r == cpu_stack_trace'[c]
           last == s.soft.last_timestamp
           i == irq[c]
           b == bh[c]
           off == soft_off[c]
           period == sampling_period
           t == now
<1>1. /\ t \in Nat /\ period \in Nat /\ trace_irqoff_latency \in Nat
      /\ GoodData(s, t) /\ s \in Data /\ e \in Nat \cup {NULL} /\ off \in Nat \cup {NULL}
      /\ i \in BOOLEAN /\ b \in BOOLEAN /\ last \in Nat /\ last <= t
  BY CpuFacts, Zenon
<1>2. NULL \notin Nat
  BY IrqOffAssumption
<1>3. SoftOK(e, last, i, b, off, period, t)
  OBVIOUS
<1>4. CASE Ticks(c)
  <2>1. /\ timer'[c] = e /\ r = s /\ irq'[c] = i /\ bh'[c] = b /\ sampling_period' = period
        /\ now' = t + 1 /\ soft_off'[c] = (IF i /\ b THEN NULL ELSE off)
        /\ ~(e # NULL /\ e <= t /\ i /\ b)
    BY <1>4, Zenon DEF Ticks, SameData, SameTimers, TimerRuns, Due
  <2> HIDE DEF e, s, r, i, b, off, period, t, last
  <2>2. SoftOK(e, last, i, b, IF i /\ b THEN NULL ELSE off, period, t + 1)
    <3>1. CASE i = TRUE /\ b = TRUE
      <4>1. SoftOK(e, last, TRUE, TRUE, NULL, period, t + 1)
        BY <1>1, <1>2, <1>3, <2>1, <3>1 DEF SoftOK
      <4> QED
        BY <3>1, <4>1, Zenon
    <3>2. CASE i = FALSE \/ b = FALSE
      <4>1. off # NULL /\ off \in Nat /\ off <= t /\ off # t + 1
        BY <1>1, <1>3, <3>2 DEF SoftOK
      <4>2. off <= t + 1
        BY <1>1, <4>1
      <4>3. SoftOK(e, last, i, b, off, period, t + 1)
        BY <1>3, <3>2, <4>1, <4>2, Zenon DEF SoftOK
      <4> QED
        BY <1>1, <3>2, <4>3, Zenon
    <3> QED
      BY <1>1, <3>1, <3>2, Zenon
  <2> QED
    BY <2>1, <2>2, Zenon DEF r, last, s
<1>5. CASE Switches(c)
  <2>1. /\ timer'[c] = e /\ r = s /\ sampling_period' = period /\ now' = t
        /\ \/ /\ i = TRUE /\ b = TRUE /\ ~(e # NULL /\ e <= t) /\ soft_off'[c] = t
              /\ irq'[c] = FALSE /\ bh'[c] = TRUE
           \/ /\ i = TRUE /\ b = FALSE /\ soft_off'[c] = off /\ irq'[c] = FALSE /\ bh'[c] = FALSE
           \/ i = FALSE /\ irq'[c] = TRUE /\ bh'[c] = b /\ soft_off'[c] = off
           \/ /\ i = TRUE /\ b = TRUE /\ ~(e # NULL /\ e <= t) /\ soft_off'[c] = t
              /\ irq'[c] = TRUE /\ bh'[c] = FALSE
           \/ i = TRUE /\ b = FALSE /\ irq'[c] = TRUE /\ bh'[c] = TRUE /\ soft_off'[c] = off
    BY <1>1, <1>5, Zenon DEF Switches, SameData, SameTimers, SameTime, TimerRuns, Due
  <2> HIDE DEF e, s, r, i, b, off, period, t, last
  <2>2. ASSUME ~(e # NULL /\ e <= t), NEW j \in BOOLEAN, NEW d \in BOOLEAN,
               j = FALSE \/ d = FALSE
        PROVE  SoftOK(e, last, j, d, t, period, t)
    BY <1>1, <1>2, <1>3, <2>2 DEF SoftOK
  <2>3. ASSUME i = FALSE \/ b = FALSE, NEW j \in BOOLEAN, NEW d \in BOOLEAN
        PROVE  SoftOK(e, last, j, d, off, period, t)
    BY <1>3, <2>3, Zenon DEF SoftOK
  <2> QED
    BY <1>1, <2>1, <2>2, <2>3, TRUE \in BOOLEAN, FALSE \in BOOLEAN, Zenon DEF r, last, s
<1>6. CASE HrtimerFires(c)
  <2>1. PICK depth \in Nat : r = HrtimerHandler(s, period, trace_irqoff_latency, depth, t)
    BY <1>6, Zenon DEF HrtimerFires
  <2>2. /\ timer'[c] = e /\ now' = t /\ sampling_period' = period
        /\ irq'[c] = i /\ bh'[c] = b /\ soft_off'[c] = off
    BY <1>6, Zenon DEF HrtimerFires, SameTime, SameMasks
  <2> DEFINE new == r.soft.last_timestamp
  <2> HIDE DEF e, s, r, i, b, off, period, t
  <2>3. HrtimerMeasured(r, s, period, trace_irqoff_latency, t)
    BY <1>1, <2>1, HrtimerMeasures, Zenon
  <2>4. new = t \/ new = last
    BY <2>3, Zenon DEF HrtimerMeasured
  <2> HIDE DEF last, new
  <2>5. new \in Nat /\ last <= new
    BY <1>1, <2>4
  <2>6. SoftOK(e, new, i, b, off, period, t)
    <3>1. e # NULL => e < new + 2 * period
      BY <1>1, <1>3, <2>5 DEF SoftOK
    <3> QED
      BY <1>3, <3>1, Zenon DEF SoftOK
  <2> QED
    BY <2>2, <2>6, Zenon DEF r, new
<1>7. CASE TimerFires(c)
  <2>1. PICK depth \in Nat : r = TimerHandler(s, period, trace_irqoff_latency, depth, t)
    BY <1>7, Zenon DEF TimerFires
  <2>2. PICK slack \in WheelSlack : timer'[c] = TimerExpiry(slack)
    BY <1>7, Zenon DEF TimerFires
  <2> DEFINE x == TimerExpiry(slack)
  <2>3. x \in Nat /\ t < x /\ x < t + 2 * period
    BY ExpirySet
  <2>4. /\ now' = t /\ sampling_period' = period /\ irq'[c] = i /\ bh'[c] = b
        /\ soft_off'[c] = off
    BY <1>7, Zenon DEF TimerFires, SameTime, SameMasks
  <2> HIDE DEF e, s, r, i, b, off, period, t, last, x
  <2>5. TimerMeasured(r, s, period, t)
    BY <1>1, <2>1, TimerMeasures, Zenon
  <2>6. r.soft.last_timestamp = t
    BY <2>5 DEF TimerMeasured
  <2>7. SoftOK(x, t, i, b, off, period, t)
    BY <1>1, <1>3, <2>3 DEF SoftOK
  <2> QED
    BY <2>2, <2>4, <2>6, <2>7, Zenon DEF r, x
<1>8. ASSUME NEW p \in Procs, Starts(p, c)
      PROVE  SoftOK(timer'[c], cpu_stack_trace'[c].soft.last_timestamp, irq'[c], bh'[c],
                    soft_off'[c], sampling_period', now')
  <2>1. /\ r = [s EXCEPT !.hard.last_timestamp = t, !.soft.last_timestamp = t]
        /\ now' = t /\ sampling_period' = period
        /\ irq'[c] = i /\ bh'[c] = b /\ soft_off'[c] = off
    BY <1>8, Zenon DEF Starts, SameTime, SameMasks
  <2>2. PICK slack \in WheelSlack : timer'[c] = TimerExpiry(slack)
    BY <1>8, Zenon DEF Starts
  <2> DEFINE x == TimerExpiry(slack)
  <2>3. x \in Nat /\ t < x /\ x < t + 2 * period
    BY ExpirySet
  <2> HIDE DEF e, s, r, i, b, off, period, t, last, x
  <2>4. r.soft.last_timestamp = t
    BY <1>1, <2>1, StartKeeps, Zenon
  <2>5. SoftOK(x, t, i, b, off, period, t)
    BY <1>1, <1>3, <2>3 DEF SoftOK
  <2> QED
    BY <2>1, <2>2, <2>4, <2>5, Zenon DEF r, x
<1>9. CASE Halts(c)
  <2>1. /\ timer'[c] = NULL /\ r = s /\ now' = t /\ sampling_period' = period
        /\ irq'[c] = i /\ bh'[c] = b /\ soft_off'[c] = off
    BY <1>9, Zenon DEF Halts, SameData, SameTime, SameMasks
  <2> HIDE DEF e, s, r, i, b, off, period, t, last
  <2>2. SoftOK(NULL, last, i, b, off, period, t)
    BY <1>3, Zenon DEF SoftOK
  <2> QED
    BY <2>1, <2>2, Zenon DEF r, last, s
<1>10. CASE Rests(c)
  <2>1. timer'[c] = e /\ now' = t /\ irq'[c] = i /\ bh'[c] = b /\ soft_off'[c] = off
    BY <1>10, Zenon DEF Rests, SameTimers, SameMasks
  <2>2. r = s \/ r = smp_clear_stack_trace(s)
    BY <1>10, Zenon DEF Rests, SameData
  <2>3. e # NULL => sampling_period' = period
    BY <1>10, PeriodStays, Zenon DEF Started
  <2> HIDE DEF e, s, r, i, b, off, t
  <2>4. r.soft.last_timestamp = last
    BY <1>1, <2>2, ClearKeeps, Zenon
  <2> HIDE DEF last
  <2>5. SoftOK(e, last, i, b, off, sampling_period', t)
    <3>1. CASE e = NULL
      BY <1>3, <3>1, Zenon DEF SoftOK
    <3>2. CASE e # NULL
      BY <1>3, <2>3, <3>2, Zenon
    <3> QED
      BY <3>1, <3>2, Zenon
  <2> QED
    BY <2>1, <2>4, <2>5, Zenon DEF r
<1> QED
  BY <1>4, <1>5, <1>6, <1>7, <1>8, <1>9, <1>10, Zenon DEF CpuView

\* A step that runs the softirq timer of a CPU counts only real delays.
LEMMA SoftMeasures ==
  ASSUME IInv, QInv, PeriodsFit, NEW c \in Cpus, CpuView(c),
         SoftOK(timer[c], cpu_stack_trace[c].soft.last_timestamp, irq[c], bh[c], soft_off[c],
                sampling_period, now)
  PROVE  SoftMeasured(c)
<1> DEFINE e == timer[c]
           s == cpu_stack_trace[c]
           r == cpu_stack_trace'[c]
           last == s.soft.last_timestamp
           off == soft_off[c]
           period == sampling_period
           t == now
<1> SUFFICES ASSUME Ran(timer, timer', c), r.soft.latency_count # s.soft.latency_count
             PROVE  JustOff(soft_off, c) > 0
  BY Zenon DEF SoftMeasured
<1>1. e # NULL /\ e <= t /\ timer'[c] # e /\ timer'[c] # NULL
  BY DEF Ran, Due
<1>2. /\ t \in Nat /\ period \in Nat /\ trace_irqoff_latency \in Nat
      /\ GoodData(s, t) /\ s \in Data /\ e \in Nat \cup {NULL} /\ off \in Nat \cup {NULL}
      /\ last \in Nat /\ last <= t /\ irq[c] \in BOOLEAN /\ bh[c] \in BOOLEAN
  BY CpuFacts, Zenon
<1>3. TimerFires(c)
  <2>1. ASSUME NEW p \in Procs, Starts(p, c)
        PROVE  FALSE
    <3>1. r = [s EXCEPT !.hard.last_timestamp = t, !.soft.last_timestamp = t]
      BY <2>1, Zenon DEF Starts
    <3> HIDE DEF r, s, t
    <3>2. r.soft.latency_count = s.soft.latency_count
      BY <1>2, <3>1, StartKeeps, Zenon
    <3> QED
      BY <3>2
  <2>2. timer'[c] = timer[c] \/ timer'[c] = NULL \/ TimerFires(c)
    BY <2>1, Zenon DEF CpuView, Ticks, Switches, HrtimerFires, Halts, Rests, SameTimers
  <2> QED
    BY <1>1, <2>2, Zenon
<1>4. PICK depth \in Nat : r = TimerHandler(s, period, trace_irqoff_latency, depth, t)
  BY <1>3, Zenon DEF TimerFires
<1>5. irq[c] = TRUE /\ bh[c] = TRUE
  BY <1>2, <1>3, Zenon DEF TimerFires, TimerRuns
<1>6. SoftOK(e, last, TRUE, TRUE, off, period, t)
  BY <1>5, Zenon
<1> HIDE DEF e, s, r, off, period, t
<1>7. TimerMeasured(r, s, period, t)
  BY <1>2, <1>4, TimerMeasures, Zenon
<1>8. t - last >= 2 * period
  BY <1>7, ThrottleOfPeriod, Zenon DEF TimerMeasured, period
<1> HIDE DEF last
<1>9. e \in Nat /\ e < t
  BY <1>1, <1>2, <1>6, <1>8 DEF SoftOK
<1>10. off # NULL /\ off \in Nat /\ off <= t /\ off # t
  BY <1>1, <1>2, <1>6, <1>9 DEF SoftOK
<1>11. t - off > 0
  BY <1>2, <1>10
<1> QED
  BY <1>10, <1>11, Zenon DEF JustOff, off, t

\* With one writer, and periods that fit and are long enough for the rounding of the
\* timer wheel, the softirq timer counts a delay only when it was really held
\* up, by softirqs or interrupts that were off until now.
THEOREM SoftOffTheorem ==
  ASSUME OneWriter, PeriodsFit, FineJiffies
  PROVE  Spec => SoftOffReal
<1>1. Init => SInv
  BY IrqOffAssumption DEF Init, SInv, SoftOK
<1>2. IInv /\ QInv /\ SInv /\ [Next]_vars => SInv'
  <2> SUFFICES ASSUME IInv, QInv, SInv, [Next]_vars, NEW c \in Cpus
               PROVE  SoftOK(timer'[c], cpu_stack_trace'[c].soft.last_timestamp, irq'[c],
                             bh'[c], soft_off'[c], sampling_period', now')
    BY Zenon DEF SInv
  <2>1. CpuView(c)
    BY StepView, Zenon
  <2> QED
    BY <2>1, SoftStep, Zenon DEF SInv
<1>3. IInv /\ QInv /\ SInv /\ [Next]_vars => [\A c \in Cpus : SoftMeasured(c)]_vars
  <2> SUFFICES ASSUME IInv, QInv, SInv, [Next]_vars, NEW c \in Cpus
               PROVE  SoftMeasured(c)
    BY Zenon
  <2>1. CpuView(c)
    BY StepView, Zenon
  <2> QED
    BY <2>1, SoftMeasures, Zenon DEF SInv
<1> QED
  BY <1>1, <1>2, <1>3, InitIInv, StepIInv, InitQInv, StepQInv, PTL DEF Spec, SoftOffReal
==============================================================================
