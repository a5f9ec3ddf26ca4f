----------------------------- MODULE IrqOffProofs -----------------------------
(* Machine-checked proofs about IrqOff, for every number of CPUs and of      *)
(* processes that write the files, every size of the buffers, every depth of *)
(* a stack and every setting.                                                *)
EXTENDS IrqOff, WellFoundedInduction, TLAPS

(* The inductive invariant. *)

\* struct stack_trace_metadata: its type, packed frames, and a time stamp that
\* is not in the future, without which a latency would not be a natural number.
Good(m, t) == m \in Meta /\ Packed(m) /\ m.last_timestamp <= t

Data == [hard : Meta, soft : Meta, delayed : BOOLEAN]

\* struct per_cpu_stack_trace.
GoodData(s, t) == s \in Data /\ Good(s.hard, t) /\ Good(s.soft, t)

IInv == TypeOK /\ \A c \in Cpus : GoodData(cpu_stack_trace[c], now)

------------------------------------------------------------------------------
(* struct stack_trace_metadata. *)

\* The type of a field of stack_trace_metadata.
LEMMA MetaFields ==
  ASSUME NEW m \in Meta
  PROVE  /\ m.last_timestamp \in Nat
         /\ m.nr_irqoff_trace \in 0 .. MAX_STACE_TRACE_ENTRIES
         /\ m.nr_entries \in 0 .. MAX_TRACE_ENTRIES
         /\ m.trace \in [TraceIdx -> Trace]
         /\ m.latency_count \in [CountIdx -> Nat]
  BY DEF Meta

\* Whether the frames are packed depends on the counters and on where each
\* stack's frames are.
LEMMA SameFrames ==
  ASSUME NEW m, NEW j, Packed(m), j.nr_irqoff_trace = m.nr_irqoff_trace,
         j.nr_entries = m.nr_entries, j.trace = m.trace
  PROVE  Packed(j)
  BY DEF Packed, Used

\* The buffers are empty when the module is loaded.
LEMMA InitMetaGood ==
  Good(InitMeta, 0)
<1> USE IrqOffAssumption
<1>1. EmptyTrace \in Trace
  BY DEF EmptyTrace, Trace
<1>2. InitMeta \in Meta
  BY <1>1 DEF InitMeta, Meta
<1>3. Packed(InitMeta)
  BY DEF InitMeta, Packed, Used, TraceIdx
<1> QED
  BY <1>2, <1>3 DEF Good, InitMeta

\* save_trace puts the new stack behind the last one, or, without room, leaves
\* everything as it is.
LEMMA SaveGood ==
  ASSUME NEW t \in Nat, NEW m, Good(m, t), NEW latency \in Nat, NEW more \in BOOLEAN,
         NEW depth \in Nat
  PROVE  Good(save_trace(m, latency, more, depth), t)
<1> USE IrqOffAssumption
<1> DEFINE left == MAX_TRACE_ENTRIES - m.nr_entries
           n == IF depth < left THEN depth ELSE left
           e == [nsecs |-> latency, more |-> more, entries |-> m.nr_entries,
                 nr_entries |-> n]
           i == m.nr_irqoff_trace
           j == [m EXCEPT !.trace[i] = e, !.nr_entries = @ + n,
                          !.nr_irqoff_trace = @ + 1]
<1>1. CASE ~HasRoom(m)
  BY <1>1, Zenon DEF save_trace
<1>2. CASE HasRoom(m)
  <2>1. m \in Meta /\ Packed(m) /\ m.last_timestamp <= t
    BY DEF Good
  <2>2. /\ i \in TraceIdx
        /\ n \in 0 .. MAX_TRACE_ENTRIES /\ m.nr_entries + n \in 0 .. MAX_TRACE_ENTRIES
    BY <1>2, <2>1, MetaFields, SMTT(30) DEF HasRoom, TraceIdx
  <2>3. e \in Trace
    BY <2>1, <2>2, MetaFields DEF Trace
  <2>4. /\ j.trace = [m.trace EXCEPT ![i] = e]
        /\ j.nr_irqoff_trace = i + 1
        /\ j.nr_entries = m.nr_entries + n
        /\ j.last_timestamp = m.last_timestamp
    BY <2>1, <2>2 DEF Meta
  <2>5. /\ j \in Meta
        /\ j.trace[i] = e
        /\ \A k \in TraceIdx \ {i} : j.trace[k] = m.trace[k]
    <3>1. j.trace \in [TraceIdx -> Trace]
      <4>1. m.trace \in [TraceIdx -> Trace]
        BY <2>1, MetaFields
      <4> HIDE DEF j, e, i
      <4> QED
        BY <2>3, <2>4, <4>1, Zenon
    <3>2. j.nr_irqoff_trace \in 0 .. MAX_STACE_TRACE_ENTRIES
      BY <2>2, <2>4 DEF TraceIdx
    <3>3. j.nr_entries \in 0 .. MAX_TRACE_ENTRIES
      BY <2>2, <2>4
    <3>4. j \in Meta
      BY <2>1, <3>1, <3>2, <3>3, Zenon DEF Meta
    <3> QED
      BY <2>1, <2>2, <2>4, <3>4, MetaFields
  <2>6. Packed(j)
    <3>1. e.entries = m.nr_entries /\ e.nr_entries = n
      OBVIOUS
    <3>2. i \in Nat /\ MAX_STACE_TRACE_ENTRIES \in Nat
      BY <2>1, MetaFields
    <3> HIDE DEF j, e, n
    <3>3. \A k \in Used(j) : k \in Used(m) \/ k = i
      BY <2>4, <3>2 DEF Used, TraceIdx
    <3>4. \A k \in Used(m) : k \in TraceIdx \ {i} /\ (k + 1 \in Used(m) \/ k + 1 = i)
      BY <2>2, <3>2 DEF Used, TraceIdx
    <3>5. i + 1 \notin Used(j) /\ i \in Used(j)
      BY <2>2, <2>4, <3>2 DEF Used, TraceIdx
    <3>6. i = 0 => m.nr_entries = 0
      BY <2>1 DEF Packed
    <3>7. \A k \in Used(j) : k = 0 => j.trace[k].entries = 0
      BY <2>1, <2>5, <3>1, <3>3, <3>4, <3>6 DEF Packed
    <3>8. j.trace[i].entries + j.trace[i].nr_entries = j.nr_entries
      BY <2>4, <2>5, <3>1
    <3>9. ASSUME NEW k \in Used(m)
          PROVE  /\ k + 1 \in Used(j)
                 /\ j.trace[k].entries + j.trace[k].nr_entries = j.trace[k + 1].entries
      <4>1. k + 1 \in Used(j)
        BY <2>2, <2>4, <3>2, <3>4 DEF Used, TraceIdx
      <4>2. CASE k + 1 \in Used(m)
        BY <2>1, <2>5, <3>4, <4>1, <4>2 DEF Packed
      <4>3. CASE k + 1 = i
        <5>1. k + 1 \notin Used(m)
          BY <4>3, <3>2 DEF Used
        <5> QED
          BY <2>1, <2>5, <3>1, <3>4, <4>1, <4>3, <5>1 DEF Packed
      <4> QED
        BY <3>4, <4>1, <4>2, <4>3
    <3> QED
      BY <2>4, <3>2, <3>3, <3>5, <3>7, <3>8, <3>9 DEF Packed
  <2>7. save_trace(m, latency, more, depth) = j
    BY <1>2 DEF save_trace
  <2> HIDE DEF j
  <2> QED
    BY <2>1, <2>4, <2>5, <2>6, <2>7 DEF Good
<1> QED
  BY <1>1, <1>2

\* Counting a delay touches no stack, whichever bucket is counted.
LEMMA CountGood ==
  ASSUME NEW t \in Nat, NEW m, Good(m, t), NEW b
  PROVE  Good([m EXCEPT !.latency_count[b] = @ + 1], t)
<1> DEFINE h == [m.latency_count EXCEPT ![b] = m.latency_count[b] + 1]
           j == [m EXCEPT !.latency_count = h]
<1>1. m \in Meta /\ Packed(m) /\ m.last_timestamp <= t
  BY DEF Good
<1>2. h \in [CountIdx -> Nat]
  <2>1. m.latency_count \in [CountIdx -> Nat]
    BY <1>1, MetaFields
  <2>2. CASE b \in CountIdx
    BY <2>1, <2>2
  <2>3. CASE b \notin CountIdx
    BY <2>1, <2>3, Zenon
  <2> QED
    BY <2>2, <2>3
<1>3. j = [m EXCEPT !.latency_count[b] = @ + 1]
  BY <1>1 DEF Meta
<1> HIDE DEF h
<1>4. /\ j.trace = m.trace /\ j.nr_irqoff_trace = m.nr_irqoff_trace
      /\ j.nr_entries = m.nr_entries /\ j.last_timestamp = m.last_timestamp
  BY <1>1 DEF Meta
<1>5. j \in Meta
  BY <1>1, <1>2, Zenon DEF Meta
<1> HIDE DEF j
<1>6. Good(j, t)
  BY <1>1, <1>4, <1>5, SameFrames DEF Good
<1> QED
  BY <1>3, <1>6

\* What the 64-bit operations of the files yield is a number of nanoseconds, and
\* the right one as long as it fits.
LEMMA WordFits ==
  ASSUME NEW n \in Nat
  PROVE  n % Word \in Nat /\ (n < Word => n % Word = n)
  BY IrqOffAssumption

\* The nanoseconds that trace_latency_write and sampling_period_write store.
LEMMA NsNat ==
  ASSUME NEW ms \in Nat
  PROVE  Ns(ms) \in Nat /\ (ms * NsPerMs < Word => Ns(ms) = ms * NsPerMs)
<1>1. ms * NsPerMs \in Nat
  BY IrqOffAssumption
<1> QED
  BY <1>1, WordFits, Zenon DEF Ns

\* The throttle of trace_irqoff_record.
LEMMA ThrottleNat ==
  ASSUME NEW period \in Nat
  PROVE  Throttle(period) \in Nat /\ (2 * period < Word => Throttle(period) = 2 * period)
<1>1. 2 * period \in Nat
  OBVIOUS
<1> QED
  BY <1>1, WordFits, Zenon DEF Throttle

\* trace_irqoff_record keeps the buffers good.
LEMMA RecordGood ==
  ASSUME NEW t \in Nat, NEW m, Good(m, t), NEW delta \in Nat, NEW period, NEW latency,
         NEW count \in BOOLEAN, NEW more \in BOOLEAN, NEW depth \in Nat
  PROVE  Good(trace_irqoff_record(m, delta, period, latency, count, more, depth), t)
<1> DEFINE b == CountIndex(delta, period)
           d == [m EXCEPT !.latency_count[b] = @ + 1]
           c == IF count THEN d ELSE m
<1>1. Good(d, t)
  <2> HIDE DEF b
  <2> QED
    BY CountGood
<1> HIDE DEF d
<1>2. Good(c, t)
  BY <1>1
<1> HIDE DEF c
<1>3. Good(save_trace(c, delta, more, depth), t)
  BY <1>2, SaveGood
<1> QED
  BY <1>2, <1>3, Zenon DEF trace_irqoff_record, b, c, d

\* A new time stamp that is not in the future.
LEMMA StampGood ==
  ASSUME NEW t \in Nat, NEW m, Good(m, t)
  PROVE  Good([m EXCEPT !.last_timestamp = t], t)
<1> DEFINE j == [m EXCEPT !.last_timestamp = t]
<1>1. m \in Meta /\ Packed(m)
  BY DEF Good
<1>2. /\ j.trace = m.trace /\ j.nr_irqoff_trace = m.nr_irqoff_trace
      /\ j.nr_entries = m.nr_entries /\ j.last_timestamp = t
  BY <1>1 DEF Meta
<1>3. j \in Meta
  BY <1>1, Zenon DEF Meta
<1> HIDE DEF j
<1>4. Good(j, t)
  BY <1>1, <1>2, <1>3, SameFrames DEF Good
<1> QED
  BY <1>4 DEF j

\* A cleared buffer holds no stack.
LEMMA ClearGood ==
  ASSUME NEW t \in Nat, NEW m, Good(m, t)
  PROVE  Good(ClearMeta(m), t)
<1> USE IrqOffAssumption
<1> DEFINE j == ClearMeta(m)
<1>1. m \in Meta /\ m.last_timestamp <= t
  BY DEF Good
<1>2. /\ j.nr_irqoff_trace = 0 /\ j.nr_entries = 0
      /\ j.last_timestamp = m.last_timestamp
  BY <1>1 DEF ClearMeta, Meta
<1>3. j \in Meta
  <2>1. /\ 0 \in 0 .. MAX_STACE_TRACE_ENTRIES
        /\ 0 \in 0 .. MAX_TRACE_ENTRIES
        /\ [k \in CountIdx |-> 0] \in [CountIdx -> Nat]
    OBVIOUS
  <2> QED
    BY <1>1, <2>1, Zenon DEF ClearMeta, Meta
<1>4. Used(j) = {}
  BY <1>2 DEF Used, TraceIdx
<1> QED
  BY <1>1, <1>2, <1>3, <1>4 DEF Good, Packed

------------------------------------------------------------------------------
(* struct per_cpu_stack_trace. *)

\* Replacing a part by a good one.
LEMMA SetHard ==
  ASSUME NEW t \in Nat, NEW s, GoodData(s, t), NEW a, Good(a, t)
  PROVE  LET h == [s EXCEPT !.hard = a]
         IN  GoodData(h, t) /\ h.soft = s.soft /\ h.delayed = s.delayed
<1> DEFINE h == [s EXCEPT !.hard = a]
<1>1. s \in Data /\ a \in Meta
  BY DEF GoodData, Good
<1>2. h.hard = a /\ h.soft = s.soft /\ h.delayed = s.delayed /\ h \in Data
  BY <1>1 DEF Data
<1> HIDE DEF h
<1>3. GoodData(h, t)
  BY <1>2 DEF GoodData
<1> QED
  BY <1>2, <1>3 DEF h

\* The same for the softirq half of the data of a CPU, with or without a change
\* of softirq_delayed.
LEMMA SetSoft ==
  ASSUME NEW t \in Nat, NEW s, GoodData(s, t), NEW a, Good(a, t), NEW d \in BOOLEAN
  PROVE  /\ GoodData([s EXCEPT !.delayed = d, !.soft = a], t)
         /\ GoodData([s EXCEPT !.soft = a], t)
<1> DEFINE h == [s EXCEPT !.delayed = d, !.soft = a]
           g == [s EXCEPT !.soft = a]
<1>1. s \in Data /\ a \in Meta
  BY DEF GoodData, Good
<1>2. h.soft = a /\ h.hard = s.hard /\ h \in Data
  BY <1>1, Zenon DEF Data
<1>3. g.soft = a /\ g.hard = s.hard /\ g \in Data
  BY <1>1 DEF Data
<1> HIDE DEF h, g
<1>4. GoodData(h, t) /\ GoodData(g, t)
  BY <1>2, <1>3 DEF GoodData
<1> QED
  BY <1>4 DEF h, g

\* The delays that the handlers measure.
LEMMA DeltaNat ==
  ASSUME NEW t \in Nat, NEW s, GoodData(s, t)
  PROVE  /\ Good(s.hard, t) /\ Good(s.soft, t) /\ s \in Data
         /\ t - s.hard.last_timestamp \in Nat
         /\ t - s.soft.last_timestamp \in Nat
  BY MetaFields DEF GoodData, Good

\* trace_irqoff_hrtimer_handler keeps the buffers good.
LEMMA HrtimerGood ==
  ASSUME NEW t \in Nat, NEW s, GoodData(s, t), NEW period, NEW latency, NEW depth \in Nat
  PROVE  GoodData(HrtimerHandler(s, period, latency, depth, t), t)
<1> DEFINE delta == t - s.hard.last_timestamp
           delta_soft == t - s.soft.last_timestamp
           a == trace_irqoff_record([s.hard EXCEPT !.last_timestamp = t], delta, period,
                                    latency, TRUE, FALSE, depth)
           h == [s EXCEPT !.hard = a]
           u == [h.soft EXCEPT !.last_timestamp = t]
           v == trace_irqoff_record(h.soft, delta_soft, period, latency, FALSE, TRUE, depth)
<1>1. Good(a, t)
  BY DeltaNat, StampGood, RecordGood, Zenon
<1> HIDE DEF a
<1>2. GoodData(h, t) /\ h.soft = s.soft
  BY <1>1, SetHard
<1>3. h \in Data /\ Good(h.soft, t)
  BY <1>2, DeltaNat
<1>4. [h EXCEPT !.soft.last_timestamp = t] = [h EXCEPT !.soft = u]
  BY <1>3 DEF Data
<1>5. HrtimerHandler(s, period, latency, depth, t) =
        IF delta >= Throttle(period) THEN [h EXCEPT !.soft.last_timestamp = t]
        ELSE IF s.delayed \/ delta_soft < latency THEN h
        ELSE [h EXCEPT !.delayed = TRUE, !.soft = v]
  BY Zenon DEF HrtimerHandler, a
<1> HIDE DEF h
<1>6. Good(u, t)
  BY <1>3, StampGood
<1>7. Good(v, t)
  BY <1>3, DeltaNat, RecordGood, Zenon
<1> HIDE DEF u, v
<1>8. GoodData([h EXCEPT !.soft = u], t) /\ GoodData([h EXCEPT !.delayed = TRUE, !.soft = v], t)
  BY <1>2, <1>6, <1>7, SetSoft, Zenon
<1> QED
  BY <1>2, <1>4, <1>5, <1>8, Zenon

\* trace_irqoff_timer_handler keeps the buffers good.
LEMMA TimerGood ==
  ASSUME NEW t \in Nat, NEW s, GoodData(s, t), NEW period, NEW latency, NEW depth \in Nat
  PROVE  GoodData(TimerHandler(s, period, latency, depth, t), t)
<1> DEFINE a == trace_irqoff_record([s.soft EXCEPT !.last_timestamp = t],
                                    t - s.soft.last_timestamp, period, latency, TRUE,
                                    FALSE, depth)
<1>1. Good(a, t)
  BY DeltaNat, StampGood, RecordGood, Zenon
<1>2. TimerHandler(s, period, latency, depth, t) = [s EXCEPT !.delayed = FALSE, !.soft = a]
  BY Zenon DEF TimerHandler
<1> HIDE DEF a
<1>3. FALSE \in BOOLEAN
  OBVIOUS
<1>4. GoodData([s EXCEPT !.delayed = FALSE, !.soft = a], t)
  BY <1>1, <1>3, SetSoft, Zenon
<1> QED
  BY <1>2, <1>4, Zenon

\* smp_timers_start renews both time stamps.
LEMMA StartGood ==
  ASSUME NEW t \in Nat, NEW s, GoodData(s, t)
  PROVE  GoodData([s EXCEPT !.hard.last_timestamp = t, !.soft.last_timestamp = t], t)
<1> DEFINE a == [s.hard EXCEPT !.last_timestamp = t]
           b == [s.soft EXCEPT !.last_timestamp = t]
           h == [s EXCEPT !.hard = a]
<1>1. Good(a, t) /\ Good(b, t) /\ s \in Data
  BY DeltaNat, StampGood
<1>2. [s EXCEPT !.hard.last_timestamp = t, !.soft.last_timestamp = t] =
        [h EXCEPT !.soft = b]
  BY <1>1 DEF Data
<1> HIDE DEF a, b
<1>3. GoodData(h, t)
  BY <1>1, SetHard
<1> HIDE DEF h
<1> QED
  BY <1>1, <1>2, <1>3, SetSoft, Zenon

\* smp_clear_stack_trace empties both buffers.
LEMMA ClearDataGood ==
  ASSUME NEW t \in Nat, NEW s, GoodData(s, t)
  PROVE  GoodData(smp_clear_stack_trace(s), t)
<1> DEFINE a == ClearMeta(s.hard)
           b == ClearMeta(s.soft)
           h == [s EXCEPT !.hard = a]
<1>1. Good(a, t) /\ Good(b, t) /\ s \in Data
  BY DeltaNat, ClearGood
<1> HIDE DEF a, b
<1>2. [s EXCEPT !.hard = a, !.soft = b] = [h EXCEPT !.soft = b]
  BY <1>1 DEF Data
<1>3. smp_clear_stack_trace(s) = [s EXCEPT !.hard = a, !.soft = b]
  BY Zenon DEF smp_clear_stack_trace, a, b
<1>4. GoodData(h, t)
  BY <1>1, SetHard
<1> HIDE DEF h
<1>5. GoodData([h EXCEPT !.soft = b], t)
  BY <1>1, <1>4, SetSoft, Zenon
<1> QED
  BY <1>2, <1>3, <1>5, Zenon

------------------------------------------------------------------------------
(* The steps. *)

\* A step that touches no buffer, at the same time.
LEMMA FilesStep ==
  ASSUME IInv, TypeOK', UNCHANGED <<cpu_stack_trace, now>>
  PROVE  IInv'
  BY DEF IInv

\* A step that changes the buffers of one CPU and keeps them good.
LEMMA OneCpu ==
  ASSUME IInv, NEW c \in Cpus, NEW s, GoodData(s, now),
         cpu_stack_trace' = [cpu_stack_trace EXCEPT ![c] = s], now' = now
  PROVE  /\ cpu_stack_trace' \in [Cpus -> Data]
         /\ \A d \in Cpus : GoodData(cpu_stack_trace[d], now)'
<1>1. cpu_stack_trace \in [Cpus -> Data] /\ s \in Data
  BY DEF IInv, TypeOK, GoodData, Data
<1>2. cpu_stack_trace' \in [Cpus -> Data]
  BY <1>1
<1>3. ASSUME NEW d \in Cpus
      PROVE  GoodData(cpu_stack_trace[d], now)'
  <2>1. CASE d = c
    BY <1>1, <2>1
  <2>2. CASE d # c
    <3>1. cpu_stack_trace[d]' = cpu_stack_trace[d]
      BY <1>1, <2>2
    <3> QED
      BY <3>1 DEF IInv
  <2> QED
    BY <2>1, <2>2
<1> QED
  BY <1>2, <1>3

\* A process that is in a write has a record of it, and keeps it.
LEMMA ProcOK ==
  ASSUME TypeOK, NEW p \in Procs
  PROVE  /\ Return(p) => proc' \in [Procs -> Writing \cup {NULL}]
         /\ proc[p] # NULL => /\ proc[p] \in Writing
                              /\ proc[p].todo \subseteq Cpus /\ proc[p].val \in Nat
         /\ \A c : \A at \in {"store", NULL} :
              proc[p] # NULL /\ CpuDone(p, c, at) => proc' \in [Procs -> Writing \cup {NULL}]
<1>1. proc \in [Procs -> Writing \cup {NULL}]
  BY DEF TypeOK, Writing
<1>2. Return(p) => proc' \in [Procs -> Writing \cup {NULL}]
  BY <1>1 DEF Return
<1>3. proc[p] # NULL => proc[p] \in Writing /\ proc[p].todo \subseteq Cpus /\ proc[p].val \in Nat
  BY <1>1 DEF Writing
<1>4. ASSUME NEW c, NEW at \in {"store", NULL}, proc[p] # NULL, CpuDone(p, c, at)
      PROVE  proc' \in [Procs -> Writing \cup {NULL}]
  <2> DEFINE x == proc[p]
             y == [x EXCEPT !.todo = @ \ {c}]
             z == [x EXCEPT !.todo = {}, !.at = at]
  <2>1. x \in Writing
    BY <1>3, <1>4
  <2>2. y \in Writing
    BY <2>1 DEF Writing
  <2>3. at # NULL => z \in Writing
    BY <2>1, Zenon DEF Writing
  <2>4. proc' = [proc EXCEPT ![p] = IF x.todo # {c} THEN y ELSE IF at = NULL THEN NULL ELSE z]
    BY <1>4 DEF CpuDone
  <2> HIDE DEF x, y, z
  <2>5. (IF x.todo # {c} THEN y ELSE IF at = NULL THEN NULL ELSE z) \in Writing \cup {NULL}
    BY <2>2, <2>3
  <2> QED
    BY <1>1, <2>4, <2>5
<1> QED
  BY <1>2, <1>3, <1>4

\* A write that begins.
LEMMA BeginsOK ==
  ASSUME IInv, NEW p \in Procs, NEW rec \in Writing, Begins(p, rec)
  PROVE  IInv'
<1>1. TypeOK
  BY DEF IInv
<1>2. proc' \in [Procs -> Writing \cup {NULL}]
  BY <1>1 DEF TypeOK, Writing, Begins
<1>3. TypeOK'
  BY <1>1, <1>2 DEF TypeOK, Writing, Begins, timers, settings, env
<1> QED
  BY <1>3, FilesStep DEF Begins, env

\* The times for which the timers are set.
LEMMA ForwardNat ==
  ASSUME now \in Nat, sampling_period \in Nat, NEW due \in Nat, due <= now
  PROVE  Forward(due) \in Nat
<1> DEFINE p == IF sampling_period = 0 THEN 1 ELSE sampling_period
           q == (now - due) \div p
<1>1. p \in Nat \ {0}
  OBVIOUS
<1>2. Forward(due) = due + (q + 1) * p
  BY DEF Forward
<1> HIDE DEF p
<1>3. q \in Nat
  BY <1>1
<1> HIDE DEF q
<1>4. (q + 1) * p \in Nat
  BY <1>1, <1>3
<1> DEFINE r == (q + 1) * p
<1> HIDE DEF r
<1>5. due + r \in Nat
  BY <1>4 DEF r
<1> QED
  BY <1>2, <1>5 DEF r

\* mod_timer arms the timer_list timer for a time that is a natural number.
LEMMA ExpiryNat ==
  ASSUME now \in Nat, sampling_period \in Nat, NEW slack \in Nat
  PROVE  TimerExpiry(slack) \in Nat
<1> USE IrqOffAssumption
<1> DEFINE ms == sampling_period \div NsPerMs
           ns == ms * NsPerMs
           delay == (ns + Jiffy - 1) \div Jiffy
           j == now \div Jiffy
           k == j + delay + slack
<1>1. TimerExpiry(slack) = k * Jiffy
  BY DEF TimerExpiry
<1>2. ms \in Nat /\ j \in Nat
  OBVIOUS
<1> HIDE DEF ms, j
<1>3. ns \in Nat
  BY <1>2
<1> HIDE DEF ns
<1>4. delay \in Nat
  BY <1>3
<1> HIDE DEF delay
<1>5. k \in Nat
  BY <1>2, <1>4
<1> HIDE DEF k
<1> QED
  BY <1>1, <1>5

\* The values that the steps rest on.
LEMMA Facts ==
  ASSUME IInv
  PROVE  /\ TypeOK /\ now \in Nat /\ sampling_period \in Nat
         /\ trace_irqoff_latency \in Nat
         /\ cpu_stack_trace \in [Cpus -> Data]
         /\ \A c \in Cpus : GoodData(cpu_stack_trace[c], now)
  BY DEF IInv, TypeOK, Data

\* The environment touches no buffer.
LEMMA EnvironmentStep ==
  ASSUME IInv, Environment
  PROVE  IInv'
<1> USE DEF timers, settings, files
<1>1. TypeOK
  BY DEF IInv
<1>2. CASE Tick
  <2>1. TypeOK'
    BY <1>1, <1>2 DEF TypeOK, Tick
  <2>2. ASSUME NEW c \in Cpus
        PROVE  GoodData(cpu_stack_trace[c], now)'
    <3>1. cpu_stack_trace' = cpu_stack_trace /\ now' = now + 1
      BY <1>2 DEF Tick
    <3>2. \A m : Good(m, now) => Good(m, now + 1)
      BY Facts, MetaFields DEF Good
    <3> QED
      BY <3>1, <3>2, Facts, SMTT(30) DEF GoodData
  <2> QED
    BY <2>1, <2>2 DEF IInv
<1>3. ASSUME NEW c \in Cpus,
             \/ local_irq_disable(c) \/ local_irq_enable(c)
             \/ local_bh_disable(c) \/ local_bh_enable(c)
      PROVE  IInv'
  <2>1. UNCHANGED <<cpu_stack_trace, timers, settings, files, allowed, now>>
    BY <1>3 DEF local_irq_disable, local_irq_enable, local_bh_disable, local_bh_enable
  <2>2. /\ irq' \in [Cpus -> BOOLEAN] /\ bh' \in [Cpus -> BOOLEAN]
        /\ hard_off' \in [Cpus -> Nat \cup {NULL}]
        /\ soft_off' \in [Cpus -> Nat \cup {NULL}]
    <3>1. CASE local_irq_disable(c)
      BY <1>1, <3>1 DEF TypeOK, local_irq_disable
    <3>2. CASE local_irq_enable(c)
      BY <1>1, <3>2 DEF TypeOK, local_irq_enable
    <3>3. CASE local_bh_disable(c)
      BY <1>1, <3>3 DEF TypeOK, local_bh_disable
    <3>4. CASE local_bh_enable(c)
      BY <1>1, <3>4 DEF TypeOK, local_bh_enable
    <3> QED
      BY <1>3, <3>1, <3>2, <3>3, <3>4
  <2>3. TypeOK'
    BY <1>1, <2>1, <2>2 DEF TypeOK
  <2> QED
    BY <2>1, <2>3, FilesStep
<1> QED
  BY <1>2, <1>3 DEF Environment

\* The two handlers.
LEMMA HandlersStep ==
  ASSUME IInv, Handlers
  PROVE  IInv'
<1> USE DEF settings, files, env
<1>1. TypeOK
  BY DEF IInv
<1>2. ASSUME NEW c \in Cpus, trace_irqoff_hrtimer_handler(c)
      PROVE  IInv'
  <2>1. PICK depth \in Depths :
          cpu_stack_trace' = [cpu_stack_trace EXCEPT
            ![c] = HrtimerHandler(cpu_stack_trace[c], sampling_period,
                                  trace_irqoff_latency, depth, now)]
    BY <1>2, Zenon DEF trace_irqoff_hrtimer_handler
  <2>2. depth \in Nat
    BY IrqOffAssumption
  <2>3. /\ cpu_stack_trace' \in [Cpus -> Data]
        /\ \A d \in Cpus : GoodData(cpu_stack_trace[d], now)'
    <3>1. now' = now
      BY <1>2 DEF trace_irqoff_hrtimer_handler
    <3> DEFINE s == HrtimerHandler(cpu_stack_trace[c], sampling_period,
                                   trace_irqoff_latency, depth, now)
    <3>2. GoodData(s, now)
      BY <2>2, Facts, HrtimerGood
    <3>3. cpu_stack_trace' = [cpu_stack_trace EXCEPT ![c] = s]
      BY <2>1
    <3> HIDE DEF s
    <3> QED
      BY <3>1, <3>2, <3>3, OneCpu, Zenon
  <2>4. hrtimer' \in [Cpus -> Nat \cup {NULL}]
    <3>1. hrtimer[c] \in Nat /\ hrtimer[c] <= now
      BY <1>1, <1>2 DEF TypeOK, trace_irqoff_hrtimer_handler, HrtimerRuns, Due
    <3>2. Forward(hrtimer[c]) \in Nat
      BY <3>1, Facts, ForwardNat
    <3>3. hrtimer' = [hrtimer EXCEPT ![c] = Forward(hrtimer[c])]
      BY <1>2 DEF trace_irqoff_hrtimer_handler
    <3> QED
      BY <1>1, <3>2, <3>3 DEF TypeOK
  <2>5. TypeOK'
    BY <1>1, <1>2, <2>3, <2>4 DEF TypeOK, Data, trace_irqoff_hrtimer_handler
  <2> QED
    BY <2>3, <2>5 DEF IInv
<1>3. ASSUME NEW c \in Cpus, trace_irqoff_timer_handler(c)
      PROVE  IInv'
  <2>1. PICK depth \in Depths :
          cpu_stack_trace' = [cpu_stack_trace EXCEPT
            ![c] = TimerHandler(cpu_stack_trace[c], sampling_period,
                                trace_irqoff_latency, depth, now)]
    BY <1>3, Zenon DEF trace_irqoff_timer_handler
  <2>2. depth \in Nat
    BY IrqOffAssumption
  <2>3. /\ cpu_stack_trace' \in [Cpus -> Data]
        /\ \A d \in Cpus : GoodData(cpu_stack_trace[d], now)'
    <3>1. now' = now
      BY <1>3 DEF trace_irqoff_timer_handler
    <3> DEFINE s == TimerHandler(cpu_stack_trace[c], sampling_period,
                                 trace_irqoff_latency, depth, now)
    <3>2. GoodData(s, now)
      BY <2>2, Facts, TimerGood
    <3>3. cpu_stack_trace' = [cpu_stack_trace EXCEPT ![c] = s]
      BY <2>1
    <3> HIDE DEF s
    <3> QED
      BY <3>1, <3>2, <3>3, OneCpu, Zenon
  <2>4. timer' \in [Cpus -> Nat \cup {NULL}]
    <3>1. PICK slack \in WheelSlack : timer' = [timer EXCEPT ![c] = TimerExpiry(slack)]
      BY <1>3, Zenon DEF trace_irqoff_timer_handler
    <3>2. TimerExpiry(slack) \in Nat
      BY Facts, ExpiryNat, IrqOffAssumption, SMTT(30)
    <3> QED
      BY <1>1, <3>1, <3>2 DEF TypeOK
  <2>5. TypeOK'
    BY <1>1, <1>3, <2>3, <2>4 DEF TypeOK, Data, trace_irqoff_timer_handler
  <2> QED
    BY <2>3, <2>5 DEF IInv
<1> QED
  BY <1>2, <1>3 DEF Handlers

\* The steps of a write that touch the buffers of a CPU.
LEMMA CpuStep ==
  ASSUME IInv, NEW p \in Procs, NEW c \in Cpus,
         smp_timers_start(p, c) \/ clear_one_cpu(p, c)
  PROVE  IInv'
<1> USE DEF settings, timers, env
<1>1. TypeOK
  BY DEF IInv
<1>2. CASE smp_timers_start(p, c)
  <2> DEFINE s == [cpu_stack_trace[c] EXCEPT !.hard.last_timestamp = now,
                                             !.soft.last_timestamp = now]
  <2>1. GoodData(s, now)
    BY Facts, StartGood, Zenon
  <2>2. cpu_stack_trace' = [cpu_stack_trace EXCEPT ![c] = s]
    <3>1. cpu_stack_trace[c] \in Data
      BY Facts
    <3> QED
      BY <1>2, <3>1, Facts, Zenon DEF smp_timers_start, Data
  <2> HIDE DEF s
  <2>3. /\ cpu_stack_trace' \in [Cpus -> Data]
        /\ \A d \in Cpus : GoodData(cpu_stack_trace[d], now)'
    BY <1>2, <2>1, <2>2, OneCpu, Zenon DEF smp_timers_start
  <2>4. timer' \in [Cpus -> Nat \cup {NULL}] /\ hrtimer' \in [Cpus -> Nat \cup {NULL}]
    <3>1. PICK slack \in WheelSlack : timer' = [timer EXCEPT ![c] = TimerExpiry(slack)]
      BY <1>2, Zenon DEF smp_timers_start
    <3>2. TimerExpiry(slack) \in Nat /\ now + sampling_period \in Nat
      BY Facts, ExpiryNat, IrqOffAssumption
    <3> QED
      BY <1>1, <1>2, <3>1, <3>2 DEF TypeOK, smp_timers_start
  <2>5. proc' \in [Procs -> Writing \cup {NULL}]
    BY <1>1, <1>2, ProcOK DEF smp_timers_start, At
  <2>6. TypeOK'
    BY <1>1, <1>2, <2>3, <2>4, <2>5 DEF TypeOK, Data, Writing, smp_timers_start
  <2> QED
    BY <2>3, <2>6 DEF IInv
<1>3. CASE clear_one_cpu(p, c)
  <2> DEFINE s == smp_clear_stack_trace(cpu_stack_trace[c])
  <2>1. GoodData(s, now)
    BY Facts, ClearDataGood, Zenon
  <2>2. cpu_stack_trace' = [cpu_stack_trace EXCEPT ![c] = s]
    BY <1>3 DEF clear_one_cpu
  <2> HIDE DEF s
  <2>3. /\ cpu_stack_trace' \in [Cpus -> Data]
        /\ \A d \in Cpus : GoodData(cpu_stack_trace[d], now)'
    BY <1>3, <2>1, <2>2, OneCpu, ZenonT(30) DEF clear_one_cpu
  <2>4. proc' \in [Procs -> Writing \cup {NULL}]
    BY <1>1, <1>3, ProcOK, SMTT(30) DEF clear_one_cpu, At
  <2>5. TypeOK'
    BY <1>1, <1>3, <2>3, <2>4 DEF TypeOK, Data, Writing, clear_one_cpu
  <2> QED
    BY <2>3, <2>5 DEF IInv
<1> QED
  BY <1>2, <1>3

\* The steps of a write that touch no buffer.
LEMMA WriteStep ==
  ASSUME IInv, NEW p \in Procs,
         \/ \E c \in Cpus : trace_irqoff_cancel_timers(p, c)
         \/ store_trace_enable(p) \/ store_sampling_period(p) \/ store_latency(p)
  PROVE  IInv'
<1> USE DEF settings, timers, env
<1>1. TypeOK
  BY Zenon DEF IInv
<1>2. ASSUME NEW c \in Cpus, trace_irqoff_cancel_timers(p, c)
      PROVE  IInv'
  <2>1. proc' \in [Procs -> Writing \cup {NULL}]
    BY <1>1, <1>2, ProcOK, SMTT(30) DEF trace_irqoff_cancel_timers, At
  <2>2. TypeOK'
    BY <1>1, <1>2, <2>1, SMTT(30) DEF TypeOK, trace_irqoff_cancel_timers
  <2> QED
    BY <1>2, <2>2, FilesStep, Zenon DEF trace_irqoff_cancel_timers
<1>3. CASE store_trace_enable(p)
  <2>1. proc' \in [Procs -> Writing \cup {NULL}] /\ trace_enable' \in BOOLEAN
    BY <1>1, <1>3, ProcOK, Zenon DEF store_trace_enable
  <2>2. TypeOK'
    BY <1>1, <1>3, <2>1, Zenon DEF TypeOK, store_trace_enable
  <2> QED
    BY <1>3, <2>2, FilesStep, Zenon DEF store_trace_enable
<1>4. CASE store_sampling_period(p)
  <2>1. proc' \in [Procs -> Writing \cup {NULL}] /\ proc[p].val \in Nat
    BY <1>1, <1>4, ProcOK DEF store_sampling_period, At
  <2>2. Ns(proc[p].val) \in Nat
    BY <2>1, NsNat, Zenon
  <2>3. Throttle(Ns(proc[p].val)) \in Nat
    BY <2>2, ThrottleNat, Zenon
  <2>4. sampling_period' \in Nat /\ trace_irqoff_latency' \in Nat
    BY <1>1, <1>4, <2>2, <2>3, Zenon DEF TypeOK, store_sampling_period
  <2>5. overflowed' = {} \/ overflowed' = {"period"}
    BY <1>4, Zenon DEF store_sampling_period
  <2>6. overflowed' \subseteq {"period", "latency"}
    BY <2>5, Zenon
  <2>7. TypeOK'
    BY <1>1, <1>4, <2>1, <2>4, <2>6, Zenon DEF TypeOK, store_sampling_period
  <2> QED
    BY <1>4, <2>7, FilesStep, Zenon DEF store_sampling_period
<1>5. CASE store_latency(p)
  <2>1. proc' \in [Procs -> Writing \cup {NULL}] /\ proc[p].val \in Nat
    BY <1>1, <1>5, ProcOK, ZenonT(30) DEF store_latency, At
  <2>2. trace_irqoff_latency' \in Nat /\ overflowed' \subseteq {"period", "latency"}
    BY <1>1, <1>5, <2>1, NsNat, Zenon DEF TypeOK, store_latency
  <2>3. TypeOK'
    BY <1>1, <1>5, <2>1, <2>2, Zenon DEF TypeOK, store_latency
  <2> QED
    BY <1>5, <2>3, FilesStep DEF store_latency
<1> QED
  BY <1>2, <1>3, <1>4, <1>5

\* The first step of each write.
LEMMA BeginStep ==
  ASSUME IInv, NEW p \in Procs,
         \/ \E enable \in BOOLEAN : enable_write(p, enable)
         \/ \E ms \in Periods : sampling_period_write(p, ms)
         \/ \E ms \in Latencies : trace_latency_write(p, ms)
  PROVE  IInv'
<1> USE IrqOffAssumption
<1>1. \A ms \in Periods \cup Latencies : ms \in Nat
  OBVIOUS
<1>2. ASSUME NEW enable \in BOOLEAN, enable_write(p, enable)
      PROVE  IInv'
  <2> DEFINE rec == [at |-> IF enable THEN "start" ELSE "cancel", todo |-> Cpus,
                     val |-> IF enable THEN 1 ELSE 0]
  <2>1. rec \in Writing
    BY DEF Writing
  <2> QED
    BY <1>2, <2>1, BeginsOK DEF enable_write
<1>3. ASSUME NEW ms \in Periods, sampling_period_write(p, ms)
      PROVE  IInv'
  <2>1. [at |-> "period", todo |-> {}, val |-> ms] \in Writing
    BY <1>1 DEF Writing
  <2> QED
    BY <1>3, <2>1, BeginsOK DEF sampling_period_write
<1>4. ASSUME NEW ms \in Latencies, trace_latency_write(p, ms)
      PROVE  IInv'
  <2>1. /\ [at |-> "clear", todo |-> Cpus, val |-> 0] \in Writing
        /\ [at |-> "latency", todo |-> {}, val |-> ms] \in Writing
    BY <1>1 DEF Writing
  <2> QED
    BY <1>4, <2>1, BeginsOK DEF trace_latency_write
<1> QED
  BY <1>2, <1>3, <1>4

------------------------------------------------------------------------------
\* The buffers start empty.
LEMMA InitIInv ==
  Init => IInv
<1> SUFFICES ASSUME Init PROVE IInv
  OBVIOUS
<1> USE IrqOffAssumption
<1> DEFINE s == [hard |-> InitMeta, soft |-> InitMeta, delayed |-> FALSE]
<1>1. GoodData(s, 0)
  <2>1. InitMeta \in Meta
    BY InitMetaGood DEF Good
  <2> HIDE DEF InitMeta
  <2> QED
    BY <2>1, InitMetaGood DEF GoodData, Data
<1>2. s \in Data
  BY <1>1 DEF GoodData
<1> HIDE DEF s
<1>3. cpu_stack_trace = [c \in Cpus |-> s] /\ now = 0
  BY DEF Init, s
<1>4. sampling_period \in Nat /\ trace_irqoff_latency \in Nat
  <2>1. InitPeriod * NsPerMs \in Nat /\ InitLatency * NsPerMs \in Nat
    OBVIOUS
  <2> QED
    BY <2>1, Zenon DEF Init
<1>5. TypeOK
  <2>1. cpu_stack_trace \in [Cpus -> Data]
    BY <1>2, <1>3
  <2>2. 0 \in Nat
    OBVIOUS
  <2>3. /\ hrtimer \in [Cpus -> Nat \cup {NULL}] /\ timer \in [Cpus -> Nat \cup {NULL}]
        /\ hard_off \in [Cpus -> Nat \cup {NULL}] /\ soft_off \in [Cpus -> Nat \cup {NULL}]
        /\ irq \in [Cpus -> BOOLEAN] /\ bh \in [Cpus -> BOOLEAN]
        /\ proc \in [Procs -> Writing \cup {NULL}]
        /\ allowed \in [Cpus -> Nat]
    BY DEF Init
  <2>4. /\ trace_enable \in BOOLEAN /\ loaded \in BOOLEAN /\ writes \in Nat /\ now \in Nat
        /\ overflowed \subseteq {"period", "latency"}
    BY <2>2, Zenon DEF Init
  <2> QED
    BY <1>4, <2>1, <2>3, <2>4, Zenon DEF TypeOK, Data
<1> QED
  BY <1>1, <1>3, <1>5 DEF IInv

\* Every step keeps the invariant.
LEMMA StepIInv ==
  IInv /\ [Next]_vars => IInv'
<1> SUFFICES ASSUME IInv, [Next]_vars PROVE IInv'
  OBVIOUS
<1>1. TypeOK
  BY DEF IInv
<1>2. CASE Environment
  BY <1>2, EnvironmentStep
<1>3. CASE Handlers
  BY <1>3, HandlersStep
<1>4. CASE Files
  <2>1. PICK p \in Procs :
          \/ \E enable \in BOOLEAN : enable_write(p, enable)
          \/ \E c \in Cpus : \/ smp_timers_start(p, c)
                             \/ trace_irqoff_cancel_timers(p, c)
                             \/ clear_one_cpu(p, c)
          \/ store_trace_enable(p)
          \/ \E ms \in Periods : sampling_period_write(p, ms)
          \/ store_sampling_period(p)
          \/ \E ms \in Latencies : trace_latency_write(p, ms)
          \/ store_latency(p)
    BY <1>4, Zenon DEF Files
  <2> QED
    BY <2>1, BeginStep, CpuStep, WriteStep
<1>5. CASE trace_irqoff_exit
  <2>1. TypeOK'
    BY <1>1, <1>5, Zenon DEF TypeOK, trace_irqoff_exit, settings, env
  <2> QED
    BY <1>5, <2>1, FilesStep DEF trace_irqoff_exit, env
<1>6. CASE UNCHANGED vars
  <2>1. TypeOK'
    BY <1>1, <1>6 DEF TypeOK, vars, timers, settings, files, env
  <2> QED
    BY <1>6, <2>1, FilesStep, SMTT(30) DEF vars, env
<1> QED
  BY <1>2, <1>3, <1>4, <1>5, <1>6 DEF Next

\* The stacks that trace_irqoff saves, of interrupts and of softirqs, lie one
\* behind the other in entries[] and fill exactly its used part, and every
\* counter stays within its array: for any sizes of the buffers, any number of
\* CPUs and of processes that write the files in any order.
THEOREM FramesPackedTheorem == Spec => []FramesPacked
<1>1. IInv => FramesPacked
  BY DEF IInv, GoodData, Good, FramesPacked
<1> QED
  BY <1>1, InitIInv, StepIInv, PTL DEF Spec
------------------------------------------------------------------------------
(* The loop of trace_irqoff_record halves a delay until it is at most the     *)
(* throttle.  That it has a value for every delay is an induction over the    *)
(* delay, done by looking at the least delay for which it would not hold.     *)

\* A set of natural numbers has a least element: the induction that the loops
\* over a time need.
LEMMA Least ==
  ASSUME NEW T, T \subseteq Nat, T # {}
  PROVE  \E x \in T : \A y \in T : x <= y
<1> DEFINE R == OpToRel(<, Nat)
<1>1. \E x \in T : \A y \in T : ~(<<y, x>> \in R)
  BY NatLessThanWellFounded, WFMin, Zenon
<1>2. ASSUME NEW x \in Nat, NEW y \in Nat, y < x
      PROVE  <<y, x>> \in R
  <2>1. <<y, x>> \in Nat \X Nat /\ <<y, x>>[1] = y /\ <<y, x>>[2] = x
    OBVIOUS
  <2>2. <<y, x>>[1] < <<y, x>>[2]
    BY <1>2, <2>1
  <2>3. <<y, x>> \in {ss \in Nat \X Nat : ss[1] < ss[2]}
    BY <2>1, <2>2
  <2> QED
    BY <2>3, Zenon DEF OpToRel
<1> HIDE DEF R
<1>3. PICK x \in T : \A y \in T : ~(<<y, x>> \in R)
  BY <1>1, Zenon
<1>4. ASSUME NEW y \in T
      PROVE  x <= y
  <2>1. x \in Nat /\ y \in Nat
    OBVIOUS
  <2>2. y < x => <<y, x>> \in R
    BY <1>2, <2>1, Zenon
  <2>3. ~(y < x)
    BY <1>3, <2>2, Zenon
  <2> QED
    BY <2>1, <2>3
<1> QED
  BY <1>4

\* One round of the loop, and the functions it computes for the delays up to n.
Body(f, th, d) == IF d <= th THEN 0 ELSE 1 + f[d \div 2]
Upto(n, th) ==
  {g \in [0 .. n -> Nat] : \A d \in 0 .. n : g[d] = Body(g, th, d)}

\* Halving a delay that is above the throttle gives a smaller one.
LEMMA HalfSmaller ==
  ASSUME NEW th \in Nat, NEW d \in Nat, ~(d <= th)
  PROVE  d \div 2 \in 0 .. d - 1
  OBVIOUS

\* The loop has a value for the delays up to every bound.
LEMMA UptoExists ==
  ASSUME NEW th \in Nat, NEW n \in Nat
  PROVE  \E g : g \in Upto(n, th)
<1> DEFINE T == {m \in Nat : ~\E g : g \in Upto(m, th)}
<1> SUFFICES ASSUME T # {} PROVE FALSE
  OBVIOUS
<1>1. PICK x \in T : \A y \in T : x <= y
  BY Least, Zenon
<1>2. x \in Nat /\ ~\E g : g \in Upto(x, th)
  OBVIOUS
<1>3. CASE x = 0
  <2> DEFINE g == [d \in 0 .. 0 |-> 0]
  <2>1. g \in [0 .. 0 -> Nat] /\ \A d \in 0 .. 0 : d <= th /\ g[d] = 0
    OBVIOUS
  <2>2. g \in Upto(0, th)
    BY <2>1 DEF Upto, Body
  <2> QED
    BY <1>2, <1>3, <2>2
<1>4. CASE x # 0
  <2>1. x - 1 \in Nat /\ x - 1 \notin T
    BY <1>1, <1>2, <1>4
  <2>2. PICK g : g \in Upto(x - 1, th)
    BY <2>1
  <2>3. g \in [0 .. x - 1 -> Nat] /\ \A d \in 0 .. x - 1 : g[d] = Body(g, th, d)
    BY <2>2 DEF Upto
  <2> HIDE DEF T
  <2> DEFINE h == [d \in 0 .. x |-> IF d < x THEN g[d] ELSE Body(g, th, x)]
  <2>4. Body(g, th, x) \in Nat
    BY <1>2, <2>3, HalfSmaller DEF Body
  <2>5. /\ h \in [0 .. x -> Nat]
        /\ \A d \in 0 .. x - 1 : h[d] = g[d]
        /\ h[x] = Body(g, th, x)
    BY <1>2, <2>3, <2>4
  <2> HIDE DEF h
  <2>6. ASSUME NEW d \in 0 .. x PROVE h[d] = Body(h, th, d)
    <3>1. Body(h, th, d) = Body(g, th, d)
      <4>1. CASE d <= th
        BY <4>1 DEF Body
      <4>2. CASE ~(d <= th)
        <5>1. d \div 2 \in 0 .. x - 1
          BY <1>2, <4>2, HalfSmaller
        <5> QED
          BY <2>5, <5>1 DEF Body
      <4> QED
        BY <4>1, <4>2
    <3>2. CASE d = x
      BY <2>5, <3>1, <3>2
    <3>3. CASE d # x
      BY <1>2, <2>3, <2>5, <3>1, <3>3
    <3> QED
      BY <3>2, <3>3
  <2>7. h \in Upto(x, th)
    BY <2>5, <2>6 DEF Upto
  <2> QED
    BY <1>2, <2>7
<1> QED
  BY <1>3, <1>4

\* Two such functions agree on the delays both have.
LEMMA UptoAgree ==
  ASSUME NEW th \in Nat, NEW n \in Nat, NEW m \in Nat,
         NEW g \in Upto(n, th), NEW h \in Upto(m, th),
         NEW d \in 0 .. n, d \in 0 .. m
  PROVE  g[d] = h[d]
<1> DEFINE T == {k \in Nat : k \in 0 .. n /\ k \in 0 .. m /\ g[k] # h[k]}
<1> SUFFICES ASSUME T # {} PROVE FALSE
  OBVIOUS
<1>1. PICK x \in T : \A y \in T : x <= y
  BY Least, Zenon
<1>2. x \in Nat /\ x \in 0 .. n /\ x \in 0 .. m /\ g[x] # h[x]
  OBVIOUS
<1>3. g[x] = Body(g, th, x) /\ h[x] = Body(h, th, x)
  BY <1>2 DEF Upto
<1>4. CASE x <= th
  BY <1>2, <1>3, <1>4 DEF Body
<1>5. CASE ~(x <= th)
  <2>1. x \div 2 \in 0 .. x - 1
    BY <1>2, <1>5, HalfSmaller
  <2>2. x \div 2 \notin T
    BY <1>1, <1>2, <2>1
  <2>3. g[x \div 2] = h[x \div 2]
    BY <1>2, <2>1, <2>2
  <2> QED
    BY <1>2, <1>3, <2>3 DEF Body
<1> QED
  BY <1>4, <1>5

\* So the loop defines a function on all delays.
LEMMA SolutionExists ==
  ASSUME NEW th \in Nat
  PROVE  \E f : f = [d \in Nat |-> IF d <= th THEN 0 ELSE 1 + f[d \div 2]]
<1> DEFINE G(n) == CHOOSE g : g \in Upto(n, th)
           F == [d \in Nat |-> G(d)[d]]
<1>1. \A n \in Nat : G(n) \in Upto(n, th)
  BY UptoExists
<1> HIDE DEF G
<1>2. ASSUME NEW d \in Nat PROVE F[d] = IF d <= th THEN 0 ELSE 1 + F[d \div 2]
  <2>1. F[d] = G(d)[d] /\ G(d)[d] = Body(G(d), th, d)
    BY <1>1 DEF Upto
  <2>2. CASE d <= th
    BY <2>1, <2>2 DEF Body
  <2>3. CASE ~(d <= th)
    <3> DEFINE e == d \div 2
    <3>1. e \in 0 .. d - 1
      BY <2>3, HalfSmaller
    <3> HIDE DEF e
    <3>2. e \in Nat /\ e \in 0 .. d /\ e \in 0 .. e
      BY <3>1
    <3>3. F[e] = G(e)[e] /\ G(e) \in Upto(e, th) /\ G(d) \in Upto(d, th)
      BY <1>1, <3>2
    <3>4. G(e)[e] = G(d)[e]
      BY <3>2, <3>3, UptoAgree
    <3> QED
      BY <2>1, <2>3, <3>3, <3>4 DEF Body, e
  <2> QED
    BY <2>2, <2>3
<1>3. F = [d \in Nat |-> IF d <= th THEN 0 ELSE 1 + F[d \div 2]]
  BY <1>2
<1> QED
  BY <1>3, Zenon

\* The number of rounds of trace_irqoff_record for a delay of at least the
\* throttle.
LEMMA IrqoffIndexNat ==
  ASSUME NEW th \in Nat, NEW delta \in Nat, delta >= th
  PROVE  IrqoffIndex(delta, th) \in Nat
<1> DEFINE f[d \in Nat] == IF d <= th THEN 0 ELSE 1 + f[d \div 2]
<1>1. f = [d \in Nat |-> IF d <= th THEN 0 ELSE 1 + f[d \div 2]]
  BY SolutionExists
<1>2. IrqoffIndex(delta, th) = f[delta \div 2]
  BY DEF IrqoffIndex
<1> HIDE DEF f
<1> DEFINE T == {d \in Nat : f[d] \notin Nat}
<1>3. T = {}
  <2> SUFFICES ASSUME T # {} PROVE FALSE
    OBVIOUS
  <2>1. PICK x \in T : \A y \in T : x <= y
    BY Least, Zenon
  <2>2. x \in Nat /\ f[x] \notin Nat
    OBVIOUS
  <2>3. f[x] = IF x <= th THEN 0 ELSE 1 + f[x \div 2]
    BY <1>1, <2>2
  <2>4. ~(x <= th)
    BY <2>2, <2>3
  <2>5. x \div 2 \in 0 .. x - 1
    BY <2>2, <2>4, HalfSmaller
  <2>6. f[x \div 2] \in Nat
    BY <2>1, <2>2, <2>5
  <2> QED
    BY <2>2, <2>3, <2>6
<1>4. delta \div 2 \in Nat
  OBVIOUS
<1> QED
  BY <1>2, <1>3, <1>4

\* Comparing a quotient is comparing the dividend with the multiple.
LEMMA DivBound ==
  ASSUME NEW d \in Nat, NEW n \in Nat \ {0}, NEW a \in Nat
  PROVE  d \div n \in Nat /\ (a * n <= d <=> a <= d \div n)
<1> DEFINE q == d \div n
           r == d % n
<1>1. q \in Nat /\ r \in Nat /\ r < n /\ d = n * q + r
  BY SMTT(30)
<1> HIDE DEF q, r
<1>2. ASSUME a <= q PROVE a * n <= d
  <2>1. a * n <= q * n
    BY <1>1, <1>2
  <2> QED
    BY <1>1, <2>1
<1>3. ASSUME ~(a <= q) PROVE ~(a * n <= d)
  <2>1. (q + 1) * n <= a * n
    BY <1>1, <1>3
  <2>2. (q + 1) * n = n * q + n /\ a * n \in Nat /\ n * q \in Nat
    BY <1>1
  <2> DEFINE x == a * n
             y == n * q
             z == (q + 1) * n
  <2>3. z <= x /\ z = y + n /\ x \in Nat /\ y \in Nat /\ d = y + r
    BY <1>1, <2>1, <2>2, Zenon
  <2> HIDE DEF x, y, z
  <2>4. ~(x <= d)
    BY <1>1, <2>3
  <2> QED
    BY <2>4, Zenon DEF x
<1> QED
  BY <1>1, <1>2, <1>3 DEF q

------------------------------------------------------------------------------
(* What the handlers do to the time stamps and the histograms. *)

\* save_trace touches neither the time stamp nor the histogram.
LEMMA SaveKeeps ==
  ASSUME NEW m \in Meta, NEW latency, NEW more, NEW depth
  PROVE  /\ save_trace(m, latency, more, depth).last_timestamp = m.last_timestamp
         /\ save_trace(m, latency, more, depth).latency_count = m.latency_count
  BY DEF save_trace, Meta

\* The bucket in which trace_irqoff_record counts a delay is a bucket of the
\* histogram.
LEMMA CountIndexOK ==
  ASSUME NEW delta \in Nat, NEW period \in Nat, Throttle(period) # 0,
         delta >= Throttle(period)
  PROVE  CountIndex(delta, period) \in CountIdx
<1> DEFINE throttle == Throttle(period)
           index == IrqoffIndex(delta, throttle)
<1>1. throttle \in Nat \ {0} /\ delta >= throttle
  BY ThrottleNat, Zenon
<1> HIDE DEF throttle
<1>2. index \in Nat
  BY <1>1, IrqoffIndexNat
<1> HIDE DEF index
<1>3. Clamp(index, MAX_LATENCY_RECORD) \in CountIdx
  BY <1>2, IrqOffAssumption DEF Clamp, CountIdx
<1> QED
  BY <1>3, Zenon DEF CountIndex, index, throttle

\* What trace_irqoff_record makes of m: the same time stamp, and a delay that
\* is to be counted is counted exactly when it reaches two periods.
Recorded(r, m, delta, period, count) ==
  /\ r.last_timestamp = m.last_timestamp
  /\ r.latency_count # m.latency_count => count = TRUE /\ delta >= Throttle(period)
  /\ count = TRUE /\ delta >= Throttle(period) /\ Throttle(period) # 0 =>
       r.latency_count # m.latency_count

\* trace_irqoff_record keeps the time stamp, and counts a delay exactly when it
\* reaches the throttle of two periods.
LEMMA RecordCounts ==
  ASSUME NEW m \in Meta, NEW delta \in Nat, NEW period \in Nat, NEW latency \in Nat,
         NEW count \in BOOLEAN, NEW more, NEW depth
  PROVE  Recorded(trace_irqoff_record(m, delta, period, latency, count, more, depth),
                  m, delta, period, count)
<1> DEFINE b == CountIndex(delta, period)
           h == [m.latency_count EXCEPT ![b] = m.latency_count[b] + 1]
           d == [m EXCEPT !.latency_count = h]
           c == IF count = TRUE THEN d ELSE m
           s == save_trace(c, delta, more, depth)
           r == trace_irqoff_record(m, delta, period, latency, count, more, depth)
<1>1. m.latency_count \in [CountIdx -> Nat]
  BY MetaFields
<1>2. b \in CountIdx => h # m.latency_count
  <2> HIDE DEF b
  <2>1. ASSUME b \in CountIdx
        PROVE  h[b] = m.latency_count[b] + 1 /\ m.latency_count[b] \in Nat
    BY <1>1, <2>1
  <2> HIDE DEF h
  <2> QED
    BY <2>1
<1>3. h \in [CountIdx -> Nat]
  <2> HIDE DEF b
  <2>1. CASE b \in CountIdx
    BY <1>1, <2>1
  <2>2. CASE b \notin CountIdx
    BY <1>1, <2>2, Zenon
  <2> QED
    BY <2>1, <2>2
<1>4. [m EXCEPT !.latency_count[b] = @ + 1] = d
  <2> HIDE DEF b
  <2> QED
    BY DEF Meta
<1>5. r = IF delta < Throttle(period) THEN m ELSE IF delta >= latency THEN s ELSE c
  BY <1>4, Zenon DEF trace_irqoff_record
<1> HIDE DEF h, r
<1>6. d \in Meta
  BY <1>3, Zenon DEF Meta
<1>7. d.last_timestamp = m.last_timestamp /\ d.latency_count = h
  BY DEF Meta
<1> HIDE DEF d
<1>8. c \in Meta /\ c.last_timestamp = m.last_timestamp
      /\ c.latency_count = IF count = TRUE THEN h ELSE m.latency_count
  BY <1>6, <1>7
<1> HIDE DEF c
<1>9. s.last_timestamp = c.last_timestamp /\ s.latency_count = c.latency_count
  BY <1>8, SaveKeeps
<1> HIDE DEF s
<1>10. delta >= Throttle(period) /\ Throttle(period) # 0 => b \in CountIdx
  BY CountIndexOK
<1> HIDE DEF b
<1>11. Throttle(period) \in Nat
  BY ThrottleNat, Zenon
<1>12. Recorded(r, m, delta, period, count)
  BY <1>2, <1>5, <1>8, <1>9, <1>10, <1>11 DEF Recorded
<1> QED
  BY <1>12, Zenon DEF r

\* A new time stamp leaves the histogram alone.
LEMMA StampKeeps ==
  ASSUME NEW m \in Meta, NEW t \in Nat
  PROVE  LET j == [m EXCEPT !.last_timestamp = t]
         IN  j \in Meta /\ j.last_timestamp = t /\ j.latency_count = m.latency_count
<1> DEFINE j == [m EXCEPT !.last_timestamp = t]
<1>1. j \in Meta
  BY Zenon DEF Meta
<1>2. j.last_timestamp = t /\ j.latency_count = m.latency_count
  BY DEF Meta
<1> QED
  BY <1>1, <1>2, Zenon

\* What trace_irqoff_hrtimer_handler makes of s at time t.
HrtimerMeasured(r, s, period, latency, t) ==
  LET delta == t - s.hard.last_timestamp
  IN  /\ r.hard.last_timestamp = t
      /\ r.hard.latency_count # s.hard.latency_count => delta >= Throttle(period)
      /\ delta >= Throttle(period) /\ Throttle(period) # 0 =>
           r.hard.latency_count # s.hard.latency_count
      /\ \/ r.soft.last_timestamp = t /\ r.delayed = s.delayed
         \/ /\ r.soft.last_timestamp = s.soft.last_timestamp
            /\ r.delayed = s.delayed
            /\ s.delayed = TRUE \/ t - s.soft.last_timestamp < latency
         \/ r.soft.last_timestamp = s.soft.last_timestamp /\ r.delayed = TRUE

\* trace_irqoff_hrtimer_handler renews the time stamp of interrupts and counts a
\* delay from two periods on.  It renews the time stamp of softirqs, or finds
\* that their delay is marked or below the threshold, or marks it.
LEMMA HrtimerMeasures ==
  ASSUME NEW t \in Nat, NEW s, GoodData(s, t), NEW period \in Nat, NEW latency \in Nat,
         NEW depth \in Nat
  PROVE  HrtimerMeasured(HrtimerHandler(s, period, latency, depth, t), s, period, latency, t)
<1> DEFINE delta == t - s.hard.last_timestamp
           delta_soft == t - s.soft.last_timestamp
           n == [s.hard EXCEPT !.last_timestamp = t]
           a == trace_irqoff_record(n, delta, period, latency, TRUE, FALSE, depth)
           h == [s EXCEPT !.hard = a]
           u == [h.soft EXCEPT !.last_timestamp = t]
           v == trace_irqoff_record(h.soft, delta_soft, period, latency, FALSE, TRUE, depth)
           x == [h EXCEPT !.soft = u]
           y == [h EXCEPT !.delayed = TRUE, !.soft = v]
           r == HrtimerHandler(s, period, latency, depth, t)
<1>1. /\ Good(s.hard, t) /\ Good(s.soft, t) /\ s \in Data
      /\ delta \in Nat /\ delta_soft \in Nat
  BY DeltaNat
<1>2. s.hard \in Meta /\ s.soft \in Meta
  BY <1>1 DEF Good
<1>3. n \in Meta /\ n.last_timestamp = t /\ n.latency_count = s.hard.latency_count
  BY <1>2, StampKeeps, Zenon
<1> HIDE DEF n, delta, delta_soft
<1>4. Recorded(a, n, delta, period, TRUE)
  BY <1>1, <1>3, TRUE \in BOOLEAN, RecordCounts, Zenon
<1>5. Good(n, t)
  BY <1>1, StampGood DEF n
<1>6. Good(a, t)
  BY <1>1, <1>5, RecordGood, Zenon
<1>7. a \in Meta
  BY <1>6, Zenon DEF Good
<1> HIDE DEF a
<1>8. h \in Data /\ h.hard = a /\ h.soft = s.soft /\ h.delayed = s.delayed
  BY <1>1, <1>7 DEF Data
<1>9. [h EXCEPT !.soft.last_timestamp = t] = x
  BY <1>8 DEF Data
<1>10. r = IF delta >= Throttle(period) THEN x
           ELSE IF s.delayed \/ delta_soft < latency THEN h ELSE y
  BY <1>9, Zenon DEF HrtimerHandler, a, n, delta, delta_soft
<1> HIDE DEF h, r
<1>11. u.last_timestamp = t
  BY <1>2, <1>8, StampKeeps, Zenon
<1>12. Recorded(v, h.soft, delta_soft, period, FALSE)
  BY <1>1, <1>2, <1>8, FALSE \in BOOLEAN, RecordCounts, Zenon
<1> HIDE DEF u, v
<1>13. x.hard = h.hard /\ x.soft = u /\ x.delayed = h.delayed
  BY <1>8 DEF Data
<1>14. y.hard = h.hard /\ y.soft = v /\ y.delayed = TRUE
  BY <1>8, Zenon DEF Data
<1> HIDE DEF x, y
<1>15. s.delayed \in BOOLEAN
  BY <1>1 DEF Data
<1>16. /\ r.hard = a
       /\ \/ r.soft.last_timestamp = t /\ r.delayed = s.delayed
          \/ /\ r.soft.last_timestamp = s.soft.last_timestamp
             /\ r.delayed = s.delayed
             /\ s.delayed = TRUE \/ delta_soft < latency
          \/ r.soft.last_timestamp = s.soft.last_timestamp /\ r.delayed = TRUE
  BY <1>8, <1>10, <1>11, <1>12, <1>13, <1>14, <1>15, Zenon DEF Recorded
<1>17. /\ r.hard.last_timestamp = t
       /\ r.hard.latency_count # s.hard.latency_count => delta >= Throttle(period)
       /\ delta >= Throttle(period) /\ Throttle(period) # 0 =>
            r.hard.latency_count # s.hard.latency_count
  BY <1>3, <1>4, <1>16, Zenon DEF Recorded
<1>18. HrtimerMeasured(r, s, period, latency, t)
  BY <1>16, <1>17, Zenon DEF HrtimerMeasured, delta, delta_soft
<1> QED
  BY <1>18, Zenon DEF r

\* What trace_irqoff_timer_handler makes of s at time t.
TimerMeasured(r, s, period, t) ==
  /\ r.hard = s.hard /\ r.soft.last_timestamp = t /\ r.delayed = FALSE
  /\ r.soft.latency_count # s.soft.latency_count =>
       t - s.soft.last_timestamp >= Throttle(period)

\* trace_irqoff_timer_handler renews the time stamp of softirqs, ends the mark
\* of a delay and counts a delay only from two periods on.
LEMMA TimerMeasures ==
  ASSUME NEW t \in Nat, NEW s, GoodData(s, t), NEW period \in Nat, NEW latency \in Nat,
         NEW depth \in Nat
  PROVE  TimerMeasured(TimerHandler(s, period, latency, depth, t), s, period, t)
<1> DEFINE delta == t - s.soft.last_timestamp
           n == [s.soft EXCEPT !.last_timestamp = t]
           a == trace_irqoff_record(n, delta, period, latency, TRUE, FALSE, depth)
           r == TimerHandler(s, period, latency, depth, t)
<1>1. Good(s.soft, t) /\ s \in Data /\ delta \in Nat
  BY DeltaNat
<1>2. s.soft \in Meta
  BY <1>1 DEF Good
<1>3. n \in Meta /\ n.last_timestamp = t /\ n.latency_count = s.soft.latency_count
  BY <1>2, StampKeeps, Zenon
<1> HIDE DEF n, delta
<1>4. Recorded(a, n, delta, period, TRUE)
  BY <1>1, <1>3, TRUE \in BOOLEAN, RecordCounts, Zenon
<1>5. r = [s EXCEPT !.delayed = FALSE, !.soft = a]
  BY Zenon DEF TimerHandler, n, delta
<1> HIDE DEF a, r
<1>6. r.hard = s.hard /\ r.soft = a /\ r.delayed = FALSE
  BY <1>1, <1>5, Zenon DEF Data
<1>7. TimerMeasured(r, s, period, t)
  BY <1>3, <1>4, <1>6, Zenon DEF Recorded, TimerMeasured, delta
<1> QED
  BY <1>7, Zenon DEF r

\* smp_timers_start renews the time stamps and keeps the rest.
LEMMA StartKeeps ==
  ASSUME NEW s \in Data, NEW t \in Nat
  PROVE  LET r == [s EXCEPT !.hard.last_timestamp = t, !.soft.last_timestamp = t]
         IN  /\ r.hard.last_timestamp = t /\ r.soft.last_timestamp = t
             /\ r.delayed = s.delayed
             /\ r.hard.latency_count = s.hard.latency_count
             /\ r.soft.latency_count = s.soft.latency_count
  BY DEF Data, Meta

\* smp_clear_stack_trace keeps the time stamps and the mark.
LEMMA ClearKeeps ==
  ASSUME NEW s \in Data
  PROVE  LET r == smp_clear_stack_trace(s)
         IN  /\ r.hard.last_timestamp = s.hard.last_timestamp
             /\ r.soft.last_timestamp = s.soft.last_timestamp
             /\ r.delayed = s.delayed
  BY Zenon DEF smp_clear_stack_trace, ClearMeta, Data, Meta

------------------------------------------------------------------------------
(* What a step is for one CPU. *)

\* The data, the two timers and the masks of CPU c do not change.
SameData(c) == cpu_stack_trace'[c] = cpu_stack_trace[c]
SameTimers(c) == hrtimer'[c] = hrtimer[c] /\ timer'[c] = timer[c]
SameMasks(c) == /\ irq'[c] = irq[c] /\ bh'[c] = bh[c]
                /\ hard_off'[c] = hard_off[c] /\ soft_off'[c] = soft_off[c]
SameTime == now' = now /\ sampling_period' = sampling_period

\* Time passes, with no handler due that may run.
Ticks(c) ==
  /\ SameData(c) /\ SameTimers(c) /\ allowed'[c] = allowed[c]
  /\ irq'[c] = irq[c] /\ bh'[c] = bh[c]
  /\ ~HrtimerRuns(c) /\ ~TimerRuns(c)
  /\ now' = now + 1 /\ sampling_period' = sampling_period
  /\ hard_off'[c] = IF irq[c] THEN NULL ELSE hard_off[c]
  /\ soft_off'[c] = IF irq[c] /\ bh[c] THEN NULL ELSE soft_off[c]

\* Interrupts or softirqs are disabled or enabled.
Switches(c) ==
  /\ SameData(c) /\ SameTimers(c) /\ allowed'[c] = allowed[c] /\ SameTime
  /\ \/ /\ irq[c] /\ ~HrtimerRuns(c) /\ ~TimerRuns(c)
        /\ irq'[c] = FALSE /\ bh'[c] = bh[c] /\ hard_off'[c] = now
        /\ soft_off'[c] = IF bh[c] THEN now ELSE soft_off[c]
     \/ /\ ~irq[c] /\ irq'[c] = TRUE /\ bh'[c] = bh[c]
        /\ hard_off'[c] = hard_off[c] /\ soft_off'[c] = soft_off[c]
     \/ /\ irq[c] /\ bh[c] /\ ~HrtimerRuns(c) /\ ~TimerRuns(c)
        /\ irq'[c] = irq[c] /\ bh'[c] = FALSE
        /\ hard_off'[c] = hard_off[c] /\ soft_off'[c] = now
     \/ /\ irq[c] /\ ~bh[c] /\ irq'[c] = irq[c] /\ bh'[c] = TRUE
        /\ hard_off'[c] = hard_off[c] /\ soft_off'[c] = soft_off[c]

\* One of the two handlers runs.
HrtimerFires(c) ==
  /\ HrtimerRuns(c) /\ SameMasks(c) /\ SameTime
  /\ \E depth \in Nat :
       cpu_stack_trace'[c] = HrtimerHandler(cpu_stack_trace[c], sampling_period,
                                            trace_irqoff_latency, depth, now)
  /\ hrtimer'[c] = Forward(hrtimer[c]) /\ timer'[c] = timer[c]
  /\ allowed'[c] = trace_irqoff_latency + sampling_period
TimerFires(c) ==
  /\ TimerRuns(c) /\ SameMasks(c) /\ SameTime
  /\ \E depth \in Nat :
       cpu_stack_trace'[c] = TimerHandler(cpu_stack_trace[c], sampling_period,
                                          trace_irqoff_latency, depth, now)
  /\ hrtimer'[c] = hrtimer[c] /\ \E slack \in WheelSlack : timer'[c] = TimerExpiry(slack)
  /\ allowed'[c] = allowed[c]

\* The timers are started by process p, or stopped.
Starts(p, c) ==
  /\ At(p, "start") /\ c \in proc[p].todo /\ irq[c] /\ SameMasks(c) /\ SameTime
  /\ cpu_stack_trace'[c] = [cpu_stack_trace[c] EXCEPT !.hard.last_timestamp = now,
                                                      !.soft.last_timestamp = now]
  /\ hrtimer'[c] = now + sampling_period
  /\ \E slack \in WheelSlack : timer'[c] = TimerExpiry(slack)
  /\ allowed'[c] = trace_irqoff_latency + sampling_period
Halts(c) ==
  /\ SameData(c) /\ SameMasks(c) /\ SameTime /\ allowed'[c] = allowed[c]
  /\ hrtimer'[c] = NULL /\ timer'[c] = NULL

\* The buffers are cleared, or nothing of the CPU changes.  The period changes
\* only with the last step of sampling_period_write.
Rests(c) ==
  /\ SameTimers(c) /\ SameMasks(c) /\ allowed'[c] = allowed[c]
  /\ now' = now
  /\ sampling_period' = sampling_period \/ \E p \in Procs : At(p, "period")
  /\ \/ SameData(c)
     \/ cpu_stack_trace'[c] = smp_clear_stack_trace(cpu_stack_trace[c])

CpuView(c) ==
  \/ Ticks(c) \/ Switches(c) \/ HrtimerFires(c) \/ TimerFires(c)
  \/ \E p \in Procs : Starts(p, c)
  \/ Halts(c) \/ Rests(c)

\* A step of the environment, for one CPU.
LEMMA EnvironmentView ==
  ASSUME IInv, Environment, NEW c \in Cpus
  PROVE  CpuView(c)
<1> USE DEF timers, settings, files
<1>1. TypeOK
  BY DEF IInv
<1>2. CASE Tick
  <2>1. Ticks(c)
    BY <1>1, <1>2 DEF Tick, Ticks, SameData, SameTimers
  <2> QED
    BY <2>1 DEF CpuView
<1>3. ASSUME NEW d \in Cpus,
             \/ local_irq_disable(d) \/ local_irq_enable(d)
             \/ local_bh_disable(d) \/ local_bh_enable(d)
      PROVE  CpuView(c)
  <2>1. UNCHANGED <<cpu_stack_trace, hrtimer, timer, sampling_period, allowed, now>>
    BY <1>3 DEF local_irq_disable, local_irq_enable, local_bh_disable, local_bh_enable
  <2>2. SameData(c) /\ SameTimers(c) /\ allowed'[c] = allowed[c] /\ SameTime
    BY <2>1 DEF SameData, SameTimers, SameTime
  <2>3. /\ irq \in [Cpus -> BOOLEAN] /\ bh \in [Cpus -> BOOLEAN]
        /\ hard_off \in [Cpus -> Nat \cup {NULL}] /\ soft_off \in [Cpus -> Nat \cup {NULL}]
    BY <1>1, Zenon DEF TypeOK
  <2>4. CASE c # d
    <3>1. SameMasks(c)
      BY <1>3, <2>3, <2>4 DEF SameMasks, local_irq_disable, local_irq_enable,
                              local_bh_disable, local_bh_enable
    <3> QED
      BY <2>2, <3>1, Zenon DEF CpuView, Rests, SameTime
  <2>5. CASE c = d
    <3>1. Switches(c)
      <4>1. CASE local_irq_disable(c)
        BY <2>2, <2>3, <4>1 DEF local_irq_disable, Switches
      <4>2. CASE local_irq_enable(c)
        BY <2>2, <2>3, <4>2, Zenon DEF local_irq_enable, Switches
      <4>3. CASE local_bh_disable(c)
        BY <2>2, <2>3, <4>3 DEF local_bh_disable, Switches
      <4>4. CASE local_bh_enable(c)
        BY <2>2, <2>3, <4>4 DEF local_bh_enable, Switches
      <4> QED
        BY <1>3, <2>5, <4>1, <4>2, <4>3, <4>4, Zenon
    <3> QED
      BY <3>1 DEF CpuView
  <2> QED
    BY <2>4, <2>5
<1> QED
  BY <1>2, <1>3 DEF Environment

\* A handler, for one CPU.
LEMMA HandlersView ==
  ASSUME IInv, Handlers, NEW c \in Cpus
  PROVE  CpuView(c)
<1> USE DEF timers, settings, files, env
<1>1. TypeOK
  BY DEF IInv
<1>2. /\ cpu_stack_trace \in [Cpus -> Data]
      /\ hrtimer \in [Cpus -> Nat \cup {NULL}] /\ timer \in [Cpus -> Nat \cup {NULL}]
      /\ allowed \in [Cpus -> Nat] /\ Depths \subseteq Nat
  BY <1>1, IrqOffAssumption, Zenon DEF TypeOK, Data
<1>3. ASSUME NEW d \in Cpus, trace_irqoff_hrtimer_handler(d)
      PROVE  CpuView(c)
  <2>1. SameMasks(c) /\ SameTime
    BY <1>3, Zenon DEF trace_irqoff_hrtimer_handler, SameMasks, SameTime
  <2>2. CASE c # d
    <3>1. SameData(c) /\ SameTimers(c) /\ allowed'[c] = allowed[c]
      BY <1>2, <1>3, <2>2, Zenon DEF trace_irqoff_hrtimer_handler, SameData, SameTimers
    <3> QED
      BY <2>1, <3>1, Zenon DEF CpuView, Rests, SameTime
  <2>3. CASE c = d
    <3>1. HrtimerFires(c)
      BY <1>2, <1>3, <2>1, <2>3, Zenon DEF trace_irqoff_hrtimer_handler, HrtimerFires
    <3> QED
      BY <3>1 DEF CpuView
  <2> QED
    BY <2>2, <2>3
<1>4. ASSUME NEW d \in Cpus, trace_irqoff_timer_handler(d)
      PROVE  CpuView(c)
  <2>1. SameMasks(c) /\ SameTime /\ allowed'[c] = allowed[c] /\ hrtimer'[c] = hrtimer[c]
    BY <1>4, Zenon DEF trace_irqoff_timer_handler, SameMasks, SameTime
  <2>2. CASE c # d
    <3>1. SameData(c) /\ SameTimers(c)
      BY <1>2, <1>4, <2>1, <2>2, Zenon DEF trace_irqoff_timer_handler, SameData, SameTimers
    <3> QED
      BY <2>1, <3>1, Zenon DEF CpuView, Rests, SameTime
  <2>3. CASE c = d
    <3>1. TimerFires(c)
      BY <1>2, <1>4, <2>1, <2>3, Zenon DEF trace_irqoff_timer_handler, TimerFires
    <3> QED
      BY <3>1 DEF CpuView
  <2> QED
    BY <2>2, <2>3
<1> QED
  BY <1>3, <1>4 DEF Handlers

\* A step that touches nothing of any CPU.
LEMMA RestView ==
  ASSUME NEW c \in Cpus, UNCHANGED <<cpu_stack_trace, hrtimer, timer, env>>,
         sampling_period' = sampling_period \/ \E p \in Procs : At(p, "period")
  PROVE  CpuView(c)
<1>1. Rests(c)
  BY DEF Rests, SameTimers, SameMasks, SameData, env
<1> QED
  BY <1>1, Zenon DEF CpuView

\* A step of a write to a file, for one CPU.
LEMMA FilesView ==
  ASSUME IInv, Files, NEW c \in Cpus
  PROVE  CpuView(c)
<1> USE DEF timers, settings
<1>1. TypeOK
  BY DEF IInv
<1>2. /\ cpu_stack_trace \in [Cpus -> Data]
      /\ hrtimer \in [Cpus -> Nat \cup {NULL}] /\ timer \in [Cpus -> Nat \cup {NULL}]
      /\ allowed \in [Cpus -> Nat]
  BY <1>1 DEF TypeOK, Data
<1>3. PICK p \in Procs :
        \/ \E enable \in BOOLEAN : enable_write(p, enable)
        \/ \E d \in Cpus : \/ smp_timers_start(p, d)
                           \/ trace_irqoff_cancel_timers(p, d)
                           \/ clear_one_cpu(p, d)
        \/ store_trace_enable(p)
        \/ \E ms \in Periods : sampling_period_write(p, ms)
        \/ store_sampling_period(p)
        \/ \E ms \in Latencies : trace_latency_write(p, ms)
        \/ store_latency(p)
  BY Zenon DEF Files
<1>4. ASSUME \/ \E enable \in BOOLEAN : enable_write(p, enable)
             \/ \E ms \in Periods : sampling_period_write(p, ms)
             \/ \E ms \in Latencies : trace_latency_write(p, ms)
             \/ store_trace_enable(p) \/ store_latency(p)
      PROVE  CpuView(c)
  <2>1. UNCHANGED <<cpu_stack_trace, hrtimer, timer, env>> /\ sampling_period' = sampling_period
    BY <1>4, Zenon DEF enable_write, sampling_period_write, trace_latency_write, Begins,
                       store_trace_enable, store_latency
  <2> QED
    BY <2>1, RestView
<1>5. CASE store_sampling_period(p)
  <2>1. UNCHANGED <<cpu_stack_trace, hrtimer, timer, env>> /\ At(p, "period")
    BY <1>5, Zenon DEF store_sampling_period
  <2> QED
    BY <2>1, RestView
<1>6. ASSUME NEW d \in Cpus, smp_timers_start(p, d)
      PROVE  CpuView(c)
  <2>1. SameMasks(c) /\ SameTime
    BY <1>6 DEF smp_timers_start, SameMasks, SameTime
  <2>2. CASE c # d
    <3>1. SameData(c) /\ SameTimers(c) /\ allowed'[c] = allowed[c]
      BY <1>2, <1>6, <2>2, Zenon DEF smp_timers_start, SameData, SameTimers
    <3> QED
      BY <2>1, <3>1 DEF CpuView, Rests, SameTime
  <2>3. CASE c = d
    <3>1. cpu_stack_trace'[c] = [cpu_stack_trace[c] EXCEPT !.hard.last_timestamp = now,
                                                           !.soft.last_timestamp = now]
      <4>1. cpu_stack_trace[c] \in Data
        BY <1>2
      <4> QED
        BY <1>2, <1>6, <2>3, <4>1, Zenon DEF smp_timers_start, Data
    <3>2. Starts(p, c)
      BY <1>2, <1>6, <2>1, <2>3, <3>1, Zenon DEF smp_timers_start, Starts
    <3> QED
      BY <3>2 DEF CpuView
  <2> QED
    BY <2>2, <2>3
<1>7. ASSUME NEW d \in Cpus, trace_irqoff_cancel_timers(p, d)
      PROVE  CpuView(c)
  <2>1. SameMasks(c) /\ SameTime /\ SameData(c) /\ allowed'[c] = allowed[c]
    BY <1>7 DEF trace_irqoff_cancel_timers, env, SameMasks, SameTime, SameData
  <2>2. CASE c # d
    <3>1. SameTimers(c)
      BY <1>2, <1>7, <2>2 DEF trace_irqoff_cancel_timers, SameTimers
    <3> QED
      BY <2>1, <3>1 DEF CpuView, Rests, SameTime
  <2>3. CASE c = d
    <3>1. Halts(c)
      BY <1>2, <1>7, <2>1, <2>3, Zenon DEF trace_irqoff_cancel_timers, Halts
    <3> QED
      BY <3>1 DEF CpuView
  <2> QED
    BY <2>2, <2>3
<1>8. ASSUME NEW d \in Cpus, clear_one_cpu(p, d)
      PROVE  CpuView(c)
  <2>1. SameMasks(c) /\ SameTime /\ SameTimers(c) /\ allowed'[c] = allowed[c]
    BY <1>8, Zenon DEF clear_one_cpu, env, SameMasks, SameTime, SameTimers
  <2>2. SameData(c) \/ cpu_stack_trace'[c] = smp_clear_stack_trace(cpu_stack_trace[c])
    BY <1>2, <1>8, Zenon DEF clear_one_cpu, SameData
  <2> QED
    BY <2>1, <2>2, Zenon DEF CpuView, Rests, SameTime
<1> QED
  BY <1>3, <1>4, <1>5, <1>6, <1>7, <1>8

\* Every step is one of the kinds above for each CPU.
LEMMA StepView ==
  ASSUME IInv, [Next]_vars, NEW c \in Cpus
  PROVE  CpuView(c)
<1>1. CASE Environment
  BY <1>1, EnvironmentView
<1>2. CASE Handlers
  BY <1>2, HandlersView
<1>3. CASE Files
  BY <1>3, FilesView
<1>4. CASE trace_irqoff_exit
  <2>1. UNCHANGED <<cpu_stack_trace, env>> /\ sampling_period' = sampling_period
    BY <1>4 DEF trace_irqoff_exit, settings
  <2>2. CASE trace_enable
    <3>1. Halts(c)
      BY <1>4, <2>1, <2>2, Zenon DEF trace_irqoff_exit, Halts, SameData, SameMasks, SameTime, env
    <3> QED
      BY <3>1 DEF CpuView
  <2>3. CASE ~trace_enable
    <3>1. UNCHANGED <<hrtimer, timer>>
      BY <1>4, <2>3 DEF trace_irqoff_exit
    <3> QED
      BY <2>1, <3>1, RestView
  <2> QED
    BY <2>2, <2>3
<1>5. CASE UNCHANGED vars
  BY <1>5, RestView, Zenon DEF vars, timers, settings
<1> QED
  BY <1>1, <1>2, <1>3, <1>4, <1>5 DEF Next

==============================================================================
