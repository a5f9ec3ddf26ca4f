-------------------------- MODULE RunqLatWaitProofs --------------------------
(* The waits that the probes of RunqLat measure, on top of what they rely on *)
(* in the scheduler (SchedInv of RunqLatProofs): the CPU that is watched is  *)
(* the one the target waits on, no wait is reported longer than it was, and  *)
(* the tasks recorded of a wait ran one after another within it.             *)
EXTENDS RunqLatProofs

------------------------------------------------------------------------------
(* The tasks of a trace ran one after another.                               *)

\* What is recorded of the wait in progress.
Filling(i) == i.nr_trace \in TraceIdx /\ Current(i).nr_tasks # 0
Ahead(i) == Printed(i, i.nr_trace).tasks
Placed(i, length) == Filling(i) => OneAfterAnother(Ahead(i), length)

\* The intervals recorded so far lie between the start of the wait and the
\* start of the interval being measured.
Accounted(i) ==
  i.pid # INVALID => /\ Placed(i, i.run_start - i.rq_start)
                     /\ i.run_start # 0 => i.rq_start <= i.run_start

\* Tasks that ran within some time ran within a longer one.
LEMMA Longer ==
  ASSUME NEW f, \A j \in DOMAIN f : f[j].runtime \in Nat,
         NEW a \in Int, NEW b \in Int, a <= b, OneAfterAnother(f, a)
  PROVE  OneAfterAnother(f, b)
<1>1. PICK s \in [DOMAIN f -> 0 .. a] : \A j \in DOMAIN f :
        s[j] + f[j].runtime <= (IF j + 1 \in DOMAIN f THEN s[j + 1] ELSE a)
  BY DEF OneAfterAnother
<1>2. s \in [DOMAIN f -> 0 .. b]
  OBVIOUS
<1>3. ASSUME NEW j \in DOMAIN f
      PROVE  s[j] + f[j].runtime <= (IF j + 1 \in DOMAIN f THEN s[j + 1] ELSE b)
  <2>1. s[j] \in Int /\ f[j].runtime \in Int
    OBVIOUS
  <2> QED
    BY <1>1, <2>1
<1> QED
  BY <1>2, <1>3 DEF OneAfterAnother

\* One more task, which ran right after the others.
LEMMA OneMore ==
  ASSUME NEW n \in Nat, NEW f, NEW g, DOMAIN f = 0 .. (n - 1), DOMAIN g = 0 .. n,
         \A j \in 0 .. (n - 1) : g[j] = f[j] /\ f[j].runtime \in Nat,
         NEW a \in Nat, n # 0 => OneAfterAnother(f, a), g[n].runtime \in Nat
  PROVE  OneAfterAnother(g, a + g[n].runtime)
<1> DEFINE b == a + g[n].runtime
<1>1. CASE n = 0
  <2> DEFINE s == [j \in DOMAIN g |-> a]
  <2>1. s \in [DOMAIN g -> 0 .. b]
    OBVIOUS
  <2>2. \A j \in DOMAIN g : j = n /\ s[j] = a /\ j + 1 \notin DOMAIN g
    BY <1>1
  <2> HIDE DEF s
  <2> QED
    BY <2>1, <2>2 DEF OneAfterAnother
<1>2. CASE n # 0
  <2>1. PICK r \in [DOMAIN f -> 0 .. a] : \A j \in DOMAIN f :
          r[j] + f[j].runtime <= (IF j + 1 \in DOMAIN f THEN r[j + 1] ELSE a)
    BY <1>2 DEF OneAfterAnother
  <2> DEFINE s == [j \in DOMAIN g |-> IF j = n THEN a ELSE r[j]]
  <2>2. s \in [DOMAIN g -> 0 .. b]
    OBVIOUS
  <2>3. ASSUME NEW j \in DOMAIN g
        PROVE  s[j] + g[j].runtime <= (IF j + 1 \in DOMAIN g THEN s[j + 1] ELSE b)
    <3>1. CASE j = n
      BY <3>1
    <3>2. CASE j # n
      <4>1. /\ j \in DOMAIN f /\ j + 1 \in DOMAIN g /\ s[j] = r[j] /\ g[j] = f[j]
            /\ s[j + 1] = (IF j + 1 \in DOMAIN f THEN r[j + 1] ELSE a)
        BY <3>2
      <4> HIDE DEF s
      <4> QED
        BY <2>1, <4>1
    <3> QED
      BY <3>1, <3>2
  <2> HIDE DEF s
  <2> QED
    BY <2>2, <2>3, Zenon DEF OneAfterAnother
<1> QED
  BY <1>1, <1>2

\* The tasks recorded of the wait in progress are slots of the task buffer.
LEMMA AheadSlots ==
  ASSUME NEW i, Shape(i), i.nr_trace \in TraceIdx
  PROVE  /\ DOMAIN Ahead(i) = 0 .. (Current(i).nr_tasks - 1)
         /\ \A m \in DOMAIN Ahead(i) :
              /\ Current(i).entries + m \in TaskIdx
              /\ Ahead(i)[m] = i.task_entries[Current(i).entries + m]
              /\ Ahead(i)[m].runtime \in Nat
<1> DEFINE a == Current(i).entries
           n == Current(i).nr_tasks
<1>1. i \in Info /\ n \in Nat /\ i.task_entries \in [TaskIdx -> TaskEntry]
  BY InfoFields DEF Shape, Current
<1>2. Ahead(i) = [m \in 0 .. (n - 1) |-> i.task_entries[a + m]]
  BY DEF Ahead, Printed, Current
<1>3. n # 0 => a \in TaskIdx /\ a + n = i.nr_task /\ i.nr_task \in 0 .. MAX_TRACE_ENTRY_TASKS
  BY <1>1, CurrentSlice, InfoFields, SizesAssumption DEF TraceIdx
<1> HIDE DEF a, n
<1>4. \A m \in 0 .. (n - 1) : a + m \in TaskIdx
  BY <1>1, <1>3, SizesAssumption DEF TaskIdx
<1>5. \A m \in 0 .. (n - 1) : i.task_entries[a + m].runtime \in Nat
  BY <1>1, <1>4 DEF TaskEntry
<1> QED
  BY <1>2, <1>4, <1>5 DEF a, n

\* record_task puts the interval just closed behind the ones before it.
LEMMA RecordedPlaced ==
  ASSUME NEW i, Shape(i), HasRoom(i), NEW p \in Tasks \cup {Idle}, NEW d \in Nat,
         NEW a \in Nat, Placed(i, a)
  PROVE  OneAfterAnother(Ahead(Recorded(i, p, d)), a + d)
<1> DEFINE j == Recorded(i, p, d)
           s == i.nr_task
           n == Current(i).nr_tasks
           first == Current(i).entries
<1>1. i \in Info /\ i.nr_trace \in TraceIdx /\ s \in TaskIdx /\ n \in Nat
  BY RoomIndexes, InfoFields, Zenon DEF Current
<1>2. /\ Shape(j) /\ j.nr_trace = i.nr_trace /\ Current(j).nr_tasks = n + 1
      /\ Current(j).entries = IF n = 0 THEN s ELSE first
  <2>1. /\ j.nr_trace = i.nr_trace /\ j.trace_entries[i.nr_trace].nr_tasks = n + 1
        /\ j.trace_entries[i.nr_trace].entries = IF n = 0 THEN s ELSE first
    BY RecordedFields, Zenon DEF Current
  <2> QED
    BY <2>1, RecordedShape, Zenon DEF Current
<1>3. j.task_entries = [i.task_entries EXCEPT ![s] = [pid |-> p, runtime |-> d]]
  BY <1>1 DEF Recorded, Info
<1>4. n # 0 => first + n = s /\ first \in TaskIdx
  BY <1>1, CurrentSlice DEF HasRoom
<1> HIDE DEF j, n, first
<1>5. /\ \A m \in TaskIdx : m # s => j.task_entries[m] = i.task_entries[m]
      /\ j.task_entries[s].runtime = d
  BY <1>1, <1>3, InfoFields
<1>6. /\ DOMAIN Ahead(i) = 0 .. (n - 1)
      /\ \A m \in DOMAIN Ahead(i) : /\ first + m \in TaskIdx
                                    /\ Ahead(i)[m] = i.task_entries[first + m]
                                    /\ Ahead(i)[m].runtime \in Nat
  BY <1>1, AheadSlots DEF n, first
<1>7. /\ DOMAIN Ahead(j) = 0 .. n
      /\ \A m \in DOMAIN Ahead(j) : Ahead(j)[m] = j.task_entries[Current(j).entries + m]
  BY <1>1, <1>2, AheadSlots
<1>8. ASSUME NEW m \in 0 .. (n - 1)
      PROVE  Ahead(j)[m] = Ahead(i)[m] /\ Ahead(i)[m].runtime \in Nat
  <2>1. first + m \in TaskIdx /\ first + m # s /\ m \in 0 .. n
    BY <1>1, <1>4, <1>6 DEF TaskIdx
  <2>2. Ahead(j)[m] = j.task_entries[first + m]
    BY <1>1, <1>2, <1>7, <2>1
  <2> QED
    BY <1>5, <1>6, <2>1, <2>2
<1>9. Ahead(j)[n].runtime = d
  BY <1>1, <1>2, <1>4, <1>5, <1>7 DEF TaskIdx
<1>10. n # 0 => OneAfterAnother(Ahead(i), a)
  BY <1>1 DEF Placed, Filling, n
<1>11. OneAfterAnother(Ahead(j), a + Ahead(j)[n].runtime)
  BY <1>1, <1>6, <1>7, <1>8, <1>9, <1>10, OneMore
<1> QED
  BY <1>9, <1>11 DEF j

------------------------------------------------------------------------------
(* What the locked sections do to the wait and to the tasks recorded of it.  *)

SameWait(i, j) == j.pid = i.pid /\ j.cpu = i.cpu /\ j.rq_start = i.rq_start

\* The buffers are as before, or have one more kept trace, whose tasks ran one
\* after another within its latency.
AddsFitting(i, j) ==
  \/ j.nr_trace \in {0, i.nr_trace}
  \/ j.nr_trace = i.nr_trace + 1 /\ Fits(j, i.nr_trace)

\* What is recorded of the wait depends on the buffers only.
LEMMA SameAhead ==
  ASSUME NEW i, NEW j, SameContents(i, j)
  PROVE  /\ Filling(j) <=> Filling(i)
         /\ \A length : Placed(j, length) <=> Placed(i, length)
         /\ \A k : Fits(j, k) <=> Fits(i, k)
         /\ AddsFitting(i, j)
<1>1. \A k : Printed(j, k) = Printed(i, k)
  BY DEF SameContents, Printed
<1> QED
  BY <1>1, Zenon DEF SameContents, Filling, Current, Ahead, Placed, Fits, AddsFitting

\* A wait that has lasted longer still has room for what is recorded of it.
LEMMA PlacedLonger ==
  ASSUME NEW i, Shape(i), NEW a \in Int, NEW b \in Int, a <= b, Placed(i, a)
  PROVE  Placed(i, b)
<1> SUFFICES ASSUME Filling(i) PROVE OneAfterAnother(Ahead(i), b)
  BY DEF Placed
<1>1. \A m \in DOMAIN Ahead(i) : Ahead(i)[m].runtime \in Nat
  BY AheadSlots, Zenon DEF Filling
<1>2. OneAfterAnother(Ahead(i), a)
  BY Zenon DEF Placed
<1> QED
  BY <1>1, <1>2, Longer

\* A forced stop keeps the buffers.
LEMMA ForceDisableWait ==
  ASSUME NEW i \in Info
  PROVE  /\ SameContents(i, ForceDisable(i)) /\ ForceDisable(i).nr_task = i.nr_task
         /\ ForceDisable(i).pid = INVALID /\ ForceDisable(i).rq_start = 0
  BY Zenon DEF ForceDisable, runqlat_info_reset, SameContents, Info

\* Charging an interval goes on with the wait, or ends the session because the
\* task buffer is full.  What is recorded lies between the start of the wait and
\* now, at a forced stop too.
Charged(i, k, t) ==
  /\ Good(k, t) /\ k.nr_trace = i.nr_trace
  /\ \/ SameWait(i, k) /\ k.run_start = i.run_start
     \/ k.pid = INVALID /\ k.nr_task >= MAX_TRACE_ENTRY_TASKS
  /\ Placed(k, t - k.rq_start)

\* Charge does so.
LEMMA ChargeWait ==
  ASSUME NEW i, NEW t \in Nat, Good(i, t), HasRoom(i), i.pid # INVALID, Accounted(i),
         NEW p \in Tasks \cup {Idle}
  PROVE  Charged(i, Charge(i, p, t), t)
<1> DEFINE d == t - i.run_start
           r == Recorded(i, p, d)
           k == Charge(i, p, t)
           a == i.run_start - i.rq_start
<1>1. /\ Shape(i) /\ i \in Info /\ d \in Nat /\ t - i.rq_start \in Nat
      /\ i.rq_start \in Nat /\ i.run_start \in Nat
  BY ElapsedNat, InfoFields, Zenon DEF Good
<1>2. Good(k, t) /\ k.nr_trace = i.nr_trace
  BY ChargeGood
<1>3. Placed(i, a) /\ (i.run_start # 0 => i.rq_start <= i.run_start)
  BY Zenon DEF Accounted
<1>4. CASE i.run_start = 0
  <2>1. k = i
    BY <1>4 DEF Charge
  <2>2. Placed(i, t - i.rq_start)
    BY <1>1, <1>3, <1>4, PlacedLonger
  <2> HIDE DEF k
  <2>3. Charged(i, k, t)
    BY <1>2, <2>1, <2>2, Zenon DEF Charged, SameWait
  <2> QED
    BY <2>3 DEF k
<1>5. CASE i.run_start # 0
  <2>1. k = IF r.nr_task >= MAX_TRACE_ENTRY_TASKS THEN ForceDisable(r) ELSE r
    BY <1>5 DEF Charge, record_task, Recorded
  <2>2. r \in Info /\ r.rq_start = i.rq_start /\ r.run_start = i.run_start /\ r.pid = i.pid
    BY <1>1, RecordedFields, Zenon
  <2>3. r.cpu = i.cpu
    BY <1>1 DEF Recorded, Info
  <2>4. Shape(r)
    BY <1>1, RecordedShape, Zenon
  <2>5. Placed(r, t - i.rq_start)
    <3>1. a \in Nat /\ a + d = t - i.rq_start
      BY <1>1, <1>3, <1>5
    <3>2. OneAfterAnother(Ahead(r), a + d)
      BY <1>1, <1>3, <3>1, RecordedPlaced, Zenon
    <3> QED
      BY <3>1, <3>2, Zenon DEF Placed
  <2> HIDE DEF r, k
  <2>6. Placed(r, t - 0)
    BY <1>1, <2>4, <2>5, PlacedLonger
  <2>7. CASE r.nr_task >= MAX_TRACE_ENTRY_TASKS
    BY <1>2, <2>1, <2>2, <2>6, <2>7, ForceDisableWait, SameAhead, Zenon DEF Charged, k
  <2>8. CASE ~(r.nr_task >= MAX_TRACE_ENTRY_TASKS)
    BY <1>2, <2>1, <2>2, <2>3, <2>5, <2>8, Zenon DEF Charged, SameWait, k
  <2> QED
    BY <2>7, <2>8
<1> QED
  BY <1>4, <1>5

\* The end of a wait leaves the session as it is, or ends it because the trace
\* buffer is full, and no trace half filled; a trace that is kept gets the
\* latency.
Committed(i, j, latency) ==
  /\ AddsFitting(i, j) /\ ~Filling(j)
  /\ j.pid = INVALID \/ (SameWait(i, j) /\ j.run_start = i.run_start)
  /\ j.nr_trace = i.nr_trace + 1 =>
       j.nr_task = i.nr_task /\ JustKept(j).latency = latency

\* The trace that record_task_commit keeps.
LEMMA KeptWait ==
  ASSUME NEW h, Shape(h), h.nr_trace < MAX_TRACE_ENTRIES, Current(h).nr_tasks # 0,
         NEW latency \in Nat, Placed(h, latency)
  PROVE  /\ Committed(h, KeptTrace(h, latency), latency)
         /\ Committed(h, ForceDisable(KeptTrace(h, latency)), latency)
<1> DEFINE j == KeptTrace(h, latency)
           n == h.nr_trace
           c == Current(h)
           e == [c EXCEPT !.latency = latency]
<1>1. h \in Info /\ n \in TraceIdx /\ c \in TraceEntry
  BY CurrentSlice, Zenon
<1>2. /\ j \in Info /\ j.nr_trace = n + 1 /\ j.nr_task = h.nr_task /\ j.pid = h.pid
      /\ j.rq_start = h.rq_start /\ j.run_start = h.run_start
  BY KeptShape, Zenon DEF Shape
<1>3. /\ j.cpu = h.cpu /\ j.task_entries = h.task_entries
      /\ j.trace_entries = [h.trace_entries EXCEPT ![n] = e]
  BY <1>1, Zenon DEF KeptTrace, Info
<1>4. e.latency = latency /\ e.entries = c.entries /\ e.nr_tasks = c.nr_tasks
  BY <1>1 DEF TraceEntry
<1> HIDE DEF e, j
<1>5. /\ j.trace_entries[n] = e
      /\ n + 1 \in TraceIdx => j.trace_entries[n + 1] = h.trace_entries[n + 1]
  <2>1. h.trace_entries \in [TraceIdx -> TraceEntry] /\ n # n + 1
    BY <1>1, InfoFields DEF TraceIdx
  <2> QED
    BY <1>1, <1>3, <2>1
<1>6. Fits(j, n)
  <2>1. Printed(j, n).tasks = Ahead(h) /\ Printed(j, n).latency = latency
    BY <1>3, <1>4, <1>5 DEF Printed, Ahead, Current
  <2>2. OneAfterAnother(Ahead(h), latency)
    BY <1>1, Zenon DEF Placed, Filling
  <2> QED
    BY <2>1, <2>2, Zenon DEF Fits
<1>7. ~Filling(j)
  <2>1. n + 1 \in TraceIdx => h.trace_entries[n + 1].nr_tasks = 0
    BY <1>1 DEF Shape, RestEmpty, TraceIdx
  <2> QED
    BY <1>2, <1>5, <2>1, Zenon DEF Filling, Current
<1>8. JustKept(j).latency = latency
  <2>1. j.nr_trace - 1 = n
    BY <1>1, <1>2 DEF TraceIdx
  <2> QED
    BY <1>4, <1>5, <2>1, Zenon DEF JustKept
<1>9. Committed(h, j, latency)
  BY <1>2, <1>3, <1>6, <1>7, <1>8, Zenon DEF Committed, AddsFitting, SameWait
<1>10. Committed(h, ForceDisable(j), latency)
  BY <1>2, <1>6, <1>7, <1>8, ForceDisableWait, SameAhead, Zenon
     DEF Committed, AddsFitting, SameContents, JustKept
<1> QED
  BY <1>9, <1>10 DEF j

\* The trace that record_task_commit drops.
LEMMA DroppedWait ==
  ASSUME NEW h, Shape(h), h.nr_trace < MAX_TRACE_ENTRIES, Current(h).nr_tasks # 0,
         NEW latency \in Nat
  PROVE  Committed(h, DroppedTrace(h), latency)
<1> DEFINE j == DroppedTrace(h)
           n == h.nr_trace
           e == [Current(h) EXCEPT !.nr_tasks = 0, !.entries = NULL]
<1>1. h \in Info /\ n \in TraceIdx /\ Current(h) \in TraceEntry
  BY CurrentSlice, Zenon
<1>2. /\ j.nr_trace = n /\ j.pid = h.pid
      /\ j.rq_start = h.rq_start /\ j.run_start = h.run_start
  BY DroppedShape, Zenon
<1>3. j.cpu = h.cpu /\ j.trace_entries = [h.trace_entries EXCEPT ![n] = e]
  BY <1>1, Zenon DEF DroppedTrace, Info
<1>4. e.nr_tasks = 0
  BY <1>1 DEF TraceEntry
<1> HIDE DEF e, j
<1>5. j.trace_entries[n] = e
  BY <1>1, <1>3, InfoFields
<1>6. ~Filling(j)
  BY <1>2, <1>4, <1>5, Zenon DEF Filling, Current
<1>7. n # n + 1
  BY <1>1 DEF TraceIdx
<1> QED
  BY <1>2, <1>3, <1>6, <1>7, Zenon DEF Committed, AddsFitting, SameWait, j

\* record_task_commit ends a wait in one of these ways.
LEMMA CommitWait ==
  ASSUME NEW i, NEW t \in Nat, Good(i, t), i.nr_trace < MAX_TRACE_ENTRIES,
         NEW latency \in Nat, Placed(i, latency)
  PROVE  Committed(i, record_task_commit(i, latency), latency)
<1> DEFINE h == latency_histogram_store(i, latency)
           kept == KeptTrace(h, latency)
           j == record_task_commit(i, latency)
<1>1. /\ Shape(h) /\ SameBuffers(i, h) /\ h.task_entries = i.task_entries
      /\ h.pid = i.pid /\ h.rq_start = i.rq_start /\ h.run_start = i.run_start
  BY HistogramGood DEF Good
<1>2. i \in Info /\ i.nr_trace \in TraceIdx
  BY InfoFields, SizesAssumption DEF Good, Shape, TraceIdx
<1>3. h.cpu = i.cpu
  BY <1>2 DEF latency_histogram_store, Info
<1>4. \/ Current(h).nr_tasks = 0 /\ j = h
      \/ Current(h).nr_tasks # 0 /\ j \in {DroppedTrace(h), kept, ForceDisable(kept)}
  BY DEF record_task_commit, KeptTrace, DroppedTrace
<1> HIDE DEF h, j
<1>5. SameContents(i, h) /\ SameWait(i, h) /\ h.nr_task = i.nr_task
  BY <1>1, <1>3, Zenon DEF SameBuffers, SameContents, SameWait
<1>6. Placed(h, latency) /\ h.nr_trace = i.nr_trace /\ i.nr_trace # i.nr_trace + 1
  BY <1>2, <1>5, SameAhead DEF SameContents, TraceIdx
<1>7. Committed(h, j, latency)
  <2>1. CASE Current(h).nr_tasks = 0
    <3>1. ~Filling(h)
      BY <2>1, Zenon DEF Filling
    <3> QED
      BY <1>4, <1>6, <2>1, <3>1, Zenon DEF Committed, AddsFitting, SameWait
  <2>2. CASE Current(h).nr_tasks # 0
    BY <1>1, <1>4, <1>6, <2>2, KeptWait, DroppedWait
  <2> QED
    BY <2>1, <2>2
<1> QED
  BY <1>1, <1>5, <1>6, <1>7, Zenon DEF Committed, AddsFitting, SameWait, j

\* A switch on the watched CPU.  The wait goes on when another task takes over,
\* is over when the target is switched in, and starts again, or is called off,
\* when the target is switched out; any of them may end the session.  A trace is
\* kept only when the target is switched in.
WatchedWait(i, j, c, prev, next, runnable, t) ==
  /\ AddsFitting(i, j) /\ Accounted(j)
  /\ i.cpu # c \/ i.pid = INVALID => j = i
  /\ i.cpu = c /\ i.pid # INVALID /\ j.pid # INVALID =>
       /\ j.pid = i.pid
       /\ i.pid = next => SameWait(i, j) /\ ~Filling(j)
       /\ i.pid = prev /\ prev # next =>
            /\ Filling(j) <=> Filling(i)
            /\ IF runnable THEN j.cpu = c /\ j.rq_start = t ELSE j.cpu = INVALID
       /\ i.pid # prev /\ i.pid # next => SameWait(i, j)
  /\ j.nr_trace = i.nr_trace + 1 /\ j.nr_task < MAX_TRACE_ENTRY_TASKS
       => /\ i.pid = next /\ i.cpu = c /\ i.pid # INVALID
          /\ JustKept(j).latency = t - i.rq_start

\* probe_sched_switch does so under the lock, provided that no trace is half
\* filled when the target is switched out.
LEMMA SwitchWatchedWait ==
  ASSUME NEW i, NEW t \in Nat, Good(i, t), Accounted(i), NEW c \in Cpus,
         NEW prev \in Tasks \cup {Idle}, NEW next \in Tasks \cup {Idle},
         NEW runnable \in BOOLEAN,
         i.cpu = c /\ i.pid # INVALID /\ i.pid = prev /\ prev # next => ~Filling(i)
  PROVE  WatchedWait(i, SwitchWatched(i, c, prev, next, runnable, t),
                     c, prev, next, runnable, t)
<1> DEFINE u == UpdateCurr(i, next)
           k == Charge(u, prev, t)
           j == SwitchWatched(i, c, prev, next, runnable, t)
<1>1. i \in Info /\ i.nr_trace # i.nr_trace + 1 /\ i.nr_trace \in Nat
  BY InfoFields, SizesAssumption DEF Good, Shape
<1>2. CASE i.cpu # c \/ i.pid = INVALID
  <2>1. j = i
    BY <1>2 DEF SwitchWatched
  <2> HIDE DEF j
  <2> QED
    BY <1>1, <1>2, <2>1, Zenon DEF WatchedWait, AddsFitting, j
<1>3. CASE ~(i.cpu # c \/ i.pid = INVALID)
  <2>1. Good(u, t) /\ u.pid = i.pid
    BY UpdateCurrGood
  <2>2. SameContents(i, u) /\ SameWait(i, u) /\ u.run_start = i.run_start
    BY <1>1 DEF UpdateCurr, SameContents, SameWait, Info
  <2>3. HasRoom(u)
    BY <1>3, <2>1 DEF Good, SessionHasRoom, HasRoom
  <2>4. Accounted(u) /\ (Filling(u) <=> Filling(i)) /\ u.nr_trace = i.nr_trace
    <3>1. /\ Filling(u) <=> Filling(i)
          /\ Placed(u, i.run_start - i.rq_start) <=> Placed(i, i.run_start - i.rq_start)
      BY <2>2, SameAhead, Zenon
    <3> QED
      BY <2>2, <3>1 DEF Accounted, SameWait, SameContents
  <2>5. Charged(u, k, t)
    BY <1>3, <2>1, <2>3, <2>4, ChargeWait, Zenon
  <2>6. j = IF u.pid = next THEN record_task_commit(k, t - k.rq_start)
            ELSE IF u.pid # prev THEN [k EXCEPT !.run_start = t]
            ELSE IF runnable THEN StartWait(u, t)
            ELSE runqlat_info_reset(u)
    BY <1>3 DEF SwitchWatched
  <2> HIDE DEF u, k, j
  <2>7. Good(k, t) /\ k \in Info /\ k.nr_trace = i.nr_trace /\ k.nr_trace < MAX_TRACE_ENTRIES
    BY <2>3, <2>4, <2>5, Zenon DEF Charged, Good, Shape, HasRoom
  <2>8. \/ SameWait(i, k) /\ k.run_start = i.run_start
        \/ k.pid = INVALID /\ k.nr_task >= MAX_TRACE_ENTRY_TASKS
    BY <2>2, <2>5, Zenon DEF Charged, SameWait
  <2>9. CASE u.pid = next
    <3>1. Committed(k, j, t - k.rq_start)
      BY <2>5, <2>6, <2>7, <2>9, ElapsedNat, CommitWait, Zenon DEF Charged
    <3>2. j.pid = INVALID \/ (SameWait(i, j) /\ j.run_start = i.run_start)
      BY <1>3, <2>8, <3>1, Zenon DEF Committed, SameWait
    <3>3. j.nr_trace = i.nr_trace + 1 /\ j.nr_task < MAX_TRACE_ENTRY_TASKS
            => JustKept(j).latency = t - i.rq_start
      <4>1. k.nr_task \in Nat
        BY <2>7, InfoFields
      <4> QED
        BY <2>7, <2>8, <3>1, <4>1, SizesAssumption DEF Committed, SameWait
    <3>4. AddsFitting(i, j) /\ ~Filling(j)
      BY <2>7, <3>1, Zenon DEF Committed, AddsFitting
    <3>5. Accounted(j)
      BY <1>3, <3>2, <3>4, Zenon DEF Accounted, Placed, SameWait
    <3> QED
      BY <1>3, <2>1, <2>9, <3>2, <3>3, <3>4, <3>5, Zenon DEF WatchedWait, SameWait, j
  <2>10. CASE u.pid # next /\ u.pid # prev
    <3>1. SameContents(k, j) /\ SameWait(k, j) /\ j.run_start = t
      BY <2>6, <2>7, <2>10 DEF Info, SameContents, SameWait
    <3>2. Accounted(j)
      BY <2>5, <2>7, <3>1, SameAhead, Zenon
         DEF Charged, Accounted, SameWait, Good, Stamps
    <3>3. j.nr_trace = i.nr_trace
      BY <2>7, <3>1, Zenon DEF SameContents
    <3> QED
      BY <1>1, <1>3, <2>1, <2>8, <2>10, <3>1, <3>2, <3>3, Zenon
         DEF WatchedWait, AddsFitting, SameWait, j
  <2>11. CASE u.pid # next /\ u.pid = prev
    <3>1. u \in Info
      BY <2>1, Zenon DEF Good, Shape
    <3>2. /\ SameContents(u, j) /\ j.pid = u.pid /\ j.rq_start = j.run_start
          /\ IF runnable THEN j.cpu = c /\ j.rq_start = t ELSE j.cpu = INVALID
          /\ j.run_start \in Nat
      <4>1. CASE runnable
        BY <1>3, <2>2, <2>6, <2>11, <3>1, <4>1 DEF StartWait, Info, SameContents, SameWait
      <4>2. CASE ~runnable
        BY <2>6, <2>11, <3>1, <4>2 DEF runqlat_info_reset, Info, SameContents
      <4> QED
        BY <4>1, <4>2
    <3>3. ~Filling(i) /\ (Filling(j) <=> Filling(i)) /\ j.nr_trace = i.nr_trace
      BY <1>3, <2>1, <2>4, <2>11, <3>2, SameAhead, Zenon DEF SameContents
    <3>4. j.rq_start <= j.run_start
      BY <3>2
    <3> QED
      BY <1>1, <1>3, <2>1, <2>11, <3>2, <3>3, <3>4, Zenon
         DEF WatchedWait, AddsFitting, Accounted, Placed, j
  <2> QED
    BY <2>9, <2>10, <2>11, Zenon
<1> QED
  BY <1>2, <1>3

\* A wait that starts again when nothing is recorded of the one before.
LEMMA StartsAgain ==
  ASSUME NEW i, NEW j, SameContents(i, j), ~Filling(i),
         j.rq_start \in Nat, j.run_start = j.rq_start
  PROVE  AddsFitting(i, j) /\ Accounted(j) /\ ~Filling(j)
<1>1. AddsFitting(i, j) /\ ~Filling(j)
  BY SameAhead, Zenon
<1>2. j.rq_start <= j.run_start
  OBVIOUS
<1> QED
  BY <1>1, <1>2, Zenon DEF Accounted, Placed

\* A wakeup of the target, or a switch away from it while no CPU is watched yet: the
\* wait starts now, on CPU c.
Started(i, j, starts, c, t) ==
  /\ j.nr_trace = i.nr_trace /\ Accounted(j)
  /\ ~starts => j = i
  /\ starts => j.pid = i.pid /\ j.cpu = c /\ j.rq_start = t /\ ~Filling(j)

\* probe_sched_wakeup does so under the lock.
LEMMA WakeupWait ==
  ASSUME NEW i \in Info, Accounted(i), NEW p \in Tasks, NEW c \in Cpus, NEW t \in Nat,
         p = i.pid => ~Filling(i)
  PROVE  Started(i, Wakeup(i, p, c, t), p = i.pid, c, t)
<1> DEFINE j == Wakeup(i, p, c, t)
<1>1. CASE p # i.pid
  <2>1. j = i
    BY <1>1 DEF Wakeup
  <2> QED
    BY <1>1, <2>1, Zenon DEF Started
<1>2. CASE p = i.pid
  <2>1. /\ SameContents(i, j) /\ j.pid = i.pid /\ j.cpu = c
        /\ j.rq_start = t /\ j.run_start = t
    BY <1>2 DEF Wakeup, StartWait, SameContents, Info
  <2> HIDE DEF j
  <2>2. Accounted(j) /\ ~Filling(j) /\ j.nr_trace = i.nr_trace
    BY <1>2, <2>1, StartsAgain DEF SameContents
  <2> QED
    BY <1>2, <2>1, <2>2, Zenon DEF Started, j
<1> QED
  BY <1>1, <1>2

\* So does probe_sched_switch when it finds no CPU watched.
LEMMA SwitchUnwatchedWait ==
  ASSUME NEW i \in Info, Accounted(i), NEW c \in Cpus, NEW t \in Nat,
         NEW prev \in Tasks \cup {Idle}, NEW next \in Tasks \cup {Idle},
         i.pid = prev /\ i.cpu = INVALID => ~Filling(i)
  PROVE  Started(i, SwitchUnwatched(i, c, prev, next, t),
                 i.pid = prev /\ i.cpu = INVALID, c, t)
<1> DEFINE j == SwitchUnwatched(i, c, prev, next, t)
<1>1. CASE ~(i.pid = prev /\ i.cpu = INVALID)
  <2>1. j = i
    BY <1>1 DEF SwitchUnwatched
  <2> QED
    BY <1>1, <2>1, Zenon DEF Started
<1>2. CASE i.pid = prev /\ i.cpu = INVALID
  <2>1. /\ SameContents(i, j) /\ j.pid = i.pid /\ j.cpu = c
        /\ j.rq_start = t /\ j.run_start = t
    BY <1>2 DEF SwitchUnwatched, UpdateCurr, StartWait, SameContents, Info
  <2> HIDE DEF j
  <2>2. Accounted(j) /\ ~Filling(j) /\ j.nr_trace = i.nr_trace
    BY <1>2, <2>1, StartsAgain DEF SameContents
  <2> QED
    BY <1>2, <2>1, <2>2, Zenon DEF Started, j
<1> QED
  BY <1>1, <1>2

\* A migration of the watched target goes on with the wait on another CPU, or
\* ends the session.
Moved(i, j, moves, c) ==
  /\ j.nr_trace = i.nr_trace /\ Accounted(j)
  /\ ~moves => j = i
  /\ moves => \/ j.pid = INVALID
              \/ j.pid = i.pid /\ j.cpu = c /\ j.rq_start = i.rq_start

\* probe_sched_migrate_task does so under the lock.
LEMMA MigrateWait ==
  ASSUME NEW i, NEW t \in Nat, Good(i, t), Accounted(i), NEW p \in Tasks, NEW c \in Cpus
  PROVE  Moved(i, Migrate(i, p, c, t), p = i.pid /\ i.cpu # INVALID, c)
<1> DEFINE k == IF i.curr # NULL THEN Charge(i, i.curr, t) ELSE i
           j == Migrate(i, p, c, t)
<1>1. i \in Info /\ i.curr \in Tasks \cup {NULL}
  BY InfoFields, Zenon DEF Good, Shape
<1>2. CASE ~(p = i.pid /\ i.cpu # INVALID)
  <2>1. j = i
    BY <1>2 DEF Migrate
  <2> QED
    BY <1>2, <2>1, Zenon DEF Moved
<1>3. CASE p = i.pid /\ i.cpu # INVALID
  <2>1. i.pid # INVALID /\ HasRoom(i)
    BY <1>3, SetsAssumption DEF Good, SessionHasRoom, HasRoom
  <2>2. j = [k EXCEPT !.cpu = c, !.run_start = t]
    BY <1>3 DEF Migrate
  <2>3. Charged(i, k, t)
    <3>1. CASE i.curr # NULL
      BY <1>1, <2>1, <3>1, ChargeWait
    <3>2. CASE i.curr = NULL
      <4>1. k = i
        BY <3>2
      <4> HIDE DEF k
      <4>2. Placed(i, i.run_start - i.rq_start) /\ Shape(i) /\ i.run_start <= t
        BY <2>1, Zenon DEF Accounted, Good, Stamps
      <4>3. i.run_start \in Nat /\ i.rq_start \in Nat
        BY <1>1, InfoFields
      <4>4. Placed(i, t - i.rq_start)
        BY <4>2, <4>3, PlacedLonger
      <4> QED
        BY <4>1, <4>4, Zenon DEF Charged, SameWait
    <3> QED
      BY <3>1, <3>2
  <2> HIDE DEF k, j
  <2>4. k \in Info /\ k.rq_start <= t
    BY <2>3, Zenon DEF Charged, Good, Shape, Stamps
  <2>5. /\ SameContents(k, j) /\ j.pid = k.pid /\ j.cpu = c
        /\ j.rq_start = k.rq_start /\ j.run_start = t
    BY <2>2, <2>4 DEF Info, SameContents
  <2>6. Accounted(j)
    BY <2>3, <2>4, <2>5, SameAhead, Zenon DEF Charged, Accounted
  <2>7. j.nr_trace = i.nr_trace
    BY <2>3, <2>5, Zenon DEF Charged, SameContents
  <2> QED
    BY <1>3, <2>3, <2>5, <2>6, <2>7, Zenon DEF Moved, Charged, SameWait, j
<1> QED
  BY <1>2, <1>3

\* A write of pid changes nothing, or leaves no CPU watched and no trace of the
\* new session half filled.
Stored(i, j) ==
  /\ j.nr_trace \in {0, i.nr_trace} /\ Accounted(j)
  /\ j = i \/ (j.cpu = INVALID /\ (j.pid # INVALID => ~Filling(j)))

\* trace_pid_store does so under the lock.
LEMMA StorePidWait ==
  ASSUME NEW i \in Info, Accounted(i), NEW pid \in Tasks \cup {INVALID}
  PROVE  Stored(i, StorePid(i, pid))
<1> DEFINE j == StorePid(i, pid)
<1>1. CASE pid = i.pid
  <2>1. j = i
    BY <1>1 DEF StorePid
  <2> QED
    BY <2>1, Zenon DEF Stored
<1>2. CASE pid # i.pid
  <2>1. /\ j.pid = pid /\ j.cpu = INVALID /\ j.rq_start = 0 /\ j.run_start = 0
        /\ j.nr_trace = (IF pid # INVALID THEN 0 ELSE i.nr_trace)
        /\ pid # INVALID => j.trace_entries = [k \in TraceIdx |-> EmptyTrace]
    BY <1>2 DEF StorePid, Cleared, runqlat_info_reset, Info
  <2> HIDE DEF j
  <2>2. pid # INVALID => ~Filling(j)
    BY <2>1 DEF Filling, Current, EmptyTrace
  <2>3. 0 <= 0
    OBVIOUS
  <2>4. Accounted(j)
    BY <2>1, <2>2, <2>3, Zenon DEF Accounted, Placed
  <2> QED
    BY <2>1, <2>2, <2>4, Zenon DEF Stored, j
<1> QED
  BY <1>1, <1>2

\* A step that leaves the kept traces alone, and adds one that fits at most,
\* leaves all of them fitting.
LEMMA FitsStep ==
  ASSUME NEW i \in Info, NEW j \in Info, KeptStep(i, j), AddsFitting(i, j),
         \A k \in Kept(i) : Fits(i, k)
  PROVE  \A k \in Kept(j) : Fits(j, k)
<1> SUFFICES ASSUME NEW k \in Kept(j) PROVE Fits(j, k)
  OBVIOUS
<1>1. i.nr_trace \in Nat /\ j.nr_trace \in Nat /\ k \in Nat /\ k < j.nr_trace /\ k \in TraceIdx
  BY InfoFields, SizesAssumption DEF Kept, TraceIdx
<1>2. CASE k < i.nr_trace
  BY <1>1, <1>2 DEF KeptStep, Kept, Fits
<1>3. CASE ~(k < i.nr_trace)
  <2>1. j.nr_trace # 0 /\ j.nr_trace # i.nr_trace
    BY <1>1, <1>3
  <2>2. j.nr_trace = i.nr_trace + 1 /\ Fits(j, i.nr_trace)
    BY <2>1, Zenon DEF AddsFitting
  <2> QED
    BY <1>1, <1>3, <2>2
<1> QED
  BY <1>2, <1>3

------------------------------------------------------------------------------
(* The wait of the target.                                                   *)

\* The probes in progress that are about to start a wait of task q, or to end
\* it.
Woken(q) == \E x \in Cpus : Active(x, "wakeup") /\ probe[x].p = q
Leaving(q) ==
  \E x \in Cpus : Active(x, "switch") /\ probe[x].watched /\ probe[x].prev = q
Arriving(q) ==
  \E x \in Cpus : Active(x, "switch") /\ probe[x].watched /\ probe[x].next = q

\* Task q waits and no probe is about to start its wait again.
Waiting(q) ==
  /\ ~Woken(q) /\ ~Leaving(q)
  /\ tst[q] \in {"queued", "moving"} \/ Arriving(q)

\* What holds of the target q.  While a CPU is watched it is the target's; the
\* wait is measured from when the target joined the run queue or later, or is
\* going to be; the target does not sleep, unless its probe is about to notice;
\* and tasks are recorded ahead of it only while it waits.
Target(q) ==
  IF info.cpu = INVALID THEN ~Filling(info)
  ELSE /\ info.cpu = tcpu[q]
       /\ since[q] <= info.rq_start \/ Woken(q) \/ Leaving(q)
       /\ tst[q] = "blocked" => Leaving(q)
       /\ Filling(info) => Waiting(q)
WaitInv == \A q \in Tasks : q = info.pid => Target(q)

\* Only a task on a run queue is moved under the tracer's eyes.
MovesQueued == \A x \in Cpus : Active(x, "migrate") => probe[x].was = "queued"

\* The probes that Target is about.
Concerns(e, q) ==
  e # NULL /\ \/ e.fn = "wakeup" /\ e.p = q
              \/ e.fn = "switch" /\ e.watched /\ q \in {e.prev, e.next}

\* A step that changes nothing that the wait of task q depends on.
Unaffected(q) ==
  /\ tcpu'[q] = tcpu[q] /\ since'[q] = since[q] /\ tst'[q] = tst[q]
  /\ \A x \in Cpus : \/ probe'[x] = probe[x]
                     \/ ~Concerns(probe[x], q) /\ ~Concerns(probe'[x], q)

\* The same probes are about to start or to end the wait, when no other probe
\* that concerns the task starts or ends.
LEMMA SameProbes ==
  ASSUME NEW q, \A x \in Cpus : \/ probe'[x] = probe[x]
                                \/ ~Concerns(probe[x], q) /\ ~Concerns(probe'[x], q)
  PROVE  (Woken(q)' <=> Woken(q)) /\ (Leaving(q)' <=> Leaving(q))
           /\ (Arriving(q)' <=> Arriving(q))
  BY DEF Concerns, Woken, Leaving, Arriving, Active

\* A step that affects neither the session nor the target.
LEMMA TargetSame ==
  ASSUME NEW q \in Tasks, Target(q), Unaffected(q), SameWait(info, info'),
         Filling(info') <=> Filling(info)
  PROVE  Target(q)'
<1>1. (Woken(q)' <=> Woken(q)) /\ (Leaving(q)' <=> Leaving(q)) /\ (Arriving(q)' <=> Arriving(q))
  BY SameProbes, Zenon DEF Unaffected
<1>2. Waiting(q)' <=> Waiting(q)
  BY <1>1, Zenon DEF Waiting, Unaffected
<1> QED
  BY <1>1, <1>2, Zenon DEF Target, Unaffected, SameWait

\* While no CPU is watched there is nothing to keep but that nothing is recorded.
LEMMA TargetUnwatched ==
  ASSUME NEW q \in Tasks, Target(q), info.cpu = INVALID, info' = info
  PROVE  Target(q)'
  BY Zenon DEF Target

\* try_to_wake_up of the target starts the probe that will start the wait.
LEMMA WakeupStarts ==
  ASSUME TypeOK, SchedInv, WaitInv, NEW x \in Cpus, NEW p \in Tasks, sched_wakeup(x, p)
  PROVE  WaitInv'
<1> DEFINE e == [fn |-> "wakeup", rq |-> tcpu[p], p |-> p]
<1>1. /\ probe[x] = NULL /\ info' = info /\ tcpu' = tcpu
      /\ tst[p] \in {"blocked", "running"} /\ RqFree(tcpu[p])
  BY DEF sched_wakeup
<1> SUFFICES ASSUME NEW q \in Tasks, q = info.pid
             PROVE  Target(q)'
  BY <1>1 DEF WaitInv
<1>2. Target(q)
  BY DEF WaitInv
<1>3. CASE p # q
  <2>1. probe' = probe /\ tst'[q] = tst[q] /\ since'[q] = since[q]
    BY <1>3 DEF sched_wakeup, TypeOK
  <2>2. Unaffected(q) /\ SameWait(info, info')
    BY <1>1, <2>1, Zenon DEF Unaffected, SameWait
  <2> QED
    BY <1>1, <1>2, <2>2, TargetSame, Zenon
<1>4. CASE p = q /\ info.cpu # INVALID
  <2>1. probe'[x] = e
    BY <1>4 DEF sched_wakeup, TypeOK
  <2>2. e \in Probe
    BY DEF Probe, TypeOK
  <2>3. Woken(q)'
    BY <1>4, <2>1, <2>2, ProbeAssumption DEF Woken, Active
  <2>4. ~Arriving(q)
    BY <1>1, <1>4, NobodyHolds, Zenon DEF Arriving
  <2>5. ~Waiting(q)
    BY <1>1, <1>4, <2>4 DEF Waiting
  <2>6. tst'[q] # "blocked"
    BY <1>1, <1>4 DEF sched_wakeup, TypeOK
  <2> QED
    BY <1>1, <1>2, <1>4, <2>3, <2>5, <2>6, Zenon DEF Target
<1> QED
  BY <1>1, <1>2, <1>3, <1>4, TargetUnwatched, Zenon

\* __schedule: the probe of a switch from or to the watched target starts.
LEMMA SwitchStarts ==
  ASSUME TypeOK, SchedInv, WaitInv, NEW c \in Cpus, NEW next \in Tasks \cup {Idle},
         NEW runnable \in BOOLEAN, sched_switch(c, next, runnable)
  PROVE  WaitInv'
<1> DEFINE e == [fn |-> "switch", rq |-> c, prev |-> run[c], next |-> next,
                 runnable |-> runnable, watched |-> info.cpu # INVALID]
<1>1. /\ probe[c] = NULL /\ RqFree(c) /\ info' = info /\ tcpu' = tcpu
      /\ next # Idle => tst[next] = "queued" /\ tcpu[next] = c
      /\ probe' = IF SwitchSkipped(c, run[c], runnable) THEN probe
                  ELSE [probe EXCEPT ![c] = e]
  BY Zenon DEF sched_switch, Queued
<1> SUFFICES ASSUME NEW q \in Tasks, q = info.pid, info.cpu # INVALID
             PROVE  Target(q)'
  BY <1>1, TargetUnwatched, Zenon DEF WaitInv
<1>2. Target(q) /\ q # Idle /\ q # INVALID
  BY SetsAssumption DEF WaitInv
<1>3. run[c] = q => tst[q] = "running" /\ tcpu[q] = c
  BY <1>2 DEF SchedInv, RunsHere
<1>4. /\ tst'[q] = IF q = next THEN "running" ELSE IF q # run[c] THEN tst[q]
                   ELSE LeftAs(runnable)
      /\ q # run[c] => since'[q] = since[q]
  BY DEF sched_switch, LeftAs
<1>5. e \in Probe /\ e # NULL
  <2>1. run[c] \in Tasks \cup {Idle}
    BY DEF TypeOK
  <2>2. e \in Probe
    BY <2>1, Zenon DEF Probe
  <2> QED
    BY <2>2, ProbeAssumption, Zenon
<1>6. /\ e.fn = "switch" /\ e.prev = run[c] /\ e.next = next /\ e.watched
      /\ info.cpu = tcpu[q]
  BY <1>2, Zenon DEF Target
<1>7. \A y \in Cpus : y # c => probe'[y] = probe[y]
  BY <1>1
<1>8. ASSUME tcpu[q] = c
      PROVE  probe'[c] = e /\ ~Woken(q) /\ ~Leaving(q) /\ ~Arriving(q)
  <2>1. ~SwitchSkipped(c, run[c], runnable)
    BY <1>2, <1>6, <1>8 DEF SwitchSkipped
  <2>2. probe'[c] = e
    BY <1>1, <2>1 DEF TypeOK
  <2> QED
    BY <1>1, <1>8, <2>2, NobodyHolds, Zenon DEF Woken, Leaving, Arriving
<1> HIDE DEF e
<1>9. CASE q = run[c]
  <2>1. Leaving(q)'
    BY <1>3, <1>5, <1>6, <1>8, <1>9 DEF Leaving, Active
  <2>2. ~Waiting(q)
    BY <1>3, <1>8, <1>9 DEF Waiting
  <2> QED
    BY <1>1, <1>2, <2>1, <2>2, Zenon DEF Target
<1>10. CASE q = next
  <2>1. tcpu[q] = c /\ q # run[c] /\ tst'[q] = "running"
    BY <1>1, <1>2, <1>3, <1>4, <1>10
  <2>2. Arriving(q)' /\ ~Woken(q)' /\ ~Leaving(q)'
    BY <1>5, <1>6, <1>7, <1>8, <1>10, <2>1 DEF Woken, Leaving, Arriving, Active
  <2>3. since'[q] <= info'.rq_start
    BY <1>1, <1>2, <1>4, <1>8, <2>1 DEF Target
  <2> QED
    BY <1>1, <1>6, <2>1, <2>2, <2>3 DEF Target, Waiting
<1>11. CASE q # run[c] /\ q # next
  <2>1. ~Concerns(probe[c], q) /\ (probe'[c] = probe[c] \/ ~Concerns(probe'[c], q))
    BY <1>1, <1>6, <1>11 DEF Concerns, TypeOK
  <2>2. Unaffected(q) /\ SameWait(info, info')
    BY <1>1, <1>4, <1>7, <1>11, <2>1, Zenon DEF Unaffected, SameWait
  <2> QED
    BY <1>1, <1>2, <2>2, TargetSame, Zenon
<1> QED
  BY <1>9, <1>10, <1>11

\* set_task_cpu of the watched target starts its probe; the target moves when
\* the probe is done.  It was on a run queue.
LEMMA MigrateStarts ==
  ASSUME TypeOK, SchedInv, WaitInv, MovesQueued, NEW x \in Cpus, NEW p \in Tasks,
         NEW c \in Cpus, sched_migrate_task(x, p, c)
  PROVE  WaitInv' /\ MovesQueued'
<1> DEFINE e == [fn |-> "migrate", p |-> p, cpu |-> c, was |-> tst[p],
                 rq |-> IF tst[p] = "queued" THEN tcpu[p] ELSE NULL]
<1>1. probe[x] = NULL /\ info' = info /\ since' = since
  BY DEF sched_migrate_task
<1>2. CASE p # info.pid \/ info.cpu = INVALID
  <2>1. tcpu' = [tcpu EXCEPT ![p] = c] /\ probe' = probe /\ tst' = tst
    BY <1>2 DEF sched_migrate_task
  <2>2. MovesQueued'
    BY <2>1, Zenon DEF MovesQueued, Active
  <2>3. ASSUME NEW q \in Tasks, q = info.pid, info.cpu # INVALID
        PROVE  Target(q)'
    <3>1. tcpu'[q] = tcpu[q]
      BY <1>2, <2>1, <2>3 DEF TypeOK
    <3>2. Unaffected(q) /\ SameWait(info, info') /\ Target(q)
      BY <1>1, <2>1, <2>3, <3>1, Zenon DEF Unaffected, SameWait, WaitInv
    <3> QED
      BY <1>1, <3>2, TargetSame, Zenon
  <2> QED
    BY <1>1, <2>2, <2>3, TargetUnwatched, Zenon DEF WaitInv
<1>3. CASE p = info.pid /\ info.cpu # INVALID
  <2>1. /\ probe' = [probe EXCEPT ![x] = e] /\ tcpu' = tcpu
        /\ tst' = [tst EXCEPT ![p] = "moving"]
    BY <1>3, Zenon DEF sched_migrate_task
  <2>2. Target(p)
    BY <1>3, Zenon DEF WaitInv
  <2>3. tst[p] = "queued"
    <3>1. tst[p] = "queued" \/ (tst[p] = "blocked" /\ ~SwitchingOut(p))
      BY DEF sched_migrate_task
    <3> QED
      BY <1>3, <2>2, <3>1 DEF Target, Leaving, SwitchingOut, Active
  <2>4. e.fn = "migrate" /\ e.was = "queued"
    BY <2>3
  <2> HIDE DEF e
  <2>5. probe'[x] = e /\ \A y \in Cpus : y # x => probe'[y] = probe[y]
    BY <2>1 DEF TypeOK
  <2>6. MovesQueued'
    BY <2>4, <2>5 DEF MovesQueued, Active
  <2>7. /\ Woken(p)' <=> Woken(p)
        /\ Leaving(p)' <=> Leaving(p)
    BY <1>1, <2>4, <2>5, SameProbes DEF Concerns
  <2>8. tst'[p] = "moving"
    BY <2>1 DEF TypeOK
  <2>9. Target(p)'
    BY <1>1, <1>3, <2>1, <2>2, <2>7, <2>8 DEF Target, Waiting
  <2> QED
    BY <1>1, <1>3, <2>6, <2>9, Zenon DEF WaitInv
<1> QED
  BY <1>2, <1>3

------------------------------------------------------------------------------
(* The locked sections.                                                      *)

\* The latency of a trace that a step keeps.
KeptNotOverstated ==
  info'.nr_trace = info.nr_trace + 1 /\ info'.nr_task < MAX_TRACE_ENTRY_TASKS
    => JustKept(info').latency <= now - since[info.pid]

\* What a step has to do with the wait and with what is recorded of it.
WaitStep ==
  /\ WaitInv' /\ Accounted(info') /\ AddsFitting(info, info')
  /\ KeptNotOverstated

\* A step that keeps no trace keeps no wrong one.
LEMMA NothingKept ==
  ASSUME TypeOK, info'.nr_trace \in {0, info.nr_trace}
  PROVE  KeptNotOverstated /\ AddsFitting(info, info')
<1>1. info.nr_trace \in Nat
  BY InfoFields DEF TypeOK
<1> QED
  BY <1>1 DEF KeptNotOverstated, AddsFitting

\* The wakeup probe starts the wait on the CPU of the target.
LEMMA WakeupWaits ==
  ASSUME TypeOK, SchedInv, WaitInv, Accounted(info), NEW x \in Cpus, probe_sched_wakeup(x)
  PROVE  WaitStep
<1>1. Active(x, "wakeup")
  BY Zenon DEF probe_sched_wakeup, Active
<1>2. PICK p \in Tasks : p = probe[x].p
  BY <1>1, ProbeFields, Zenon DEF Active
<1>3. /\ info' = Wakeup(info, p, tcpu[p], now) /\ probe' = [probe EXCEPT ![x] = NULL]
      /\ UNCHANGED <<tcpu, tst, since, now>>
  BY <1>2, Zenon DEF probe_sched_wakeup, sched
<1>4. info \in Info /\ now \in Nat /\ tcpu[p] \in Cpus /\ tcpu[p] # INVALID
  BY SetsAssumption DEF TypeOK
<1>5. p = info.pid => ~Filling(info)
  BY <1>1, <1>2, Zenon DEF WaitInv, Target, Waiting, Woken
<1>6. Started(info, info', p = info.pid, tcpu[p], now)
  BY <1>3, <1>4, <1>5, WakeupWait, Zenon
<1>7. ASSUME NEW q \in Tasks, q = info'.pid
      PROVE  Target(q)'
  <2>1. CASE p = info.pid
    <3>1. q = p /\ info'.cpu = tcpu'[q] /\ info'.rq_start = now /\ ~Filling(info')
      BY <1>3, <1>6, <1>7, <2>1, Zenon DEF Started
    <3>2. since'[q] <= now /\ tst'[q] # "blocked"
      BY <1>1, <1>2, <1>3, <3>1 DEF SchedInv, JoinedBefore, WakeupHolds
    <3> QED
      BY <3>1, <3>2, Zenon DEF Target
  <2>2. CASE p # info.pid
    <3>1. info' = info /\ Target(q) /\ p # q
      BY <1>6, <1>7, <2>2, Zenon DEF Started, WaitInv
    <3>2. /\ ~Concerns(probe[x], q) /\ ~Concerns(probe'[x], q)
          /\ \A y \in Cpus : y # x => probe'[y] = probe[y]
      BY <1>1, <1>2, <1>3, <3>1 DEF Concerns, Active, TypeOK
    <3>3. Unaffected(q) /\ SameWait(info, info')
      BY <1>3, <3>1, <3>2, Zenon DEF Unaffected, SameWait
    <3> QED
      BY <3>1, <3>3, TargetSame, Zenon
  <2> QED
    BY <2>1, <2>2
<1> QED
  BY <1>6, <1>7, NothingKept, Zenon DEF Started, WaitStep, WaitInv

\* A switch probe holds the run queue of its CPU: no other probe is about to
\* start a wait of a task of that CPU, and none will be when it ends.
LEMMA HeldBySwitch ==
  ASSUME TypeOK, SchedInv, NEW c \in Cpus, Active(c, "switch"),
         probe' = [probe EXCEPT ![c] = NULL], NEW q \in Tasks, tcpu[q] = c
  PROVE  /\ ~Woken(q) /\ ~Woken(q)' /\ ~Leaving(q)'
         /\ Leaving(q) => q = probe[c].prev
<1>1. probe'[c] = NULL /\ \A y \in Cpus : y # c => probe'[y] = probe[y]
  BY DEF TypeOK
<1>2. ~Woken(q)
  <2> SUFFICES ASSUME NEW y \in Cpus, Active(y, "wakeup"), probe[y].p = q
               PROVE  FALSE
    BY DEF Woken
  <2>1. probe[y].rq = c /\ probe[c].rq = c /\ y # c /\ c # NULL
    BY SetsAssumption DEF SchedInv, WakeupHolds, SwitchHolds, Active
  <2> QED
    BY <2>1 DEF SchedInv, OneHolder, Active
<1>3. \A y \in Cpus : Active(y, "switch") /\ probe[y].prev = q => y = c
  BY SetsAssumption DEF SchedInv, SwitchHolds
<1> QED
  BY <1>1, <1>2, <1>3 DEF Woken, Leaving, Active

\* The switch probe on the watched CPU restarts the wait of the target it
\* switched out, ends the wait of the one it switched in, which began when it
\* joined the queue, and goes on with the wait of one that is on the queue.
LEMMA SwitchWatchedWaits ==
  ASSUME TypeOK, SchedInv, WaitInv, Good(info, now), Accounted(info), NEW c \in Cpus,
         probe_sched_switch(c), probe[c].watched
  PROVE  WaitStep
<1>1. Active(c, "switch")
  BY Zenon DEF probe_sched_switch, Active
<1>2. PICK prev \in Tasks \cup {Idle}, next \in Tasks \cup {Idle}, runnable \in BOOLEAN :
        prev = probe[c].prev /\ next = probe[c].next /\ runnable = probe[c].runnable
  BY <1>1, ProbeFields, Zenon DEF Active
<1>3. /\ info' = SwitchWatched(info, c, prev, next, runnable, now)
      /\ probe' = [probe EXCEPT ![c] = NULL] /\ UNCHANGED <<tcpu, tst, since, now>>
  BY <1>2, Zenon DEF probe_sched_switch, sched
<1>4. /\ run[c] = next
      /\ next # Idle => tst[next] = "running" /\ tcpu[next] = c
      /\ prev # Idle => tst[prev] = LeftAs(runnable) /\ tcpu[prev] = c
      /\ prev # Idle => prev # next
  BY <1>1, <1>2 DEF SchedInv, RunsHere, SwitchHolds, LeftAs
<1>5. /\ now \in Nat /\ c # INVALID /\ info.pid \in Tasks \cup {INVALID}
      /\ \A q \in Tasks : q # Idle /\ q # INVALID /\ since[q] \in Nat /\ since[q] <= now
  BY SetsAssumption, InfoFields DEF TypeOK, SchedInv, JoinedBefore
<1>6. \A q \in Tasks : q = prev => Leaving(q)
  BY <1>1, <1>2, Zenon DEF Leaving
<1>7. info.cpu = c /\ info.pid # INVALID /\ info.pid = prev /\ prev # next => ~Filling(info)
  BY <1>5, <1>6, Zenon DEF WaitInv, Target, Waiting
<1>8. WatchedWait(info, info', c, prev, next, runnable, now)
  BY <1>3, <1>5, <1>7, SwitchWatchedWait, Zenon
<1>9. ASSUME NEW q \in Tasks, q = info.pid, info.cpu = c
      PROVE  /\ tcpu[q] = c /\ ~Woken(q) /\ ~Woken(q)' /\ ~Leaving(q)'
             /\ Leaving(q) => q = prev
             /\ q # prev => since[q] <= info.rq_start /\ tst[q] # "blocked"
  <2>1. tcpu[q] = c /\ Target(q)
    BY <1>5, <1>9, Zenon DEF WaitInv, Target
  <2>2. ~Woken(q) /\ ~Woken(q)' /\ ~Leaving(q)' /\ (Leaving(q) => q = prev)
    BY <1>1, <1>2, <1>3, <2>1, HeldBySwitch, Zenon
  <2> QED
    BY <1>5, <1>9, <2>1, <2>2, Zenon DEF Target
<1>10. ASSUME NEW q \in Tasks, q = info'.pid
       PROVE  Target(q)'
  <2>1. CASE info.cpu # c \/ info.pid = INVALID
    <3>1. info' = info /\ Target(q)
      BY <1>8, <1>10, <2>1, Zenon DEF WatchedWait, WaitInv
    <3>2. CASE info.cpu # INVALID
      <4>1. q # prev /\ q # next
        <5>1. tcpu[q] # c
          BY <1>5, <1>10, <2>1, <3>1, <3>2, Zenon DEF Target
        <5> QED
          BY <1>4, <1>5, <5>1, Zenon
      <4>2. /\ ~Concerns(probe[c], q) /\ ~Concerns(probe'[c], q)
            /\ \A y \in Cpus : y # c => probe'[y] = probe[y]
        BY <1>1, <1>2, <1>3, <4>1 DEF Concerns, Active, TypeOK
      <4>3. Unaffected(q) /\ SameWait(info, info')
        BY <1>3, <3>1, <4>2, Zenon DEF Unaffected, SameWait
      <4> QED
        BY <3>1, <4>3, TargetSame, Zenon
    <3> QED
      BY <3>1, <3>2, TargetUnwatched, Zenon
  <2>2. CASE ~(info.cpu # c \/ info.pid = INVALID)
    <3>1. /\ q = info.pid /\ info.cpu = c
          /\ q = next => SameWait(info, info') /\ ~Filling(info')
          /\ q = prev /\ prev # next =>
               /\ Filling(info') <=> Filling(info)
               /\ IF runnable THEN info'.cpu = c /\ info'.rq_start = now
                  ELSE info'.cpu = INVALID
          /\ q # prev /\ q # next => SameWait(info, info')
      BY <1>5, <1>8, <1>10, <2>2, Zenon DEF WatchedWait
    <3>2. CASE q = next
      BY <1>3, <1>4, <1>5, <1>9, <3>1, <3>2, Zenon DEF Target, SameWait
    <3>3. CASE q = prev
      <4>1. runnable => tst[q] # "blocked"
        BY <1>4, <1>5, <3>3 DEF LeftAs
      <4> QED
        BY <1>3, <1>4, <1>5, <1>7, <1>9, <3>1, <3>3, <4>1, Zenon DEF Target
    <3>4. CASE q # prev /\ q # next
      <4>1. tst[q] \in {"queued", "moving"}
        <5>1. tst[q] # "running" /\ tst[q] # "blocked"
          BY <1>4, <1>9, <3>1, <3>4, Zenon DEF SchedInv, RunsThere
        <5> QED
          BY <5>1 DEF TypeOK
      <4>2. /\ tcpu[q] = c /\ ~Woken(q)' /\ ~Leaving(q)'
            /\ since[q] <= info.rq_start /\ tst[q] # "blocked"
        BY <1>9, <3>1, <3>4, Zenon
      <4>3. Waiting(q)'
        BY <1>3, <4>1, <4>2 DEF Waiting
      <4> QED
        BY <1>3, <1>5, <3>1, <3>4, <4>2, <4>3, Zenon DEF Target, SameWait
    <3> QED
      BY <3>2, <3>3, <3>4, Zenon
  <2> QED
    BY <2>1, <2>2
<1>11. KeptNotOverstated
  <2> SUFFICES ASSUME info'.nr_trace = info.nr_trace + 1,
                      info'.nr_task < MAX_TRACE_ENTRY_TASKS
               PROVE  JustKept(info').latency <= now - since[info.pid]
    BY DEF KeptNotOverstated
  <2>1. /\ info.pid = next /\ info.cpu = c /\ info.pid # INVALID
        /\ JustKept(info').latency = now - info.rq_start
    BY <1>8, Zenon DEF WatchedWait
  <2>2. PICK q \in Tasks : q = info.pid
    BY <1>5, <2>1
  <2>3. since[q] <= info.rq_start /\ info.rq_start \in Nat
    BY <1>4, <1>5, <1>9, <2>1, <2>2, InfoFields DEF TypeOK
  <2> QED
    BY <1>5, <2>1, <2>2, <2>3
<1> QED
  BY <1>8, <1>10, <1>11, Zenon DEF WatchedWait, WaitStep, WaitInv

\* The switch probe starts the wait of the target when no CPU is watched yet.
LEMMA SwitchUnwatchedWaits ==
  ASSUME TypeOK, SchedInv, WaitInv, Accounted(info), NEW c \in Cpus,
         probe_sched_switch(c), ~probe[c].watched
  PROVE  WaitStep
<1>1. Active(c, "switch")
  BY Zenon DEF probe_sched_switch, Active
<1>2. PICK prev \in Tasks \cup {Idle}, next \in Tasks \cup {Idle} :
        prev = probe[c].prev /\ next = probe[c].next
  BY <1>1, ProbeFields, Zenon DEF Active
<1>3. /\ info' = SwitchUnwatched(info, c, prev, next, now)
      /\ probe' = [probe EXCEPT ![c] = NULL] /\ UNCHANGED <<tcpu, tst, since, now>>
  BY <1>2, Zenon DEF probe_sched_switch, sched
<1>4. info \in Info /\ now \in Nat /\ c # INVALID /\ info.pid \in Tasks \cup {INVALID}
  BY SetsAssumption, InfoFields DEF TypeOK
<1>5. info.pid = prev /\ info.cpu = INVALID => ~Filling(info)
  <2>1. info.pid = prev => info.pid \in Tasks
    BY <1>4, SetsAssumption
  <2> QED
    BY <2>1, Zenon DEF WaitInv, Target
<1>6. Started(info, info', info.pid = prev /\ info.cpu = INVALID, c, now)
  BY <1>3, <1>4, <1>5, SwitchUnwatchedWait, Zenon
<1>7. ASSUME NEW q \in Tasks, q = info'.pid
      PROVE  Target(q)'
  <2>1. CASE info.pid = prev /\ info.cpu = INVALID
    <3>1. q = prev /\ info'.cpu = c /\ info'.rq_start = now /\ ~Filling(info')
      BY <1>6, <1>7, <2>1, Zenon DEF Started
    <3>2. since'[q] <= now /\ tst'[q] # "blocked" /\ tcpu'[q] = c
      BY <1>1, <1>2, <1>3, <3>1, SetsAssumption
         DEF SchedInv, JoinedBefore, SwitchHolds, LeftAs
    <3> QED
      BY <1>4, <3>1, <3>2, Zenon DEF Target
  <2>2. CASE ~(info.pid = prev /\ info.cpu = INVALID)
    <3>1. info' = info /\ Target(q)
      BY <1>6, <1>7, <2>2, Zenon DEF Started, WaitInv
    <3>2. /\ ~Concerns(probe[c], q) /\ ~Concerns(probe'[c], q)
          /\ \A y \in Cpus : y # c => probe'[y] = probe[y]
      BY <1>1, <1>3 DEF Concerns, Active, TypeOK
    <3>3. Unaffected(q) /\ SameWait(info, info')
      BY <1>3, <3>1, <3>2, Zenon DEF Unaffected, SameWait
    <3> QED
      BY <3>1, <3>3, TargetSame, Zenon
  <2> QED
    BY <2>1, <2>2
<1> QED
  BY <1>6, <1>7, NothingKept, Zenon DEF Started, WaitStep, WaitInv

\* The migrate probe takes the watched CPU along with the target.
LEMMA MigrateWaits ==
  ASSUME TypeOK, SchedInv, WaitInv, MovesQueued, Good(info, now), Accounted(info),
         NEW x \in Cpus, probe_sched_migrate_task(x)
  PROVE  WaitStep
<1>1. Active(x, "migrate")
  BY Zenon DEF probe_sched_migrate_task, Active
<1>2. PICK p \in Tasks, c \in Cpus : p = probe[x].p /\ c = probe[x].cpu
  BY <1>1, ProbeFields, Zenon DEF Active
<1>3. /\ info' = Migrate(info, p, c, now) /\ since' = since
      /\ tcpu' = [tcpu EXCEPT ![p] = c] /\ tst' = [tst EXCEPT ![p] = "queued"]
      /\ probe' = [probe EXCEPT ![x] = NULL]
  BY <1>1, <1>2, Zenon DEF probe_sched_migrate_task, MovesQueued
<1>4. now \in Nat /\ c # INVALID /\ \A q \in Tasks : q # INVALID
  BY SetsAssumption DEF TypeOK
<1>5. Moved(info, info', p = info.pid /\ info.cpu # INVALID, c)
  BY <1>3, <1>4, MigrateWait, Zenon
<1>6. /\ \A q \in Tasks : /\ tcpu'[q] = (IF q = p THEN c ELSE tcpu[q])
                          /\ tst'[q] = (IF q = p THEN "queued" ELSE tst[q])
      /\ probe'[x] = NULL /\ \A y \in Cpus : y # x => probe'[y] = probe[y]
  BY <1>3 DEF TypeOK
<1>7. \A q \in Tasks : \A y \in Cpus :
        probe'[y] = probe[y] \/ (~Concerns(probe[y], q) /\ ~Concerns(probe'[y], q))
  BY <1>1, <1>6 DEF Concerns, Active
<1>8. ASSUME NEW q \in Tasks, q = info'.pid
      PROVE  Target(q)'
  <2>1. CASE p = info.pid /\ info.cpu # INVALID
    <3>1. /\ q = p /\ info'.cpu = c /\ info'.rq_start = info.rq_start /\ Target(q)
      BY <1>4, <1>5, <1>8, <2>1, Zenon DEF Moved, WaitInv
    <3>2. ~Woken(q) /\ ~Leaving(q)
      BY <1>1, <1>2, <3>1, SetsAssumption
         DEF Woken, Leaving, SchedInv, MigrateHolds, WakeupHolds, SwitchHolds, LeftAs
    <3>3. ~Woken(q)' /\ ~Leaving(q)'
      BY <1>7, <3>2, SameProbes, Zenon
    <3>4. since'[q] <= info'.rq_start
      BY <1>3, <2>1, <3>1, <3>2, Zenon DEF Target
    <3>5. Waiting(q)' /\ tst'[q] # "blocked" /\ tcpu'[q] = c
      BY <1>6, <3>1, <3>3 DEF Waiting
    <3> QED
      BY <1>4, <3>1, <3>4, <3>5, Zenon DEF Target
  <2>2. CASE ~(p = info.pid /\ info.cpu # INVALID)
    <3>1. info' = info /\ Target(q) /\ SameWait(info, info')
      BY <1>5, <1>8, <2>2, Zenon DEF Moved, WaitInv, SameWait
    <3>2. CASE q # p
      <4>1. Unaffected(q)
        BY <1>3, <1>6, <1>7, <3>2, Zenon DEF Unaffected
      <4> QED
        BY <3>1, <4>1, TargetSame, Zenon
    <3> QED
      BY <1>8, <2>2, <3>1, <3>2, TargetUnwatched, Zenon
  <2> QED
    BY <2>1, <2>2
<1> QED
  BY <1>5, <1>8, NothingKept, Zenon DEF Moved, WaitStep, WaitInv

\* A step that affects neither the session nor the scheduler.
LEMMA QuietStep ==
  ASSUME TypeOK, WaitInv, Accounted(info), UNCHANGED <<probe, tcpu, tst, since>>,
         SameContents(info, info'), SameWait(info, info'),
         info'.run_start = info.run_start
  PROVE  WaitStep
<1>1. /\ Filling(info') <=> Filling(info)
      /\ Placed(info', info.run_start - info.rq_start)
           <=> Placed(info, info.run_start - info.rq_start)
  BY SameAhead, Zenon
<1>2. Accounted(info')
  BY <1>1, Zenon DEF Accounted, SameWait
<1>3. ASSUME NEW q \in Tasks, q = info'.pid
      PROVE  Target(q)'
  <2>1. Unaffected(q)
    BY Zenon DEF Unaffected
  <2> QED
    BY <1>1, <1>3, <2>1, TargetSame, Zenon DEF WaitInv, SameWait
<1>4. info'.nr_trace \in {0, info.nr_trace}
  BY Zenon DEF SameContents
<1> QED
  BY <1>2, <1>3, <1>4, NothingKept, Zenon DEF WaitStep, WaitInv

\* The /proc files: a write of pid ends the wait or changes nothing.
LEMMA ProcWaits ==
  ASSUME TypeOK, WaitInv, Accounted(info), Proc
  PROVE  WaitStep
<1>1. UNCHANGED <<probe, tcpu, tst, since>>
  BY DEF Proc, trace_pid_store, trace_pid_store_locked, threshold_store,
         runqlat_show, runqlat_show_locked, sched
<1>2. CASE info' = info
  <2>1. SameContents(info, info') /\ SameWait(info, info')
    BY <1>2, Zenon DEF SameContents, SameWait
  <2> QED
    BY <1>1, <1>2, <2>1, QuietStep, Zenon
<1>3. ASSUME NEW th \in Thresholds, threshold_store(th)
      PROVE  WaitStep
  <2>1. /\ SameContents(info, info') /\ SameWait(info, info')
        /\ info'.run_start = info.run_start
    BY <1>3 DEF threshold_store, SameContents, SameWait, Info, TypeOK
  <2> QED
    BY <1>1, <2>1, QuietStep, Zenon
<1>4. ASSUME NEW w \in Writers, trace_pid_store_locked(w)
      PROVE  WaitStep
  <2>1. PICK pid \in Tasks \cup {INVALID} : info' = StorePid(info, pid)
    BY <1>4 DEF trace_pid_store_locked, TypeOK
  <2>2. info \in Info /\ \A q \in Tasks : q # INVALID
    BY SetsAssumption DEF TypeOK
  <2>3. Stored(info, info')
    BY <2>1, <2>2, StorePidWait
  <2>4. CASE info'.cpu = INVALID /\ (info'.pid # INVALID => ~Filling(info'))
    <3>1. WaitInv'
      BY <2>2, <2>4, Zenon DEF WaitInv, Target
    <3> QED
      BY <2>3, <3>1, NothingKept, Zenon DEF WaitStep, Stored
  <2> QED
    BY <1>2, <2>3, <2>4, Zenon DEF Stored
<1> QED
  BY <1>2, <1>3, <1>4, Zenon
     DEF Proc, trace_pid_store, runqlat_show, runqlat_show_locked

\* Every step keeps the watched CPU and the start of the wait right, records
\* tasks only as they ran within it, and keeps no latency that is longer than
\* the wait.
LEMMA StepWait ==
  ASSUME IInv, SchedInv, WaitInv, MovesQueued, Accounted(info), [Next]_vars
  PROVE  WaitStep /\ MovesQueued'
<1>1. TypeOK /\ Good(info, now)
  BY Zenon DEF IInv
<1>2. ASSUME WaitInv', info' = info PROVE WaitStep
  <2>1. Accounted(info') /\ info'.nr_trace \in {0, info.nr_trace}
    BY <1>2, Zenon
  <2> QED
    BY <1>1, <1>2, <2>1, NothingKept, Zenon DEF WaitStep
<1>3. ASSUME \A x \in Cpus : Active(x, "migrate")' => probe'[x] = probe[x]
      PROVE  MovesQueued'
  BY <1>3, Zenon DEF MovesQueued, Active
<1>4. ASSUME NEW x \in Cpus, NEW p \in Tasks, sched_wakeup(x, p)
      PROVE  WaitStep /\ MovesQueued'
  <2>1. WaitInv' /\ info' = info
    BY <1>1, <1>4, WakeupStarts, Zenon DEF sched_wakeup
  <2>2. \A y \in Cpus : Active(y, "migrate")' => probe'[y] = probe[y]
    BY <1>1, <1>4 DEF sched_wakeup, Active, TypeOK
  <2> QED
    BY <1>2, <1>3, <2>1, <2>2, Zenon
<1>5. ASSUME NEW c \in Cpus, NEW n \in Tasks \cup {Idle}, NEW b \in BOOLEAN,
             sched_switch(c, n, b)
      PROVE  WaitStep /\ MovesQueued'
  <2>1. WaitInv' /\ info' = info
    BY <1>1, <1>5, SwitchStarts, Zenon DEF sched_switch
  <2>2. \A y \in Cpus : Active(y, "migrate")' => probe'[y] = probe[y]
    BY <1>1, <1>5 DEF sched_switch, Active, TypeOK
  <2> QED
    BY <1>2, <1>3, <2>1, <2>2, Zenon
<1>6. ASSUME NEW x \in Cpus, NEW p \in Tasks, NEW c \in Cpus, sched_migrate_task(x, p, c)
      PROVE  WaitStep /\ MovesQueued'
  BY <1>1, <1>2, <1>6, MigrateStarts, Zenon DEF sched_migrate_task
<1>7. ASSUME NEW x \in Cpus,
             probe_sched_wakeup(x) \/ probe_sched_switch(x) \/ probe_sched_migrate_task(x)
      PROVE  WaitStep /\ MovesQueued'
  <2>1. probe' = [probe EXCEPT ![x] = NULL]
    BY <1>7, Zenon DEF probe_sched_wakeup, probe_sched_switch, probe_sched_migrate_task
  <2>2. \A y \in Cpus : Active(y, "migrate")' => probe'[y] = probe[y]
    BY <1>1, <2>1 DEF Active, TypeOK
  <2> QED
    BY <1>1, <1>3, <1>7, <2>2, WakeupWaits, SwitchWatchedWaits, SwitchUnwatchedWaits,
       MigrateWaits, Zenon
<1>8. CASE Proc
  <2>1. probe' = probe
    BY <1>8 DEF Proc, trace_pid_store, trace_pid_store_locked, threshold_store,
                runqlat_show, runqlat_show_locked
  <2> QED
    BY <1>1, <1>3, <1>8, <2>1, ProcWaits, Zenon
<1>9. CASE UNCHANGED vars
  <2>1. info' = info /\ UNCHANGED <<probe, tcpu, tst, since>>
    BY <1>9 DEF vars, sched
  <2>2. SameContents(info, info') /\ SameWait(info, info')
    BY <2>1, Zenon DEF SameContents, SameWait
  <2> QED
    BY <1>1, <1>3, <2>1, <2>2, QuietStep, Zenon
<1> QED
  BY <1>4, <1>5, <1>6, <1>7, <1>8, <1>9, Zenon DEF Next, Scheduler, Probes

\* A kept trace keeps fitting, and a new one fits.
LEMMA StepFits ==
  ASSUME IInv, IInv', [Next]_vars, WaitStep, RuntimesWithinLatency
  PROVE  RuntimesWithinLatency'
<1>1. KeptStep(info, info') /\ AddsFitting(info, info')
  BY StepKeptStep, Zenon DEF WaitStep
<1>2. info \in Info /\ info' \in Info
  BY Zenon DEF IInv, TypeOK
<1>3. \A k \in Kept(info') : Fits(info', k)
  BY <1>1, <1>2, FitsStep, Zenon DEF RuntimesWithinLatency
<1> QED
  BY <1>3, Zenon DEF RuntimesWithinLatency

\* The module starts with no probe in progress, no session and no trace.
LEMMA InitWait ==
  Init => /\ SchedInv /\ WaitInv /\ MovesQueued
          /\ Accounted(info) /\ RuntimesWithinLatency
<1> SUFFICES ASSUME Init PROVE /\ SchedInv /\ WaitInv /\ MovesQueued
                               /\ Accounted(info) /\ RuntimesWithinLatency
  OBVIOUS
<1>1. \A x \in Cpus : probe[x] = NULL /\ run[x] = Idle
  BY DEF Init
<1>2. SchedInv
  BY <1>1 DEF Init, SchedInv, RunsHere, RunsThere, SwitchHolds, WakeupHolds, MigrateHolds,
              OneHolder, JoinedBefore, Active
<1>3. info.pid = INVALID /\ info.nr_trace = 0
  BY DEF Init, InitInfo
<1>4. WaitInv /\ Accounted(info) /\ MovesQueued
  BY <1>1, <1>3, SetsAssumption DEF WaitInv, Accounted, MovesQueued, Active
<1>5. RuntimesWithinLatency
  BY <1>3, SizesAssumption DEF RuntimesWithinLatency, Kept, TraceIdx
<1> QED
  BY <1>2, <1>4, <1>5

\* What holds in every state of the scheduler, of the wait in progress and of the
\* kept traces.
LEMMA AlwaysWait ==
  Spec => [](/\ SchedInv /\ WaitInv /\ MovesQueued
             /\ Accounted(info) /\ RuntimesWithinLatency)
<1>1. ASSUME IInv, SchedInv, WaitInv, MovesQueued, Accounted(info),
             RuntimesWithinLatency, [Next]_vars
      PROVE  (/\ SchedInv /\ WaitInv /\ MovesQueued
              /\ Accounted(info) /\ RuntimesWithinLatency)'
  <2>1. SchedInv'
    BY <1>1, StepSched, Zenon DEF IInv
  <2>2. WaitStep /\ MovesQueued'
    BY <1>1, StepWait, Zenon
  <2>3. RuntimesWithinLatency'
    BY <1>1, <2>2, StepIInv, StepFits, Zenon
  <2> QED
    BY <2>1, <2>2, <2>3, Zenon DEF WaitStep
<1> QED
  BY <1>1, InitWait, Inductive, PTL DEF Spec

\* While a CPU is watched it is the CPU of the target, whatever wakeups,
\* migrations, stops and restarts of the session came in between.
THEOREM WatchesRightCpu == Spec => []WatchesTargetCpu
<1>1. WaitInv => WatchesTargetCpu
  BY Zenon DEF WaitInv, Target, WatchesTargetCpu
<1> QED
  BY <1>1, AlwaysWait, PTL

\* The runtimes that runqlat_show prints of a trace are those of disjoint parts
\* of its latency, so they never add up to more.
THEOREM RuntimesFit == Spec => []RuntimesWithinLatency
  BY AlwaysWait, PTL

\* probe_sched_switch keeps no latency that is longer than the target waited,
\* unless the same step filled the task buffer.
THEOREM NeverOverstated == Spec => LatencyNotOverstated
<1>1. ASSUME IInv, SchedInv, WaitInv, MovesQueued, Accounted(info), [Next]_vars
      PROVE  [info'.nr_trace = info.nr_trace + 1 /\ info'.nr_task < MAX_TRACE_ENTRY_TASKS
                => JustKept(info').latency <= now - since[info.pid]]_vars
  BY <1>1, StepWait, Zenon DEF WaitStep, KeptNotOverstated
<1> QED
  BY <1>1, AlwaysWait, Inductive, PTL DEF Spec, LatencyNotOverstated
==============================================================================
