------------------------------- MODULE RunqLat -------------------------------
(***************************************************************************)
(* trace/runqlat/trace_runqlat.c: a kernel module that follows ONE task    *)
(* and, each time that task waits on a run queue, records which tasks ran  *)
(* ahead of it and for how long.  A wait that took at least `threshold' is *)
(* kept as a trace; a shorter one is thrown away.                          *)
(*                                                                         *)
(* The state of the tracer is the one struct runqlat_info, guarded by      *)
(* info->lock.  Three scheduler tracepoints and the /proc files read and   *)
(* write it.  Every entry point has the same shape: an UNLOCKED test of    *)
(* info->pid / info->cpu, then the lock, then the test again.  Each entry  *)
(* point is therefore two steps here: the event with the unlocked test,    *)
(* and the locked section.  A locked section is one step, because all that *)
(* other code reads without the lock is pid and cpu, and every such read   *)
(* is repeated under the lock (or, in runqlat_show, is of pid alone, which *)
(* each section writes at most once).                                      *)
(*                                                                         *)
(* The scheduler is outside the repository: run, tcpu, tst, since and now  *)
(* model it as far as the probes can tell, for a kernel without            *)
(* preemption (README.md of the tracer), with one clock for all CPUs.      *)
(***************************************************************************)
EXTENDS Integers, FiniteSets, Histogram

CONSTANTS
  Cpus,               \* the CPUs
  Tasks,              \* the tasks, idle tasks excluded; a task is its pid
  Targets,            \* the pids a user may ask to trace
  Writers, Readers,   \* processes writing .../pid and reading .../runqlat
  Idle,               \* the idle task (pid 0 on every CPU)
  INVALID,            \* INVALID_PID and INVALID_CPU, both -1
  NULL,
  MAX_TRACE_ENTRIES,
  MAX_TRACE_ENTRY_TASKS,
  LATENCY_HISTOGRAM_ENTRY,
  NsPerMs,            \* 1000000 in the code
  Thresholds,         \* the values written to .../threshold
  Deltas,             \* possible distances in time between two events
  MaxTime             \* bound on the clock

ASSUME SetsAssumption ==
  /\ Targets \subseteq Tasks
  /\ Idle \notin Tasks
  /\ INVALID \notin Tasks \cup Cpus \cup {Idle}
  /\ NULL \notin Tasks
  /\ NULL \notin Cpus
  /\ NULL \notin Nat

ASSUME SizesAssumption ==
  /\ MAX_TRACE_ENTRIES \in Nat \ {0}
  /\ MAX_TRACE_ENTRY_TASKS \in Nat \ {0}
  /\ LATENCY_HISTOGRAM_ENTRY \in Nat \ {0}
  /\ NsPerMs \in Nat \ {0}
  /\ Thresholds \subseteq Nat
  /\ Thresholds # {}
  /\ Deltas \subseteq Nat \ {0}
  /\ MaxTime \in Nat \ {0}

VARIABLES
  info,     \* struct runqlat_info
  writer,   \* per writer: the pid it is about to store, or NULL
  reader,   \* per reader: TRUE between the unlocked test and the lock
  probe,    \* per CPU: the probe waiting for info->lock there, or NULL
  run,      \* per CPU: the task running there
  tcpu,     \* per task: task_cpu()
  tst,      \* per task: blocked, queued, running or moving
  since,    \* per task: when it last joined a run queue
  now       \* the clock, in ns; 0 means "not set" in rq_start, run_start

vars == <<info, writer, reader, probe, run, tcpu, tst, since, now>>
sched == <<run, tcpu, tst, since, now>>
users == <<writer, reader>>

TraceIdx == 0 .. (MAX_TRACE_ENTRIES - 1)
TaskIdx == 0 .. (MAX_TRACE_ENTRY_TASKS - 1)
HistIdx == 0 .. (LATENCY_HISTOGRAM_ENTRY - 1)

------------------------------------------------------------------------------
(* Operations on struct runqlat_info, as functions from its value to its   *)
(* next value.                                                             *)

\* A zeroed struct trace_entry and struct task_entry (vzalloc, memset).
EmptyTrace == [latency |-> 0, nr_tasks |-> 0, entries |-> NULL]
EmptyTask == [pid |-> NULL, runtime |-> 0]

runqlat_info_reset(i) ==
  [i EXCEPT !.rq_start = 0, !.run_start = 0, !.cpu = INVALID, !.curr = NULL]

\* MUTANT: the forced stop forgets info->pid = INVALID_PID.
ForceDisable_KeepsPid(i) == runqlat_info_reset(i)

\* "Force disable trace": a buffer is full.
ForceDisable(i) == [runqlat_info_reset(i) EXCEPT !.pid = INVALID]

\* The trace being filled.
Current(i) == i.trace_entries[i.nr_trace]

\* One more task that ran ahead of the target; the last slot of the task
\* buffer ends the session.
record_task(i, p, runtime) ==
  LET trace == Current(i)
      first == IF trace.nr_tasks = 0 THEN i.nr_task ELSE trace.entries
      j == [i EXCEPT
              !.trace_entries[i.nr_trace] =
                 [trace EXCEPT !.entries = first, !.nr_tasks = @ + 1],
              !.task_entries[i.nr_task] = [pid |-> p, runtime |-> runtime],
              !.nr_task = @ + 1]
  IN  IF j.nr_task >= MAX_TRACE_ENTRY_TASKS THEN ForceDisable(j) ELSE j

Bucket(ms) ==
  IF Halvings[ms] \in HistIdx THEN Halvings[ms] ELSE LATENCY_HISTOGRAM_ENTRY - 1

latency_histogram_store(i, delta) ==
  LET ms == delta \div NsPerMs
  IN  [i EXCEPT !.sum_lat = @ + ms, !.latency_hist[Bucket(ms)] = @ + 1]

\* The target got the CPU: keep the trace, or drop its tasks again.
record_task_commit(i, latency) ==
  LET h == latency_histogram_store(i, latency)
      trace == Current(h)
      kept == [h EXCEPT !.trace_entries[h.nr_trace] =
                           [trace EXCEPT !.latency = latency],
                        !.nr_trace = @ + 1]
      dropped == [h EXCEPT !.trace_entries[h.nr_trace] =
                             [trace EXCEPT !.nr_tasks = 0, !.entries = NULL],
                           !.nr_task = @ - trace.nr_tasks]
  IN  IF trace.nr_tasks = 0 THEN h
      ELSE IF latency < h.threshold THEN dropped
      ELSE IF kept.nr_trace >= MAX_TRACE_ENTRIES THEN ForceDisable(kept)
      ELSE kept

\* "update curr for migrate task probe using"
UpdateCurr(i, next) == IF next # Idle THEN [i EXCEPT !.curr = next] ELSE i

StartWait(i, t) == [i EXCEPT !.rq_start = t, !.run_start = t]

\* MUTANT: the operands of the subtraction are swapped.
Charge_Swapped(i, p, t) ==
  IF i.run_start # 0 THEN record_task(i, p, i.run_start - t) ELSE i

\* Charge the time since run_start to task p.
Charge(i, p, t) ==
  IF i.run_start # 0 THEN record_task(i, p, t - i.run_start) ELSE i

\* probe_sched_switch, locked, while no CPU is being watched yet.
SwitchUnwatched(i, c, prev, next, t) ==
  IF i.cpu # INVALID \/ i.pid # prev THEN i
  ELSE UpdateCurr([StartWait(i, t) EXCEPT !.cpu = c], next)

\* probe_sched_switch, locked, on the CPU that is being watched.
SwitchWatched(i, c, prev, next, runnable, t) ==
  LET j == UpdateCurr(i, next)
      k == Charge(j, prev, t)
  IN  IF i.cpu # c \/ i.pid = INVALID THEN i
      ELSE IF j.pid = next THEN record_task_commit(k, t - k.rq_start)
      ELSE IF j.pid # prev THEN [k EXCEPT !.run_start = t]
      ELSE IF runnable THEN StartWait(j, t)
      ELSE runqlat_info_reset(j)

\* MUTANTS: the watched CPU, or the start of the interval, is not updated.
Migrate_KeepsCpu(i, p, c, t) ==
  LET j == IF i.curr # NULL THEN Charge(i, i.curr, t) ELSE i
  IN  IF p # i.pid \/ i.cpu = INVALID THEN i ELSE [j EXCEPT !.run_start = t]
Migrate_KeepsStart(i, p, c, t) ==
  LET j == IF i.curr # NULL THEN Charge(i, i.curr, t) ELSE i
  IN  IF p # i.pid \/ i.cpu = INVALID THEN i ELSE [j EXCEPT !.cpu = c]

\* probe_sched_migrate_task, locked: the interval so far is charged to curr.
Migrate(i, p, c, t) ==
  LET j == IF i.curr # NULL THEN Charge(i, i.curr, t) ELSE i
  IN  IF p # i.pid \/ i.cpu = INVALID THEN i
      ELSE [j EXCEPT !.cpu = c, !.run_start = t]

\* MUTANT: the wakeup does not start a new wait.
Wakeup_NoStart(i, p, c, t) ==
  IF p # i.pid THEN i ELSE [i EXCEPT !.run_start = t, !.cpu = c]

\* probe_sched_wakeup, locked.
Wakeup(i, p, c, t) ==
  IF p # i.pid THEN i ELSE [StartWait(i, t) EXCEPT !.cpu = c]

\* A new session clears the buffers and the histogram (and leaves sum_lat as
\* it is).
Cleared(i) ==
  [i EXCEPT !.nr_trace = 0, !.nr_task = 0,
            !.trace_entries = [k \in TraceIdx |-> EmptyTrace],
            !.task_entries = [k \in TaskIdx |-> EmptyTask],
            !.latency_hist = [k \in HistIdx |-> 0]]

\* MUTANTS of trace_pid_store: the traces are not zeroed; nr_trace is not
\* reset; a stop clears the buffers too.
StorePid_KeepsTraces(i, pid) ==
  LET j == IF pid # INVALID
           THEN [Cleared(i) EXCEPT !.trace_entries = i.trace_entries] ELSE i
  IN  IF i.pid = pid THEN i ELSE [runqlat_info_reset(j) EXCEPT !.pid = pid]
StorePid_KeepsNrTrace(i, pid) ==
  LET j == IF pid # INVALID
           THEN [Cleared(i) EXCEPT !.nr_trace = i.nr_trace] ELSE i
  IN  IF i.pid = pid THEN i ELSE [runqlat_info_reset(j) EXCEPT !.pid = pid]
StorePid_StopClears(i, pid) ==
  IF i.pid = pid THEN i ELSE [runqlat_info_reset(Cleared(i)) EXCEPT !.pid = pid]

\* trace_pid_store, locked.
StorePid(i, pid) ==
  LET j == IF pid # INVALID THEN Cleared(i) ELSE i
  IN  IF i.pid = pid THEN i ELSE [runqlat_info_reset(j) EXCEPT !.pid = pid]

------------------------------------------------------------------------------
\* runqlat_info as trace_runqlat_init leaves it.
InitInfo(th) ==
  [cpu |-> INVALID, pid |-> INVALID, rq_start |-> 0, run_start |-> 0,
   threshold |-> th, curr |-> NULL, sum_lat |-> 0,
   latency_hist |-> [k \in HistIdx |-> 0],
   nr_trace |-> 0, trace_entries |-> [k \in TraceIdx |-> EmptyTrace],
   nr_task |-> 0, task_entries |-> [k \in TaskIdx |-> EmptyTask]]

Init ==
  /\ \E th \in Thresholds : info = InitInfo(th)
  /\ writer = [w \in Writers |-> NULL]
  /\ reader = [r \in Readers |-> FALSE]
  /\ probe = [c \in Cpus |-> NULL]
  /\ run = [c \in Cpus |-> Idle]
  /\ tcpu \in [Tasks -> Cpus]
  /\ tst = [t \in Tasks |-> "blocked"]
  /\ since = [t \in Tasks |-> 0]
  /\ now = 1

------------------------------------------------------------------------------
(* The scheduler, and the unlocked half of each probe.  A probe runs on    *)
(* CPU x inside the scheduler operation that fires it; an operation that   *)
(* holds the run-queue lock of CPU c has rq = c.                           *)

RqFree(c) == \A x \in Cpus : probe[x] # NULL => probe[x].rq # c

\* p->on_cpu: p was switched out and its probe has not returned.
SwitchingOut(p) ==
  \E x \in Cpus : probe[x] # NULL /\ probe[x].fn = "switch" /\ probe[x].prev = p

\* try_to_wake_up() of a sleeping task, or of one that is still running.
sched_wakeup(x, p) ==
  /\ probe[x] = NULL
  /\ tst[p] \in {"blocked", "running"}
  /\ RqFree(tcpu[p])
  /\ IF tst[p] = "blocked"
     THEN tst' = [tst EXCEPT ![p] = "queued"] /\ since' = [since EXCEPT ![p] = now]
     ELSE UNCHANGED <<tst, since>>
  /\ probe' = IF p # info.pid THEN probe
              ELSE [probe EXCEPT ![x] = [fn |-> "wakeup", rq |-> tcpu[p], p |-> p]]
  /\ UNCHANGED <<info, users, run, tcpu, now>>

probe_sched_wakeup(x) ==
  /\ probe[x] # NULL
  /\ probe[x].fn = "wakeup"
  /\ info' = Wakeup(info, probe[x].p, tcpu[probe[x].p], now)
  /\ probe' = [probe EXCEPT ![x] = NULL]
  /\ UNCHANGED <<users, sched>>

\* Whether probe_sched_switch returns before it takes the lock.
SwitchSkipped(c, prev, runnable) ==
  \/ info.pid = INVALID
  \/ info.cpu # INVALID /\ info.cpu # c
  \/ info.cpu = INVALID /\ (info.pid # prev \/ ~runnable)

Queued(c) == {p \in Tasks : tst[p] = "queued" /\ tcpu[p] = c}

\* __schedule() on CPU c: prev stays runnable or goes to sleep, next runs.
sched_switch(c, next, runnable) ==
  LET prev == run[c] IN
  /\ probe[c] = NULL
  /\ RqFree(c)
  /\ prev = Idle => runnable
  /\ \/ next \in Queued(c)
     \/ next = Idle /\ Queued(c) = {} /\ ~runnable
  /\ \E d \in Deltas : now + d <= MaxTime /\ now' = now + d
  /\ run' = [run EXCEPT ![c] = next]
  /\ tst' = [p \in Tasks |-> IF p = next THEN "running"
                             ELSE IF p # prev THEN tst[p]
                             ELSE IF runnable THEN "queued" ELSE "blocked"]
  /\ since' = [p \in Tasks |-> IF p = prev /\ runnable THEN now' ELSE since[p]]
  /\ probe' = IF SwitchSkipped(c, prev, runnable) THEN probe
              ELSE [probe EXCEPT ![c] =
                      [fn |-> "switch", rq |-> c, prev |-> prev, next |-> next,
                       runnable |-> runnable, watched |-> info.cpu # INVALID]]
  /\ UNCHANGED <<info, users, tcpu>>

probe_sched_switch(c) ==
  LET e == probe[c] IN
  /\ e # NULL
  /\ e.fn = "switch"
  /\ info' = IF e.watched
             THEN SwitchWatched(info, c, e.prev, e.next, e.runnable, now)
             ELSE SwitchUnwatched(info, c, e.prev, e.next, now)
  /\ probe' = [probe EXCEPT ![c] = NULL]
  /\ UNCHANGED <<users, sched>>

\* set_task_cpu(): load balancing moves a queued task under the lock of its
\* run queue, a wakeup moves a sleeping one without.
sched_migrate_task(x, p, c) ==
  LET e == [fn |-> "migrate", p |-> p, cpu |-> c, was |-> tst[p],
            rq |-> IF tst[p] = "queued" THEN tcpu[p] ELSE NULL] IN
  /\ probe[x] = NULL
  /\ c # tcpu[p]
  /\ \/ tst[p] = "queued" /\ RqFree(tcpu[p])
     \/ tst[p] = "blocked" /\ ~SwitchingOut(p)
  /\ \E d \in Deltas \cup {0} : now + d <= MaxTime /\ now' = now + d
  /\ IF p # info.pid \/ info.cpu = INVALID
     THEN tcpu' = [tcpu EXCEPT ![p] = c] /\ UNCHANGED <<probe, tst>>
     ELSE /\ probe' = [probe EXCEPT ![x] = e]
          /\ tst' = [tst EXCEPT ![p] = "moving"]
          /\ UNCHANGED tcpu
  /\ UNCHANGED <<info, users, run, since>>

probe_sched_migrate_task(x) ==
  LET e == probe[x] IN
  /\ e # NULL
  /\ e.fn = "migrate"
  /\ info' = Migrate(info, e.p, e.cpu, now)
  /\ probe' = [probe EXCEPT ![x] = NULL]
  /\ tcpu' = [tcpu EXCEPT ![e.p] = e.cpu]
  /\ tst' = [tst EXCEPT ![e.p] = e.was]
  /\ UNCHANGED <<users, run, since, now>>

------------------------------------------------------------------------------
(* The /proc files.                                                        *)

\* The unlocked test of trace_pid_store (a write it rejects with -EPERM
\* changes nothing).
trace_pid_store(w, pid) ==
  /\ writer[w] = NULL
  /\ info.pid = INVALID \/ pid = INVALID
  /\ writer' = [writer EXCEPT ![w] = pid]
  /\ UNCHANGED <<info, reader, probe, sched>>

trace_pid_store_locked(w) ==
  /\ writer[w] # NULL
  /\ info' = StorePid(info, writer[w])
  /\ writer' = [writer EXCEPT ![w] = NULL]
  /\ UNCHANGED <<reader, probe, sched>>

threshold_store(th) ==
  /\ info' = [info EXCEPT !.threshold = th]
  /\ UNCHANGED <<users, probe, sched>>

\* The unlocked test of runqlat_show, and the printing under the lock.
runqlat_show(r) ==
  /\ ~reader[r]
  /\ info.pid = INVALID
  /\ reader' = [reader EXCEPT ![r] = TRUE]
  /\ UNCHANGED <<info, writer, probe, sched>>

runqlat_show_locked(r) ==
  /\ reader[r]
  /\ reader' = [reader EXCEPT ![r] = FALSE]
  /\ UNCHANGED <<info, writer, probe, sched>>

------------------------------------------------------------------------------
Scheduler ==
  \/ \E x \in Cpus, p \in Tasks : sched_wakeup(x, p)
  \/ \E c \in Cpus, n \in Tasks \cup {Idle}, b \in BOOLEAN : sched_switch(c, n, b)
  \/ \E x \in Cpus, p \in Tasks, c \in Cpus : sched_migrate_task(x, p, c)

Probes ==
  \E x \in Cpus : \/ probe_sched_wakeup(x)
                  \/ probe_sched_switch(x)
                  \/ probe_sched_migrate_task(x)

Proc ==
  \/ \E w \in Writers, pid \in Targets \cup {INVALID} : trace_pid_store(w, pid)
  \/ \E w \in Writers : trace_pid_store_locked(w)
  \/ \E th \in Thresholds : threshold_store(th)
  \/ \E r \in Readers : runqlat_show(r) \/ runqlat_show_locked(r)

Next == Scheduler \/ Probes \/ Proc

Spec == Init /\ [][Next]_vars

------------------------------------------------------------------------------
(* Properties.                                                             *)

Probe ==
  [fn : {"wakeup"}, rq : Cpus, p : Tasks]
    \cup [fn : {"switch"}, rq : Cpus, prev : Tasks \cup {Idle},
          next : Tasks \cup {Idle}, runnable : BOOLEAN, watched : BOOLEAN]
    \cup [fn : {"migrate"}, rq : Cpus \cup {NULL}, p : Tasks, cpu : Cpus,
          was : {"queued", "blocked"}]

ASSUME ProbeAssumption == NULL \notin Probe

TraceEntry == [latency : Nat, nr_tasks : Nat, entries : TaskIdx \cup {NULL}]
TaskEntry == [pid : Tasks \cup {Idle, NULL}, runtime : Nat]

Info ==
  [cpu : Cpus \cup {INVALID}, pid : Tasks \cup {INVALID}, rq_start : Nat,
   run_start : Nat, threshold : Nat, curr : Tasks \cup {NULL}, sum_lat : Nat,
   latency_hist : [HistIdx -> Nat],
   nr_trace : 0 .. MAX_TRACE_ENTRIES, trace_entries : [TraceIdx -> TraceEntry],
   nr_task : 0 .. MAX_TRACE_ENTRY_TASKS, task_entries : [TaskIdx -> TaskEntry]]

\* Type invariant: every field of runqlat_info and of the scheduler state
\* stays in its range.  For nr_trace, nr_task and entries these are the
\* ranges of the two buffers allocated by trace_runqlat_init.
TypeOK ==
  /\ info \in Info
  /\ writer \in [Writers -> Tasks \cup {INVALID, NULL}]
  /\ reader \in [Readers -> BOOLEAN]
  /\ probe \in [Cpus -> Probe \cup {NULL}]
  /\ run \in [Cpus -> Tasks \cup {Idle}]
  /\ tcpu \in [Tasks -> Cpus]
  /\ tst \in [Tasks -> {"blocked", "queued", "running", "moving"}]
  /\ since \in [Tasks -> Nat]
  /\ now \in Nat

\* A session in progress always has a free slot in both buffers: no probe
\* that gets past its locked test of pid writes outside them.
SessionHasRoom(i) ==
  i.pid # INVALID =>
    i.nr_trace < MAX_TRACE_ENTRIES /\ i.nr_task < MAX_TRACE_ENTRY_TASKS
RecordInBounds == SessionHasRoom(info)

\* WARN_ON_ONCE(trace->entries != task - trace->nr_tasks) of record_task
\* never fires: the tasks of the trace being filled are the last ones of the
\* task buffer.
CurrentIsLast(i) ==
  i.nr_trace \in TraceIdx =>
    \/ Current(i).nr_tasks = 0
    \/ /\ Current(i).entries # NULL
       /\ Current(i).entries + Current(i).nr_tasks = i.nr_task
WarnNeverFires == CurrentIsLast(info)

\* Every trace runqlat_show prints has tasks of its own: its slice of the
\* task buffer is not empty, lies in the used part of the buffer and
\* overlaps the slice of no other trace.
SliceEnd(i, k) == i.trace_entries[k].entries + i.trace_entries[k].nr_tasks
Kept(i) == {k \in TraceIdx : k < i.nr_trace}
SlicesDisjoint(i) ==
  /\ \A k \in Kept(i) : /\ i.trace_entries[k].nr_tasks > 0
                        /\ i.trace_entries[k].entries # NULL
                        /\ SliceEnd(i, k) <= i.nr_task
  /\ \A j, k \in Kept(i) : j < k => SliceEnd(i, j) <= i.trace_entries[k].entries
TracesDisjoint == SlicesDisjoint(info)

\* What runqlat_show prints of trace k.
Printed(i, k) ==
  LET e == i.trace_entries[k]
  IN  [latency |-> e.latency,
       tasks |-> [j \in 0 .. (e.nr_tasks - 1) |-> i.task_entries[e.entries + j]]]

\* A kept trace never changes: no later record, commit, dropped wait, forced
\* stop or user's stop touches it.  Only the start of a new session removes
\* traces, and it removes all of them.
KeptTracesStable ==
  [][/\ info'.nr_trace < info.nr_trace => info'.nr_trace = 0 /\ info'.pid # INVALID
     /\ \A k \in Kept(info) :
          k < info'.nr_trace => Printed(info', k) = Printed(info, k)]_vars

\* While a CPU is being watched it is the CPU of the target, whatever
\* wakeups, migrations, stops and restarts of the session came in between:
\* a switch to the target cannot pass unseen.
WatchesTargetCpu ==
  info.pid \in Tasks /\ info.cpu # INVALID => info.cpu = tcpu[info.pid]

\* Tasks that ran one after another within a time of the given length: each
\* runtime has a place of its own in it, before that of the next task.
OneAfterAnother(tasks, length) ==
  \E start \in [DOMAIN tasks -> 0 .. length] : \A j \in DOMAIN tasks :
    start[j] + tasks[j].runtime
      <= (IF j + 1 \in DOMAIN tasks THEN start[j + 1] ELSE length)

\* The runtimes of a kept trace are those of disjoint parts of its latency,
\* and so never add up to more (README.md of the tracer, line 94, says they
\* add up to about the latency).
Fits(i, k) == OneAfterAnother(Printed(i, k).tasks, Printed(i, k).latency)
RuntimesWithinLatency == \A k \in Kept(info) : Fits(info, k)

\* The trace a step has just kept.
JustKept(i) == i.trace_entries[i.nr_trace - 1]

\* A kept latency is never longer than the target really waited, unless the
\* step filled the task buffer (see LatencyIsWaitingTime).
LatencyNotOverstated ==
  [][info'.nr_trace = info.nr_trace + 1 /\ info'.nr_task < MAX_TRACE_ENTRY_TASKS
       => JustKept(info').latency <= now - since[info.pid]]_vars

\* README.md of the tracer, line 51: the distribution, and the traces, are
\* of the run-queue latency of the traced process.
LatencyIsWaitingTime ==
  [][info'.nr_trace = info.nr_trace + 1
       => JustKept(info').latency <= now - since[info.pid]]_vars
==============================================================================
