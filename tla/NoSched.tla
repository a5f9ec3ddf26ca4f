------------------------------- MODULE NoSched -------------------------------
(***************************************************************************)
(* trace/trace-noschedule/trace_noschedule.c: a kernel module that records *)
(* the stack of a task that stays in the kernel for long without           *)
(* scheduling while other tasks wait for its CPU.  On each CPU an hrtimer  *)
(* samples the running task, and a sched_switch probe measures how long    *)
(* the task really stayed.                                                 *)
(*                                                                         *)
(* The timer handler, the probe and the IPI functions run on the CPU whose *)
(* data they touch with interrupts off, so each is one step.  The writer   *)
(* of .../enable is a process of its own: the unlocked test, the           *)
(* tracepoint call, each CPU's timer and the store to trace_enable are     *)
(* steps that interleave with everything else.                             *)
(*                                                                         *)
(* The rest is the environment: what runs on each CPU, in which mode, and  *)
(* whether other tasks wait there (single_task_running() is ~others).      *)
(***************************************************************************)
EXTENDS Integers, Histogram

CONSTANTS
  Cpus, Tasks, Writers,
  Idle,                       \* the idle task
  NULL,
  MAX_STACE_TRACE_ENTRIES,    \* stacks per CPU
  MAX_TRACE_ENTRIES,          \* stack frames per CPU
  DURATION_HISTOGRAM_ENTRY,
  sampling_period,            \* fixed in this tracer
  Thresholds,                 \* the values written to .../threshold
  Depths,                     \* depths of a kernel stack
  Failing,                    \* tracepoint calls that may fail
  MaxLate,                    \* how late a timer interrupt may come
  MaxTime, MaxToggles, MaxClears  \* bounds: the clock, writes to the files

ASSUME NoSchedAssumption ==
  /\ Idle \notin Tasks /\ NULL \notin Tasks \cup {Idle}
  /\ MAX_STACE_TRACE_ENTRIES \in Nat \ {0}
  /\ MAX_TRACE_ENTRIES \in Nat \ {0}
  /\ DURATION_HISTOGRAM_ENTRY \in Nat \ {0}
  /\ sampling_period \in Nat \ {0}
  /\ Thresholds \subseteq Nat
  /\ Thresholds # {}
  /\ Depths \subseteq Nat
  /\ Failing \subseteq {"register", "unregister"}
  /\ MaxLate \in Nat

\* A write to .../enable in progress.
Writing == [enable : BOOLEAN, todo : SUBSET Cpus,
            at : {"register", "timers", "unregister", "store"}]
ASSUME WritingAssumption == NULL \notin Writing

VARIABLES
  stack_trace,         \* per CPU: struct per_cpu_stack_trace
  expires,             \* per CPU: when the hrtimer is due; NULL: not started
  trace_enable,
  duration_threshold,
  tp,                  \* the sched_switch probe is registered
  writer,              \* per writer: what is left of its write to .../enable
  loaded,              \* FALSE once trace_noschedule_exit has run
  toggles, clears,     \* writes so far
  run, mode, others,   \* per CPU: task, "user" or "kernel", tasks waiting
  switched,            \* per CPU: when the running task was switched in
  busy,                \* per CPU: since when sampling sees the same stretch
                       \* (history)
  now

tracer == <<stack_trace, expires, trace_enable, duration_threshold, tp, loaded>>
files == <<writer, toggles, clears>>
env == <<run, mode, others, switched, busy, now>>
vars == <<tracer, files, env>>

StackIdx == 0 .. (MAX_STACE_TRACE_ENTRIES - 1)
HistIdx == 0 .. (DURATION_HISTOGRAM_ENTRY - 1)

------------------------------------------------------------------------------
(* Operations on struct per_cpu_stack_trace. *)

\* A slot of stack_entries, comms, pids and duration.  `of' (history) is when
\* the recorded task had been switched in.
EmptySlot == [pid |-> NULL, duration |-> 0, entries |-> 0, nr_entries |-> 0,
              of |-> NULL]

\* MUTANT: > in the place of >= in the test of nr_stack_entries.
HasRoom_OffByOne(s) ==
  /\ s.nr_stack_entries <= MAX_STACE_TRACE_ENTRIES
  /\ s.nr_entries < MAX_TRACE_ENTRIES

HasRoom(s) ==
  /\ s.nr_stack_entries < MAX_STACE_TRACE_ENTRIES
  /\ s.nr_entries < MAX_TRACE_ENTRIES

\* The stack that is stored is cut to the room that is left.
FramesLeft(s) == MAX_TRACE_ENTRIES - s.nr_entries
Frames(s, depth) == IF depth < FramesLeft(s) THEN depth ELSE FramesLeft(s)

\* __stack_trace_record: the new contents, and the value returned (FALSE also
\* for the record that fills the buffer).
__stack_trace_record(s, p, duration, depth, of) ==
  LET n == Frames(s, depth)
      slot == [pid |-> p, duration |-> duration, entries |-> s.nr_entries,
               nr_entries |-> n, of |-> of]
  IN  IF ~HasRoom(s) THEN [s |-> s, ret |-> FALSE]
      ELSE [s |-> [s EXCEPT !.stack[s.nr_stack_entries] = slot,
                            !.nr_entries = @ + n,
                            !.nr_stack_entries = @ + 1],
            ret |-> s.nr_entries + n < MAX_TRACE_ENTRIES]

\* MUTANTS: the sampled task is not marked; every sample restarts the
\* measurement.
Sample_NoSkip(s, p, threshold, t, depth, of) ==
  IF s.skip # NULL \/ t - s.last_timestamp < threshold THEN s
  ELSE __stack_trace_record(s, p, t - s.last_timestamp, depth, of).s
Sample_Restarts(s, p, threshold, t, depth, of) ==
  IF t - s.last_timestamp < threshold THEN [s EXCEPT !.last_timestamp = t]
  ELSE [Sample_NoSkip(s, p, threshold, t, depth, of) EXCEPT !.skip = p]

\* trace_nosched_hrtimer_handler, for a task in the kernel with others
\* waiting.
Sample(s, p, threshold, t, depth, of) ==
  LET r == __stack_trace_record(s, p, t - s.last_timestamp, depth, of)
  IN  IF s.skip # NULL \/ t - s.last_timestamp < threshold THEN s
      ELSE IF r.ret THEN [r.s EXCEPT !.skip = p]
      ELSE r.s

hist_update(s, delta) ==
  LET index == Clamp(NoschedIndex(delta, sampling_period * 2),
                     DURATION_HISTOGRAM_ENTRY)
  IN  IF delta < sampling_period * 2 THEN s ELSE [s EXCEPT !.hist[index] = @ + 1]

\* The duration of the stretch that was sampled is known: it goes to the last
\* slot (to no slot, index being unsigned, when nr_stack_entries is 0).
Complete(s, t) ==
  IF s.skip = NULL THEN s
  ELSE [s EXCEPT !.skip = NULL,
                 !.stack = [k \in StackIdx |->
                   IF k = s.nr_stack_entries - 1
                   THEN [s.stack[k] EXCEPT !.duration = t - s.last_timestamp]
                   ELSE s.stack[k]]]

\* probe_sched_switch of an enabled tracer.
Switch(s, counted, t) ==
  LET j == [Complete(s, t) EXCEPT !.last_timestamp = t]
  IN  IF counted THEN hist_update(j, t - s.last_timestamp) ELSE j

\* MUTANT: the frames are not given back.
each_stack_trace_clear_KeepsFrames(s) ==
  [s EXCEPT !.nr_stack_entries = 0, !.hist = [k \in HistIdx |-> 0]]

\* each_stack_trace_clear; skip stays as it is.
each_stack_trace_clear(s) ==
  [s EXCEPT !.nr_entries = 0, !.nr_stack_entries = 0, !.hist = [k \in HistIdx |-> 0]]

------------------------------------------------------------------------------
InitStack == [last_timestamp |-> 0, skip |-> NULL, nr_stack_entries |-> 0,
              nr_entries |-> 0, stack |-> [k \in StackIdx |-> EmptySlot],
              hist |-> [k \in HistIdx |-> 0]]

Init ==
  /\ stack_trace = [c \in Cpus |-> InitStack]
  /\ expires = [c \in Cpus |-> NULL]
  /\ trace_enable = FALSE
  /\ duration_threshold \in Thresholds
  /\ tp = FALSE
  /\ writer = [w \in Writers |-> NULL]
  /\ loaded = TRUE
  /\ toggles = 0 /\ clears = 0
  /\ run = [c \in Cpus |-> Idle]
  /\ mode = [c \in Cpus |-> "kernel"]
  /\ others = [c \in Cpus |-> FALSE]
  /\ switched = [c \in Cpus |-> 0]
  /\ busy = [c \in Cpus |-> 0]
  /\ now = 0

------------------------------------------------------------------------------
(* The environment. *)

\* Time passes, but a started timer is at most MaxLate late.
Tick ==
  /\ now < MaxTime
  /\ \A c \in Cpus : expires[c] # NULL => now < expires[c] + MaxLate
  /\ now' = now + 1
  /\ UNCHANGED <<tracer, files, run, mode, others, switched, busy>>

\* The running task enters or leaves the kernel; other tasks arrive or leave.
ChangeMode(c) ==
  /\ run[c] # Idle
  /\ mode' = [mode EXCEPT ![c] = IF @ = "user" THEN "kernel" ELSE "user"]
  /\ busy' = [busy EXCEPT ![c] = now]
  /\ UNCHANGED <<tracer, files, run, others, switched, now>>

ChangeOthers(c) ==
  /\ run[c] # Idle
  /\ others' = [others EXCEPT ![c] = ~@]
  /\ busy' = [busy EXCEPT ![c] = now]
  /\ UNCHANGED <<tracer, files, run, mode, switched, now>>

\* The handler records a task that is in the kernel and not alone.
Sampled(c) == run[c] # Idle /\ mode[c] = "kernel" /\ others[c]

\* __schedule() on CPU c, with probe_sched_switch.  Each task runs for one
\* unit of time at least.
sched_switch(c, next, waiting) ==
  /\ switched[c] < now \/ run[c] = Idle
  /\ next = Idle \/ \A x \in Cpus : run[x] # next
  /\ next # run[c]
  /\ next = Idle => ~waiting
  /\ run' = [run EXCEPT ![c] = next]
  /\ mode' = [mode EXCEPT ![c] = "kernel"]
  /\ others' = [others EXCEPT ![c] = waiting]
  /\ switched' = [switched EXCEPT ![c] = now]
  /\ busy' = [busy EXCEPT ![c] = now]
  /\ IF tp /\ trace_enable
     THEN \E single \in BOOLEAN :
            stack_trace' = [stack_trace EXCEPT
                              ![c] = Switch(@, run[c] # Idle /\ ~single, now)]
     ELSE UNCHANGED stack_trace
  /\ UNCHANGED <<expires, trace_enable, duration_threshold, tp, loaded, files, now>>

\* hrtimer_forward_now: the first multiple of the period after now.
Forward(due) ==
  due + ((now - due) \div sampling_period + 1) * sampling_period

trace_nosched_hrtimer_handler(c) ==
  /\ expires[c] # NULL
  /\ expires[c] <= now
  /\ IF Sampled(c)
     THEN \E depth \in Depths :
            stack_trace' = [stack_trace EXCEPT
              ![c] = Sample(@, run[c], duration_threshold, now, depth, switched[c])]
     ELSE stack_trace' = [stack_trace EXCEPT ![c].last_timestamp = now]
  /\ expires' = [expires EXCEPT ![c] = Forward(@)]
  /\ UNCHANGED <<trace_enable, duration_threshold, tp, loaded, files, env>>

------------------------------------------------------------------------------
(* The /proc files and the end of the module. *)

threshold_store(val) ==
  /\ loaded
  /\ duration_threshold' = val
  /\ UNCHANGED <<stack_trace, expires, trace_enable, tp, loaded, files, env>>

\* stack_trace_store: on_each_cpu runs the clear with interrupts off on each
\* CPU; the CPUs share nothing the clear touches.
stack_trace_store ==
  /\ loaded
  /\ clears < MaxClears
  /\ clears' = clears + 1
  /\ stack_trace' = [c \in Cpus |-> each_stack_trace_clear(stack_trace[c])]
  /\ busy' = [c \in Cpus |-> now]
  /\ UNCHANGED <<expires, trace_enable, duration_threshold, tp, loaded, writer,
                 toggles, run, mode, others, switched, now>>

\* enable_store: the unlocked test of trace_enable.
enable_store(w, enable) ==
  /\ loaded
  /\ writer[w] = NULL
  /\ enable # trace_enable
  /\ toggles < MaxToggles
  /\ toggles' = toggles + 1
  /\ writer' = [writer EXCEPT ![w] =
       [enable |-> enable, todo |-> Cpus, at |-> IF enable THEN "register" ELSE "timers"]]
  /\ UNCHANGED <<tracer, clears, env>>

At(w, enable, at) ==
  writer[w] # NULL /\ writer[w].enable = enable /\ writer[w].at = at

\* The writer goes on to `at', or returns to its caller.
GoTo(w, at) == writer' = [writer EXCEPT ![w].at = at]
Return(w) == writer' = [writer EXCEPT ![w] = NULL]

\* An error other than -EEXIST ends the write with -EAGAIN.
trace_nosched_register_tp(w) ==
  /\ At(w, TRUE, "register")
  /\ \/ tp' = TRUE /\ GoTo(w, "timers")
     \/ "register" \in Failing /\ ~tp /\ UNCHANGED tp /\ Return(w)
  /\ UNCHANGED <<stack_trace, expires, trace_enable, duration_threshold, loaded,
                 toggles, clears, env>>

\* One CPU is done; after the last one the writer goes on to `at'.
CpuDone(w, c, at) ==
  writer' = [writer EXCEPT ![w].todo = @ \ {c},
                           ![w].at = IF writer[w].todo = {c} THEN at ELSE @]

each_hrtimer_start(w, c) ==
  /\ At(w, TRUE, "timers")
  /\ c \in writer[w].todo
  /\ stack_trace' = [stack_trace EXCEPT ![c].last_timestamp = now]
  /\ expires' = [expires EXCEPT ![c] = now + sampling_period]
  /\ CpuDone(w, c, "store")
  /\ busy' = [busy EXCEPT ![c] = now]
  /\ UNCHANGED <<trace_enable, duration_threshold, tp, loaded, toggles, clears,
                 run, mode, others, switched, now>>

trace_nosched_hrtimer_cancel(w, c) ==
  /\ At(w, FALSE, "timers")
  /\ c \in writer[w].todo
  /\ expires' = [expires EXCEPT ![c] = NULL]
  /\ CpuDone(w, c, "unregister")
  /\ UNCHANGED <<stack_trace, trace_enable, duration_threshold, tp, loaded, toggles,
                 clears, env>>

\* MUTANT: the failure is ignored.
trace_nosched_unregister_tp_Ignores(w) ==
  /\ At(w, FALSE, "unregister")
  /\ tp' \in IF "unregister" \in Failing THEN {tp, FALSE} ELSE {FALSE}
  /\ GoTo(w, "store")
  /\ UNCHANGED <<stack_trace, expires, trace_enable, duration_threshold, loaded,
                 toggles, clears, env>>

\* An error other than -ENOENT ends the write with -EAGAIN, the timers being
\* cancelled and trace_enable still set.
trace_nosched_unregister_tp(w) ==
  /\ At(w, FALSE, "unregister")
  /\ \/ tp' = FALSE /\ GoTo(w, "store")
     \/ "unregister" \in Failing /\ tp /\ UNCHANGED tp /\ Return(w)
  /\ UNCHANGED <<stack_trace, expires, trace_enable, duration_threshold, loaded,
                 toggles, clears, env>>

store_trace_enable(w) ==
  /\ writer[w] # NULL
  /\ writer[w].at = "store"
  /\ trace_enable' = writer[w].enable
  /\ Return(w)
  /\ busy' = [c \in Cpus |-> now]
  /\ UNCHANGED <<stack_trace, expires, duration_threshold, tp, loaded, toggles,
                 clears, run, mode, others, switched, now>>

\* trace_noschedule_exit, run while no file is being written; a failure to
\* unregister is ignored.
trace_noschedule_exit ==
  /\ loaded
  /\ \A w \in Writers : writer[w] = NULL
  /\ expires' = IF trace_enable THEN [c \in Cpus |-> NULL] ELSE expires
  /\ \/ trace_enable /\ tp' = FALSE
     \/ ~trace_enable /\ UNCHANGED tp
     \/ "unregister" \in Failing /\ UNCHANGED tp
  /\ loaded' = FALSE
  /\ UNCHANGED <<stack_trace, trace_enable, duration_threshold, files, env>>

------------------------------------------------------------------------------
Environment ==
  \/ Tick
  \/ \E c \in Cpus : ChangeMode(c) \/ ChangeOthers(c)
  \/ \E c \in Cpus, next \in Tasks \cup {Idle}, b \in BOOLEAN : sched_switch(c, next, b)

Writer ==
  \E w \in Writers :
    \/ \E enable \in BOOLEAN : enable_store(w, enable)
    \/ trace_nosched_register_tp(w)
    \/ \E c \in Cpus : each_hrtimer_start(w, c) \/ trace_nosched_hrtimer_cancel(w, c)
    \/ trace_nosched_unregister_tp(w)
    \/ store_trace_enable(w)

Next ==
  \/ Environment
  \/ \E c \in Cpus : trace_nosched_hrtimer_handler(c)
  \/ \E val \in Thresholds : threshold_store(val)
  \/ stack_trace_store
  \/ Writer
  \/ trace_noschedule_exit

Spec == Init /\ [][Next]_vars

------------------------------------------------------------------------------
(* Properties. *)

Slot == [pid : Tasks \cup {NULL}, duration : Nat, entries : 0 .. MAX_TRACE_ENTRIES,
         nr_entries : 0 .. MAX_TRACE_ENTRIES, of : Nat \cup {NULL}]

PerCpu == [last_timestamp : Nat, skip : Tasks \cup {NULL},
           nr_stack_entries : 0 .. MAX_STACE_TRACE_ENTRIES,
           nr_entries : 0 .. MAX_TRACE_ENTRIES, stack : [StackIdx -> Slot],
           hist : [HistIdx -> Nat]]

\* Type invariant: the counters of the per-CPU buffers stay within the arrays
\* of struct per_cpu_stack_trace.
TypeOK ==
  /\ stack_trace \in [Cpus -> PerCpu]
  /\ expires \in [Cpus -> Nat \cup {NULL}]
  /\ trace_enable \in BOOLEAN /\ tp \in BOOLEAN /\ loaded \in BOOLEAN
  /\ duration_threshold \in Nat
  /\ writer \in [Writers -> Writing \cup {NULL}]
  /\ toggles \in Nat /\ clears \in Nat
  /\ run \in [Cpus -> Tasks \cup {Idle}]
  /\ mode \in [Cpus -> {"user", "kernel"}]
  /\ others \in [Cpus -> BOOLEAN]
  /\ switched \in [Cpus -> Nat] /\ busy \in [Cpus -> Nat] /\ now \in Nat

Used(s) == {k \in StackIdx : k < s.nr_stack_entries}

\* The variables keep their types, the counters within the arrays included, and
\* the stacks stack_trace_show prints lie one behind the other in entries[]
\* and fill exactly its used part: no recorded frame is overwritten by a
\* later record, whatever was cut off for lack of room.
Packed(s) ==
  /\ s.nr_stack_entries = 0 => s.nr_entries = 0
  /\ \A k \in Used(s) :
       /\ k = 0 => s.stack[k].entries = 0
       /\ s.stack[k].entries + s.stack[k].nr_entries =
            IF k + 1 \in Used(s) THEN s.stack[k + 1].entries ELSE s.nr_entries
FramesPacked == TypeOK /\ \A c \in Cpus : Packed(stack_trace[c])

\* A stretch of one task on a CPU is recorded once, however many samples fall
\* into it, and also when the buffer is cleared meanwhile.
OneRecordPerStretch ==
  \A c \in Cpus : \A j, k \in Used(stack_trace[c]) :
    j # k => stack_trace[c].stack[j].of # stack_trace[c].stack[k].of

Quiet == ~tp /\ \A c \in Cpus : expires[c] = NULL

\* Once enable reads "disabled" and no write is under way, nothing of the
\* tracer is active: no timer is started and the probe is not registered,
\* also after writes that failed halfway.  trace_noschedule_exit relies on
\* it: it stops timers and probe only if trace_enable is set.  After it,
\* nothing is active but a probe that could not be unregistered.
QuietWhenOff ==
  /\ ~trace_enable /\ (\A w \in Writers : writer[w] = NULL) => Quiet
  /\ ~loaded => /\ \A c \in Cpus : expires[c] = NULL
                /\ tp => "unregister" \in Failing

\* The current stretch of CPU c should have been sampled as too long.
Long(c) ==
  /\ trace_enable
  /\ expires[c] # NULL
  /\ Sampled(c)
  /\ \A th \in Thresholds : now - busy[c] > th + sampling_period + MaxLate

\* A task that stays in the kernel with others waiting for longer than the
\* threshold, a period and the lateness of the timer has been sampled and
\* marked, unless the buffer of its CPU is full (or was, until a clear since
\* then).
LongStretchMarked ==
  \A c \in Cpus : Long(c) /\ HasRoom(stack_trace[c]) => stack_trace[c].skip # NULL

\* README.md of the tracer, line 89: the buffer may be cleared when needed.
\* The probe that completes a record has a record to complete, so
\* duration[nr_stack_entries - 1] is an element of the array.
SkipHasSlot ==
  \A c \in Cpus : stack_trace[c].skip # NULL => stack_trace[c].nr_stack_entries > 0
==============================================================================
