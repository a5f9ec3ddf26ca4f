----------------------------- MODULE RunqLatLog ------------------------------
(* The refinement mapping from RunqLat to TraceLog: what the two buffers of  *)
(* struct runqlat_info mean.                                                 *)
EXTENDS RunqLat, Sequences

\* The tasks of trace k, as a sequence.
TasksOf(i, k) ==
  LET e == i.trace_entries[k]
  IN  [j \in 1 .. e.nr_tasks |-> i.task_entries[e.entries + j - 1]]

LogOf(i) ==
  [k \in 1 .. i.nr_trace |->
     [latency |-> i.trace_entries[k - 1].latency, tasks |-> TasksOf(i, k - 1)]]

PendingOf(i) == IF i.nr_trace \in TraceIdx THEN TasksOf(i, i.nr_trace) ELSE <<>>

\* The tasks behind the kept traces are those of the trace being filled.
UsedOf(i) == i.nr_task - Len(PendingOf(i))

Log == INSTANCE TraceLog WITH
  Pids <- Targets,
  OFF <- INVALID,
  Records <- [pid : Tasks \cup {Idle}, runtime : 0 .. MaxTime],
  Latencies <- 0 .. MaxTime,
  MaxTraces <- MAX_TRACE_ENTRIES,
  MaxTasks <- MAX_TRACE_ENTRY_TASKS,
  on <- info.pid,
  log <- LogOf(info),
  used <- UsedOf(info),
  pending <- PendingOf(info)

\* The buffers, offsets and counters of trace_runqlat.c implement the log of
\* kept waits that TraceLog describes.
ImplementsTraceLog == Log!Spec
==============================================================================
