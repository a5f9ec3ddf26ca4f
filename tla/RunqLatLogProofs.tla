-------------------------- MODULE RunqLatLogProofs ---------------------------
(* The buffers of struct runqlat_info implement TraceLog: every step of the  *)
(* probes and of the /proc files is a step of the log of kept waits, or      *)
(* leaves it alone.                                                          *)
EXTENDS RunqLatProofs, RunqLatLog

\* A function on 1 .. n is a sequence of length n.
LEMMA SeqOfFunction ==
  ASSUME NEW S, NEW n \in Nat, NEW s \in [1 .. n -> S]
  PROVE  s \in Seq(S) /\ Len(s) = n
  OBVIOUS

\* A sequence with one more element than another one.
LEMMA AppendIs ==
  ASSUME NEW S, NEW n \in Nat, NEW s \in [1 .. n -> S], NEW r \in S,
         NEW t \in [1 .. n + 1 -> S], \A k \in 1 .. n : t[k] = s[k], t[n + 1] = r
  PROVE  t = Append(s, r)
<1>1. s \in Seq(S) /\ Len(s) = n
  BY SeqOfFunction
<1>2. t \in Seq(S) /\ Len(t) = n + 1
  BY SeqOfFunction
<1>3. Append(s, r) \in Seq(S) /\ Len(Append(s, r)) = n + 1
  BY <1>1
<1> QED
  BY <1>1, <1>2, <1>3

\* Two sequences with the same elements.
LEMMA SameElements ==
  ASSUME NEW S, NEW n \in Nat, NEW s \in [1 .. n -> S], NEW t \in [1 .. n -> S],
         \A k \in 1 .. n : t[k] = s[k]
  PROVE  t = s
  OBVIOUS

\* The empty sequence.
LEMMA EmptyIs ==
  ASSUME NEW S, NEW s \in [1 .. 0 -> S]
  PROVE  s = <<>>
  OBVIOUS

\* The tasks of a trace whose slice lies inside the task buffer.
LEMMA TasksOfSlice ==
  ASSUME NEW i \in Info, NEW k \in TraceIdx,
         i.trace_entries[k].nr_tasks # 0 =>
           /\ i.trace_entries[k].entries \in TaskIdx
           /\ i.trace_entries[k].entries + i.trace_entries[k].nr_tasks <= i.nr_task
  PROVE  /\ i.trace_entries[k].nr_tasks \in Nat
         /\ TasksOf(i, k) \in [1 .. i.trace_entries[k].nr_tasks -> TaskEntry]
         /\ TasksOf(i, k) \in Seq(TaskEntry)
         /\ Len(TasksOf(i, k)) = i.trace_entries[k].nr_tasks
         /\ i.trace_entries[k].nr_tasks = 0 => TasksOf(i, k) = <<>>
<1> DEFINE e == i.trace_entries[k]
<1>1. e.nr_tasks \in Nat /\ i.nr_task \in 0 .. MAX_TRACE_ENTRY_TASKS
  BY InfoFields
<1>2. i.task_entries \in [TaskIdx -> TaskEntry]
  BY InfoFields
<1>3. ASSUME NEW j \in 1 .. e.nr_tasks
      PROVE  e.entries + j - 1 \in TaskIdx
  BY <1>1, <1>3, SizesAssumption DEF TaskIdx
<1>4. TasksOf(i, k) \in [1 .. e.nr_tasks -> TaskEntry]
  BY <1>2, <1>3 DEF TasksOf
<1>5. TasksOf(i, k) \in Seq(TaskEntry) /\ Len(TasksOf(i, k)) = e.nr_tasks
  BY <1>1, <1>4, SeqOfFunction
<1>6. e.nr_tasks = 0 => TasksOf(i, k) = <<>>
  BY <1>4, EmptyIs
<1> QED
  BY <1>1, <1>4, <1>5, <1>6

\* The slices of the kept traces and of the one being filled lie inside the
\* task buffer, below nr_task.
LEMMA SliceBounds ==
  ASSUME NEW i, Shape(i)
  PROVE  /\ i \in Info /\ i.nr_trace \in Nat /\ i.nr_trace <= MAX_TRACE_ENTRIES
         /\ i.nr_task \in Nat
         /\ \A k \in TraceIdx : k <= i.nr_trace /\ i.trace_entries[k].nr_tasks # 0 =>
              /\ i.trace_entries[k].entries \in TaskIdx
              /\ i.trace_entries[k].entries + i.trace_entries[k].nr_tasks <= i.nr_task
<1>1. i \in Info /\ i.nr_trace \in 0 .. MAX_TRACE_ENTRIES /\ i.nr_task \in Nat
  BY InfoFields, SizesAssumption DEF Shape
<1>2. ASSUME NEW k \in TraceIdx, k < i.nr_trace
      PROVE  /\ i.trace_entries[k].entries \in TaskIdx
             /\ i.trace_entries[k].entries + i.trace_entries[k].nr_tasks <= i.nr_task
  BY <1>1, <1>2, InfoFields DEF Shape, SlicesDisjoint, Kept, SliceEnd
<1>3. ASSUME i.nr_trace \in TraceIdx, i.trace_entries[i.nr_trace].nr_tasks # 0
      PROVE  LET e == i.trace_entries[i.nr_trace]
             IN  e.entries \in TaskIdx /\ e.entries + e.nr_tasks <= i.nr_task
  <2>1. i.nr_trace < MAX_TRACE_ENTRIES
    BY <1>3, SizesAssumption DEF TraceIdx
  <2> QED
    BY <1>1, <1>3, <2>1, CurrentSlice DEF Current
<1> QED
  BY <1>1, <1>2, <1>3, SizesAssumption DEF TraceIdx

Trace == [latency : Nat, tasks : Seq(TaskEntry)]

\* The types and the lengths of the mapped variables.
LEMMA MappedTypes ==
  ASSUME NEW i, Shape(i)
  PROVE  /\ LogOf(i) \in [1 .. i.nr_trace -> Trace]
         /\ LogOf(i) \in Seq(Trace) /\ Len(LogOf(i)) = i.nr_trace
         /\ PendingOf(i) \in Seq(TaskEntry)
         /\ Len(PendingOf(i)) =
              IF i.nr_trace \in TraceIdx THEN Current(i).nr_tasks ELSE 0
         /\ Len(PendingOf(i)) = 0 => PendingOf(i) = <<>>
         /\ UsedOf(i) \in Int /\ UsedOf(i) + Len(PendingOf(i)) = i.nr_task
<1>1. /\ i \in Info /\ i.nr_trace \in Nat /\ i.nr_trace <= MAX_TRACE_ENTRIES
      /\ i.nr_task \in Nat
  BY SliceBounds
<1>2. ASSUME NEW k \in TraceIdx, k <= i.nr_trace
      PROVE  /\ TasksOf(i, k) \in Seq(TaskEntry)
             /\ Len(TasksOf(i, k)) = i.trace_entries[k].nr_tasks
             /\ i.trace_entries[k].nr_tasks = 0 => TasksOf(i, k) = <<>>
  BY <1>1, <1>2, SliceBounds, TasksOfSlice
<1>3. ASSUME NEW k \in 1 .. i.nr_trace
      PROVE  [latency |-> i.trace_entries[k - 1].latency, tasks |-> TasksOf(i, k - 1)]
               \in Trace
  <2>1. k - 1 \in TraceIdx /\ k - 1 <= i.nr_trace
    BY <1>1, SizesAssumption DEF TraceIdx
  <2> QED
    BY <1>1, <1>2, <2>1, InfoFields DEF Trace
<1>4. LogOf(i) \in [1 .. i.nr_trace -> Trace]
  BY <1>3 DEF LogOf
<1>5. LogOf(i) \in Seq(Trace) /\ Len(LogOf(i)) = i.nr_trace
  BY <1>1, <1>4, SeqOfFunction
<1>6. /\ PendingOf(i) \in Seq(TaskEntry)
      /\ Len(PendingOf(i)) =
           IF i.nr_trace \in TraceIdx THEN Current(i).nr_tasks ELSE 0
      /\ Len(PendingOf(i)) = 0 => PendingOf(i) = <<>>
  BY <1>1, <1>2 DEF PendingOf, Current
<1>7. UsedOf(i) \in Int /\ UsedOf(i) + Len(PendingOf(i)) = i.nr_task
  BY <1>1, <1>6 DEF UsedOf
<1> QED
  BY <1>4, <1>5, <1>6, <1>7

\* The log as the user sees it depends on the buffers and their counters only.
SameLog(i, j) ==
  LogOf(j) = LogOf(i) /\ PendingOf(j) = PendingOf(i) /\ UsedOf(j) = UsedOf(i)

\* What leaves the buffers and nr_task alone, as writing back the fields of the
\* probes does, leaves the log alone.
LEMMA SameContentsLog ==
  ASSUME NEW i, NEW j, SameContents(i, j), j.nr_task = i.nr_task
  PROVE  SameLog(i, j)
<1>1. \A k : TasksOf(j, k) = TasksOf(i, k)
  BY DEF TasksOf, SameContents
<1>2. LogOf(j) = LogOf(i) /\ PendingOf(j) = PendingOf(i)
  BY <1>1 DEF LogOf, PendingOf, SameContents
<1> QED
  BY <1>2 DEF UsedOf, SameLog

\* A step that writes behind the kept traces leaves their contents alone.
LEMMA WriteBehindLog ==
  ASSUME NEW i, Shape(i), NEW j \in Info, i.nr_trace <= j.nr_trace,
         \A k \in Kept(i) : j.trace_entries[k] = i.trace_entries[k],
         \A m \in TaskIdx : m < i.nr_task => j.task_entries[m] = i.task_entries[m]
  PROVE  \A k \in 1 .. i.nr_trace : LogOf(j)[k] = LogOf(i)[k]
<1> SUFFICES ASSUME NEW n \in 1 .. i.nr_trace
             PROVE  LogOf(j)[n] = LogOf(i)[n]
  OBVIOUS
<1> DEFINE e == i.trace_entries[n - 1]
<1>1. /\ i \in Info /\ i.nr_trace \in Nat /\ i.nr_trace <= MAX_TRACE_ENTRIES
      /\ i.nr_task \in Nat /\ j.nr_trace \in Int
  BY SliceBounds, InfoFields, SizesAssumption
<1>2. n - 1 \in Kept(i) /\ n \in 1 .. j.nr_trace
  BY <1>1, SizesAssumption DEF Kept, TraceIdx
<1>3. /\ e.nr_tasks \in Nat /\ e.entries \in TaskIdx /\ e.entries + e.nr_tasks <= i.nr_task
  BY <1>1, <1>2, InfoFields DEF Shape, SlicesDisjoint, SliceEnd, Kept
<1>4. j.trace_entries[n - 1] = e
  BY <1>2
<1> HIDE DEF e
<1>5. \A m \in 1 .. e.nr_tasks :
        j.task_entries[e.entries + m - 1] = i.task_entries[e.entries + m - 1]
  <2> SUFFICES ASSUME NEW m \in 1 .. e.nr_tasks
               PROVE  j.task_entries[e.entries + m - 1] = i.task_entries[e.entries + m - 1]
    OBVIOUS
  <2>1. i.nr_task <= MAX_TRACE_ENTRY_TASKS
    BY <1>1, InfoFields
  <2>2. e.entries + m - 1 \in TaskIdx /\ e.entries + m - 1 < i.nr_task
    BY <1>1, <1>3, <2>1, SizesAssumption DEF TaskIdx
  <2> QED
    BY <2>2
<1>6. TasksOf(j, n - 1) = TasksOf(i, n - 1)
  BY <1>4, <1>5 DEF TasksOf, e
<1>7. LogOf(j)[n] = [latency |-> e.latency, tasks |-> TasksOf(i, n - 1)]
  BY <1>2, <1>4, <1>6 DEF LogOf
<1> QED
  BY <1>7 DEF LogOf, e

------------------------------------------------------------------------------
(* What the operations on the buffers do to the log.                        *)

\* One more task: it goes to the end of the current wait.
LEMMA RecordedLog ==
  ASSUME NEW i, Shape(i), HasRoom(i), NEW p \in Tasks \cup {Idle},
         NEW runtime \in Nat
  PROVE  LET j == Recorded(i, p, runtime)
         IN  /\ LogOf(j) = LogOf(i)
             /\ PendingOf(j) = Append(PendingOf(i), [pid |-> p, runtime |-> runtime])
             /\ UsedOf(j) = UsedOf(i)
<1> DEFINE j == Recorded(i, p, runtime)
           r == [pid |-> p, runtime |-> runtime]
           e == i.trace_entries[i.nr_trace]
           f == j.trace_entries[i.nr_trace]
<1>1. i \in Info /\ i.nr_trace \in TraceIdx /\ i.nr_task \in TaskIdx
  BY RoomIndexes, Zenon
<1>2. /\ j \in Info /\ j.nr_trace = i.nr_trace /\ j.nr_task = i.nr_task + 1
      /\ f.nr_tasks = e.nr_tasks + 1
      /\ f.entries = IF e.nr_tasks = 0 THEN i.nr_task ELSE e.entries
      /\ \A k \in TraceIdx : k # i.nr_trace => j.trace_entries[k] = i.trace_entries[k]
  BY RecordedFields, Zenon
<1>3. j.task_entries = [i.task_entries EXCEPT ![i.nr_task] = r]
  BY <1>1 DEF Recorded, Info
<1>4. Shape(j)
  BY RecordedShape
<1> HIDE DEF j
<1>5. i.task_entries \in [TaskIdx -> TaskEntry] /\ r \in TaskEntry
  BY <1>1, InfoFields DEF TaskEntry
<1> HIDE DEF r
<1>6. \A m \in TaskIdx : j.task_entries[m] = IF m = i.nr_task THEN r ELSE i.task_entries[m]
  BY <1>3, <1>5
<1>7. e.nr_tasks \in Nat /\ i.nr_task \in Nat /\ i.nr_trace \in Nat
  BY <1>1, InfoFields DEF TaskIdx, TraceIdx
<1>8. LogOf(j) = LogOf(i)
  <2>1. \A k \in Kept(i) : j.trace_entries[k] = i.trace_entries[k]
    BY <1>2, <1>7 DEF Kept, TraceIdx
  <2>2. \A m \in TaskIdx : m < i.nr_task => j.task_entries[m] = i.task_entries[m]
    BY <1>6, <1>7 DEF TaskIdx
  <2>3. \A k \in 1 .. i.nr_trace : LogOf(j)[k] = LogOf(i)[k]
    BY <1>2, <1>7, <2>1, <2>2, WriteBehindLog
  <2>4. LogOf(i) \in [1 .. i.nr_trace -> Trace] /\ LogOf(j) \in [1 .. i.nr_trace -> Trace]
    BY <1>2, <1>4, MappedTypes
  <2> QED
    BY <1>7, <2>3, <2>4, SameElements
<1>9. PendingOf(j) = TasksOf(j, i.nr_trace) /\ PendingOf(i) = TasksOf(i, i.nr_trace)
  BY <1>1, <1>2 DEF PendingOf
<1>10. /\ TasksOf(i, i.nr_trace) \in [1 .. e.nr_tasks -> TaskEntry]
       /\ TasksOf(j, i.nr_trace) \in [1 .. e.nr_tasks + 1 -> TaskEntry]
  <2>1. TasksOf(i, i.nr_trace) \in [1 .. e.nr_tasks -> TaskEntry]
    BY <1>1, <1>7, SliceBounds, TasksOfSlice
  <2>2. TasksOf(j, i.nr_trace) \in [1 .. f.nr_tasks -> TaskEntry]
    BY <1>1, <1>2, <1>4, <1>7, SliceBounds, TasksOfSlice
  <2> QED
    BY <1>2, <2>1, <2>2
<1>11. e.nr_tasks # 0 => e.entries \in TaskIdx /\ e.entries + e.nr_tasks = i.nr_task
  BY CurrentSlice DEF HasRoom, Current
<1>12. \A k \in 1 .. e.nr_tasks : TasksOf(j, i.nr_trace)[k] = TasksOf(i, i.nr_trace)[k]
  <2> SUFFICES ASSUME NEW k \in 1 .. e.nr_tasks
               PROVE  TasksOf(j, i.nr_trace)[k] = TasksOf(i, i.nr_trace)[k]
    OBVIOUS
  <2>1. f.entries = e.entries /\ k \in 1 .. f.nr_tasks
    BY <1>2, <1>7
  <2>2. e.entries + k - 1 \in TaskIdx /\ e.entries + k - 1 # i.nr_task
    <3>1. e.entries \in Nat /\ e.entries + e.nr_tasks = i.nr_task
      BY <1>7, <1>11 DEF TaskIdx
    <3>2. i.nr_task <= MAX_TRACE_ENTRY_TASKS - 1
      BY <1>1, SizesAssumption DEF TaskIdx
    <3> HIDE DEF e
    <3> QED
      BY <1>7, <3>1, <3>2, SizesAssumption DEF TaskIdx
  <2>3. j.task_entries[e.entries + k - 1] = i.task_entries[e.entries + k - 1]
    BY <1>6, <2>2
  <2>4. TasksOf(j, i.nr_trace)[k] = j.task_entries[f.entries + k - 1]
    BY <2>1 DEF TasksOf
  <2>5. TasksOf(i, i.nr_trace)[k] = i.task_entries[e.entries + k - 1]
    BY DEF TasksOf
  <2> HIDE DEF e, f
  <2> QED
    BY <2>1, <2>3, <2>4, <2>5
<1>13. TasksOf(j, i.nr_trace)[e.nr_tasks + 1] = r
  <2>1. f.entries + (e.nr_tasks + 1) - 1 = i.nr_task /\ e.nr_tasks + 1 \in 1 .. f.nr_tasks
    BY <1>2, <1>7, <1>11 DEF TaskIdx
  <2>2. TasksOf(j, i.nr_trace)[e.nr_tasks + 1] =
          j.task_entries[f.entries + (e.nr_tasks + 1) - 1]
    BY <2>1 DEF TasksOf
  <2> HIDE DEF e, f
  <2> QED
    BY <1>1, <1>6, <2>1, <2>2
<1> HIDE DEF e, f
<1>14. PendingOf(j) = Append(PendingOf(i), r)
  BY <1>5, <1>7, <1>9, <1>10, <1>12, <1>13, AppendIs
<1>15. UsedOf(j) = UsedOf(i)
  <2>1. PendingOf(i) \in Seq(TaskEntry) /\ Len(PendingOf(j)) = Len(PendingOf(i)) + 1
    BY <1>5, <1>14, MappedTypes
  <2> QED
    BY <1>2, <1>7, <2>1 DEF UsedOf
<1> QED
  BY <1>8, <1>14, <1>15 DEF j, r

\* A kept trace: the log gets the tasks of the current wait, with the latency.
LEMMA KeptLog ==
  ASSUME NEW h, Shape(h), h.nr_trace < MAX_TRACE_ENTRIES,
         Current(h).nr_tasks # 0, NEW latency \in Nat
  PROVE  LET j == KeptTrace(h, latency)
         IN  /\ LogOf(j) = Append(LogOf(h),
                                  [latency |-> latency, tasks |-> PendingOf(h)])
             /\ PendingOf(j) = <<>>
             /\ UsedOf(j) = UsedOf(h) + Len(PendingOf(h))
             /\ UsedOf(j) = h.nr_task
<1> DEFINE j == KeptTrace(h, latency)
           n == h.nr_trace
           f == [Current(h) EXCEPT !.latency = latency]
           l == [latency |-> latency, tasks |-> PendingOf(h)]
<1>1. h \in Info /\ n \in TraceIdx /\ Current(h) \in TraceEntry
  BY CurrentSlice
<1>2. /\ Shape(j) /\ j.nr_trace = n + 1 /\ j.nr_task = h.nr_task
  BY KeptShape
<1>3. j \in Info
  BY <1>2 DEF Shape
<1>4. /\ j.trace_entries = [h.trace_entries EXCEPT ![n] = f]
      /\ j.task_entries = h.task_entries
  BY <1>1 DEF KeptTrace, Info
<1> HIDE DEF j
<1>5. f.latency = latency /\ f.nr_tasks = Current(h).nr_tasks /\ f.entries = Current(h).entries
  BY <1>1 DEF TraceEntry
<1> HIDE DEF f
<1>6. \A k \in TraceIdx : j.trace_entries[k] = IF k = n THEN f ELSE h.trace_entries[k]
  BY <1>1, <1>4, InfoFields
<1>7. n \in Nat /\ h.nr_task \in Nat /\ n + 1 <= MAX_TRACE_ENTRIES
  BY <1>1, InfoFields, SizesAssumption DEF TraceIdx
<1>8. TasksOf(j, n) = PendingOf(h)
  BY <1>1, <1>4, <1>5, <1>6 DEF TasksOf, PendingOf, Current
<1>9. LogOf(j) = Append(LogOf(h), l)
  <2>1. \A k \in Kept(h) : j.trace_entries[k] = h.trace_entries[k]
    BY <1>6, <1>7 DEF Kept, TraceIdx
  <2>2. \A k \in 1 .. n : LogOf(j)[k] = LogOf(h)[k]
    <3>1. h.nr_trace <= j.nr_trace
      BY <1>2, <1>7
    <3> QED
      BY <1>3, <1>4, <2>1, <3>1, WriteBehindLog, Zenon
  <2>3. LogOf(h) \in [1 .. n -> Trace] /\ LogOf(j) \in [1 .. n + 1 -> Trace]
    BY <1>2, MappedTypes
  <2>4. l \in Trace
    BY MappedTypes DEF Trace
  <2>5. LogOf(j)[n + 1] = l
    <3>1. LogOf(j)[n + 1] = [latency |-> j.trace_entries[(n + 1) - 1].latency,
                             tasks |-> TasksOf(j, (n + 1) - 1)]
      BY <1>2, <1>7 DEF LogOf
    <3>2. (n + 1) - 1 = n
      BY <1>7
    <3> QED
      BY <1>1, <1>5, <1>6, <1>8, <3>1, <3>2
  <2> HIDE DEF l, n
  <2> QED
    BY <1>7, <2>2, <2>3, <2>4, <2>5, AppendIs
<1>10. PendingOf(j) = <<>> /\ Len(PendingOf(j)) = 0
  <2>1. CASE n + 1 \in TraceIdx
    <3>1. h.trace_entries[n + 1].nr_tasks = 0
      BY <1>7, <2>1 DEF Shape, RestEmpty
    <3>2. Current(j).nr_tasks = 0
      BY <1>2, <1>6, <1>7, <2>1, <3>1 DEF Current
    <3> QED
      BY <1>2, <2>1, <3>2, MappedTypes
  <2>2. CASE n + 1 \notin TraceIdx
    BY <1>2, <2>2 DEF PendingOf
  <2> QED
    BY <2>1, <2>2
<1>11. UsedOf(j) = h.nr_task /\ UsedOf(h) + Len(PendingOf(h)) = h.nr_task
  BY <1>2, <1>7, <1>10, MappedTypes DEF UsedOf
<1> QED
  BY <1>9, <1>10, <1>11 DEF j, l

\* A dropped trace: the tasks of the current wait are forgotten.
LEMMA DroppedLog ==
  ASSUME NEW h, Shape(h), h.nr_trace < MAX_TRACE_ENTRIES, Current(h).nr_tasks # 0
  PROVE  LET j == DroppedTrace(h)
         IN  LogOf(j) = LogOf(h) /\ PendingOf(j) = <<>> /\ UsedOf(j) = UsedOf(h)
<1> DEFINE j == DroppedTrace(h)
           n == h.nr_trace
           f == [Current(h) EXCEPT !.nr_tasks = 0, !.entries = NULL]
<1>1. h \in Info /\ n \in TraceIdx /\ Current(h) \in TraceEntry
  BY CurrentSlice
<1>2. Shape(j) /\ j.nr_trace = n
  BY DroppedShape
<1>3. j \in Info
  BY <1>2 DEF Shape
<1>4. /\ j.trace_entries = [h.trace_entries EXCEPT ![n] = f]
      /\ j.task_entries = h.task_entries /\ j.nr_task = h.nr_task - Current(h).nr_tasks
  BY <1>1 DEF DroppedTrace, Info
<1> HIDE DEF j
<1>5. f.nr_tasks = 0
  BY <1>1 DEF TraceEntry
<1> HIDE DEF f
<1>6. \A k \in TraceIdx : j.trace_entries[k] = IF k = n THEN f ELSE h.trace_entries[k]
  BY <1>1, <1>4, InfoFields
<1>7. n \in Nat /\ h.nr_task \in Nat
  BY <1>1, InfoFields, SizesAssumption DEF TraceIdx
<1>8. LogOf(j) = LogOf(h)
  <2>1. \A k \in Kept(h) : j.trace_entries[k] = h.trace_entries[k]
    BY <1>6, <1>7 DEF Kept, TraceIdx
  <2>2. \A k \in 1 .. n : LogOf(j)[k] = LogOf(h)[k]
    <3>1. h.nr_trace <= j.nr_trace
      BY <1>2, <1>7
    <3> QED
      BY <1>3, <1>4, <2>1, <3>1, WriteBehindLog, Zenon
  <2>3. LogOf(h) \in [1 .. n -> Trace] /\ LogOf(j) \in [1 .. n -> Trace]
    BY <1>2, MappedTypes
  <2> HIDE DEF n
  <2> QED
    BY <1>7, <2>2, <2>3, SameElements
<1>9. PendingOf(j) = <<>> /\ Len(PendingOf(j)) = 0
  <2>1. Current(j).nr_tasks = 0
    BY <1>1, <1>2, <1>5, <1>6 DEF Current
  <2> QED
    BY <1>1, <1>2, <2>1, MappedTypes
<1>10. UsedOf(j) = UsedOf(h)
  <2>1. UsedOf(j) \in Int /\ UsedOf(j) + 0 = j.nr_task
    BY <1>2, <1>9, MappedTypes
  <2>2. UsedOf(h) \in Int /\ UsedOf(h) + Current(h).nr_tasks = h.nr_task
    BY <1>1, MappedTypes
  <2>3. Current(h).nr_tasks \in Nat
    BY <1>1 DEF TraceEntry
  <2> QED
    BY <1>4, <1>7, <2>1, <2>2, <2>3
<1> QED
  BY <1>8, <1>9, <1>10 DEF j

\* A new session starts with an empty log.
LEMMA ClearedLog ==
  ASSUME NEW j \in Info, j.nr_trace = 0, j.nr_task = 0,
         \A k \in TraceIdx : j.trace_entries[k].nr_tasks = 0
  PROVE  LogOf(j) = <<>> /\ PendingOf(j) = <<>> /\ UsedOf(j) = 0
<1>1. 0 \in TraceIdx
  BY SizesAssumption DEF TraceIdx
<1>2. PendingOf(j) = TasksOf(j, 0)
  BY <1>1 DEF PendingOf
<1>3. TasksOf(j, 0) = <<>> /\ Len(TasksOf(j, 0)) = 0
  BY <1>1, TasksOfSlice
<1>4. LogOf(j) = <<>>
  BY DEF LogOf
<1> QED
  BY <1>2, <1>3, <1>4 DEF UsedOf

------------------------------------------------------------------------------
(* The steps of TraceLog, between two values of struct runqlat_info.        *)

Record == [pid : Tasks \cup {Idle}, runtime : 0 .. MaxTime]

OnWhileRoomStep(i, j, tasks, traces) ==
  j.pid = IF tasks >= MAX_TRACE_ENTRY_TASKS \/ traces >= MAX_TRACE_ENTRIES
          THEN INVALID ELSE i.pid

AheadStep(i, j, r) ==
  /\ i.pid # INVALID
  /\ PendingOf(j) = Append(PendingOf(i), r)
  /\ OnWhileRoomStep(i, j, UsedOf(i) + Len(PendingOf(j)), Len(LogOf(i)))
  /\ LogOf(j) = LogOf(i) /\ UsedOf(j) = UsedOf(i)

KeepStep(i, j, ahead, latency) ==
  /\ LogOf(j) = Append(LogOf(i), [latency |-> latency, tasks |-> ahead])
  /\ UsedOf(j) = UsedOf(i) + Len(ahead)
  /\ OnWhileRoomStep(i, j, UsedOf(j), Len(LogOf(j)))

ForgetStep(i, j, ahead) ==
  /\ LogOf(j) = LogOf(i) /\ UsedOf(j) = UsedOf(i)
  /\ OnWhileRoomStep(i, j, UsedOf(i) + Len(ahead), Len(LogOf(i)))

FinishStep(i, j, ahead) ==
  /\ i.pid # INVALID
  /\ ahead # <<>>
  /\ PendingOf(j) = <<>>
  /\ \/ \E latency \in 0 .. MaxTime : KeepStep(i, j, ahead, latency)
     \/ ForgetStep(i, j, ahead)

NoStep(i, j) == SameLog(i, j) /\ j.pid = i.pid

StopStep(i, j) == i.pid # INVALID /\ j.pid = INVALID /\ SameLog(i, j)

StartStep(i, j, p) ==
  /\ i.pid # p /\ j.pid = p
  /\ LogOf(j) = <<>> /\ UsedOf(j) = 0 /\ PendingOf(j) = <<>>

LogStep(i, j) ==
  \/ NoStep(i, j)
  \/ \E p \in Targets : StartStep(i, j, p)
  \/ StopStep(i, j)
  \/ \E r \in Record : AheadStep(i, j, r) \/ FinishStep(i, j, Append(PendingOf(i), r))
  \/ FinishStep(i, j, PendingOf(i))

\* They are the steps of TraceLog under the refinement mapping.
LEMMA LogStepIsStep ==
  ASSUME LogStep(info, info')
  PROVE  [Log!Next]_(Log!logVars)
<1>1. CASE NoStep(info, info')
  BY <1>1 DEF NoStep, SameLog, Log!logVars
<1>2. ASSUME NEW p \in Targets, StartStep(info, info', p)
      PROVE  Log!Start(p)
  BY <1>2 DEF StartStep, Log!Start
<1>3. CASE StopStep(info, info')
  BY <1>3 DEF StopStep, SameLog, Log!Next, Log!Stop
<1>4. ASSUME NEW r \in Record, AheadStep(info, info', r)
      PROVE  Log!Ahead(r)
  BY <1>4 DEF AheadStep, OnWhileRoomStep, Log!Ahead, Log!OnWhileRoom
<1>5. ASSUME NEW ahead, FinishStep(info, info', ahead)
      PROVE  Log!Finish(ahead)
  BY <1>5 DEF FinishStep, KeepStep, ForgetStep, OnWhileRoomStep,
              Log!Finish, Log!Keep, Log!Forget, Log!OnWhileRoom
<1> QED
  BY <1>1, <1>2, <1>3, <1>4, <1>5 DEF LogStep, Log!Next, Record

------------------------------------------------------------------------------
(* The locked sections take the steps of TraceLog.                          *)

\* A forced stop leaves the log alone.
LEMMA ForceDisableLog ==
  ASSUME NEW i \in Info
  PROVE  SameLog(i, ForceDisable(i)) /\ ForceDisable(i).pid = INVALID
<1>1. /\ SameContents(i, ForceDisable(i)) /\ ForceDisable(i).nr_task = i.nr_task
      /\ ForceDisable(i).pid = INVALID
  BY Zenon DEF ForceDisable, runqlat_info_reset, SameContents, Info
<1> QED
  BY <1>1, SameContentsLog

\* Charging an interval adds one task to the current wait, and ends the session
\* when it was the last the buffer had room for.
LEMMA ChargeLog ==
  ASSUME NEW i, NEW t \in 0 .. MaxTime, Good(i, t), HasRoom(i), i.pid # INVALID,
         NEW p \in Tasks \cup {Idle}
  PROVE  Charge(i, p, t) = i \/ \E r \in Record : AheadStep(i, Charge(i, p, t), r)
<1> DEFINE rt == t - i.run_start
           r == [pid |-> p, runtime |-> rt]
           j == Recorded(i, p, rt)
           l == Charge(i, p, t)
<1>1. i.run_start = 0 => l = i
  BY DEF Charge
<1>2. CASE i.run_start # 0
  <2>1. l = IF j.nr_task >= MAX_TRACE_ENTRY_TASKS THEN ForceDisable(j) ELSE j
    BY <1>2 DEF Charge, record_task, Recorded
  <2>2. t \in Nat /\ MaxTime \in Nat
    BY SizesAssumption
  <2>3. rt \in Nat /\ rt <= MaxTime
    <3>1. i.run_start \in Nat /\ i.run_start <= t
      BY InfoFields DEF Good, Shape, Stamps
    <3> QED
      BY <2>2, <3>1
  <2>4. r \in Record
    BY <2>2, <2>3 DEF Record
  <2>5. Shape(i)
    BY DEF Good
  <2> HIDE DEF rt
  <2>6. /\ LogOf(j) = LogOf(i) /\ PendingOf(j) = Append(PendingOf(i), r)
        /\ UsedOf(j) = UsedOf(i)
    BY <2>3, <2>5, RecordedLog
  <2>7. Shape(j)
    BY <2>3, <2>5, RecordedShape
  <2>8. j \in Info /\ j.pid = i.pid /\ j.nr_trace = i.nr_trace
    BY <2>3, <2>5, RecordedFields, Zenon
  <2>9. /\ Len(LogOf(i)) = i.nr_trace /\ UsedOf(j) + Len(PendingOf(j)) = j.nr_task
        /\ ~(i.nr_trace >= MAX_TRACE_ENTRIES)
    <3>1. i.nr_trace \in Nat
      BY <2>5, SliceBounds
    <3> QED
      BY <2>5, <2>7, <3>1, MappedTypes, SizesAssumption DEF HasRoom
  <2> HIDE DEF j, l, r
  <2>10. SameLog(j, ForceDisable(j)) /\ ForceDisable(j).pid = INVALID
    BY <2>8, ForceDisableLog
  <2>11. /\ LogOf(l) = LogOf(j) /\ PendingOf(l) = PendingOf(j) /\ UsedOf(l) = UsedOf(j)
         /\ l.pid = IF j.nr_task >= MAX_TRACE_ENTRY_TASKS THEN INVALID ELSE i.pid
    BY <2>1, <2>8, <2>10 DEF SameLog
  <2>12. AheadStep(i, l, r)
    BY <2>6, <2>9, <2>11 DEF AheadStep, OnWhileRoomStep
  <2> QED
    BY <2>4, <2>12 DEF l
<1> QED
  BY <1>1, <1>2

\* The end of a wait keeps or forgets its tasks, and ends the session when it
\* kept the last trace the buffer had room for.
LEMMA CommitLog ==
  ASSUME NEW i, NEW t \in Nat, Good(i, t), i.nr_trace < MAX_TRACE_ENTRIES,
         NEW latency \in Nat
  PROVE  LET j == record_task_commit(i, latency)
         IN  \/ NoStep(i, j) /\ PendingOf(i) = <<>>
             \/ /\ PendingOf(i) # <<>> /\ PendingOf(j) = <<>>
                /\ \/ /\ LogOf(j) = Append(LogOf(i),
                                           [latency |-> latency, tasks |-> PendingOf(i)])
                      /\ UsedOf(j) = UsedOf(i) + Len(PendingOf(i))
                      /\ j.pid = IF Len(LogOf(j)) >= MAX_TRACE_ENTRIES
                                 THEN INVALID ELSE i.pid
                   \/ LogOf(j) = LogOf(i) /\ UsedOf(j) = UsedOf(i) /\ j.pid = i.pid
<1> DEFINE h == latency_histogram_store(i, latency)
           kept == KeptTrace(h, latency)
           dropped == DroppedTrace(h)
           j == record_task_commit(i, latency)
           Kept1 == /\ LogOf(j) = Append(LogOf(i),
                                         [latency |-> latency, tasks |-> PendingOf(i)])
                    /\ UsedOf(j) = UsedOf(i) + Len(PendingOf(i))
                    /\ j.pid = IF Len(LogOf(j)) >= MAX_TRACE_ENTRIES
                               THEN INVALID ELSE i.pid
           Forgotten == LogOf(j) = LogOf(i) /\ UsedOf(j) = UsedOf(i) /\ j.pid = i.pid
<1>1. /\ Shape(h) /\ SameBuffers(i, h) /\ h.task_entries = i.task_entries
  BY HistogramGood DEF Good
<1>2. i \in Info
  BY DEF Good, Shape
<1>3. h.pid = i.pid
  BY <1>2 DEF latency_histogram_store, Info
<1>4. j = IF Current(h).nr_tasks = 0 THEN h
          ELSE IF latency < h.threshold THEN dropped
          ELSE IF kept.nr_trace >= MAX_TRACE_ENTRIES THEN ForceDisable(kept)
          ELSE kept
  BY DEF record_task_commit, KeptTrace, DroppedTrace
<1> HIDE DEF h, j
<1>5. SameLog(i, h) /\ h.nr_trace = i.nr_trace
  BY <1>1, SameContentsLog DEF SameBuffers, SameContents
<1>6. Len(PendingOf(h)) = Current(h).nr_tasks /\ (Len(PendingOf(h)) = 0 => PendingOf(h) = <<>>)
  <2>1. h.nr_trace \in TraceIdx
    BY <1>1, <1>2, <1>5, InfoFields, SizesAssumption DEF TraceIdx
  <2> QED
    BY <1>1, <2>1, MappedTypes
<1>7. CASE Current(h).nr_tasks = 0
  <2>1. NoStep(i, j) /\ PendingOf(i) = <<>>
    BY <1>3, <1>4, <1>5, <1>6, <1>7 DEF NoStep, SameLog
  <2> QED
    BY <2>1 DEF j
<1>8. CASE Current(h).nr_tasks # 0
  <2>1. PendingOf(i) # <<>>
    BY <1>5, <1>6, <1>8 DEF SameLog
  <2>2. CASE latency < h.threshold
    <3>1. /\ LogOf(dropped) = LogOf(h) /\ PendingOf(dropped) = <<>>
          /\ UsedOf(dropped) = UsedOf(h) /\ dropped.pid = h.pid
      BY <1>1, <1>5, <1>8, DroppedLog, DroppedShape
    <3> HIDE DEF dropped, kept
    <3>2. PendingOf(j) = <<>> /\ Forgotten
      BY <1>3, <1>4, <1>5, <1>8, <2>2, <3>1 DEF SameLog
    <3> QED
      BY <2>1, <3>2 DEF j
  <2>3. CASE ~(latency < h.threshold)
    <3>1. /\ LogOf(kept) = Append(LogOf(h), [latency |-> latency, tasks |-> PendingOf(h)])
          /\ PendingOf(kept) = <<>> /\ UsedOf(kept) = UsedOf(h) + Len(PendingOf(h))
      BY <1>1, <1>5, <1>8, KeptLog
    <3>2. Shape(kept) /\ kept.pid = h.pid
      BY <1>1, <1>5, <1>8, KeptShape
    <3>3. Len(LogOf(kept)) = kept.nr_trace /\ kept \in Info
      BY <3>2, MappedTypes DEF Shape
    <3> HIDE DEF dropped, kept
    <3>4. SameLog(kept, ForceDisable(kept)) /\ ForceDisable(kept).pid = INVALID
      BY <3>3, ForceDisableLog
    <3>5. SameLog(kept, j)
      BY <1>4, <1>8, <2>3, <3>4 DEF SameLog
    <3>6. j.pid = IF kept.nr_trace >= MAX_TRACE_ENTRIES THEN INVALID ELSE i.pid
      BY <1>3, <1>4, <1>8, <2>3, <3>2, <3>4
    <3>7. PendingOf(j) = <<>> /\ Kept1
      BY <1>5, <3>1, <3>3, <3>5, <3>6 DEF SameLog
    <3> QED
      BY <2>1, <3>7 DEF j
  <2> QED
    BY <2>2, <2>3
<1> QED
  BY <1>7, <1>8

\* The end of a wait, after its last task was added or not, is one step.
LEMMA FinishFrom ==
  ASSUME NEW i, NEW k, NEW j, NEW latency \in 0 .. MaxTime, i.pid # INVALID,
         LogOf(k) = LogOf(i), UsedOf(k) = UsedOf(i),
         ~(Len(LogOf(i)) >= MAX_TRACE_ENTRIES),
         k.pid = IF UsedOf(i) + Len(PendingOf(k)) >= MAX_TRACE_ENTRY_TASKS
                 THEN INVALID ELSE i.pid,
         PendingOf(k) # <<>>, PendingOf(j) = <<>>,
         \/ /\ LogOf(j) = Append(LogOf(k), [latency |-> latency, tasks |-> PendingOf(k)])
            /\ UsedOf(j) = UsedOf(k) + Len(PendingOf(k))
            /\ j.pid = IF Len(LogOf(j)) >= MAX_TRACE_ENTRIES THEN INVALID ELSE k.pid
         \/ LogOf(j) = LogOf(k) /\ UsedOf(j) = UsedOf(k) /\ j.pid = k.pid
  PROVE  FinishStep(i, j, PendingOf(k))
<1>1. CASE /\ LogOf(j) = Append(LogOf(k), [latency |-> latency, tasks |-> PendingOf(k)])
           /\ UsedOf(j) = UsedOf(k) + Len(PendingOf(k))
           /\ j.pid = IF Len(LogOf(j)) >= MAX_TRACE_ENTRIES THEN INVALID ELSE k.pid
  <2>1. KeepStep(i, j, PendingOf(k), latency)
    BY <1>1 DEF KeepStep, OnWhileRoomStep
  <2> QED
    BY <2>1 DEF FinishStep
<1>2. CASE LogOf(j) = LogOf(k) /\ UsedOf(j) = UsedOf(k) /\ j.pid = k.pid
  <2>1. ForgetStep(i, j, PendingOf(k))
    BY <1>2 DEF ForgetStep, OnWhileRoomStep
  <2> QED
    BY <2>1 DEF FinishStep
<1> QED
  BY <1>1, <1>2

\* A switch on the watched CPU adds a task, or adds it and finishes the wait.
LEMMA SwitchWatchedLog ==
  ASSUME NEW i, NEW t \in 0 .. MaxTime, Good(i, t), NEW c \in Cpus,
         NEW prev \in Tasks \cup {Idle}, NEW next \in Tasks \cup {Idle},
         NEW runnable \in BOOLEAN
  PROVE  LogStep(i, SwitchWatched(i, c, prev, next, runnable, t))
<1> DEFINE u == UpdateCurr(i, next)
           k == Charge(u, prev, t)
           j == SwitchWatched(i, c, prev, next, runnable, t)
<1>0. i \in Info /\ t \in Nat /\ MaxTime \in Nat /\ t <= MaxTime
  BY SizesAssumption DEF Good, Shape
<1>1. CASE i.cpu # c \/ i.pid = INVALID
  BY <1>1 DEF SwitchWatched, LogStep, NoStep, SameLog
<1>2. CASE ~(i.cpu # c \/ i.pid = INVALID)
  <2>1. Good(u, t) /\ SameBuffers(i, u) /\ u.pid = i.pid
    BY <1>0, UpdateCurrGood
  <2>2. SameLog(i, u)
    <3>1. u.task_entries = i.task_entries
      BY <1>0 DEF UpdateCurr, Info
    <3> QED
      BY <2>1, <3>1, SameContentsLog DEF SameBuffers, SameContents
  <2>3. HasRoom(u)
    BY <1>2, <2>1 DEF Good, SessionHasRoom, HasRoom
  <2>4. Good(k, t) /\ k.nr_trace < MAX_TRACE_ENTRIES
    BY <1>0, <2>1, <2>3, ChargeGood DEF HasRoom
  <2>5. k = u \/ \E r \in Record : AheadStep(u, k, r)
    BY <1>2, <2>1, <2>3, ChargeLog
  <2>6. j = IF u.pid = next THEN record_task_commit(k, t - k.rq_start)
            ELSE IF u.pid # prev THEN [k EXCEPT !.run_start = t]
            ELSE IF runnable THEN StartWait(u, t)
            ELSE runqlat_info_reset(u)
    BY <1>2 DEF SwitchWatched
  <2>7. /\ Len(LogOf(u)) = u.nr_trace /\ u.nr_trace \in Nat /\ u.nr_task \in Nat
        /\ UsedOf(u) + Len(PendingOf(u)) = u.nr_task
        /\ UsedOf(u) \in Int /\ PendingOf(u) \in Seq(TaskEntry) /\ LogOf(u) \in Seq(Trace)
    BY <2>1, MappedTypes, SliceBounds DEF Good
  <2> HIDE DEF u, k, j
  <2>8. u \in Info /\ k \in Info
    BY <2>1, <2>4 DEF Good, Shape
  <2>9. ~(Len(LogOf(u)) >= MAX_TRACE_ENTRIES)
    BY <2>3, <2>7, SizesAssumption DEF HasRoom
  <2>10. LogStep(u, j)
    <3>1. CASE u.pid = next
      <4>1. t - k.rq_start \in 0 .. MaxTime
        <5>1. k.rq_start \in Nat /\ k.rq_start <= t
          BY <2>4, <2>8, InfoFields DEF Good, Stamps
        <5> QED
          BY <1>0, <5>1
      <4> DEFINE latency == t - k.rq_start
      <4>2. latency \in Nat /\ latency \in 0 .. MaxTime
        BY <1>0, <4>1
      <4>3. \/ NoStep(k, j) /\ PendingOf(k) = <<>>
            \/ /\ PendingOf(k) # <<>> /\ PendingOf(j) = <<>>
               /\ \/ /\ LogOf(j) = Append(LogOf(k),
                                          [latency |-> latency, tasks |-> PendingOf(k)])
                     /\ UsedOf(j) = UsedOf(k) + Len(PendingOf(k))
                     /\ j.pid = IF Len(LogOf(j)) >= MAX_TRACE_ENTRIES
                                THEN INVALID ELSE k.pid
                  \/ LogOf(j) = LogOf(k) /\ UsedOf(j) = UsedOf(k) /\ j.pid = k.pid
        <5>1. j = record_task_commit(k, latency)
          BY <2>6, <3>1
        <5> HIDE DEF latency
        <5> QED
          BY <1>0, <2>4, <4>2, <5>1, CommitLog
      <4> HIDE DEF latency
      <4>4. CASE k = u
        <5>1. CASE NoStep(k, j)
          BY <4>4, <5>1 DEF LogStep
        <5>2. CASE ~NoStep(k, j)
          <6>1. u.pid = IF UsedOf(u) + Len(PendingOf(u)) >= MAX_TRACE_ENTRY_TASKS
                        THEN INVALID ELSE u.pid
            BY <2>3, <2>7, SizesAssumption DEF HasRoom
          <6>2. FinishStep(u, j, PendingOf(k))
            BY <1>2, <2>1, <2>9, <4>2, <4>3, <4>4, <5>2, <6>1, FinishFrom
          <6> QED
            BY <4>4, <6>2 DEF LogStep
        <5> QED
          BY <5>1, <5>2
      <4>5. ASSUME NEW r \in Record, AheadStep(u, k, r)
            PROVE  LogStep(u, j)
        <5>1. /\ PendingOf(k) = Append(PendingOf(u), r)
              /\ LogOf(k) = LogOf(u) /\ UsedOf(k) = UsedOf(u)
              /\ k.pid = IF UsedOf(u) + Len(PendingOf(k)) >= MAX_TRACE_ENTRY_TASKS
                         THEN INVALID ELSE u.pid
          BY <2>9, <4>5 DEF AheadStep, OnWhileRoomStep
        <5>2. PendingOf(k) # <<>>
          <6>1. Len(PendingOf(k)) = Len(PendingOf(u)) + 1 /\ Len(PendingOf(u)) \in Nat
            BY <2>7, <5>1
          <6> QED
            BY <6>1
        <5>3. FinishStep(u, j, PendingOf(k))
          BY <1>2, <2>1, <2>9, <4>2, <4>3, <5>1, <5>2, FinishFrom, Zenon
        <5> QED
          BY <4>5, <5>1, <5>3 DEF LogStep
      <4> QED
        BY <2>5, <4>4, <4>5
    <3>2. CASE u.pid # next /\ u.pid # prev
      <4>1. SameLog(k, j) /\ j.pid = k.pid
        <5>1. j = [k EXCEPT !.run_start = t]
          BY <2>6, <3>2
        <5>2. SameContents(k, j) /\ j.nr_task = k.nr_task /\ j.pid = k.pid
          BY <2>8, <5>1 DEF SameContents, Info
        <5> QED
          BY <5>2, SameContentsLog
      <4>2. CASE k = u
        BY <4>1, <4>2 DEF LogStep, NoStep
      <4>3. ASSUME NEW r \in Record, AheadStep(u, k, r)
            PROVE  AheadStep(u, j, r)
        BY <4>1, <4>3 DEF AheadStep, OnWhileRoomStep, SameLog
      <4> QED
        BY <2>5, <4>2, <4>3 DEF LogStep
    <3>3. CASE u.pid # next /\ u.pid = prev
      <4>1. SameContents(u, j) /\ j.nr_task = u.nr_task /\ j.pid = u.pid
        <5>1. j \in {StartWait(u, t), runqlat_info_reset(u)}
          BY <2>6, <3>3
        <5> QED
          BY <2>8, <5>1, Zenon DEF StartWait, runqlat_info_reset, SameContents, Info
      <4> QED
        BY <4>1, SameContentsLog DEF LogStep, NoStep
    <3> QED
      BY <3>1, <3>2, <3>3
  <2>11. LogStep(i, j)
    <3>1. LogOf(u) = LogOf(i) /\ PendingOf(u) = PendingOf(i) /\ UsedOf(u) = UsedOf(i)
      BY <2>2 DEF SameLog
    <3> QED
      BY <2>1, <2>10, <3>1
         DEF LogStep, NoStep, SameLog, StartStep, StopStep, AheadStep, FinishStep,
             KeepStep, ForgetStep, OnWhileRoomStep
  <2> QED
    BY <2>11 DEF j
<1> QED
  BY <1>1, <1>2

\* A migration adds the task that ran so far.
LEMMA MigrateLog ==
  ASSUME NEW i, NEW t \in 0 .. MaxTime, Good(i, t), NEW c \in Cpus, NEW p \in Tasks
  PROVE  LogStep(i, Migrate(i, p, c, t))
<1> DEFINE k == IF i.curr # NULL THEN Charge(i, i.curr, t) ELSE i
           j == [k EXCEPT !.cpu = c, !.run_start = t]
<1>0. i \in Info /\ t \in Nat
  BY SizesAssumption DEF Good, Shape
<1>1. CASE p # i.pid \/ i.cpu = INVALID
  BY <1>1 DEF Migrate, LogStep, NoStep, SameLog
<1>2. CASE ~(p # i.pid \/ i.cpu = INVALID)
  <2>1. HasRoom(i) /\ i.pid # INVALID
    BY <1>2, SetsAssumption DEF Good, SessionHasRoom, HasRoom
  <2>2. i.curr # NULL => i.curr \in Tasks \cup {Idle}
    BY <1>0, InfoFields
  <2>3. Good(k, t)
    BY <1>0, <2>1, <2>2, ChargeGood
  <2>4. k = i \/ \E r \in Record : AheadStep(i, k, r)
    BY <2>1, <2>2, ChargeLog
  <2>5. Migrate(i, p, c, t) = j
    BY <1>2 DEF Migrate
  <2> HIDE DEF k
  <2>6. k \in Info
    BY <2>3 DEF Good, Shape
  <2>7. SameContents(k, j) /\ j.nr_task = k.nr_task /\ j.pid = k.pid
    BY <2>6 DEF SameContents, Info
  <2> HIDE DEF j
  <2>8. SameLog(k, j) /\ j.pid = k.pid
    BY <2>7, SameContentsLog
  <2>9. CASE k = i
    BY <2>5, <2>8, <2>9 DEF LogStep, NoStep
  <2>10. ASSUME NEW r \in Record, AheadStep(i, k, r)
         PROVE  AheadStep(i, j, r)
    BY <2>8, <2>10 DEF AheadStep, OnWhileRoomStep, SameLog
  <2> QED
    BY <2>4, <2>5, <2>9, <2>10 DEF LogStep
<1> QED
  BY <1>1, <1>2

\* A write of pid stops the session or starts a new one.
LEMMA StorePidLog ==
  ASSUME NEW i \in Info, NEW pid \in Targets \cup {INVALID}
  PROVE  LogStep(i, StorePid(i, pid))
<1> DEFINE j == StorePid(i, pid)
<1>1. CASE i.pid = pid
  BY <1>1 DEF StorePid, LogStep, NoStep, SameLog
<1>2. CASE i.pid # pid /\ pid = INVALID
  <2>1. SameContents(i, j) /\ j.nr_task = i.nr_task /\ j.pid = INVALID
    BY <1>2, Zenon DEF StorePid, runqlat_info_reset, SameContents, Info
  <2> QED
    BY <1>2, <2>1, SameContentsLog DEF LogStep, StopStep
<1>3. CASE i.pid # pid /\ pid # INVALID
  <2>1. /\ j.pid = pid /\ j.nr_trace = 0 /\ j.nr_task = 0
        /\ j.trace_entries = [k \in TraceIdx |-> EmptyTrace]
    BY <1>3 DEF StorePid, Cleared, runqlat_info_reset, Info
  <2>2. \A k \in TraceIdx : j.trace_entries[k].nr_tasks = 0
    BY <2>1 DEF EmptyTrace
  <2>3. j \in Info
    <3>1. /\ [k \in TraceIdx |-> EmptyTrace] \in [TraceIdx -> TraceEntry]
          /\ [k \in TaskIdx |-> EmptyTask] \in [TaskIdx -> TaskEntry]
          /\ [k \in HistIdx |-> 0] \in [HistIdx -> Nat]
      BY DEF EmptyTrace, EmptyTask, TraceEntry, TaskEntry
    <3>2. 0 \in 0 .. MAX_TRACE_ENTRIES /\ 0 \in 0 .. MAX_TRACE_ENTRY_TASKS
      BY SizesAssumption
    <3>3. pid \in Tasks \cup {INVALID}
      BY SetsAssumption
    <3>4. Cleared(i) \in Info
      BY <3>1, <3>2, Zenon DEF Cleared, Info
    <3>5. j = [runqlat_info_reset(Cleared(i)) EXCEPT !.pid = pid]
      BY <1>3 DEF StorePid
    <3> HIDE DEF j
    <3> QED
      BY <3>3, <3>4, <3>5, Zenon DEF runqlat_info_reset, Info
  <2> HIDE DEF j
  <2>4. StartStep(i, j, pid)
    BY <1>3, <2>1, <2>2, <2>3, ClearedLog DEF StartStep
  <2> QED
    BY <1>3, <2>4 DEF LogStep, j
<1> QED
  BY <1>1, <1>2, <1>3

------------------------------------------------------------------------------
(* The clock stays below its bound and writers ask for targets only.        *)

Bounded == now <= MaxTime /\ writer \in [Writers -> Targets \cup {INVALID, NULL}]

\* The clock starts at 1 and no writer has written.
LEMMA InitBounded == Init => Bounded
  BY SizesAssumption DEF Init, Bounded

\* Only the scheduler moves the clock, and only trace_pid_store notes a pid.
LEMMA StepBounded == Bounded /\ [Next]_vars => Bounded'
<1> SUFFICES ASSUME Bounded, [Next]_vars PROVE Bounded'
  OBVIOUS
<1>1. CASE Scheduler
  <2>1. writer' = writer /\ (now' = now \/ now' <= MaxTime)
    BY <1>1, Zenon DEF Scheduler, sched_wakeup, sched_switch, sched_migrate_task, users
  <2> QED
    BY <2>1 DEF Bounded
<1>2. CASE Probes
  BY <1>2 DEF Probes, probe_sched_wakeup, probe_sched_switch, probe_sched_migrate_task,
              users, sched, Bounded
<1>3. CASE Proc
  BY <1>3 DEF Proc, trace_pid_store, trace_pid_store_locked, threshold_store,
              runqlat_show, runqlat_show_locked, users, sched, Bounded
<1>4. CASE UNCHANGED vars
  BY <1>4 DEF vars, Bounded
<1> QED
  BY <1>1, <1>2, <1>3, <1>4 DEF Next

\* Every step is a step of the log or leaves it alone.
LEMMA StepLog == IInv /\ Bounded /\ [Next]_vars => LogStep(info, info')
<1> SUFFICES ASSUME IInv, Bounded, [Next]_vars PROVE LogStep(info, info')
  OBVIOUS
<1>0. /\ now \in 0 .. MaxTime /\ now \in Nat /\ info \in Info /\ Good(info, now)
  BY SizesAssumption DEF IInv, TypeOK, Bounded
<1>1. ASSUME SameContents(info, info'), info'.nr_task = info.nr_task, info'.pid = info.pid
      PROVE  LogStep(info, info')
  BY <1>1, SameContentsLog DEF LogStep, NoStep
<1>2. ASSUME NEW x \in Cpus, probe_sched_wakeup(x)
      PROVE  LogStep(info, info')
  <2>1. SameContents(info, info') /\ info'.nr_task = info.nr_task /\ info'.pid = info.pid
    BY <1>0, <1>2 DEF probe_sched_wakeup, Wakeup, StartWait, SameContents, Info
  <2> QED
    BY <1>1, <2>1
<1>3. ASSUME NEW c \in Cpus, probe_sched_switch(c)
      PROVE  LogStep(info, info')
  <2>1. /\ probe[c].prev \in Tasks \cup {Idle}
        /\ probe[c].next \in Tasks \cup {Idle}
        /\ probe[c].runnable \in BOOLEAN /\ probe[c].watched \in BOOLEAN
    BY <1>3 DEF IInv, TypeOK, probe_sched_switch, Probe
  <2>2. CASE probe[c].watched
    BY <1>0, <1>3, <2>1, <2>2, SwitchWatchedLog, Zenon DEF probe_sched_switch
  <2>3. CASE ~probe[c].watched
    <3>1. info' = SwitchUnwatched(info, c, probe[c].prev, probe[c].next, now)
      BY <1>3, <2>3 DEF probe_sched_switch
    <3>2. SameContents(info, info') /\ info'.nr_task = info.nr_task /\ info'.pid = info.pid
      BY <1>0, <3>1 DEF SwitchUnwatched, UpdateCurr, StartWait, SameContents, Info
    <3> QED
      BY <1>1, <3>2
  <2> QED
    BY <2>1, <2>2, <2>3
<1>4. ASSUME NEW x \in Cpus, probe_sched_migrate_task(x)
      PROVE  LogStep(info, info')
  <2>1. probe[x].p \in Tasks /\ probe[x].cpu \in Cpus
    BY <1>4 DEF IInv, TypeOK, probe_sched_migrate_task, Probe
  <2> QED
    BY <1>0, <1>4, <2>1, MigrateLog DEF probe_sched_migrate_task
<1>5. ASSUME NEW w \in Writers, trace_pid_store_locked(w)
      PROVE  LogStep(info, info')
  <2>1. writer[w] \in Targets \cup {INVALID}
    BY <1>5 DEF Bounded, trace_pid_store_locked
  <2> QED
    BY <1>0, <1>5, <2>1, StorePidLog DEF trace_pid_store_locked
<1>6. ASSUME NEW th \in Thresholds, threshold_store(th)
      PROVE  LogStep(info, info')
  <2>1. SameContents(info, info') /\ info'.nr_task = info.nr_task /\ info'.pid = info.pid
    BY <1>0, <1>6 DEF threshold_store, SameContents, Info
  <2> QED
    BY <1>1, <2>1
<1>7. \/ info' = info
      \/ \E x \in Cpus : \/ probe_sched_wakeup(x)
                         \/ probe_sched_switch(x)
                         \/ probe_sched_migrate_task(x)
      \/ \E w \in Writers : trace_pid_store_locked(w)
      \/ \E th \in Thresholds : threshold_store(th)
  BY Zenon DEF Next, Scheduler, Probes, Proc, vars, sched_wakeup, sched_switch,
         sched_migrate_task, trace_pid_store, runqlat_show, runqlat_show_locked
<1> QED
  BY <1>1, <1>2, <1>3, <1>4, <1>5, <1>6, <1>7 DEF SameContents

\* The module starts with an empty log and no session.
LEMMA InitLog == Init => Log!Init
<1> SUFFICES ASSUME Init PROVE Log!Init
  OBVIOUS
<1>1. info \in Info
  BY InitIInv DEF IInv, TypeOK
<1>2. /\ info.pid = INVALID /\ info.nr_trace = 0 /\ info.nr_task = 0
      /\ \A k \in TraceIdx : info.trace_entries[k].nr_tasks = 0
  BY DEF Init, InitInfo, EmptyTrace
<1> QED
  BY <1>1, <1>2, ClearedLog DEF Log!Init

\* trace_runqlat.c implements the log of kept waits: a wait is kept or
\* forgotten as a whole, with its tasks in order, and a session ends only when
\* the user ends it or a buffer is full.
THEOREM Refines == Spec => ImplementsTraceLog
<1>1. IInv /\ Bounded /\ [Next]_vars => [Log!Next]_(Log!logVars)
  BY StepLog, LogStepIsStep
<1>2. Spec => []Bounded
  BY InitBounded, StepBounded, PTL DEF Spec
<1> QED
  BY <1>1, <1>2, Inductive, InitLog, PTL DEF Spec, ImplementsTraceLog, Log!Spec
==============================================================================
