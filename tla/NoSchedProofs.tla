---------------------------- MODULE NoSchedProofs ----------------------------
(* Machine-checked proofs about NoSched, for every number of CPUs, tasks and *)
(* writers, every size of the buffers and every depth of a stack.            *)
EXTENDS NoSched, TLAPS

(* The inductive invariant of one struct per_cpu_stack_trace. *)

\* Its type, packed frames, and a time stamp that is not in the future, without
\* which a duration would not be a natural number.
Good(s, t) == s \in PerCpu /\ Packed(s) /\ s.last_timestamp <= t

\* The records are of different stretches, none later than the one that began at
\* sw.  The idle task is never recorded, and a stretch that has its record is
\* not recorded again: either skip is set, or the buffer is full.
Once(s, sw, idle) ==
  /\ \A j, k \in Used(s) : j # k => s.stack[j].of # s.stack[k].of
  /\ \A k \in Used(s) : /\ s.stack[k].of \in Nat /\ s.stack[k].of <= sw
                        /\ idle => s.stack[k].of < sw
  /\ (\E k \in Used(s) : s.stack[k].of = sw) => s.skip # NULL \/ ~HasRoom(s)

IInv ==
  /\ TypeOK
  /\ \A c \in Cpus : /\ Good(stack_trace[c], now)
                     /\ Once(stack_trace[c], switched[c], run[c] = Idle)
                     /\ switched[c] <= now

------------------------------------------------------------------------------
(* struct per_cpu_stack_trace. *)

\* The type of a field of per_cpu_stack_trace.
LEMMA PerCpuFields ==
  ASSUME NEW s \in PerCpu
  PROVE  /\ s.last_timestamp \in Nat
         /\ s.skip \in Tasks \cup {NULL}
         /\ s.nr_stack_entries \in 0 .. MAX_STACE_TRACE_ENTRIES
         /\ s.nr_entries \in 0 .. MAX_TRACE_ENTRIES
         /\ s.stack \in [StackIdx -> Slot]
         /\ s.hist \in [HistIdx -> Nat]
         /\ \A k \in StackIdx : /\ s.stack[k].entries \in 0 .. MAX_TRACE_ENTRIES
                                /\ s.stack[k].nr_entries \in 0 .. MAX_TRACE_ENTRIES
  BY DEF PerCpu, Slot

\* Whether the frames are packed depends on the counters and on where each
\* slot's frames are.
LEMMA SameFrames ==
  ASSUME NEW s \in PerCpu, NEW j, Packed(s),
         j.nr_stack_entries = s.nr_stack_entries,
         j.nr_entries = s.nr_entries,
         \A k \in StackIdx : /\ j.stack[k].entries = s.stack[k].entries
                             /\ j.stack[k].nr_entries = s.stack[k].nr_entries
  PROVE  Packed(j)
  BY DEF Packed, Used

\* The same stretches are recorded in the same slots.
SameRecords(s, j) ==
  /\ j.nr_stack_entries = s.nr_stack_entries
  /\ \A k \in StackIdx : j.stack[k].of = s.stack[k].of

\* A step within a stretch that records nothing.
LEMMA SameOnce ==
  ASSUME NEW s, NEW j, NEW sw, NEW idle, Once(s, sw, idle), SameRecords(s, j),
         j.skip = s.skip, j.nr_entries = s.nr_entries
  PROVE  Once(j, sw, idle)
  BY DEF Once, SameRecords, HasRoom, Used

\* A new stretch begins, later than all that are recorded.
LEMMA NextOnce ==
  ASSUME NEW s, NEW j, NEW sw \in Nat, NEW t \in Nat, NEW idle \in BOOLEAN,
         NEW other \in BOOLEAN, Once(s, sw, idle), SameRecords(s, j),
         sw <= t, sw < t \/ idle
  PROVE  Once(j, t, other)
<1>1. \A k \in Used(j) : k \in Used(s) /\ j.stack[k].of = s.stack[k].of
  BY DEF SameRecords, Used
<1>2. \A k \in Used(s) : s.stack[k].of \in Nat /\ s.stack[k].of < t
  BY DEF Once
<1>3. \A k \in Used(j) : j.stack[k].of \in Nat /\ j.stack[k].of < t
  BY <1>1, <1>2
<1>4. \A k, l \in Used(j) : k # l => j.stack[k].of # j.stack[l].of
  BY <1>1 DEF Once
<1> QED
  BY <1>3, <1>4 DEF Once

\* The buffers are empty when the module is loaded.
LEMMA InitStackGood ==
  Good(InitStack, 0) /\ \A sw, idle : Once(InitStack, sw, idle)
<1> USE NoSchedAssumption
<1>1. EmptySlot \in Slot
  BY DEF EmptySlot, Slot
<1>2. InitStack \in PerCpu
  BY <1>1 DEF InitStack, PerCpu
<1>3. Packed(InitStack)
  BY DEF InitStack, Packed, Used, StackIdx
<1>4. Used(InitStack) = {}
  BY DEF InitStack, Used, StackIdx
<1> QED
  BY <1>2, <1>3, <1>4 DEF Good, Once, InitStack

\* __stack_trace_record puts the new stack behind the last one, or, without
\* room, leaves everything as it is.
LEMMA RecordGood ==
  ASSUME NEW t \in Nat, NEW s, Good(s, t), NEW p \in Tasks, NEW duration \in Nat,
         NEW depth \in Nat, NEW of \in Nat
  PROVE  LET r == __stack_trace_record(s, p, duration, depth, of)
             m == s.nr_stack_entries
         IN  /\ Good(r.s, t)
             /\ r.s.last_timestamp = s.last_timestamp /\ r.s.skip = s.skip
             /\ ~HasRoom(s) => r = [s |-> s, ret |-> FALSE]
             /\ HasRoom(s) => /\ r.s.nr_stack_entries = m + 1
                              /\ m \in StackIdx
                              /\ r.s.stack[m].of = of
                              /\ \A k \in StackIdx \ {m} : r.s.stack[k] = s.stack[k]
                              /\ ~r.ret => ~HasRoom(r.s)
<1> USE NoSchedAssumption
<1> DEFINE n == Frames(s, depth)
           slot == [pid |-> p, duration |-> duration, entries |-> s.nr_entries,
                    nr_entries |-> n, of |-> of]
           m == s.nr_stack_entries
           j == [s EXCEPT !.stack[m] = slot, !.nr_entries = @ + n,
                          !.nr_stack_entries = @ + 1]
<1>1. CASE ~HasRoom(s)
  BY <1>1, Zenon DEF __stack_trace_record
<1>2. CASE HasRoom(s)
  <2>1. s \in PerCpu /\ Packed(s) /\ s.last_timestamp <= t
    BY DEF Good
  <2>2. /\ m \in StackIdx
        /\ n \in 0 .. MAX_TRACE_ENTRIES /\ s.nr_entries + n \in 0 .. MAX_TRACE_ENTRIES
    BY <1>2, <2>1, PerCpuFields, SMTT(30) DEF HasRoom, Frames, FramesLeft, StackIdx
  <2>3. slot \in Slot
    BY <2>1, <2>2, PerCpuFields DEF Slot
  <2>4. /\ j.stack = [s.stack EXCEPT ![m] = slot]
        /\ j.nr_stack_entries = m + 1
        /\ j.nr_entries = s.nr_entries + n
        /\ j.last_timestamp = s.last_timestamp /\ j.skip = s.skip
    BY <2>1, <2>2 DEF PerCpu
  <2>5. /\ j \in PerCpu
        /\ j.stack[m] = slot
        /\ \A k \in StackIdx \ {m} : j.stack[k] = s.stack[k]
    <3>1. j.stack \in [StackIdx -> Slot]
      <4>1. s.stack \in [StackIdx -> Slot]
        BY <2>1, PerCpuFields
      <4> HIDE DEF j, slot, m
      <4> QED
        BY <2>3, <2>4, <4>1, Zenon
    <3>2. j.nr_stack_entries \in 0 .. MAX_STACE_TRACE_ENTRIES
      BY <2>2, <2>4 DEF StackIdx
    <3>3. j.nr_entries \in 0 .. MAX_TRACE_ENTRIES
      BY <2>2, <2>4
    <3>4. j \in PerCpu
      BY <2>1, <3>1, <3>2, <3>3, Zenon DEF PerCpu
    <3> QED
      BY <2>1, <2>2, <2>4, <3>4, PerCpuFields
  <2>6. Packed(j)
    <3>1. slot.entries = s.nr_entries /\ slot.nr_entries = n
      OBVIOUS
    <3>2. m \in Nat /\ MAX_STACE_TRACE_ENTRIES \in Nat
      BY <2>1, PerCpuFields
    <3> HIDE DEF j, slot, n
    <3>3. \A k \in Used(j) : k \in Used(s) \/ k = m
      BY <2>4, <3>2 DEF Used, StackIdx
    <3>4. \A k \in Used(s) : k \in StackIdx \ {m} /\ (k + 1 \in Used(s) \/ k + 1 = m)
      BY <2>2, <3>2 DEF Used, StackIdx
    <3>5. m + 1 \notin Used(j) /\ m \in Used(j)
      BY <2>2, <2>4, <3>2 DEF Used, StackIdx
    <3>6. m = 0 => s.nr_entries = 0
      BY <2>1 DEF Packed
    <3>7. \A k \in Used(j) : k = 0 => j.stack[k].entries = 0
      BY <2>1, <2>5, <3>1, <3>3, <3>4, <3>6 DEF Packed
    <3>8. j.stack[m].entries + j.stack[m].nr_entries = j.nr_entries
      BY <2>4, <2>5, <3>1
    <3>9. ASSUME NEW k \in Used(s)
          PROVE  /\ k + 1 \in Used(j)
                 /\ j.stack[k].entries + j.stack[k].nr_entries = j.stack[k + 1].entries
      <4>1. k + 1 \in Used(j)
        BY <2>2, <2>4, <3>2, <3>4 DEF Used, StackIdx
      <4>2. CASE k + 1 \in Used(s)
        BY <2>1, <2>5, <3>4, <4>1, <4>2 DEF Packed
      <4>3. CASE k + 1 = m
        <5>1. k + 1 \notin Used(s)
          BY <4>3, <3>2 DEF Used
        <5> QED
          BY <2>1, <2>5, <3>1, <3>4, <4>1, <4>3, <5>1 DEF Packed
      <4> QED
        BY <3>4, <4>1, <4>2, <4>3
    <3> QED
      BY <2>4, <3>2, <3>3, <3>5, <3>7, <3>8, <3>9 DEF Packed
  <2> DEFINE r == __stack_trace_record(s, p, duration, depth, of)
  <2>7. r.s = j /\ r.ret = (s.nr_entries + n < MAX_TRACE_ENTRIES)
    BY <1>2 DEF __stack_trace_record
  <2>8. slot.of = of
    OBVIOUS
  <2>9. ~r.ret => ~HasRoom(j)
    <3> HIDE DEF j, n
    <3> QED
      BY <2>2, <2>4, <2>7, Zenon DEF HasRoom
  <2> HIDE DEF j, slot
  <2>10. Good(j, t)
    BY <2>1, <2>4, <2>5, <2>6 DEF Good
  <2> HIDE DEF r
  <2> QED
    BY <1>2, <2>2, <2>4, <2>5, <2>7, <2>8, <2>9, <2>10, Zenon DEF r
<1> QED
  BY <1>1, <1>2

\* A sample keeps the buffers good.
LEMMA SampleGood ==
  ASSUME NEW t \in Nat, NEW s, Good(s, t), NEW p \in Tasks, NEW threshold \in Nat,
         NEW depth \in Nat, NEW of \in Nat
  PROVE  Good(Sample(s, p, threshold, t, depth, of), t)
<1> DEFINE d == t - s.last_timestamp
           r == __stack_trace_record(s, p, d, depth, of)
<1>1. s \in PerCpu /\ d \in Nat
  BY PerCpuFields DEF Good
<1>2. Good(r.s, t)
  BY <1>1, RecordGood, Zenon
<1>3. Good([r.s EXCEPT !.skip = p], t)
  <2> DEFINE q == r.s
  <2> HIDE DEF r
  <2>1. q \in PerCpu /\ Packed(q) /\ q.last_timestamp <= t
    BY <1>2 DEF Good
  <2>2. [q EXCEPT !.skip = p] \in PerCpu
    BY <2>1 DEF PerCpu
  <2>3. Packed([q EXCEPT !.skip = p])
    BY <2>1, SameFrames DEF PerCpu
  <2> QED
    BY <2>1, <2>2, <2>3 DEF Good, PerCpu
<1> HIDE DEF r, d
<1> QED
  BY <1>2, <1>3 DEF Sample, r, d

\* A sample records the running stretch, unless it has its record.
LEMMA SampleOnce ==
  ASSUME NEW t \in Nat, NEW s, Good(s, t), NEW p \in Tasks, NEW threshold \in Nat,
         NEW depth \in Nat, NEW sw \in Nat, Once(s, sw, FALSE)
  PROVE  Once(Sample(s, p, threshold, t, depth, sw), sw, FALSE)
<1> DEFINE d == t - s.last_timestamp
           r == __stack_trace_record(s, p, d, depth, sw)
           m == s.nr_stack_entries
           q == r.s
           j == [q EXCEPT !.skip = p]
<1>1. s \in PerCpu /\ d \in Nat
  BY PerCpuFields DEF Good
<1>2. /\ Good(q, t)
      /\ q.last_timestamp = s.last_timestamp /\ q.skip = s.skip
      /\ ~HasRoom(s) => r = [s |-> s, ret |-> FALSE]
      /\ HasRoom(s) => /\ q.nr_stack_entries = m + 1
                       /\ m \in StackIdx
                       /\ q.stack[m].of = sw
                       /\ \A k \in StackIdx \ {m} : q.stack[k] = s.stack[k]
                       /\ ~r.ret => ~HasRoom(q)
  BY <1>1, RecordGood, ZenonT(30)
<1>3. Sample(s, p, threshold, t, depth, sw) =
        IF s.skip # NULL \/ d < threshold THEN s ELSE IF r.ret THEN j ELSE q
  BY DEF Sample
<1> HIDE DEF r, d
<1>4. CASE ~HasRoom(s)
  <2>1. q = s /\ ~r.ret
    BY <1>2, <1>4
  <2> QED
    BY <1>3, <2>1, Zenon
<1>5. CASE HasRoom(s) /\ s.skip = NULL
  <2>1. \A k \in Used(s) : s.stack[k].of \in Nat /\ s.stack[k].of < sw
    BY <1>5 DEF Once
  <2>2. m \in 0 .. MAX_STACE_TRACE_ENTRIES
    BY <1>1, PerCpuFields
  <2> HIDE DEF q, m
  <2>3. \A k \in Used(q) : k = m \/ (k \in Used(s) /\ k # m /\ q.stack[k] = s.stack[k])
    BY <1>2, <1>5, <2>2, NoSchedAssumption DEF Used, StackIdx, m
  <2>4. \A k, l \in Used(q) : k # l => q.stack[k].of # q.stack[l].of
    BY <1>2, <1>5, <2>1, <2>3 DEF Once
  <2>5. \A k \in Used(q) : q.stack[k].of \in Nat /\ q.stack[k].of <= sw
    BY <1>2, <1>5, <2>1, <2>3
  <2>6. CASE ~r.ret
    <3>1. ~HasRoom(q)
      BY <1>2, <1>5, <2>6
    <3>2. Once(q, sw, FALSE)
      BY <2>4, <2>5, <3>1 DEF Once
    <3> QED
      BY <1>3, <2>6, <3>2, Zenon
  <2>7. CASE r.ret
    <3>1. q \in PerCpu
      BY <1>2 DEF Good
    <3>2. j.stack = q.stack /\ j.nr_stack_entries = q.nr_stack_entries /\ j.skip = p
      BY <3>1 DEF PerCpu
    <3>3. p # NULL
      BY NoSchedAssumption
    <3> HIDE DEF j
    <3>4. Used(j) = Used(q)
      BY <3>2 DEF Used
    <3>5. Once(j, sw, FALSE)
      BY <2>4, <2>5, <3>2, <3>3, <3>4 DEF Once
    <3> QED
      BY <1>3, <2>7, <3>5, Zenon
  <2> QED
    BY <2>6, <2>7, Zenon
<1>6. CASE s.skip # NULL
  BY <1>3, <1>6, Zenon
<1> QED
  BY <1>4, <1>5, <1>6, Zenon

\* A new time stamp that is not in the future.
LEMMA StampGood ==
  ASSUME NEW t \in Nat, NEW s, Good(s, t)
  PROVE  LET j == [s EXCEPT !.last_timestamp = t]
         IN  /\ Good(j, t) /\ SameRecords(s, j)
             /\ j.skip = s.skip /\ j.nr_entries = s.nr_entries
<1> DEFINE j == [s EXCEPT !.last_timestamp = t]
<1>1. s \in PerCpu /\ Packed(s)
  BY DEF Good
<1>2. j \in PerCpu /\ j.last_timestamp = t
  BY <1>1 DEF PerCpu
<1>3. Packed(j)
  BY <1>1, SameFrames DEF PerCpu
<1>4. SameRecords(s, j) /\ j.skip = s.skip /\ j.nr_entries = s.nr_entries
  BY <1>1 DEF SameRecords, PerCpu
<1> QED
  BY <1>2, <1>3, <1>4 DEF Good

\* The duration of the last record is filled in; where its frames are stays.
LEMMA CompleteGood ==
  ASSUME NEW t \in Nat, NEW s, Good(s, t)
  PROVE  Good(Complete(s, t), t) /\ SameRecords(s, Complete(s, t))
<1> DEFINE d == t - s.last_timestamp
           a == [k \in StackIdx |-> IF k = s.nr_stack_entries - 1
                                    THEN [s.stack[k] EXCEPT !.duration = d]
                                    ELSE s.stack[k]]
           j == [s EXCEPT !.skip = NULL, !.stack = a]
<1>1. s \in PerCpu /\ Packed(s) /\ s.last_timestamp <= t /\ d \in Nat
  BY PerCpuFields DEF Good
<1>2. /\ a \in [StackIdx -> Slot]
      /\ \A k \in StackIdx : /\ a[k].entries = s.stack[k].entries
                             /\ a[k].nr_entries = s.stack[k].nr_entries
                             /\ a[k].of = s.stack[k].of
  <2>1. s.stack \in [StackIdx -> Slot]
    BY <1>1, PerCpuFields
  <2> HIDE DEF d
  <2> QED
    BY <1>1, <2>1 DEF Slot
<1> HIDE DEF a
<1>3. /\ j.stack = a /\ j.nr_stack_entries = s.nr_stack_entries
      /\ j.nr_entries = s.nr_entries /\ j.last_timestamp = s.last_timestamp
  BY <1>1 DEF PerCpu
<1>4. j \in PerCpu
  BY <1>1, <1>2, Zenon DEF PerCpu
<1>5. Packed(j)
  <2> HIDE DEF j
  <2> QED
    BY <1>1, <1>2, <1>3, SameFrames
<1>6. Good(j, t) /\ SameRecords(s, j) /\ SameRecords(s, s)
  <2> HIDE DEF j
  <2> QED
    BY <1>1, <1>2, <1>3, <1>4, <1>5 DEF Good, SameRecords
<1>7. Complete(s, t) = IF s.skip = NULL THEN s ELSE j
  BY DEF Complete, a
<1> HIDE DEF j
<1> QED
  BY <1>6, <1>7

\* Counting in the histogram touches no record, whichever bucket is counted.
LEMMA HistGood ==
  ASSUME NEW t \in Nat, NEW s, Good(s, t), NEW delta
  PROVE  Good(hist_update(s, delta), t) /\ SameRecords(s, hist_update(s, delta))
<1> DEFINE b == Clamp(NoschedIndex(delta, sampling_period * 2), DURATION_HISTOGRAM_ENTRY)
           h == [s.hist EXCEPT ![b] = s.hist[b] + 1]
           j == [s EXCEPT !.hist = h]
<1>1. s \in PerCpu /\ Packed(s) /\ s.last_timestamp <= t
  BY DEF Good
<1> HIDE DEF b
<1>2. h \in [HistIdx -> Nat]
  <2>1. s.hist \in [HistIdx -> Nat]
    BY <1>1, PerCpuFields
  <2>2. CASE b \in HistIdx
    BY <2>1, <2>2
  <2>3. CASE b \notin HistIdx
    BY <2>1, <2>3, Zenon
  <2> QED
    BY <2>2, <2>3
<1>3. j = [s EXCEPT !.hist[b] = @ + 1]
  BY <1>1 DEF PerCpu
<1> HIDE DEF h
<1>4. /\ j.stack = s.stack /\ j.nr_stack_entries = s.nr_stack_entries
      /\ j.nr_entries = s.nr_entries /\ j.last_timestamp = s.last_timestamp
  BY <1>1 DEF PerCpu
<1>5. j \in PerCpu
  BY <1>1, <1>2, Zenon DEF PerCpu
<1> HIDE DEF j
<1>6. Good(j, t) /\ SameRecords(s, j) /\ SameRecords(s, s)
  BY <1>1, <1>4, <1>5, SameFrames DEF Good, SameRecords
<1> QED
  BY <1>3, <1>6 DEF hist_update, b

\* probe_sched_switch keeps the buffers good.
LEMMA SwitchGood ==
  ASSUME NEW t \in Nat, NEW s, Good(s, t), NEW counted
  PROVE  Good(Switch(s, counted, t), t) /\ SameRecords(s, Switch(s, counted, t))
<1> DEFINE j == [Complete(s, t) EXCEPT !.last_timestamp = t]
           h == hist_update(j, t - s.last_timestamp)
<1>1. Good(j, t) /\ SameRecords(s, j)
  <2>1. Good(j, t) /\ SameRecords(Complete(s, t), j)
    BY CompleteGood, StampGood
  <2> QED
    BY <2>1, CompleteGood DEF SameRecords
<1> HIDE DEF j
<1>2. Good(h, t) /\ SameRecords(s, h)
  <2>1. Good(h, t) /\ SameRecords(j, h)
    BY <1>1, HistGood
  <2> QED
    BY <1>1, <2>1 DEF SameRecords
<1> HIDE DEF h
<1> QED
  BY <1>1, <1>2, Zenon DEF Switch, h, j

\* A cleared buffer has no record.
LEMMA ClearGood ==
  ASSUME NEW t \in Nat, NEW s, Good(s, t)
  PROVE  /\ Good(each_stack_trace_clear(s), t)
         /\ \A sw, idle : Once(each_stack_trace_clear(s), sw, idle)
<1> DEFINE j == each_stack_trace_clear(s)
<1> USE NoSchedAssumption
<1>1. s \in PerCpu /\ s.last_timestamp <= t
  BY DEF Good
<1>2. /\ j.nr_stack_entries = 0 /\ j.nr_entries = 0
      /\ j.last_timestamp = s.last_timestamp
  BY <1>1 DEF each_stack_trace_clear, PerCpu
<1>3. j \in PerCpu
  <2>1. /\ 0 \in 0 .. MAX_STACE_TRACE_ENTRIES
        /\ 0 \in 0 .. MAX_TRACE_ENTRIES
        /\ [k \in HistIdx |-> 0] \in [HistIdx -> Nat]
    OBVIOUS
  <2> QED
    BY <1>1, <2>1, Zenon DEF each_stack_trace_clear, PerCpu
<1>4. Used(j) = {}
  BY <1>2 DEF Used, StackIdx
<1>5. Packed(j)
  BY <1>2, <1>4 DEF Packed
<1> QED
  BY <1>1, <1>2, <1>3, <1>4, <1>5 DEF Good, Once

\* hrtimer_forward_now gives a time.
LEMMA ForwardNat ==
  ASSUME now \in Nat, NEW due \in Nat, due <= now
  PROVE  Forward(due) \in Nat
<1> DEFINE q == (now - due) \div sampling_period
<1>1. q \in Nat
  BY NoSchedAssumption
<1> HIDE DEF q
<1>2. (q + 1) * sampling_period \in Nat
  BY <1>1, NoSchedAssumption
<1> DEFINE r == (q + 1) * sampling_period
<1> HIDE DEF r
<1>3. due + r \in Nat
  BY <1>2 DEF r
<1> QED
  BY <1>3 DEF Forward, q, r

------------------------------------------------------------------------------
(* The steps. *)

\* What the writers of .../enable and the module's exit leave alone.
LEMMA FilesStep ==
  ASSUME IInv, TypeOK', UNCHANGED <<stack_trace, switched, run, now>>
  PROVE  IInv'
  BY DEF IInv

\* A writer that is in a write has a record of it, and keeps it.
LEMMA WriterOK ==
  ASSUME TypeOK, NEW w \in Writers
  PROVE  /\ Return(w) => writer' \in [Writers -> Writing \cup {NULL}]
         /\ \A at \in {"register", "timers", "unregister", "store"} :
              /\ writer[w] # NULL /\ GoTo(w, at)
                   => writer' \in [Writers -> Writing \cup {NULL}]
              /\ \A c : writer[w] # NULL /\ CpuDone(w, c, at)
                          => writer' \in [Writers -> Writing \cup {NULL}]
<1>1. writer \in [Writers -> Writing \cup {NULL}]
  BY DEF TypeOK, Writing
<1>2. Return(w) => writer' \in [Writers -> Writing \cup {NULL}]
  BY <1>1 DEF Return
<1>3. ASSUME NEW at \in {"register", "timers", "unregister", "store"}, writer[w] # NULL,
             GoTo(w, at)
      PROVE  writer' \in [Writers -> Writing \cup {NULL}]
  <2>1. writer[w] \in Writing
    BY <1>1, <1>3
  <2>2. [writer[w] EXCEPT !.at = at] \in Writing
    BY <2>1 DEF Writing
  <2>3. writer' = [writer EXCEPT ![w] = [writer[w] EXCEPT !.at = at]]
    BY <1>1, <1>3 DEF GoTo
  <2> QED
    BY <1>1, <2>2, <2>3
<1>4. ASSUME NEW at \in {"register", "timers", "unregister", "store"}, writer[w] # NULL,
             NEW c, CpuDone(w, c, at)
      PROVE  writer' \in [Writers -> Writing \cup {NULL}]
  <2> DEFINE x == writer[w]
             y == [x EXCEPT !.todo = @ \ {c}, !.at = IF x.todo = {c} THEN at ELSE @]
  <2>1. x \in Writing
    BY <1>1, <1>4
  <2>2. y \in Writing
    BY <2>1, Zenon DEF Writing
  <2>3. writer' = [writer EXCEPT ![w] = y]
    BY <1>1, <1>4, Zenon DEF CpuDone
  <2> QED
    BY <1>1, <2>2, <2>3
<1> QED
  BY <1>2, <1>3, <1>4

\* The environment's steps that touch no tracer.
LEMMA EnvironmentStep ==
  ASSUME IInv,
         Tick \/ \E c \in Cpus : ChangeMode(c) \/ ChangeOthers(c)
  PROVE  IInv'
<1> USE DEF tracer, files
<1>1. TypeOK
  BY DEF IInv
<1>2. CASE Tick
  <2>1. TypeOK'
    BY <1>1, <1>2 DEF TypeOK, Tick
  <2>2. ASSUME NEW c \in Cpus
        PROVE  /\ Good(stack_trace[c], now)' /\ (switched[c] <= now)'
               /\ Once(stack_trace[c], switched[c], run[c] = Idle)'
    <3>1. /\ stack_trace[c]' = stack_trace[c] /\ switched[c]' = switched[c]
          /\ run[c]' = run[c] /\ now' = now + 1 /\ now \in Nat /\ switched[c] \in Nat
      BY <1>1, <1>2, SMTT(30) DEF Tick, TypeOK
    <3>2. stack_trace[c].last_timestamp \in Nat
      BY PerCpuFields DEF IInv, Good
    <3> QED
      BY <3>1, <3>2 DEF IInv, Good
  <2> QED
    BY <2>1, <2>2 DEF IInv
<1>3. ASSUME NEW c \in Cpus, ChangeMode(c)
      PROVE  IInv'
  <2>1. TypeOK'
    BY <1>1, <1>3 DEF TypeOK, ChangeMode
  <2> QED
    BY <1>3, <2>1, FilesStep, SMTT(30) DEF ChangeMode
<1>4. ASSUME NEW c \in Cpus, ChangeOthers(c)
      PROVE  IInv'
  <2>1. TypeOK'
    BY <1>1, <1>4 DEF TypeOK, ChangeOthers
  <2> QED
    BY <1>4, <2>1, FilesStep DEF ChangeOthers
<1> QED
  BY <1>2, <1>3, <1>4

\* The values of one CPU that the steps on it rest on.
LEMMA CpuFacts ==
  ASSUME IInv, NEW c \in Cpus
  PROVE  /\ now \in Nat /\ switched[c] \in Nat /\ duration_threshold \in Nat
         /\ switched[c] <= now
         /\ stack_trace \in [Cpus -> PerCpu]
         /\ Good(stack_trace[c], now)
         /\ Once(stack_trace[c], switched[c], run[c] = Idle)
  BY DEF IInv, TypeOK

\* __schedule() begins a stretch later than the recorded ones.
LEMMA SwitchStep ==
  ASSUME IInv, NEW c \in Cpus, NEW next \in Tasks \cup {Idle}, NEW b \in BOOLEAN,
         sched_switch(c, next, b)
  PROVE  IInv'
<1> USE DEF files
<1>1. TypeOK
  BY DEF IInv
<1>2. PICK j : /\ stack_trace' = [stack_trace EXCEPT ![c] = j]
               /\ Good(j, now) /\ SameRecords(stack_trace[c], j)
  <2>1. CASE tp /\ trace_enable
    <3>1. PICK single \in BOOLEAN :
            stack_trace' = [stack_trace EXCEPT
              ![c] = Switch(stack_trace[c], run[c] # Idle /\ ~single, now)]
      BY <2>1 DEF sched_switch
    <3> QED
      BY <3>1, CpuFacts, SwitchGood, ZenonT(30)
  <2>2. CASE ~(tp /\ trace_enable)
    <3>1. stack_trace' = stack_trace
      BY <2>2 DEF sched_switch
    <3>2. stack_trace' = [stack_trace EXCEPT ![c] = stack_trace[c]]
      BY <3>1, CpuFacts
    <3> QED
      BY <3>2, CpuFacts, Zenon DEF SameRecords
  <2> QED
    BY <2>1, <2>2
<1>3. j \in PerCpu
  BY <1>2, SMTT(30) DEF Good
<1>4. TypeOK'
  BY <1>1, <1>2, <1>3 DEF TypeOK, sched_switch
<1>5. ASSUME NEW d \in Cpus
      PROVE  /\ Good(stack_trace[d], now)' /\ (switched[d] <= now)'
             /\ Once(stack_trace[d], switched[d], run[d] = Idle)'
  <2>1. CASE d = c
    <3>1. /\ stack_trace[d]' = j /\ switched[d]' = now /\ now' = now
      BY <1>1, <1>2, <2>1 DEF TypeOK, sched_switch
    <3>2. switched[c] < now \/ run[c] = Idle
      BY DEF sched_switch
    <3>3. Once(j, now, (run[d] = Idle)')
      BY <1>2, <3>2, CpuFacts, NextOnce, ZenonT(30)
    <3> QED
      BY <1>2, <3>1, <3>3, CpuFacts, SMTT(30)
  <2>2. CASE d # c
    <3>1. /\ stack_trace[d]' = stack_trace[d] /\ switched[d]' = switched[d]
          /\ run[d]' = run[d] /\ now' = now
      BY <1>1, <1>2, <2>2 DEF TypeOK, sched_switch
    <3> QED
      BY <3>1, CpuFacts, SMTT(30)
  <2> QED
    BY <2>1, <2>2, SMTT(30)
<1> QED
  BY <1>4, <1>5, SMTT(30) DEF IInv

\* A step that changes the buffers of one CPU and keeps them right.
LEMMA OneCpu ==
  ASSUME IInv, NEW c \in Cpus, NEW j,
         stack_trace' = [stack_trace EXCEPT ![c] = j],
         Good(j, now), Once(j, switched[c], run[c] = Idle),
         UNCHANGED <<switched, run, now>>, TypeOK'
  PROVE  IInv'
<1>1. ASSUME NEW d \in Cpus
      PROVE  /\ Good(stack_trace[d], now)' /\ (switched[d] <= now)'
             /\ Once(stack_trace[d], switched[d], run[d] = Idle)'
  <2>1. CASE d = c
    <3>1. stack_trace[d]' = j
      BY <2>1, CpuFacts
    <3> QED
      BY <2>1, <3>1, CpuFacts
  <2>2. CASE d # c
    <3>1. stack_trace[d]' = stack_trace[d]
      BY <2>2, CpuFacts
    <3> QED
      BY <3>1, CpuFacts
  <2> QED
    BY <2>1, <2>2
<1> QED
  BY <1>1 DEF IInv

\* The timer of a CPU records the running task or restarts the measurement.
LEMMA HandlerStep ==
  ASSUME IInv, NEW c \in Cpus, trace_nosched_hrtimer_handler(c)
  PROVE  IInv'
<1> USE DEF files, env
<1>1. TypeOK
  BY DEF IInv
<1>2. PICK j : /\ stack_trace' = [stack_trace EXCEPT ![c] = j]
               /\ Good(j, now) /\ Once(j, switched[c], run[c] = Idle)
  <2>1. CASE Sampled(c)
    <3>1. run[c] \in Tasks /\ (run[c] = Idle) = FALSE
      BY <1>1, <2>1 DEF Sampled, TypeOK
    <3>2. PICK depth \in Depths :
            stack_trace' = [stack_trace EXCEPT
              ![c] = Sample(stack_trace[c], run[c], duration_threshold, now, depth,
                            switched[c])]
      BY <2>1 DEF trace_nosched_hrtimer_handler
    <3>3. depth \in Nat
      BY NoSchedAssumption
    <3>4. Once(stack_trace[c], switched[c], FALSE)
      BY <3>1, CpuFacts, Zenon
    <3> DEFINE k == Sample(stack_trace[c], run[c], duration_threshold, now, depth,
                           switched[c])
    <3>5. Good(k, now)
      BY <3>1, <3>3, CpuFacts, SampleGood
    <3>6. Once(k, switched[c], FALSE)
      BY <3>1, <3>3, <3>4, CpuFacts, SampleOnce, Zenon
    <3> HIDE DEF k
    <3>7. Once(k, switched[c], run[c] = Idle)
      BY <3>1, <3>6, Zenon
    <3> QED
      BY <3>2, <3>5, <3>7, Zenon DEF k
  <2>2. CASE ~Sampled(c)
    <3> DEFINE k == [stack_trace[c] EXCEPT !.last_timestamp = now]
    <3>1. stack_trace' = [stack_trace EXCEPT ![c] = k]
      BY <2>2, CpuFacts DEF trace_nosched_hrtimer_handler
    <3>2. /\ Good(k, now) /\ SameRecords(stack_trace[c], k)
          /\ k.skip = stack_trace[c].skip /\ k.nr_entries = stack_trace[c].nr_entries
      BY CpuFacts, StampGood
    <3> HIDE DEF k
    <3>3. Once(k, switched[c], run[c] = Idle)
      BY <3>2, CpuFacts, SameOnce
    <3> QED
      BY <3>1, <3>2, <3>3, Zenon
  <2> QED
    BY <2>1, <2>2
<1>3. TypeOK'
  <2>1. j \in PerCpu
    BY <1>2 DEF Good
  <2>2. expires[c] \in Nat /\ expires[c] <= now
    BY <1>1 DEF TypeOK, trace_nosched_hrtimer_handler
  <2>3. Forward(expires[c]) \in Nat
    BY <2>2, CpuFacts, ForwardNat
  <2>4. expires' = [expires EXCEPT ![c] = Forward(expires[c])]
    BY DEF trace_nosched_hrtimer_handler
  <2>5. expires' \in [Cpus -> Nat \cup {NULL}]
    BY <1>1, <2>3, <2>4 DEF TypeOK
  <2>6. stack_trace' \in [Cpus -> PerCpu]
    BY <1>1, <1>2, <2>1 DEF TypeOK
  <2> QED
    BY <1>1, <2>5, <2>6 DEF TypeOK, trace_nosched_hrtimer_handler
<1> QED
  BY <1>2, <1>3, OneCpu, Zenon DEF trace_nosched_hrtimer_handler

\* A write to .../stack_trace clears every CPU.
LEMMA ClearStep ==
  ASSUME IInv, stack_trace_store
  PROVE  IInv'
<1>1. TypeOK
  BY DEF IInv
<1>2. ASSUME NEW c \in Cpus
      PROVE  /\ Good(each_stack_trace_clear(stack_trace[c]), now)
             /\ Once(each_stack_trace_clear(stack_trace[c]), switched[c], run[c] = Idle)
  BY CpuFacts, ClearGood
<1>3. stack_trace' = [c \in Cpus |-> each_stack_trace_clear(stack_trace[c])]
  BY DEF stack_trace_store
<1>4. stack_trace' \in [Cpus -> PerCpu]
  BY <1>2, <1>3 DEF Good
<1>5. TypeOK'
  BY <1>1, <1>4 DEF TypeOK, stack_trace_store
<1>6. UNCHANGED <<switched, run, now>>
  BY DEF stack_trace_store
<1>7. ASSUME NEW c \in Cpus
      PROVE  /\ Good(stack_trace[c], now)' /\ (switched[c] <= now)'
             /\ Once(stack_trace[c], switched[c], run[c] = Idle)'
  <2>1. stack_trace[c]' = each_stack_trace_clear(stack_trace[c])
    BY <1>3
  <2> QED
    BY <1>2, <1>6, <2>1, CpuFacts
<1> QED
  BY <1>5, <1>7 DEF IInv

\* The writer of .../enable starts the timer of a CPU.
LEMMA StartStep ==
  ASSUME IInv, NEW w \in Writers, NEW c \in Cpus, each_hrtimer_start(w, c)
  PROVE  IInv'
<1> USE DEF env
<1>1. TypeOK
  BY DEF IInv
<1> DEFINE j == [stack_trace[c] EXCEPT !.last_timestamp = now]
<1>2. stack_trace' = [stack_trace EXCEPT ![c] = j]
  BY CpuFacts DEF each_hrtimer_start
<1>3. /\ Good(j, now) /\ SameRecords(stack_trace[c], j)
      /\ j.skip = stack_trace[c].skip /\ j.nr_entries = stack_trace[c].nr_entries
  BY CpuFacts, StampGood, SMTT(30)
<1> HIDE DEF j
<1>4. Once(j, switched[c], run[c] = Idle)
  BY <1>3, CpuFacts, SameOnce
<1>5. TypeOK'
  <2>1. stack_trace' \in [Cpus -> PerCpu]
    BY <1>1, <1>2, <1>3 DEF TypeOK, Good
  <2>2. writer' \in [Writers -> Writing \cup {NULL}]
    BY <1>1, WriterOK DEF each_hrtimer_start, At
  <2>3. expires' \in [Cpus -> Nat \cup {NULL}]
    BY <1>1, NoSchedAssumption DEF TypeOK, each_hrtimer_start
  <2> QED
    BY <1>1, <2>1, <2>2, <2>3, SMTT(30) DEF TypeOK, Writing, each_hrtimer_start
<1> QED
  BY <1>2, <1>3, <1>4, <1>5, OneCpu, Zenon DEF each_hrtimer_start

\* The other steps of a writer of .../enable touch no buffer.
LEMMA WriterStep ==
  ASSUME IInv, NEW w \in Writers,
         \/ \E enable \in BOOLEAN : enable_store(w, enable)
         \/ trace_nosched_register_tp(w)
         \/ \E c \in Cpus : trace_nosched_hrtimer_cancel(w, c)
         \/ trace_nosched_unregister_tp(w)
         \/ store_trace_enable(w)
  PROVE  IInv'
<1> USE DEF tracer, env
<1>1. TypeOK
  BY SMTT(30) DEF IInv
<1>2. ASSUME NEW enable \in BOOLEAN, enable_store(w, enable)
      PROVE  IInv'
  <2>1. [enable |-> enable, todo |-> Cpus,
         at |-> IF enable THEN "register" ELSE "timers"] \in Writing
    BY SMTT(30) DEF Writing
  <2>2. writer' \in [Writers -> Writing \cup {NULL}]
    BY <1>1, <1>2, <2>1, SMTT(30) DEF TypeOK, Writing, enable_store
  <2>3. TypeOK'
    BY <1>1, <1>2, <2>2 DEF TypeOK, Writing, enable_store
  <2> QED
    BY <1>2, <2>3, FilesStep DEF enable_store
<1>3. CASE trace_nosched_register_tp(w)
  <2>1. writer' \in [Writers -> Writing \cup {NULL}]
    BY <1>1, <1>3, WriterOK DEF trace_nosched_register_tp, At
  <2>2. TypeOK'
    BY <1>1, <1>3, <2>1, ZenonT(30) DEF TypeOK, Writing, trace_nosched_register_tp
  <2> QED
    BY <1>3, <2>2, FilesStep, SMTT(30) DEF trace_nosched_register_tp
<1>4. ASSUME NEW c \in Cpus, trace_nosched_hrtimer_cancel(w, c)
      PROVE  IInv'
  <2>1. writer' \in [Writers -> Writing \cup {NULL}]
    BY <1>1, <1>4, WriterOK, SMTT(30) DEF trace_nosched_hrtimer_cancel, At
  <2>2. TypeOK'
    BY <1>1, <1>4, <2>1, Zenon DEF TypeOK, Writing, trace_nosched_hrtimer_cancel
  <2> QED
    BY <1>4, <2>2, FilesStep, ZenonT(30) DEF trace_nosched_hrtimer_cancel
<1>5. CASE trace_nosched_unregister_tp(w)
  <2>1. writer' \in [Writers -> Writing \cup {NULL}]
    BY <1>1, <1>5, WriterOK, Zenon DEF trace_nosched_unregister_tp, At
  <2>2. TypeOK'
    BY <1>1, <1>5, <2>1, ZenonT(30) DEF TypeOK, Writing, trace_nosched_unregister_tp
  <2> QED
    BY <1>5, <2>2, FilesStep, SMTT(30) DEF trace_nosched_unregister_tp
<1>6. CASE store_trace_enable(w)
  <2>1. writer' \in [Writers -> Writing \cup {NULL}]
    BY <1>1, <1>6, WriterOK, ZenonT(30) DEF store_trace_enable
  <2>2. writer[w].enable \in BOOLEAN
    BY <1>1, <1>6, SMTT(30) DEF TypeOK, Writing, store_trace_enable
  <2>3. TypeOK'
    BY <1>1, <1>6, <2>1, <2>2 DEF TypeOK, Writing, store_trace_enable
  <2> QED
    BY <1>6, <2>3, FilesStep, Zenon DEF store_trace_enable
<1> QED
  BY <1>2, <1>3, <1>4, <1>5, <1>6

------------------------------------------------------------------------------
\* The buffers start empty.
LEMMA InitIInv ==
  Init => IInv
<1> SUFFICES ASSUME Init PROVE IInv
  OBVIOUS
<1>1. InitStack \in PerCpu
  BY InitStackGood DEF Good
<1>2. TypeOK
  BY <1>1, NoSchedAssumption, Zenon DEF Init, TypeOK
<1> QED
  BY <1>2, InitStackGood DEF Init, IInv

\* Every step keeps the invariant.
LEMMA StepIInv ==
  IInv /\ [Next]_vars => IInv'
<1> SUFFICES ASSUME IInv, [Next]_vars PROVE IInv'
  OBVIOUS
<1>1. TypeOK
  BY DEF IInv
<1>2. CASE Environment
  BY <1>2, EnvironmentStep, SwitchStep DEF Environment
<1>3. CASE \E c \in Cpus : trace_nosched_hrtimer_handler(c)
  BY <1>3, HandlerStep
<1>4. ASSUME NEW val \in Thresholds, threshold_store(val)
      PROVE  IInv'
  <2>1. TypeOK'
    BY <1>1, <1>4, NoSchedAssumption DEF TypeOK, threshold_store, files, env
  <2> QED
    BY <1>4, <2>1, FilesStep, SMTT(30) DEF threshold_store, env
<1>5. CASE stack_trace_store
  BY <1>5, ClearStep
<1>6. CASE Writer
  BY <1>6, StartStep, WriterStep DEF Writer
<1>7. CASE trace_noschedule_exit
  <2>1. TypeOK'
    BY <1>1, <1>7, Zenon DEF TypeOK, trace_noschedule_exit, files, env
  <2> QED
    BY <1>7, <2>1, FilesStep DEF trace_noschedule_exit, env
<1>8. CASE UNCHANGED vars
  <2>1. TypeOK'
    BY <1>1, <1>8 DEF TypeOK, vars, tracer, files, env
  <2> QED
    BY <1>8, <2>1, FilesStep, SMTT(30) DEF vars, tracer, env
<1> QED
  BY <1>2, <1>3, <1>4, <1>5, <1>6, <1>7, <1>8 DEF Next

\* The stacks that trace_noschedule records lie one behind the other in
\* entries[] and fill exactly its used part, and every counter stays within its
\* array: for any sizes of the buffers, any number of CPUs and of writers of the
\* /proc files, and calls that fail.
THEOREM FramesPackedTheorem == Spec => []FramesPacked
<1>1. IInv => FramesPacked
  BY SMTT(30) DEF IInv, Good, FramesPacked
<1> QED
  BY <1>1, InitIInv, StepIInv, PTL DEF Spec

\* A stretch of a task on a CPU is recorded at most once by trace_noschedule,
\* however many samples fall into it and whatever is written to the /proc files
\* meanwhile.
THEOREM OneRecordTheorem == Spec => []OneRecordPerStretch
<1>1. IInv => OneRecordPerStretch
  BY DEF IInv, Once, OneRecordPerStretch
<1> QED
  BY <1>1, InitIInv, StepIInv, PTL DEF Spec

------------------------------------------------------------------------------
(* What the sampling is in time for. *)

\* The state of one CPU: its buffer s, its timer, due at e, the time b since
\* which sampling sees the same stretch, and whether the handler would record
\* it.  The timer is neither later than MaxLate nor further away than a period.
\* The measurement of a stretch that would be recorded began before b, and as
\* long as nothing marks it the next sample comes in time to do so.
Timely(s, e, b, sampled, t) ==
  /\ b <= t
  /\ e # NULL => t <= e + MaxLate /\ e <= t + sampling_period
  /\ sampled => s.last_timestamp <= b
  /\ sampled /\ e # NULL /\ HasRoom(s) /\ s.skip = NULL =>
       \E th \in Thresholds : e <= b + th + sampling_period

TimelyCpu(c) == Timely(stack_trace[c], expires[c], busy[c], Sampled(c), now)

TInv == IInv /\ duration_threshold \in Thresholds /\ \A c \in Cpus : TimelyCpu(c)

\* hrtimer_forward_now gives the first time after now, at most a period away.
LEMMA ForwardNext ==
  ASSUME now \in Nat, NEW due \in Nat, due <= now
  PROVE  now < Forward(due) /\ Forward(due) <= now + sampling_period
<1> DEFINE d == now - due
           q == d \div sampling_period
           r == d % sampling_period
<1>1. d \in Nat
  OBVIOUS
<1>2. sampling_period \in Nat \ {0}
  BY NoSchedAssumption
<1>3. q \in Nat /\ r \in 0 .. (sampling_period - 1) /\ d = sampling_period * q + r
  <2> HIDE DEF d
  <2> QED
    BY <1>1, <1>2, SMTT(30)
<1>4. Forward(due) = due + (q + 1) * sampling_period
  BY DEF Forward
<1> HIDE DEF q, r
<1>5. (q + 1) * sampling_period = sampling_period * q + sampling_period
  BY <1>2, <1>3, SMTT(30)
<1> DEFINE m == sampling_period * q
<1>6. m \in Nat
  BY <1>2, <1>3, SMTT(30)
<1> HIDE DEF m
<1>7. Forward(due) = due + (m + sampling_period) /\ now - due = m + r
  BY <1>3, <1>4, <1>5, Zenon DEF m, d
<1> QED
  BY <1>2, <1>3, <1>6, <1>7

\* A new stretch is sampled in time.
LEMMA NewStretch ==
  ASSUME NEW t \in Nat, NEW s, Good(s, t), NEW e \in Nat \cup {NULL}, NEW sampled,
         e # NULL => t <= e + MaxLate /\ e <= t + sampling_period
  PROVE  Timely(s, e, t, sampled, t)
<1>1. PICK th \in Thresholds : TRUE
  BY NoSchedAssumption, Zenon
<1>2. th \in Nat /\ sampling_period \in Nat
  BY NoSchedAssumption
<1>3. e # NULL => e <= t + th + sampling_period
  BY <1>2
<1> QED
  BY <1>3 DEF Timely, Good

\* A sample that comes too early leaves time for the next one; any other marks
\* the stretch or finds, or leaves, the buffer full.
LEMMA SampleTimely ==
  ASSUME NEW t \in Nat, NEW s, Good(s, t), NEW p \in Tasks, NEW threshold \in Thresholds,
         NEW depth \in Nat, NEW of \in Nat, NEW b \in Nat, NEW e \in Nat, NEW f \in Nat,
         Timely(s, e, b, TRUE, t), e # NULL, t < f, f <= t + sampling_period
  PROVE  Timely(Sample(s, p, threshold, t, depth, of), f, b, TRUE, t)
<1> USE NoSchedAssumption
<1> DEFINE d == t - s.last_timestamp
           r == __stack_trace_record(s, p, d, depth, of)
           m == s.nr_stack_entries
           q == r.s
           j == [q EXCEPT !.skip = p]
           x == Sample(s, p, threshold, t, depth, of)
<1>1. s \in PerCpu /\ d \in Nat /\ s.last_timestamp <= b /\ b <= t /\ threshold \in Nat
  BY PerCpuFields DEF Good, Timely
<1>2. Sample(s, p, threshold, t, depth, of) =
        IF s.skip # NULL \/ d < threshold THEN s ELSE IF r.ret THEN j ELSE q
  BY DEF Sample
<1>3. /\ q \in PerCpu /\ q.last_timestamp = s.last_timestamp /\ q.skip = s.skip
      /\ ~r.ret => ~HasRoom(q)
  <2>1. /\ Good(q, t)
        /\ q.last_timestamp = s.last_timestamp /\ q.skip = s.skip
        /\ ~HasRoom(s) => r = [s |-> s, ret |-> FALSE]
        /\ HasRoom(s) => /\ q.nr_stack_entries = m + 1
                         /\ m \in StackIdx
                         /\ q.stack[m].of = of
                         /\ \A k \in StackIdx \ {m} : q.stack[k] = s.stack[k]
                         /\ ~r.ret => ~HasRoom(q)
    BY <1>1, RecordGood, ZenonT(30)
  <2> HIDE DEF r
  <2>2. ~HasRoom(s) => ~HasRoom(q)
    BY <2>1
  <2> QED
    BY <2>1, <2>2, Zenon DEF Good
<1>4. j.last_timestamp = s.last_timestamp /\ j.skip = p /\ p # NULL
  BY <1>3, Zenon DEF PerCpu
<1> HIDE DEF r, q, j
<1>5. /\ x.last_timestamp = s.last_timestamp
      /\ HasRoom(x) /\ x.skip = NULL => d < threshold
  BY <1>2, <1>3, <1>4, Zenon
<1>6. t <= f + MaxLate /\ (d < threshold => f <= b + threshold + sampling_period)
  BY <1>1, PerCpuFields
<1> HIDE DEF x, d
<1>7. Timely(x, f, b, TRUE, t)
  BY <1>1, <1>5, <1>6 DEF Timely
<1> QED
  BY <1>7, Zenon DEF x

\* The clock goes on while the timer is not too late.
LEMMA LaterTimely ==
  ASSUME NEW t \in Nat, NEW s, NEW e \in Nat \cup {NULL}, NEW b \in Nat, NEW sampled,
         Timely(s, e, b, sampled, t), e # NULL => t < e + MaxLate
  PROVE  Timely(s, e, b, sampled, t + 1)
  BY NoSchedAssumption DEF Timely

\* The values of one CPU that the timing rests on.
LEMMA TimeFacts ==
  ASSUME TInv, NEW c \in Cpus
  PROVE  /\ now \in Nat /\ busy[c] \in Nat /\ expires[c] \in Nat \cup {NULL}
         /\ switched[c] \in Nat /\ Sampled(c) \in BOOLEAN
         /\ Good(stack_trace[c], now) /\ stack_trace[c] \in PerCpu
         /\ TimelyCpu(c)
  BY DEF TInv, IInv, TypeOK, Good, Sampled

\* A CPU on which nothing happens.
LEMMA SameCpu ==
  ASSUME TInv, NEW c \in Cpus, now' = now, Sampled(c)' = Sampled(c),
         stack_trace[c]' = stack_trace[c], expires[c]' = expires[c], busy[c]' = busy[c]
  PROVE  TimelyCpu(c)'
  BY TimeFacts DEF TimelyCpu, Timely, HasRoom

\* A CPU on which a new stretch begins.
LEMMA NewCpu ==
  ASSUME TInv, IInv', NEW c \in Cpus,
         now' = now, expires[c]' = expires[c], busy[c]' = now
  PROVE  TimelyCpu(c)'
<1>1. Good(stack_trace[c], now)'
  BY DEF IInv
<1>2. now \in Nat /\ expires[c] \in Nat \cup {NULL}
  BY TimeFacts
<1>3. expires[c] # NULL => now <= expires[c] + MaxLate /\ expires[c] <= now + sampling_period
  BY TimeFacts DEF TimelyCpu, Timely
<1>4. Timely(stack_trace[c]', expires[c], now, Sampled(c)', now)
  BY <1>1, <1>2, <1>3, NewStretch
<1> QED
  BY <1>4 DEF TimelyCpu

\* The environment: the clock does not run past a timer, and what changes on a
\* CPU begins a new stretch there.
LEMMA EnvironmentTimely ==
  ASSUME TInv, IInv', Environment
  PROVE  TInv'
<1>1. TypeOK /\ duration_threshold' = duration_threshold
  BY DEF TInv, IInv, Environment, Tick, ChangeMode, ChangeOthers, sched_switch, tracer
<1>2. CASE Tick
  <2>1. ASSUME NEW c \in Cpus
        PROVE  TimelyCpu(c)'
    <3>1. /\ now' = now + 1 /\ stack_trace[c]' = stack_trace[c] /\ expires[c]' = expires[c]
          /\ busy[c]' = busy[c] /\ Sampled(c)' = Sampled(c)
          /\ expires[c] # NULL => now < expires[c] + MaxLate
      BY <1>2 DEF Tick, tracer, Sampled
    <3>2. Timely(stack_trace[c], expires[c], busy[c], Sampled(c), now + 1)
      BY <3>1, TimeFacts, LaterTimely, Zenon DEF TimelyCpu
    <3> QED
      BY <3>1, <3>2, Zenon DEF TimelyCpu
  <2> QED
    BY <1>1, <2>1 DEF TInv
<1>3. ASSUME NEW c \in Cpus,
             \/ ChangeMode(c) \/ ChangeOthers(c)
             \/ \E next \in Tasks \cup {Idle}, b \in BOOLEAN : sched_switch(c, next, b)
      PROVE  TInv'
  <2>1. /\ now' = now /\ expires' = expires /\ busy' = [busy EXCEPT ![c] = now]
        /\ \A d \in Cpus : d # c => /\ stack_trace[d]' = stack_trace[d]
                                    /\ Sampled(d)' = Sampled(d)
    BY <1>1, <1>3 DEF ChangeMode, ChangeOthers, sched_switch, tracer, Sampled, TypeOK
  <2>2. ASSUME NEW d \in Cpus
        PROVE  TimelyCpu(d)'
    <3>1. CASE d = c
      <4>1. busy[d]' = now
        BY <1>1, <2>1, <3>1 DEF TypeOK
      <4> QED
        BY <2>1, <4>1, NewCpu
    <3>2. CASE d # c
      <4>1. busy[d]' = busy[d]
        BY <1>1, <2>1, <3>2 DEF TypeOK
      <4> QED
        BY <2>1, <3>2, <4>1, SameCpu
    <3> QED
      BY <3>1, <3>2
  <2> QED
    BY <1>1, <2>2 DEF TInv
<1> QED
  BY <1>2, <1>3, Zenon DEF Environment

\* The handler of a CPU samples its stretch.
LEMMA HandlerTimely ==
  ASSUME TInv, IInv', NEW c \in Cpus, trace_nosched_hrtimer_handler(c)
  PROVE  TInv'
<1> USE DEF files, env
<1>1. TypeOK /\ duration_threshold \in Thresholds
  BY DEF TInv, IInv
<1>2. /\ now' = now /\ busy' = busy /\ duration_threshold' = duration_threshold
      /\ run' = run /\ mode' = mode /\ others' = others
      /\ expires' = [expires EXCEPT ![c] = Forward(expires[c])]
  BY DEF trace_nosched_hrtimer_handler
<1>3. \A d \in Cpus : Sampled(d)' = Sampled(d)
  BY <1>2 DEF Sampled
<1>4. expires[c] \in Nat /\ expires[c] # NULL /\ expires[c] <= now
  BY <1>1 DEF TypeOK, trace_nosched_hrtimer_handler
<1> DEFINE f == Forward(expires[c])
<1>5. f \in Nat /\ now < f /\ f <= now + sampling_period
  BY <1>4, TimeFacts, ForwardNat, ForwardNext
<1> HIDE DEF f
<1>6. expires[c]' = f /\ \A d \in Cpus : d # c => expires[d]' = expires[d]
  BY <1>1, <1>2 DEF TypeOK, f
<1>7. \A d \in Cpus : d # c => stack_trace[d]' = stack_trace[d]
  BY <1>1 DEF TypeOK, trace_nosched_hrtimer_handler
<1>8. CASE Sampled(c)
  <2>1. run[c] \in Tasks
    BY <1>1, <1>8 DEF Sampled, TypeOK
  <2>2. PICK depth \in Depths :
          stack_trace' = [stack_trace EXCEPT
            ![c] = Sample(stack_trace[c], run[c], duration_threshold, now, depth,
                          switched[c])]
    BY <1>8 DEF trace_nosched_hrtimer_handler
  <2>3. depth \in Nat
    BY NoSchedAssumption
  <2>4. Timely(stack_trace[c], expires[c], busy[c], TRUE, now)
    BY <1>8, TimeFacts, Zenon DEF TimelyCpu, Timely
  <2>5. Timely(Sample(stack_trace[c], run[c], duration_threshold, now, depth, switched[c]),
               f, busy[c], TRUE, now)
    BY <1>1, <1>4, <1>5, <2>1, <2>3, <2>4, TimeFacts, SampleTimely, Zenon
  <2>6. stack_trace[c]' = Sample(stack_trace[c], run[c], duration_threshold, now, depth,
                                 switched[c])
    BY <1>1, <2>2, Zenon DEF TypeOK
  <2>7. Sampled(c)' = TRUE
    BY <1>3, <1>8, TimeFacts
  <2>8. TimelyCpu(c)'
    BY <1>2, <1>6, <2>5, <2>6, <2>7, Zenon DEF TimelyCpu
  <2> QED
    BY <1>1, <1>2, <1>3, <1>6, <1>7, <2>8, SameCpu, Zenon DEF TInv
<1>9. CASE ~Sampled(c)
  <2>1. ~Sampled(c)'
    BY <1>3, <1>9
  <2>2. busy[c] <= now /\ now <= f + MaxLate
    BY <1>5, TimeFacts, NoSchedAssumption DEF TimelyCpu, Timely
  <2>3. TimelyCpu(c)'
    BY <1>2, <1>5, <1>6, <2>1, <2>2, Zenon DEF TimelyCpu, Timely
  <2> QED
    BY <1>1, <1>2, <1>3, <1>6, <1>7, <2>3, SameCpu, Zenon DEF TInv
<1> QED
  BY <1>8, <1>9

\* A step that touches no buffer, and no timer but to cancel it.
LEMMA QuietTimely ==
  ASSUME TInv, IInv', duration_threshold' \in Thresholds,
         UNCHANGED <<stack_trace, run, mode, others, busy, now>>,
         \A c \in Cpus : expires[c]' \in {expires[c], NULL}
  PROVE  TInv'
<1>1. ASSUME NEW c \in Cpus
      PROVE  TimelyCpu(c)'
  <2>1. Sampled(c)' = Sampled(c)
    BY DEF Sampled
  <2>2. CASE expires[c]' = expires[c]
    BY <2>1, <2>2, SameCpu
  <2>3. CASE expires[c]' = NULL
    BY <2>1, <2>3, TimeFacts DEF TimelyCpu, Timely
  <2> QED
    BY <2>2, <2>3
<1> QED
  BY <1>1 DEF TInv

\* The writer of .../enable starts the timer of a CPU, which samples a new
\* stretch.
LEMMA StartTimely ==
  ASSUME TInv, IInv', NEW w \in Writers, NEW c \in Cpus, each_hrtimer_start(w, c)
  PROVE  TInv'
<1>1. TypeOK /\ duration_threshold \in Thresholds
  BY Zenon DEF TInv, IInv
<1>2. /\ now' = now /\ run' = run /\ mode' = mode /\ others' = others
      /\ duration_threshold' = duration_threshold
      /\ expires' = [expires EXCEPT ![c] = now + sampling_period]
      /\ busy' = [busy EXCEPT ![c] = now]
      /\ \A d \in Cpus : d # c => stack_trace[d]' = stack_trace[d]
  BY <1>1 DEF each_hrtimer_start, TypeOK
<1>3. ASSUME NEW d \in Cpus
      PROVE  TimelyCpu(d)'
  <2>1. CASE d = c
    <3>1. expires[d]' = now + sampling_period /\ busy[d]' = now
      BY <1>1, <1>2, <2>1 DEF TypeOK
    <3>2. Good(stack_trace[d], now)'
      BY DEF IInv
    <3> DEFINE e == now + sampling_period
    <3>3. now \in Nat /\ e \in Nat /\ now <= e + MaxLate /\ e <= now + sampling_period
      BY TimeFacts, NoSchedAssumption
    <3> HIDE DEF e
    <3>4. Timely(stack_trace[d]', e, now, Sampled(d)', now)
      BY <1>2, <3>2, <3>3, NewStretch
    <3> QED
      BY <1>2, <3>1, <3>4, Zenon DEF TimelyCpu, e
  <2>2. CASE d # c
    <3>1. expires[d]' = expires[d] /\ busy[d]' = busy[d] /\ Sampled(d)' = Sampled(d)
      BY <1>1, <1>2, <2>2 DEF TypeOK, Sampled
    <3> QED
      BY <1>2, <2>2, <3>1, SameCpu
  <2> QED
    BY <2>1, <2>2
<1> QED
  BY <1>1, <1>2, <1>3 DEF TInv

\* Sampling is in time from the start.
LEMMA InitTInv ==
  Init => TInv
<1> SUFFICES ASSUME Init PROVE TInv
  OBVIOUS
<1>1. IInv
  BY InitIInv
<1>2. ASSUME NEW c \in Cpus
      PROVE  TimelyCpu(c)
  BY DEF Init, TimelyCpu, Timely, Sampled
<1> QED
  BY <1>1, <1>2 DEF Init, TInv

\* Every step keeps sampling in time.
LEMMA StepTInv ==
  TInv /\ [Next]_vars => TInv'
<1> SUFFICES ASSUME TInv, [Next]_vars PROVE TInv'
  OBVIOUS
<1> USE DEF tracer, files, env
<1>1. IInv'
  BY StepIInv DEF TInv
<1>2. TypeOK /\ duration_threshold \in Thresholds
  BY Zenon DEF TInv, IInv
<1>3. CASE Environment
  BY <1>1, <1>3, EnvironmentTimely
<1>4. CASE \E c \in Cpus : trace_nosched_hrtimer_handler(c)
  BY <1>1, <1>4, HandlerTimely
<1>5. CASE \E val \in Thresholds : threshold_store(val)
  BY <1>1, <1>5, QuietTimely DEF threshold_store
<1>6. ASSUME stack_trace_store \/ \E w \in Writers : store_trace_enable(w)
      PROVE  TInv'
  <2>1. /\ now' = now /\ expires' = expires /\ busy' = [c \in Cpus |-> now]
        /\ duration_threshold' = duration_threshold
    BY <1>6 DEF stack_trace_store, store_trace_enable
  <2>2. \A c \in Cpus : TimelyCpu(c)'
    BY <1>1, <2>1, NewCpu
  <2> QED
    BY <1>1, <1>2, <2>1, <2>2 DEF TInv
<1>7. ASSUME NEW w \in Writers,
             \/ \E enable \in BOOLEAN : enable_store(w, enable)
             \/ trace_nosched_register_tp(w)
             \/ trace_nosched_unregister_tp(w)
      PROVE  TInv'
  <2>1. UNCHANGED <<stack_trace, run, mode, others, busy, now, expires, duration_threshold>>
    BY <1>7, Zenon DEF enable_store, trace_nosched_register_tp, trace_nosched_unregister_tp
  <2> QED
    BY <1>1, <1>2, <2>1, QuietTimely
<1>8. ASSUME NEW w \in Writers, NEW c \in Cpus, each_hrtimer_start(w, c)
      PROVE  TInv'
  BY <1>1, <1>8, StartTimely
<1>9. ASSUME NEW w \in Writers, NEW c \in Cpus, trace_nosched_hrtimer_cancel(w, c)
      PROVE  TInv'
  <2>1. /\ UNCHANGED <<stack_trace, run, mode, others, busy, now, duration_threshold>>
        /\ expires' = [expires EXCEPT ![c] = NULL]
    BY <1>9 DEF trace_nosched_hrtimer_cancel
  <2>2. \A d \in Cpus : expires[d]' \in {expires[d], NULL}
    BY <1>2, <2>1 DEF TypeOK
  <2> QED
    BY <1>1, <1>2, <2>1, <2>2, QuietTimely
<1>10. CASE trace_noschedule_exit
  <2>1. /\ UNCHANGED <<stack_trace, run, mode, others, busy, now, duration_threshold>>
        /\ \A c \in Cpus : expires[c]' \in {expires[c], NULL}
    BY <1>10 DEF trace_noschedule_exit
  <2> QED
    BY <1>1, <1>2, <2>1, QuietTimely
<1>11. CASE UNCHANGED vars
  BY <1>1, <1>2, <1>11, QuietTimely DEF vars
<1> QED
  BY <1>3, <1>4, <1>5, <1>6, <1>7, <1>8, <1>9, <1>10, <1>11 DEF Next, Writer

\* trace_nosched_hrtimer_handler misses no long stretch: a task that stays in
\* the kernel with others waiting for longer than the threshold, a period and the
\* lateness of the timer is marked, unless the buffer of its CPU is full.  It
\* holds for any number of writers of .../enable, also for two that start the
\* timers over each other.
THEOREM LongStretchTheorem == Spec => []LongStretchMarked
<1>1. TInv => LongStretchMarked
  <2> SUFFICES ASSUME TInv, NEW c \in Cpus, Long(c), HasRoom(stack_trace[c]),
                      stack_trace[c].skip = NULL
               PROVE  FALSE
    BY DEF LongStretchMarked
  <2>1. /\ busy[c] \in Nat /\ now \in Nat /\ expires[c] \in Nat
        /\ now <= expires[c] + MaxLate
    BY TimeFacts DEF TimelyCpu, Timely, Long
  <2>2. PICK th \in Thresholds : expires[c] <= busy[c] + th + sampling_period
    BY TimeFacts DEF TimelyCpu, Timely, Long
  <2>3. now - busy[c] > th + sampling_period + MaxLate
    BY DEF Long
  <2> QED
    BY <2>1, <2>2, <2>3, NoSchedAssumption
<1> QED
  BY <1>1, InitTInv, StepTInv, PTL DEF Spec

------------------------------------------------------------------------------
(* What is active when the tracer is disabled. *)

\* What a write to .../enable in progress has done so far.  It began with
\* trace_enable unequal to what it stores.  Before the probe is registered nothing
\* is active; the timers are cancelled CPU by CPU, then the probe.
Progress(w) ==
  writer[w] # NULL =>
    /\ loaded /\ trace_enable = ~writer[w].enable
    /\ At(w, TRUE, "register") => Quiet
    /\ writer[w].enable = FALSE =>
         /\ writer[w].at # "register"
         /\ \A c \in Cpus : expires[c] # NULL => writer[w].at = "timers" /\ c \in writer[w].todo
         /\ writer[w].at = "store" => ~tp

QInv == IInv /\ QuietWhenOff /\ \A w \in Writers : Progress(w)

\* A step that changes nothing QuietWhenOff looks at.
LEMMA QuietStays ==
  ASSUME QInv, IInv', UNCHANGED <<writer, trace_enable, tp, loaded>>,
         \A c \in Cpus : expires[c] = NULL => expires[c]' = NULL
  PROVE  QInv'
<1>1. Quiet => Quiet'
  BY DEF Quiet
<1>2. QuietWhenOff'
  BY <1>1 DEF QInv, QuietWhenOff
<1>3. ASSUME NEW w \in Writers
      PROVE  Progress(w)'
  BY <1>1 DEF QInv, Progress, At
<1> QED
  BY <1>2, <1>3 DEF QInv

\* The write that is done with a CPU goes on.
LEMMA CpuDoneIs ==
  ASSUME writer \in [Writers -> Writing \cup {NULL}], NEW w \in Writers, writer[w] \in Writing,
         NEW c, NEW at, CpuDone(w, c, at)
  PROVE  /\ at \in {"register", "timers", "unregister", "store"} => writer'[w] # NULL
         /\ writer'[w].enable = writer[w].enable
         /\ writer'[w].todo = writer[w].todo \ {c}
         /\ writer'[w].at = IF writer[w].todo = {c} THEN at ELSE writer[w].at
<1> DEFINE x == writer[w]
           y == [x EXCEPT !.todo = @ \ {c}, !.at = IF x.todo = {c} THEN at ELSE @]
<1>1. writer'[w] = y
  BY Zenon DEF CpuDone
<1>2. /\ y.enable = x.enable /\ y.todo = x.todo \ {c}
      /\ y.at = IF x.todo = {c} THEN at ELSE x.at
  BY DEF Writing
<1>3. at \in {"register", "timers", "unregister", "store"} => y \in Writing
  BY Zenon DEF Writing
<1> QED
  BY <1>1, <1>2, <1>3, WritingAssumption, Zenon

\* A step of the only writer.
LEMMA WriterQuiet ==
  ASSUME QInv, IInv', \A v, w \in Writers : v = w, NEW w \in Writers,
         \/ \E enable \in BOOLEAN : enable_store(w, enable)
         \/ trace_nosched_register_tp(w)
         \/ \E c \in Cpus : each_hrtimer_start(w, c) \/ trace_nosched_hrtimer_cancel(w, c)
         \/ trace_nosched_unregister_tp(w)
         \/ store_trace_enable(w)
  PROVE  QInv'
<1> USE DEF env
<1>1. TypeOK
  BY DEF QInv, IInv
<1>2. /\ writer \in [Writers -> Writing \cup {NULL}]
      /\ trace_enable \in BOOLEAN /\ tp \in BOOLEAN /\ expires \in [Cpus -> Nat \cup {NULL}]
  BY <1>1 DEF TypeOK, Writing
<1>3. /\ writer[w] # NULL => writer[w] \in Writing
      /\ \A v \in Writers : v = w
  BY <1>2
<1>4. Progress(w) /\ QuietWhenOff
  BY DEF QInv
<1>5. SUFFICES (QuietWhenOff /\ Progress(w))'
  BY <1>3 DEF QInv
<1> DEFINE x == writer[w]
           y == writer'[w]
<1>6. ASSUME NEW enable \in BOOLEAN, enable_store(w, enable)
      PROVE  (QuietWhenOff /\ Progress(w))'
  <2>1. /\ x = NULL /\ loaded /\ enable # trace_enable /\ UNCHANGED tracer
        /\ y = [enable |-> enable, todo |-> Cpus,
                at |-> IF enable THEN "register" ELSE "timers"]
    BY <1>2, <1>6, Zenon DEF enable_store
  <2>2. y.enable = enable /\ y.todo = Cpus /\ y.at = IF enable THEN "register" ELSE "timers"
    BY <2>1
  <2>3. enable => Quiet
    BY <1>2, <1>3, <1>4, <2>1, Zenon DEF QuietWhenOff
  <2>4. y # NULL
    <3>1. y \in Writing
      BY <2>1 DEF Writing
    <3> QED
      BY <3>1, WritingAssumption
  <2> HIDE DEF y
  <2> QED
    BY <1>2, <1>3, <1>4, <2>1, <2>2, <2>3, <2>4, Zenon
    DEF QuietWhenOff, Progress, At, Quiet, tracer, y
<1>7. CASE trace_nosched_register_tp(w)
  <2>1. /\ x # NULL /\ x.enable = TRUE /\ x.at = "register"
        /\ UNCHANGED <<expires, trace_enable, loaded>>
    BY <1>7 DEF trace_nosched_register_tp, At
  <2>2. Quiet /\ loaded /\ trace_enable = FALSE
    BY <1>2, <1>4, <2>1, Zenon DEF Progress, At
  <2>3. CASE GoTo(w, "timers")
    <3>1. y = [x EXCEPT !.at = "timers"]
      BY <1>2, <2>3 DEF GoTo
    <3>2. y.enable = TRUE /\ y.at = "timers"
      BY <1>3, <2>1, <3>1 DEF Writing
    <3>3. y # NULL
      BY <1>3, <2>1, <3>1, WritingAssumption DEF Writing
    <3> QED
      BY <2>1, <2>2, <3>2, <3>3, Zenon DEF QuietWhenOff, Progress, At
  <2>4. CASE Return(w) /\ UNCHANGED tp
    <3>1. y = NULL
      BY <1>2, <2>4 DEF Return
    <3> QED
      BY <2>1, <2>2, <2>4, <3>1, Zenon DEF QuietWhenOff, Progress, Quiet
  <2> QED
    BY <1>7, <2>3, <2>4 DEF trace_nosched_register_tp
<1>8. ASSUME NEW c \in Cpus, each_hrtimer_start(w, c)
      PROVE  (QuietWhenOff /\ Progress(w))'
  <2>1. /\ x # NULL /\ x.enable = TRUE /\ x.at = "timers"
        /\ UNCHANGED <<trace_enable, loaded>> /\ CpuDone(w, c, "store")
    BY <1>8 DEF each_hrtimer_start, At
  <2>2. y # NULL /\ y.enable = TRUE /\ y.at \in {"timers", "store"}
    BY <1>2, <1>3, <2>1, CpuDoneIs, Zenon
  <2>3. loaded /\ trace_enable = FALSE
    BY <1>2, <1>4, <2>1, Zenon DEF Progress
  <2> QED
    BY <2>1, <2>2, <2>3, Zenon DEF QuietWhenOff, Progress, At
<1>9. ASSUME NEW c \in Cpus, trace_nosched_hrtimer_cancel(w, c)
      PROVE  (QuietWhenOff /\ Progress(w))'
  <2>1. /\ x # NULL /\ x.enable = FALSE /\ x.at = "timers"
        /\ UNCHANGED <<trace_enable, loaded, tp>> /\ CpuDone(w, c, "unregister")
        /\ expires' = [expires EXCEPT ![c] = NULL]
    BY <1>9, Zenon DEF trace_nosched_hrtimer_cancel, At
  <2>2. /\ y # NULL /\ y.enable = FALSE
        /\ y.todo = x.todo \ {c}
        /\ y.at = IF x.todo = {c} THEN "unregister" ELSE "timers"
    <3>1. /\ y # NULL /\ y.enable = x.enable /\ y.todo = x.todo \ {c}
          /\ y.at = IF x.todo = {c} THEN "unregister" ELSE x.at
      BY <1>2, <1>3, <2>1, CpuDoneIs, Zenon
    <3> QED
      BY <2>1, <3>1, Zenon
  <2>3. /\ loaded /\ trace_enable = TRUE
        /\ \A d \in Cpus : expires[d] # NULL => d \in x.todo
    BY <1>2, <1>4, <2>1, Zenon DEF Progress
  <2>4. \A d \in Cpus : expires[d]' # NULL => d \in y.todo /\ y.at = "timers"
    BY <1>2, <2>1, <2>2, <2>3, Zenon
  <2> QED
    BY <2>1, <2>2, <2>3, <2>4, Zenon DEF QuietWhenOff, Progress, At
<1>10. CASE trace_nosched_unregister_tp(w)
  <2>1. /\ x # NULL /\ x.enable = FALSE /\ x.at = "unregister"
        /\ UNCHANGED <<expires, trace_enable, loaded>>
    BY <1>10, Zenon DEF trace_nosched_unregister_tp, At
  <2>2. loaded /\ trace_enable = TRUE /\ \A d \in Cpus : expires[d] = NULL
    BY <1>2, <1>4, <2>1, Zenon DEF Progress
  <2>3. CASE GoTo(w, "store") /\ tp' = FALSE
    <3>1. y = [x EXCEPT !.at = "store"]
      BY <1>2, <2>3 DEF GoTo
    <3>2. y.enable = FALSE /\ y.at = "store"
      BY <1>3, <2>1, <3>1 DEF Writing
    <3>3. y # NULL
      BY <1>3, <2>1, <3>1, WritingAssumption DEF Writing
    <3> QED
      BY <2>1, <2>2, <2>3, <3>2, <3>3, Zenon DEF QuietWhenOff, Progress, At
  <2>4. CASE Return(w)
    <3>1. y = NULL
      BY <1>2, <2>4 DEF Return
    <3> QED
      BY <2>1, <2>2, <3>1, Zenon DEF QuietWhenOff, Progress
  <2> QED
    BY <1>10, <2>3, <2>4, Zenon DEF trace_nosched_unregister_tp
<1>11. CASE store_trace_enable(w)
  <2>1. /\ x # NULL /\ x.at = "store" /\ trace_enable' = x.enable
        /\ UNCHANGED <<expires, tp, loaded>> /\ y = NULL
    BY <1>2, <1>11, Zenon DEF store_trace_enable, Return
  <2>2. x.enable \in BOOLEAN /\ loaded
    BY <1>3, <1>4, <2>1, Zenon DEF Writing, Progress
  <2>3. x.enable = FALSE => ~tp /\ \A d \in Cpus : expires[d] = NULL
    BY <1>4, <2>1, Zenon DEF Progress
  <2> QED
    BY <2>1, <2>2, <2>3, Zenon DEF QuietWhenOff, Progress, Quiet
<1> QED
  BY <1>6, <1>7, <1>8, <1>9, <1>10, <1>11, Zenon

\* Nothing is active when the module is loaded.
LEMMA InitQInv ==
  Init => QInv
<1> SUFFICES ASSUME Init PROVE QInv
  OBVIOUS
<1>1. IInv
  BY InitIInv
<1> QED
  BY <1>1, Zenon DEF Init, QInv, QuietWhenOff, Quiet, Progress

\* Every step keeps the invariant, with one writer.
LEMMA StepQInv ==
  ASSUME \A v, w \in Writers : v = w
  PROVE  QInv /\ [Next]_vars => QInv'
<1> SUFFICES ASSUME QInv, [Next]_vars PROVE QInv'
  OBVIOUS
<1> USE DEF tracer, files, env
<1>1. IInv'
  BY StepIInv DEF QInv
<1>2. TypeOK
  BY DEF QInv, IInv
<1>3. CASE Environment \/ (\E val \in Thresholds : threshold_store(val))
           \/ stack_trace_store \/ UNCHANGED vars
  <2>1. UNCHANGED <<writer, trace_enable, tp, loaded, expires>>
    BY <1>3, Zenon DEF Environment, Tick, ChangeMode, ChangeOthers, sched_switch, threshold_store,
                stack_trace_store, vars
  <2> QED
    BY <1>1, <2>1, QuietStays
<1>4. ASSUME NEW c \in Cpus, trace_nosched_hrtimer_handler(c)
      PROVE  QInv'
  <2>1. /\ UNCHANGED <<writer, trace_enable, tp, loaded>>
        /\ expires[c] # NULL
        /\ \A d \in Cpus : d # c => expires[d]' = expires[d]
    BY <1>2, <1>4 DEF trace_nosched_hrtimer_handler, TypeOK
  <2> QED
    BY <1>1, <2>1, QuietStays, Zenon
<1>5. CASE Writer
  BY <1>1, <1>5, WriterQuiet DEF Writer
<1>6. CASE trace_noschedule_exit
  <2>1. /\ \A w \in Writers : writer[w] = NULL
        /\ expires' = IF trace_enable THEN [c \in Cpus |-> NULL] ELSE expires
        /\ \/ trace_enable /\ tp' = FALSE
           \/ ~trace_enable /\ UNCHANGED tp
           \/ "unregister" \in Failing /\ UNCHANGED tp
        /\ UNCHANGED <<trace_enable, writer>>
    BY <1>6, Zenon DEF trace_noschedule_exit
  <2>2. ~trace_enable => Quiet
    BY <2>1, Zenon DEF QInv, QuietWhenOff
  <2>3. \A c \in Cpus : expires'[c] = NULL
    BY <2>1, <2>2 DEF Quiet
  <2>4. tp' => "unregister" \in Failing
    BY <2>1, <2>2, Zenon DEF Quiet
  <2>5. ~trace_enable => ~tp'
    BY <2>1, <2>2, Zenon DEF Quiet
  <2>6. QuietWhenOff'
    BY <2>1, <2>3, <2>4, <2>5, Zenon DEF QuietWhenOff, Quiet
  <2>7. \A w \in Writers : Progress(w)'
    BY <2>1, Zenon DEF Progress
  <2> QED
    BY <1>1, <2>6, <2>7, Zenon DEF QInv
<1> QED
  BY <1>3, <1>4, <1>5, <1>6 DEF Next

\* When .../enable is written by one process at a time, which the code leaves to
\* its users, a disabled or unloaded trace_noschedule has no timer started and no
\* probe registered (but one that could not be unregistered), whatever calls of
\* the earlier writes failed.
THEOREM QuietTheorem ==
  ASSUME \A v, w \in Writers : v = w
  PROVE  Spec => []QuietWhenOff
<1>1. QInv => QuietWhenOff
  BY DEF QInv
<1> QED
  BY <1>1, InitQInv, StepQInv, PTL DEF Spec
==============================================================================
