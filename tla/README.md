# TLA+ specifications of uio_linux_sample

The repository is a collection of Linux kernel modules, user programs and scripts.
This directory models its stateful parts in TLA+, checks the models with TLC and
proves the central properties with TLAPS. All paths below are relative to the
repository's `src/`.

## The system

| part | state and operations | what is hard about it |
|---|---|---|
| `trace/runqlat` | one `struct runqlat_info` under a raw spinlock: the traced pid, the CPU it waits on, two fixed arrays (records of tasks, traces over them), a histogram. Written by three scheduler probes on every CPU and by `/proc/trace_runqlat/{pid,threshold}`, printed by `runqlat` | every entry point tests `pid`/`cpu` without the lock and again with it; the arrays fill up inside the scheduler |
| `trace/trace-noschedule` | per CPU: an hrtimer, stored stacks, the flag `skip`; globally `trace_enable`, a tracepoint. Written by timer, `sched_switch` probe, three `/proc` files, module exit | a sample and the switch that ends the stretch cooperate through `skip`; enable starts a tracepoint and one timer per CPU, each step can fail |
| `trace/trace-irqoff` | per CPU: an hrtimer and a timer_list timer, two sets of stored stacks, the flag `softirq_delayed`; globally the period and the threshold | a missed interrupt is seen only by its lateness; one handler judges the other; readers run against the handler with acquire/release only |
| `rdma` | two programs with a TCP connection and a connected pair of RDMA queue pairs | two hosts share memory and are ordered by one-byte messages; each of some twenty calls can fail on either side |
| `mem/vm/page-types` | ranges of addresses, filters on flags, a list with ranges of equal pages, a hash table of flag combinations, operations on page frames | all of it is kept in static variables over the walk; the machine changes while it is walked |
| `mem/vm/slabinfo` | an array of caches and one of aliases, read from sysfs, linked, renamed, sorted, printed, written to | pointers into an array that is sorted; attributes read at different times |
| `mem/linux-ftools/linux-fincore` | a table of regions, totals over all files | regions, the last of them shorter; the table is shared by all files |
| `mem/vm/page_owner_sort` | a list of text blocks, sorted twice and merged | a fixed buffer between the file and the list |
| `mem/libvirt-autoballoon` | a daemon that enlarges and shrinks guests | decides from three queries of a guest that changes meanwhile |
| `kmem/pgcache_scan` | a global ordered list under a spinlock, filled by walks over super blocks and processes from sysctl handlers | several handlers run at once and share the list |
| `steal/getdelays` | a netlink socket, a registered CPU mask, a forked command | answers, exits of tasks and overruns arrive in any order |
| `lock/{mutex,semaphore,spinlock}`, `kthread`, `kmem/kmem.c` | kernel threads that share a lock or own caches | module exit against running threads |
| `wakeup`, `lock/{rwsem,cdev_mutex,cdev_semaphore}` | character devices whose calls wait or lock | lost wakeups; a lock taken in one call and released in another |
| `hrtimer`, `workqueue` | a timer and work that restart each other, an interrupt with work, delayed work | exit cancels one of two |
| `lock/futex`, `namespace/userns_child_exec` | parent and child with a futex, or a pipe, between them | what the one that waits may rely on |
| `qemu_pci/edu_driver` | a PCI driver: probe, remove, interrupt handler | the device raises interrupts while the handler reads and acknowledges |
| `uio`, `pci`, `taskinfo`, `tgid_avglat`, other samples of `namespace` and `mem`, `ovsdpdk`, `bpf`, `kprobe`, `trouble_shot`, `virtio`, `tool`, single-file samples | system calls in sequence, scripts, probes that print | little state of their own, see "Not modelled" |

`PROJECT.json` lists every part with its status.

## Modules

| module | models | state | actions |
|---|---|---|---|
| `RunqLat` | `trace_runqlat.c` | `info` is `struct runqlat_info`; `writer`, `reader`, `probe` hold an entry point between its unlocked test and its locked section; `run`, `tcpu`, `tst`, `since`, `now` are the scheduler | each probe, writer and reader is two actions: the event with the unlocked test, and the locked section |
| `TraceLog` | what the tracer promises: waits are kept or forgotten as a whole | `on`, `log`, `pending`; `used`, the room taken by the kept waits | start, stop, one more task ahead, finish |
| `RunqLatLog` | the refinement mapping from `RunqLat` to `TraceLog` | none: the log that the two arrays stand for | |
| `Histogram` | the three bucket loops and `histogram_show` | none: operators | |
| `NoSched` | `trace_noschedule.c` | `stack_trace`, `expires` per CPU; the global settings; `writer` is the position of a process in `enable_store`; as history since when each CPU is busy under the timer (`busy`) | timer handler and probe are one action each, since they run with interrupts off; `enable_store` is one action per call it makes |
| `IrqOff` | `trace_irqoff.c` | `cpu_stack_trace`, `hrtimer`, `timer` per CPU; the settings; `proc` is the position of a process in a `/proc` write; `overflowed` names the settings whose value did not fit the code's 64 bits (`Word`); as history the intervals without interrupts and softirqs, and the delay the last run of the hrtimer handler tolerates (`allowed`) | the two handlers, the steps of the writers, exit; the environment disables and enables interrupts and softirqs |
| `IrqOffShow` | `save_trace`, the clear and `trace_latency_show` of `trace_irqoff.c` at the grain of single stores and loads | one set of stacks, one reader | a handler storing field by field, the release, a clear, the reader's loads |
| `TracerOutput` | what the tracers print: `IrqOffShow` beside the histograms | those of `IrqOffShow`; a measured time and a sampling period | those of `IrqOffShow`; a longer time |
| `RdmaEx` | `rdma_ex.c` | per side: position in the program, resources that exist and the pointers to them, what the clean-up has tried and what was refused, queue pair, send, receive and completion queue, buffer; the TCP connection | one action per call and per release, either of which may fail; device and TCP are external |
| `PageTypes` | `mem/vm/page-types.c` | the options; the position of the walk; the static variables of `show_page_range` and `mark_page_idle`; the hash table; what has been printed and written; as history the pages looked at | one action per batch, VMA or file and one per page; each read of `/proc` gives any contents |
| `Slabinfo` | `mem/vm/slabinfo.c` | the directory and the caches of the kernel; `slabinfo`, `aliasinfo`; the position in `main`; what has been printed and written | reading an entry in two steps, with changes of the caches at any time; link, rename, sort; one step per cache of each output |
| `Fincore` | `linux-fincore.c` | the files still to do, the table of regions, totals, rows printed | one action per file, with any answer of `mincore`, any failing call and the undefined reads |
| `PageOwnerSort` | `page_owner_sort.c` | input, list, merged list | reading a block through the fixed buffer, the two sorts, the merge |
| `Balloon` | `libvirt-autoballoon.py` | the guests as they are and as the daemon saw them; the domains still to do in the round; what it asked for | one action per query and per request, either of which may end the daemon by an exception; guests change, shut down, finish a change later |
| `PgcacheScan` | `cache_scan.c` | `ordered_list` and its lock, `top_n`; per writer the rest of its call | one action per section of `ordered_list_lock`; unloading |
| `GetDelays` | `getdelays.c` | position in `main`, options, socket, registration, child | one action per call of `main`, with its error exits; the kernel's answers, exits and overruns |
| `LockThreads` | `mutex.c`, `semaphore.c`, `spinlock.c` | lock, `counter`, position of each thread, the pointers exit uses | `counter++` is a read and a write; init and exit are steps per thread |
| `KmemThread` | `kthread.c`, `kmem.c` | caches, objects, thread | the calls of the thread and of the exit function, SIGKILL, failing allocations |
| `CharDevices` | `wakeup.c`, `rwsem.c`, `cdev_mutex.c`, `cdev_semaphore.c` | registrations, open files, flag, wait queue, holders | registrations with error paths; `open`, `release`, and `read` and `write` in steps |
| `DeferredWork` | `hrtimer.c`, `sys_wq.c`, `wque.c` | timer, work item, module | callback, worker, interrupt, loading and unloading |
| `FutexShm` | `tfutex.c` | the shared list, the futex word, both processes | the child's stores in any order; `FUTEX_WAIT` and `FUTEX_WAKE` |
| `UsernsExec` | `userns_child_exec.c` | both processes, ends of the pipe, maps written | one action per call of either |
| `EduDriver` | `edu_driver.c` | resources held, status of the device, handler between read and acknowledgement | steps of `pci_probe`, `pci_remove`, unloading, the handler, the file operations; the device raises bits |
| `SampleLocks`, `SampleHandover` | the samples about locks, and those in which one side waits for the other, side by side, with the property they share | those of the samples | |
| `*Proofs` | proofs, see below | | |
| `MC*` | instances for TLC. `MCTracerFiles`, `MCTools` and `MCSamples` hold several subjects that do not interact; a behaviour is about one, chosen in `Init`, and a property of the run is the conjunction of the subjects' properties of that kind | | |

External to the repository, and modelled as far as the code can tell the difference:
the scheduler (one clock, no kernel preemption, as the tracer's README requires),
timers, workqueues, the interrupt state of a CPU, the locks and wait queues of the kernel,
TCP, netlink, libvirt, the edu device and the RDMA device.

Definitions whose name ends in a suffix after an underscore and a capital letter
(`StorePid_KeepsTraces`) and whose comment says MUTANT are plausible wrong versions of
the code. No specification uses them; put in the place of the real definition, each
makes TLC report the property it is listed with in `PROJECT.json`.

## Runs

| run | question | bounds |
|---|---|---|
| `runqlat_traces` | can interleavings of two pid writers, a reader and the probes overrun or mix up the arrays, or lose track of the CPU; do the arrays implement `TraceLog`; are the recorded times parts of the wait? | 2 CPUs, 2 tasks, arrays of 2 and 3, clock to 5: enough to fill both arrays, to overflow, to stop and to start again. One threshold: the properties of the arrays are proved for all |
| `runqlat_latency` | is the recorded latency the time waited? **No**: see below | as above, one writer |
| `nosched_sampling` | does sampling notice a long stretch, once, and keep the stored stacks intact? | 1 CPU (CPUs share nothing but the settings), 2 tasks, 2 stacks, 4 frames, depths 1 and 3, a timer late by 1, clock to 6, tracing switched on and off once |
| `nosched_clear` | has the probe that completes a record a record to complete? **No** after a clear: see below | |
| `irqoff_measure` | are intervals with interrupts or softirqs off measured, within the promised error, and nothing else? | 1 CPU, period 2 or 3, threshold 7 set to 4, to (refused) 0 or to 18, of which words modulo 16 leave 2; clock to 9 (two delays, or one across a stop and start), wheel slack 0 or 1 |
| `irqoff_twostacks` | are there two stacks for each softirq delay? **No**: see below | |
| `tracer_files` | is everything stopped when it should be, also after failures; do the orders of writes keep period and threshold consistent; what does a reader see while stacks are stored and cleared; is a time counted in the row that is printed for it? | noschedule and irqoff: 2 CPUs, 4 writes by one process, both tracepoint calls may fail, words modulo 50, so that of the periods 1, 3, 9 and 18 ms (3 ns each) the double of one wraps and another wraps itself, and so does one of the thresholds; reader: 3 slots, 4 records, one clear; histograms: 5 rows, all times to 400 units for three periods |
| `rdma` | do client and server order their accesses, release what they hold, agree on success, and come to an end? | 2 failing releases on both sides together (`MaxRefused`: two are needed for the exception of `PrintedRight`); both programs are finite |
| `tools` | do page-types and slabinfo walk, list, count, name and write to what was asked for, each once and in order; do fincore and page_owner_sort count right; does the balloon daemon ask for sizes that are within bounds, leave a guest that does not change meanwhile what it uses, and settle, up to a step that is large for what is to be kept free? | page-types: 15 command lines (each kind of range, filter and walk, and the fatal ones), 4 frames, 3 VMAs with a gap, 3 files' sizes, batches of 2, words of 2 pages, a hash table of 4; slabinfo: 14 command lines, 6 directories of up to 6 entries, 4 states of a cache, one change while reading; fincore: pages of 2 bytes, 2 regions; page_owner_sort: a buffer of 4; balloon: 3 guests, two of them allowed, one with and one without `keep_free_kb`, memory of 12, 3 rounds |
| `pagetypes_idle` | does `page-types -i` mark all accepted pages? **No**: see below | as `tools` |
| `slabinfo_trace` | does `slabinfo -d` switch everything off? **No**: see below | as `tools` |
| `samples` | do the small modules' locks exclude, do their exits leave nothing behind, is what is handed over complete, is what was asked for printed, do calls return and waits end? | pgcache_scan: 2 writers, 3 writes (the third enters the section that the print of an empty list opened), three files with pages and `top_n` 2, so that the list is cut, one change of a setting and of a file; getdelays: 2 tasks, a socket for one message; threads: a counter that wraps at 3 (`Wrap`, for the `int` of the code); devices: 2 processes, 4 calls; work: 3 key presses, `COUNT_INTERVAL` 3; futex: a list of 2; edu: 2 interrupt bits, raised twice. The windows that the invariants except are reached: without the exception TLC reports the invariant |

Where a configuration has `CHECK_DEADLOCK FALSE`, the system really may stop: the
RDMA programs, the tools and the samples end, and a module that is unloaded does nothing;
with the bound on the clock reached and interrupts off an
`IrqOff` CPU has nothing to do.

Symmetry is used for CPUs, writers and untraced tasks in runs that check safety only.

### Fairness

The three tracers state what has happened by a certain time, with the clock as a
variable. Liveness is stated where the code waits:

| module | fairness | why |
|---|---|---|
| `RdmaEx` | weak, of each program and each device | the operating system schedules a program that is not blocked in `accept` or `read`; a posted work request is carried out or fails. Nothing forces a call to fail |
| `PgcacheScan` | strong, of the steps of each handler | a handler runs in the kernel to its end; ticket and queued spinlocks are handed over in order |
| `GetDelays` | weak, of `main` after the options, and of the end of the command | the program is scheduled. The kernel is not forced to send an exit |
| `LockThreads` | weak, of the threads and of exit; strong, of taking the lock | the threads sleep between two rounds, and mutex, semaphore and spinlock serve those who wait |
| `KmemThread` | weak, of the thread and of the exit function | both run in the kernel |
| `CharDevices` | weak, of a woken reader and of `write`; strong, of a read or write of `rwsem.c` | an rwsem queues; a process is not forced to call anything |
| `DeferredWork` | weak, of timers, workers and the rest of init | timers expire, workers run. Key presses and rmmod are not forced |
| `FutexShm`, `UsernsExec` | weak, of each step of both processes | scheduled; a signal, a failing `read` and the end of the command that is executed are not forced |
| `EduDriver` | weak, of `irq_handler` | a pending interrupt is delivered. The device and the user are not forced |

## Proofs

`RunqLatProofs` proves, for any CPUs, tasks, writers, readers, thresholds and array
sizes:

* `Inductive`: `Spec => []IInv`,
* `TypeCorrect`, `InBounds`, `NoWarning`, `Disjoint`: the invariants of
  `runqlat_traces` about the types and the arrays,
* `KeptStable`: the action property `KeptTracesStable`.

None of the invariants is inductive alone. That `record_task` stays in bounds needs
that a session with a full array is switched off at once; that the records of the
open trace are the last of the array (`CurrentIsLast`) needs that the traces above the
open one are empty, because `record_task_commit` moves on to the next without
initialising it; that slices are disjoint needs that the open trace begins behind
every kept one. `IInv` is the type invariant with `Good(info, now)`: these facts about
`info` (`Shape`), and time stamps that are not in the future, so that differences are
natural numbers. The proof goes operation by operation: a lemma for each of
`record_task`, `record_task_commit`, `runqlat_info_reset`, the probes' locked
sections and `trace_pid_store` says that it keeps `Good`; the step lemma has a case
for each action. The assumptions are `SetsAssumption` and `SizesAssumption` of
`RunqLat`: special values differ from ordinary ones, sizes are positive.

The other proofs follow the same pattern, one lemma per action and one for each
operation on the data. Eight modules hold theorems.

**The wait of the traced thread** (`RunqLatWaitProofs`, on top of `RunqLatProofs`).
`WatchesRightCpu` proves `WatchesTargetCpu`, `NeverOverstated` the action property
`LatencyNotOverstated`, `RuntimesFit` the invariant `RuntimesWithinLatency`. The invariant is
first about the scheduler (`SchedInv`, in `RunqLatProofs`): a probe in
progress holds its run queue, no two hold the same one or move the same task, and a task that
runs is nowhere else. Then about `info`: the wait is measured from when the thread joined the
run queue or later, or the probe that will set the start is in progress
(`MeasuredFromQueue`). `WatchesTargetCpu` has no exception: while a probe of the thread is
under way, the run queue it holds keeps the thread where `info.cpu` says.

That runtimes do not exceed the latency is stated without a sum: each recorded task has a
place of its own within the wait, before the next task's (`OneAfterAnother`), from which the
sum follows. So no fold has to be carried through the operations on the arrays: `record_task`
puts one more interval at the end (`OneMore`), a longer wait keeps the places (`Longer`). The
invariant (`Accounted`) says where the end is: the intervals recorded so far of the wait in
progress lie between `rq_start` and `run_start`, the start of the interval that is being
measured, and a migration sets `run_start` and leaves `rq_start`.

**Refinement** (`RunqLatLogProofs`). `Refines`: `Spec => ImplementsTraceLog`. Each locked
section maps to one step of `TraceLog` or to a stutter: `record_task` to one more task
ahead, the switch to the thread (`record_task` and `record_task_commit`, either of which may
fill an array) to a finish that keeps or forgets the wait, `trace_pid_store` to start or stop. It
rests on `IInv`: that the kept slices do not move is what makes a step on the arrays a step on
sequences. It also needs that the clock stays below
its bound, and that writers ask for targets only (`Bounded`).

**Sampling of noschedule** (`NoSchedProofs`). `FramesPackedTheorem`, `OneRecordTheorem`,
`LongStretchTheorem`, `QuietTheorem`. Packing is inductive together with the types. At most
one record per stretch is not: the handler relies on `skip`, so the invariant says that a
recorded stretch has `skip` set or the buffer full, that no record is of a later stretch
than the present one, and that the idle task has none. That a long stretch is marked needs
what the timer owes (`Timely`): it is due at most a period from now and late by at most
`MaxLate`, and as long as an unmarked stretch lasts the next sample comes in time to mark
it. `QuietWhenOff`
is proved for one writer of `enable`: with two it is false of the code (see below), and
`tracer_files` checks one. The invariant follows the writer through `enable_store`: which
CPUs have been done and whether the tracepoint is registered.

**Stacks and times of irqoff** (`IrqOffProofs`, `IrqOffTimeProofs`).
`FramesPackedTheorem` is about both sets of stacks of each CPU; a record stores a difference
of time stamps, so the invariant adds that none is in the future. The theorems about time
go through a view of a step from one CPU (`CpuView`: the clock ticks, a mask is switched,
one of the handlers runs, timers are started or cancelled, nothing happens), so that each
invariant of a CPU has one case per view and not one per action:

* `SoftDelayTheorem` (`SoftDelayMarked`, any number of writers): the hrtimer is due at most
  one period after its last run, and its handler marks a delay beyond the threshold.
* `QuietTheorem` and `LatencyTheorem` (`QuietWhenOff`, `LatencyAboveThrottle`, one writer):
  the write in progress is followed CPU by CPU; settings are stored only while no timer
  runs. Settings are kept in 64 bits (`Word`), so `LatencyAboveThrottle` is about values that
  fit: of a threshold of 2^64 ns or more, or a period of half that, the upper bits are lost.
* `HardOffTheorem` (`HardOffMeasured`, one writer, no period of 0, `PeriodsFit`): the time stamp is one
  period before the hrtimer is due, and the handler is late only while interrupts are off.
* `SoftOffTheorem` (`SoftOffReal`, one writer, `PeriodsFit`, `FineJiffies`): the softirq timer is due less
  than two periods after its time stamp, so a measured delay of two periods means that it
  was held up.

That a delay which reaches the throttle changes a counter needs that the loop of
`trace_irqoff_record` yields a number at all (`IrqoffIndexNat`), an induction done as for the
histograms below.

The hypotheses are where the code's own promise ends, and each exception is in the list
below: `OneWriter`, since two processes interleave between the test of `trace_enable` and
the store; `0 \notin Periods`, since `sampling_period_write` accepts 0; `PeriodsFit`, since it
accepts periods whose double is beyond 64 bits (292 years); `FineJiffies`, since
with a jiffy longer than the period every tick looks like a delay.

**What the tracers print** (`FilesAndBalloonProofs`). `RightBucketTheorem`: for every time,
period and number of rows each of the three loops counts in the row printed for it, with the
exceptions that `RightBucket` names; `CountedTheorem` states it as the invariant
`CountedWhereShown`, which `tracer_files` checks for times to 400. The period is not 0
(`HistogramAssumption`): with 0, which `trace_irqoff.c` accepts, every bound is printed as 0.
The loops are recursive functions. The library's induction theorems cannot be used here, so
the proof takes a least counterexample (`Least`, from the well-foundedness of `<`): it shows
that the recursive definitions have a solution, that a value lies in the band
`step * 2^k .. step * 2^(k+1) - 1` for exactly one `k`, and that each loop computes this `k`,
or for `trace_irqoff_record` the one below it on a lower bound.

`ExactTheorem` (`ExactUntilCleared`, in the same module): a reader of `trace_latency` prints
whole stacks in order, for any number of slots, records, reads and clears. What is printed says
nothing of what is in the buffer, so the invariant (`ShowInv`) has, as long as nothing was
cleared, record `k + 1` in slot `k`, all parts of the slots below `nr_irqoff_trace` stored (the
release comes after them), and the reader at the slot behind the ones it has printed, below the
number it has read with the acquire. Hence `save_trace` stores where no reader looks.

**The balloon daemon** (same module). `BalloonTheorem`: `Ballooned`, for any domains, sizes,
uses, `keep_free_kb` of each domain and number of rounds. `Ballooned` has conditions of its
own: that shrinking leaves the guest what it uses and half of what is to be kept free is not
promised when `keep_free_kb` is given and is less than the step, nor that a request is not
taken back when the step is more than half of what is to be kept free; both only for a guest
that did not change between the queries. Each request keeps what it was made from
(`Request`): the sizes that were read, the step for this use, and, if the guest did not change
between the queries, that the use was below the size and the free memory beyond the limit that
made the daemon act. The three parts of `Ballooned` are arithmetic on that (`RequestFits`,
`RequestsSettle`). The invariant (`BalloonInv`) says of each position in `process_domainID`
what has been read and, while `same` holds, that it still is what the guest has.

**The samples** (`SamplesProofs`).

* `LocksTheorem` (`LocksExclude`). Scanner: until a lock is released for another, a handler
  inside the list holds the lock. Threads, for any `Wrap`: a thread between its read and its
  write of `counter` holds the lock and has read the present value; at most one thread is
  there; a thread that runs has a `task_struct` behind its pointer. Devices: as long as nobody
  released the lock for another, who is inside is who holds it, and a writer holds it alone.
* `HandoverTheorem` (`HandedOver`). Futex, for lists of any length: `FUTEX_WAKE` comes after
  the last store, and a parent that was woken prints after it. Namespace: as long as the
  parent holds its end of the pipe the child is before its `execvp`, and it closes it after the
  maps. Device, for any bits: what the handler has read but not acknowledged is not among the
  unseen bits.

The assumptions are the named `ASSUME`s of `RunqLat`, `NoSched`, `IrqOff`, `IrqOffShow`,
`TracerOutput` and `Balloon` (special values
differ from ordinary ones and from the records that a writer or a probe keeps, sizes are
positive, the clock has room for one tick, a guest has at least 4 MiB and is not started with
more than its maximum), the hypotheses above, and in the theorems about
samples that special values differ from ordinary ones (`NULL` and `"stuck"` from writers,
`NULL` from threads, `"read"` from bits) and that a length is a natural number.

Only model-checked:

* liveness under fairness (`rdma`, `samples`), which is out of the prover's reach;
* `QuietWhenOff` and `LatencyAboveThrottle` of `tracer_files` as such: the run has them through
  instances of `NoSched` and `IrqOff`, and the theorems above are about these modules;
* the safety properties of `RdmaEx`: both programs are finite and nothing in them is a
  parameter, so the run is exhaustive up to the number of releases that fail;
* `page-types`, `slabinfo`, `fincore` and `page_owner_sort`: their properties compare what was
  printed or written with folds over the input (sums, sorts, hash tables, recursive walks), for
  which an induction over data would be needed each time;
* `NothingLeftBehind`: a conjunction over nine samples that share nothing, each of them small
  enough for TLC to be exhaustive up to the number of calls;
* `AnswersRight`: what `pgcache_scan` prints is the result of a sort, again an induction over
  data.

## Where code and documentation disagree

With a run that shows it:

* `runqlat_latency` - `trace/runqlat/trace_runqlat.c:302`. When the record made at the
  switch to the traced thread fills the task array, `record_task` resets `rq_start`, and
  the latency committed right after is `now - 0`.
* `nosched_clear` - `trace/trace-noschedule/trace_noschedule.c:333`. Clearing the stacks
  leaves `skip`; the next switch stores into `duration[]` at the unsigned index
  `nr_stack_entries - 1`, which is 4294967295.
* `irqoff_twostacks` - `trace/trace-irqoff/trace_irqoff.c:272`. A hardirq record during a
  softirq delay restarts the softirq time stamp; the second stack with the real latency
  is not stored.
* `pagetypes_idle` - `mem/vm/page-types.c:590`. A word of the idle bitmap is written when
  a page of another word comes; the last word of a walk over files is never written, and
  without `-f` the bitmap has not been opened at all (1334).
* `slabinfo_trace` - `mem/vm/slabinfo.c:774`. To switch tracing off, 1 is written to the
  file `trace`.

Met while modelling; the properties above are stated around them:

* runqlat: `runqlat_show` tests `pid` without the lock (463), so the file can be printed
  while tracing is on (README.md:77 says tracing must be off); `curr` may be stale at a
  migration (334); two racing pid writers may both pass the test at 402; the bucket
  "1 -> 1" also counts latencies below 1 ms.
* noschedule: a stretch begun before enabling may leave `skip` for the next session, in
  which the first long stretch is then not recorded (307, 328); two racing enable
  writers both start the timers (508); if unregistering the tracepoint fails, the timers
  are stopped while enable still reads on (518); exit does not wait for an enable write
  under way (748).
* irqoff: a period of 0 is accepted (683) although README.md:101 and the comment at 74
  give 1 ms as the least; with two processes the period can change between the test
  and the store although tracing has been enabled (677); thresholds and periods are
  multiplied by 1000000, and the period doubled, without a test, so that large ones wrap (461,
  683, 685) and the threshold may end up below twice the period; with a jiffy longer than the
  period softirq delays are counted at every tick (311, 347); a delay on the lower limit
  of a row is counted one row lower (245; `CountedWhereShown` says exactly when);
  after a clear a reader may print the head of one stack with the frames of another
  (482).
* rdma: at the end of the stream the loop of `sock_sync_data` calls `read` for ever (283;
  `EndsOrReadsForever` names the two places where a side can stay); a failed sync of
  `connect_qp` is reported as success (961; `QueuesSuffice` and `PrintedRight` hold
  nevertheless); a message that arrives in two segments is put together wrongly, since
  `read` is called with the same address and length again (279; not modelled: a message
  is read as a whole); `resources_destroy` frees the buffer also when neither the queue pair
  nor its registration could be released (988-1001), so that a request of the other side may
  still be served from freed memory (the exception of `PrintedRight`).
* page-types: the name "swap" finds the flag swapcache, the first whose name begins so
  (`parse_flag_name`); at a SIGBUS `end` becomes the offset in the mapping, not in the
  file, by the precedence of `?:` (1004), so the rest of the file may be skipped; without
  `-M` counts of mappings are compared though never read (694), so equal pages may be
  listed in several lines; a full hash table ends the program after the page was listed.
* slabinfo: the comment above `find_one_alias` promises the shortest alias, the code takes
  the longest; with `-i` the comparison of a value never yields more than 0, so nothing is
  exchanged (`InOrder` leaves this case out); `-N` also counts caches that are then
  skipped; tracing is enabled only if one cache was read (`slabs`), not if one was
  selected; attributes are separate files, so the loss of a cache that is in use can wrap
  around; the sizes of the arrays are tested after they have been filled (1277); aliases
  of caches whose names differ in case only are not gathered.
* fincore: the loop reads one element behind the vector of `mincore` when the size is a
  multiple of the page size; the pages behind the last whole region are counted behind the
  table; a failing call goes to the clean-up with variables that have no value.
* page_owner_sort: text behind the last empty line is dropped, and so is everything from the
  first block that does not fit into the buffer.
* balloon: any error of libvirt, such as a guest that is shut down between two queries, ends
  the daemon; a guest that changes during the queries of several requests can be brought so low
  that the next request is for 0 or less, which `setMemory` refuses, and this too ends the daemon
  (`Within` promises a positive size only for a guest that did not change between the queries;
  it takes more rounds than the run has); if a step is more than half of what is to be kept free, a guest is enlarged and
  shrunk in turns (`Settles` says exactly when not); a `keep_free_kb` less than the step can take from a guest
  what it uses (`UsedKept`).
* pgcache_scan: the print of an empty list releases a lock that it has not taken
  (`cache_scan.c`:79-82, 108), in the middle of another handler's section or when it is free;
  a ticket spinlock is never free again after the latter. Writers that run at the same time
  print each other's files. The scans call `kzalloc(GFP_KERNEL)`, which may sleep, with two
  spinlocks held (`cache_scan.c`:119-123); that it returns is assumed, so this is one more way
  in which a write may not return.
* getdelays: after some errors the program ends with its mask still registered (`Deregistered`
  names them).
* lock: the second thread of `spinlock.c` is never stopped, and its first may have ended when
  it is; `kthread_run` and `kthread_create` are compared with NULL, so an error is followed as
  a pointer. `kmem.c` destroys its caches before it stops the thread that makes and uses them.
* character devices: `wakeup.c` and `rwsem.c` do not set `.owner`, so they can be unloaded while
  a process waits in them; `write` of the two `cdev_` samples unlocks whoever holds the lock.
* work: `hrtimer.c` initialises its work after the timer was started, and its exit cancels the
  timer and not the work, which starts the timer again; `sys_wq.c` initialises work that may be
  queued; `wque.c` does not cancel the timer of its delayed work.
* futex: the segment is not removed (the comment at `tfutex.c`:122 says it is), so the next run
  finds the old value; if `fork` fails, or the child cannot map the segment (73-75), the parent
  sleeps for ever, and so it does if it waits after the child has called `FUTEX_WAKE` with the
  value unchanged.
* userns_child_exec: when the parent dies before it wrote the maps the child runs its command
  without them (the comment at 175-183 promises the maps first).
* edu_driver: `pci_probe` reports failure by 1 (comment at 155-156), which the PCI core takes for
  success, so `pci_remove` is called for a device that was not set up; it leaves handler, mapping
  and the enabled device, and with MSI frees the vectors under the handler (at which a kernel may
  stop; the model goes on), and the handler stays registered when the module is unloaded.

## Not modelled

* `uio`, `pci` and the user-space tools of `qemu_pci`: one registration without an interrupt,
  single accesses to mapped registers, one blocking read.
* `taskinfo`, `steal/get_rundelay.c`, `tgid_avglat`: counters are read and printed. (The average
  of `tgid_avglat` divides by zero for a process without children and further threads.)
* The other samples of `namespace`, `memory_allocate`, `csample`, `leet`, `str`, `sysv`, `waitpid`,
  `pwrite`, `percpu`, `kvm` and the small memory tools: a few library or system calls in
  sequence; `smem` adds up what `/proc` says.
* `bpf`, `kprobe`, `trouble_shot`, `virtio`, `mem/pagecache`: scripts that print what a probe
  delivers. `ovsdpdk`: scripts that configure a host through programs that are not in the
  repository. `tool/graph`: drawing.
* Of what is modelled: the start of the tracers and its error paths (it runs once, before
  anything else can); readers that print without changing anything; a cache that is destroyed
  while slabinfo reads it; a TCP message in two segments; what happens after an undefined
  step (a torn list, code of a module that is gone, an oops).
