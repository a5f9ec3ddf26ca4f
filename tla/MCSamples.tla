------------------------------ MODULE MCSamples ------------------------------
(***************************************************************************)
(* The smaller kernel modules and programs for TLC.  A behaviour is one of *)
(* one of them, chosen in Init; the others stay in an initial state.       *)
(***************************************************************************)
EXTENDS SampleLocks, SampleHandover

CONSTANTS
  Tasks, Child, RCVBUF,     \* see GetDelays
  COUNT_INTERVAL, MaxKeys   \* see DeferredWork

VARIABLES
  subject,
  \* getdelays
  opt, gd_pc, tid, gd_child, sigchld, alive, gd_registered, sock, overrun, gd_printed, errors,
  \* kthread, kmem
  km_sample, km_module, thread, km_pc, km_stop, killed, cache, obj, cleanup, km_early, misuse,
  km_stale,
  \* hrtimer, sys_wq, wque
  dw_sample, dw_module, timer, dw_ready, work, restarted, wq, damaged, late, count, keys

pg_vars == <<pg_module, pg_registered, top_n, pg_mode, deleted_but_used, ordered_list,
             pg_lock, nrpages, job, pg_inside, alone, found, shown, stray, writes,
             settings, touches>>
gd_vars == <<opt, gd_pc, tid, gd_child, sigchld, alive, gd_registered, sock, overrun,
             gd_printed, errors>>
lt_vars == <<lt_sample, lt_module, ptr, lt_pc, lt_stop, lt_lock, counter, local, rounds,
             stopping, stale>>
km_vars == <<km_sample, km_module, thread, km_pc, km_stop, killed, cache, obj, cleanup,
             km_early, misuse, km_stale>>
cd_vars == <<cd_sample, cd_module, regs, cd_ready, opened, cd_pc, flag, queue, awake,
             holders, cd_inside, foreign, calls>>
dw_vars == <<dw_sample, dw_module, timer, dw_ready, work, restarted, wq, damaged, late,
             count, keys>>
fx_vars == <<total, stored, fx_parent, fx_child, todo, arg, woken, fx_printed, limit>>
ue_vars == <<want, user, mapped, ue_parent, ue_child, writers>>
ed_vars == <<ed_mode, step, held, failed, status, message, handler, unseen, ed_early,
             off, meddled, raised>>

------------------------------------------------------------------------------
\* What pgcache_scan finds: two super blocks, one without a block device, and
\* two processes, one without files.
MCSuperBlocks == <<"s1", "s2">>
MCProcesses == <<"w1", "w2">>
MCInodes == [s1 |-> <<"a", "c", "d">>, s2 |-> <<"b">>]
MCFiles == [w1 |-> NULL, w2 |-> <<"b">>]
MCCached == [a |-> 1, b |-> 3, c |-> 2, d |-> 4]
MCPages == [a |-> {}, b |-> {}, c |-> {0}, d |-> {}]

Gd == INSTANCE GetDelays WITH
  pc <- gd_pc, child <- gd_child, registered <- gd_registered, printed <- gd_printed,
  Options <- {o \in [mask : BOOLEAN, pid : {NULL, "t1"}, fork : BOOLEAN, container : BOOLEAN,
                      loop : BOOLEAN, log : BOOLEAN] :
                (o.fork => o.pid = NULL) /\ (o.log => ~o.loop)}

Km == INSTANCE KmemThread WITH
  sample <- km_sample, module <- km_module, pc <- km_pc, stop <- km_stop, early <- km_early,
  stale <- km_stale,
  Samples <- {"kthread", "kmem"}

Dw == INSTANCE DeferredWork WITH
  sample <- dw_sample, module <- dw_module, ready <- dw_ready,
  Samples <- {"hrtimer", "sys_wq", "wque"}

vars == <<subject, pg_vars, gd_vars, lt_vars, km_vars, cd_vars, dw_vars, fx_vars, ue_vars,
          ed_vars>>

\* The choices that Init makes for a module that is not the subject do not
\* matter: the first one will do.
Init ==
  /\ subject \in {"pgcache_scan", "getdelays", "threads", "kmem", "devices", "deferred",
                  "tfutex", "userns_child_exec", "edu_driver"}
  /\ Pg!Init
  /\ Gd!Init /\ (subject # "getdelays" => opt.pid = NULL /\ TRUE \notin {opt[f] : f \in DOMAIN opt \ {"pid"}})
  /\ Lt!Init /\ (subject # "threads" => lt_sample = "mutex")
  /\ Km!Init /\ (subject # "kmem" => km_sample = "kmem")
  /\ Cd!Init /\ (subject # "devices" => cd_sample = "wakeup")
  /\ Dw!Init /\ (subject # "deferred" => dw_sample = "wque")
  /\ Fx!Init /\ (subject # "tfutex" => total = 0)
  /\ Ue!Init /\ (subject # "userns_child_exec" => want = {} /\ user)
  /\ Ed!Init /\ (subject # "edu_driver" => ed_mode = 0)

Next ==
  /\ UNCHANGED subject
  /\ IF subject = "pgcache_scan" THEN Pg!Next ELSE UNCHANGED pg_vars
  /\ IF subject = "getdelays" THEN Gd!Next ELSE UNCHANGED gd_vars
  /\ IF subject = "threads" THEN Lt!Next ELSE UNCHANGED lt_vars
  /\ IF subject = "kmem" THEN Km!Next ELSE UNCHANGED km_vars
  /\ IF subject = "devices" THEN Cd!Next ELSE UNCHANGED cd_vars
  /\ IF subject = "deferred" THEN Dw!Next ELSE UNCHANGED dw_vars
  /\ IF subject = "tfutex" THEN Fx!Next ELSE UNCHANGED fx_vars
  /\ IF subject = "userns_child_exec" THEN Ue!Next ELSE UNCHANGED ue_vars
  /\ IF subject = "edu_driver" THEN Ed!Next ELSE UNCHANGED ed_vars

\* The fairness of each module.  None of these asks for a step in an initial
\* state.  The strong fairness of the three modules that have it is stated for
\* one actor of each at a time: at most one of the three disjuncts can be
\* enabled in a behaviour, so it is strong fairness of that one.
Fairness ==
  /\ Gd!Fairness /\ Lt!WeakFairness /\ Km!Fairness /\ Cd!WeakFairness /\ Dw!Fairness
  /\ Fx!Fairness /\ Ue!Fairness /\ Ed!Fairness
  /\ \A a \in {<<"w1", "thread1", "p1">>, <<"w2", "thread2", "p2">>} :
       SF_<<pg_vars, lt_vars, cd_vars>>(
         \/ Pg!Step(a[1]) /\ UNCHANGED <<lt_vars, cd_vars>>
         \/ Lt!Lock(a[2]) /\ UNCHANGED <<pg_vars, cd_vars>>
         \/ Cd!Waits(a[3]) /\ UNCHANGED <<pg_vars, lt_vars>>)

Spec == Init /\ [][Next]_vars /\ Fairness

------------------------------------------------------------------------------
(* Properties. *)

\* What is removed leaves nothing behind that runs, waits or is registered:
\* threads, caches and their objects, devices, timers and work, the mask
\* registered by getdelays, the region of edu_driver.  Excepted, in the
\* modules' properties: the second thread of spinlock.c, caches and work under
\* way when the exit function of kmem.c, hrtimer.c, sys_wq.c or wque.c begins,
\* the mask after errors behind the deregistration of getdelays, the handler,
\* the mapping and the enabled device of edu_driver.
NothingLeftBehind ==
  /\ Lt!ThreadsStopped /\ Km!CachesReleased /\ Cd!NothingLeft /\ Dw!NothingLeft
  /\ Gd!Deregistered /\ Ed!NothingLeft

\* What is printed answers the question: the largest cached files if no other
\* call ran meanwhile (calls that overlap mix their files, but the list stays
\* sorted), the statistics of the task that was asked for and, with -m, of
\* tasks that have exited.
AnswersRight == Pg!TopShown /\ Gd!AskedForPrinted

\* Calls return: the write to pgcache_scan_top_n, the question of getdelays,
\* rmmod of the modules that wait for their threads, read and write of the
\* character devices; unless a print of an empty list left the spinlock of
\* pgcache_scan stuck or rmmod took the code of a device away.
CallsReturn ==
  Pg!WriteReturns /\ Gd!QuestionEnds /\ Lt!ExitReturns /\ Km!ExitReturns /\ Cd!CallsReturn

\* What was handed over is taken: work runs, the futex wakes the parent, the
\* end of the pipe the child, an interrupt ends.  Excepted, in the modules'
\* properties: work initialised while it is queued, a FUTEX_WAIT that begins
\* after the FUTEX_WAKE or has no child to wake it, an MSI sent before
\* request_irq or after pci_remove.
WaitsEnd == Dw!WorkRuns /\ Fx!ParentEnds /\ Ue!BothEnd /\ Ed!InterruptEnds
==============================================================================
