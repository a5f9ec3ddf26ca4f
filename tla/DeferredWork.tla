---------------------------- MODULE DeferredWork ----------------------------
(***************************************************************************)
(* hrtimer/hrtimer.c, workqueue/sys_wq.c and workqueue/wque.c: work that a *)
(* timer or an interrupt hands to a workqueue, and what is left of it when *)
(* the module is removed.                                                  *)
(***************************************************************************)
EXTENDS Integers

CONSTANTS
  Samples,         \* a subset of {"hrtimer", "sys_wq", "wque"}
  COUNT_INTERVAL,  \* hrtimer.c prints once per so many runs of its work
  MaxKeys          \* bound: the key presses that sys_wq.c sees

VARIABLES
  sample,
  module,    \* "out", "init" (inside the init function), "in", "failed", "gone"
  timer,     \* "idle" or "armed"
  ready,     \* INIT_WORK has run, or the work was declared statically
  work,      \* a subset of {"pending", "running"}
  restarted, \* hrtimer.c: the running work has started the timer again
  wq,        \* wque.c: the workqueue exists
  damaged,   \* a work item was used before INIT_WORK, or INIT_WORK hit a queued one
  late,      \* history: rmmod came while the timer or the work was under way
  count,     \* runs of the work, modulo COUNT_INTERVAL
  keys

vars == <<sample, module, timer, ready, work, restarted, wq, damaged, late, count, keys>>

Init ==
  /\ sample \in Samples /\ module = "out" /\ timer = "idle"
  /\ ready = (sample = "wque") /\ work = {} /\ restarted = FALSE /\ wq = FALSE
  /\ damaged = FALSE /\ late = FALSE /\ count = 0 /\ keys = 0

\* After a damaged list, or when the code of a removed module runs, anything
\* may happen: the model stops.
Defined == ~damaged

\* schedule_work: nothing to do for an item that is pending.
schedule_work == work' = work \cup {"pending"} /\ damaged' = (damaged \/ ~ready)

\* INIT_WORK takes an item that is pending off the list without unlinking it.
INIT_WORK == ready' = TRUE /\ damaged' = (damaged \/ "pending" \in work)

------------------------------------------------------------------------------
(* hrtimer.c: the callback schedules the work, the work starts the timer. *)

module_hrtimer_init ==
  /\ sample = "hrtimer" /\ Defined
  /\ \/ /\ module = "out" /\ module' = "init" /\ timer' = "armed"
        /\ UNCHANGED <<ready, work, damaged>>
     \/ /\ module = "init" /\ module' = "in" /\ INIT_WORK
        /\ UNCHANGED <<timer, work>>
  /\ UNCHANGED <<sample, restarted, wq, late, count, keys>>

my_hrtimer_callback ==
  /\ sample = "hrtimer" /\ Defined /\ timer = "armed" /\ timer' = "idle" /\ schedule_work
  /\ UNCHANGED <<sample, module, ready, restarted, wq, late, count, keys>>

\* MUTANT: the work does not start the timer again.
wq_func_hrtimer_NoRestart ==
  /\ sample = "hrtimer" /\ Defined /\ module # "gone" /\ "running" \in work
  /\ work' = work \ {"running"} /\ count' = (count + 1) % COUNT_INTERVAL
  /\ UNCHANGED <<sample, module, timer, ready, restarted, wq, damaged, late, keys>>

\* wq_func_hrtimer: hrtimer_start, then the count.
wq_func_hrtimer ==
  /\ sample = "hrtimer" /\ Defined /\ module # "gone" /\ "running" \in work
  /\ \/ /\ ~restarted /\ restarted' = TRUE /\ timer' = "armed"
        /\ UNCHANGED <<work, count>>
     \/ /\ restarted /\ restarted' = FALSE /\ work' = work \ {"running"}
        /\ count' = (count + 1) % COUNT_INTERVAL /\ UNCHANGED timer
  /\ UNCHANGED <<sample, module, ready, wq, damaged, late, keys>>

\* MUTANT: the timer is not cancelled.
module_hrtimer_exit_NoCancel ==
  /\ sample = "hrtimer" /\ Defined /\ module = "in" /\ module' = "gone"
  /\ late' = (work # {})
  /\ UNCHANGED <<sample, timer, ready, work, restarted, wq, damaged, count, keys>>

\* module_hrtimer_exit: hrtimer_cancel; the work is left alone.
module_hrtimer_exit ==
  /\ sample = "hrtimer" /\ Defined /\ module = "in" /\ module' = "gone"
  /\ timer' = "idle" /\ late' = (work # {})
  /\ UNCHANGED <<sample, ready, work, restarted, wq, damaged, count, keys>>

------------------------------------------------------------------------------
(* sys_wq.c: the interrupt handler of the keyboard schedules the work. *)

myirq_init ==
  /\ sample = "sys_wq" /\ module = "out" /\ module' \in {"in", "failed"}
  /\ UNCHANGED <<sample, timer, ready, work, restarted, wq, damaged, late, count, keys>>

\* myirq_handler: for the escape key, INIT_WORK and schedule_work.
myirq_handler ==
  /\ sample = "sys_wq" /\ Defined /\ module = "in" /\ keys < MaxKeys /\ keys' = keys + 1
  /\ \/ INIT_WORK /\ work' = work \cup {"pending"}
     \/ UNCHANGED <<ready, damaged, work>>
  /\ UNCHANGED <<sample, module, timer, restarted, wq, late, count>>

\* myirq_exit: free_irq; the work is left alone.
myirq_exit ==
  /\ sample = "sys_wq" /\ Defined /\ module = "in" /\ module' = "gone"
  /\ late' = (work # {})
  /\ UNCHANGED <<sample, timer, ready, work, restarted, wq, damaged, count, keys>>

------------------------------------------------------------------------------
(* wque.c: a delayed work on a workqueue of its own. *)

\* wque_init: the module loads also when the workqueue cannot be created.
wque_init ==
  /\ sample = "wque" /\ module = "out" /\ module' = "in"
  /\ wq' \in BOOLEAN /\ timer' = IF wq' THEN "armed" ELSE "idle"
  /\ UNCHANGED <<sample, ready, work, restarted, damaged, late, count, keys>>

\* The timer of the delayed work queues it; wq no longer exists after exit.
delayed_work_timer ==
  /\ sample = "wque" /\ module # "gone" /\ timer = "armed" /\ timer' = "idle"
  /\ schedule_work
  /\ UNCHANGED <<sample, module, ready, restarted, wq, late, count, keys>>

\* MUTANT: exit does not wait for the work that is queued.
wque_exit_NoDrain ==
  /\ sample = "wque" /\ module = "in" /\ module' = "gone" /\ wq' = FALSE
  /\ late' = (timer = "armed")
  /\ UNCHANGED <<sample, timer, ready, work, restarted, damaged, count, keys>>

\* wque_exit: destroy_workqueue waits for the work that is queued, and does not
\* know of the timer.
wque_exit ==
  /\ sample = "wque" /\ module = "in" /\ work = {} /\ module' = "gone" /\ wq' = FALSE
  /\ late' = (timer = "armed")
  /\ UNCHANGED <<sample, timer, ready, work, restarted, damaged, count, keys>>

------------------------------------------------------------------------------
\* A worker takes the item; it runs at most once at a time.
worker ==
  /\ Defined /\ module # "gone" /\ work = {"pending"} /\ work' = {"running"}
  /\ UNCHANGED <<sample, module, timer, ready, restarted, wq, damaged, late, count, keys>>

\* mywork_handler and wque_work_handler print a line.
work_handler ==
  /\ sample # "hrtimer" /\ Defined /\ module # "gone"
  /\ "running" \in work /\ work' = work \ {"running"}
  /\ UNCHANGED <<sample, module, timer, ready, restarted, wq, damaged, late, count, keys>>

Next ==
  \/ module_hrtimer_init \/ my_hrtimer_callback \/ wq_func_hrtimer \/ module_hrtimer_exit
  \/ myirq_init \/ myirq_handler \/ myirq_exit
  \/ wque_init \/ delayed_work_timer \/ wque_exit
  \/ worker \/ work_handler

\* Timers expire, workers run and init functions return; insmod, rmmod and keys
\* need not come.
Fairness ==
  /\ WF_vars(module = "init" /\ module_hrtimer_init) /\ WF_vars(my_hrtimer_callback)
  /\ WF_vars(wq_func_hrtimer) /\ WF_vars(delayed_work_timer)
  /\ WF_vars(worker) /\ WF_vars(work_handler)

Spec == Init /\ [][Next]_vars /\ Fairness

------------------------------------------------------------------------------
(* Properties. *)

\* The exit functions leave no timer armed and no work queued or running,
\* unless rmmod comes when hrtimer_cancel and free_irq are too late for work
\* that is under way, or destroy_workqueue too early for the delayed timer.
NothingLeft == module = "gone" => (timer = "idle" /\ work = {}) \/ late

\* While hrtimer.c stays loaded its work runs again and again, unless the first
\* expiry came before INIT_WORK.  A work item that sys_wq.c or wque.c queued
\* runs, unless a key press initialises it again while it is queued.
WorkRuns ==
  /\ sample = "hrtimer" /\ "running" \in work ~> timer = "armed" \/ module = "gone"
  /\ timer = "armed" \/ "pending" \in work ~>
       (timer = "idle" /\ "running" \in work) \/ damaged \/ module = "gone"
==============================================================================
