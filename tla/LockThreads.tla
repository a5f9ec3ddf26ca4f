----------------------------- MODULE LockThreads -----------------------------
(***************************************************************************)
(* The modules lock/mutex, lock/semaphore and lock/spinlock: two kernel    *)
(* threads that share a lock, started by the init and stopped by the exit  *)
(* function.  The threads of the first two increment a counter in a loop;  *)
(* those of the third run once.                                            *)
(***************************************************************************)
EXTENDS Integers, Sequences

CONSTANTS
  Samples,   \* a subset of {"mutex", "semaphore", "spinlock"}
  NULL,
  Wrap       \* bound: the counters are kept modulo Wrap

VARIABLES
  sample,
  module,    \* "out", "in", "exit" (in the exit function), "gone" or "oops"
  ptr,       \* per thread: what kthread_create returned, "task" or "error", or NULL
  pc,        \* per thread: "none", "new", "top", "want", "read", "write", "held" or "done"
  stop,      \* per thread: kthread_should_stop()
  lock,      \* the thread that holds it, or NULL
  counter,
  local,     \* per thread: the counter as it read it
  rounds,    \* history: how often the counter was incremented
  stopping,  \* the thread kthread_stop waits for, or NULL
  stale      \* history: the threads stopped when they were no longer there

Threads == {"thread1", "thread2"}

life == <<sample, module, ptr, stopping, stale>>
vars == <<life, pc, stop, lock, counter, local, rounds>>

Init ==
  /\ sample \in Samples /\ module = "out"
  /\ ptr = [t \in Threads |-> NULL] /\ pc = [t \in Threads |-> "none"]
  /\ stop = [t \in Threads |-> FALSE] /\ lock = NULL
  /\ counter = 0 /\ local = [t \in Threads |-> 0] /\ rounds = 0
  /\ stopping = NULL /\ stale = {}

At(t, label) == pc[t] = label
Goto(t, label) == pc' = [pc EXCEPT ![t] = label]

------------------------------------------------------------------------------
(* The exit and init functions. *)

\* kthread_run, or kthread_create and wake_up_process, for the first and the
\* second thread.  The result is compared with NULL, but a failure is an
\* ERR_PTR: kthread_run leaves it alone, wake_up_process follows it.
Create(t) ==
  /\ module = "out" /\ ptr[t] = NULL
  /\ t = "thread2" => ptr["thread1"] # NULL
  /\ \/ /\ ptr' = [ptr EXCEPT ![t] = "task"] /\ Goto(t, "new")
        /\ module' = IF t = "thread2" THEN "in" ELSE module
     \/ /\ ptr' = [ptr EXCEPT ![t] = "error"]
        /\ module' = IF t = "thread1" /\ sample # "spinlock" THEN module ELSE "oops"
        /\ UNCHANGED pc
  /\ UNCHANGED <<sample, stopping, stale, stop, lock, counter, local, rounds>>

\* The init functions of mutex.c, semaphore.c and spinlock.c.
mutex_init_thread(t) == sample = "mutex" /\ Create(t)
semaphore_init_thread(t) == sample = "semaphore" /\ Create(t)
thread_init(t) == sample = "spinlock" /\ Create(t)

\* The threads the exit function stops, in order.
Stopped == IF sample = "spinlock" THEN <<"thread1">> ELSE <<"thread1", "thread2">>

\* MUTANT: kthread_stop does not wait.
StopNext_NoWait(i) ==
  LET t == Stopped[i]
  IN  /\ stop' = [stop EXCEPT ![t] = TRUE]
      /\ stale' = IF ptr[t] = "task" /\ ~At(t, "done") THEN stale ELSE stale \cup {t}
      /\ stopping' = IF i < Len(Stopped) THEN Stopped[i + 1] ELSE NULL
      /\ module' = IF i < Len(Stopped) THEN "exit" ELSE "gone"

\* kthread_stop for the i-th thread: when it has ended, the next one.  It
\* follows a pointer to nothing, which is an oops; the memory of a thread that
\* ended by itself may still be there or not.
StopNext(i) ==
  LET t == Stopped[i]
      next == IF i < Len(Stopped) THEN Stopped[i + 1] ELSE NULL
      there == ptr[t] = "task" /\ ~At(t, "done")
  IN  \/ /\ ~stop[t] /\ ptr[t] = "task"
         /\ stop' = [stop EXCEPT ![t] = TRUE]
         /\ stale' = IF there THEN stale ELSE stale \cup {t}
         /\ stopping' = t /\ module' = "exit"
      \/ /\ ~stop[t] /\ ~there
         /\ stale' = stale \cup {t}
         /\ stopping' = t /\ module' = "oops" /\ UNCHANGED stop
      \/ /\ stop[t] /\ At(t, "done")
         /\ stopping' = next /\ module' = IF next = NULL THEN "gone" ELSE "exit"
         /\ UNCHANGED <<stop, stale>>

Cleanup ==
  /\ \E i \in DOMAIN Stopped :
       /\ \/ module = "in" /\ i = 1
          \/ module = "exit" /\ stopping = Stopped[i]
       /\ StopNext(i)
  /\ UNCHANGED <<sample, ptr, pc, lock, counter, local, rounds>>

\* The exit functions.
mutex_cleanup_thread == sample = "mutex" /\ Cleanup
semaphore_cleanup_thread == sample = "semaphore" /\ Cleanup
thread_cleanup == sample = "spinlock" /\ Cleanup

------------------------------------------------------------------------------
(* The threads. *)

\* A thread that is stopped before it first runs does not enter its function.
Starts(t) ==
  /\ At(t, "new") /\ Goto(t, IF stop[t] THEN "done" ELSE "top")
  /\ UNCHANGED <<life, stop, lock, counter, local, rounds>>

\* MUTANT: the second thread forgets to lock.
Acquire_OnlyFirst(t) == IF t = "thread1" THEN lock = NULL /\ lock' = t ELSE UNCHANGED lock

\* mutex_lock, down_interruptible (no signal reaches a kernel thread),
\* spin_lock.
Acquire(t) == lock = NULL /\ lock' = t

\* A round of thread_fn1 and thread_fn2 of mutex.c and semaphore.c: the loop
\* head, counter++ in two steps, and the unlock after the sleep.
LoopTop(t) ==
  /\ At(t, "top")
  /\ Goto(t, IF stop[t] THEN "done" ELSE "want")
  /\ UNCHANGED <<life, stop, lock, counter, local, rounds>>
Lock(t) ==
  /\ sample \in {"mutex", "semaphore"} /\ At(t, "want")
  /\ Acquire(t) /\ Goto(t, "read")
  /\ UNCHANGED <<life, stop, counter, local, rounds>>
Increment(t) ==
  /\ \/ /\ At(t, "read") /\ Goto(t, "write")
        /\ local' = [local EXCEPT ![t] = counter]
        /\ UNCHANGED <<counter, rounds>>
     \/ /\ At(t, "write") /\ Goto(t, "held")
        /\ counter' = (local[t] + 1) % Wrap
        /\ rounds' = (rounds + 1) % Wrap
        /\ local' = [local EXCEPT ![t] = 0]
  /\ UNCHANGED <<life, stop, lock>>
Unlock(t) ==
  /\ At(t, "held")
  /\ lock' = NULL /\ Goto(t, "top")
  /\ UNCHANGED <<life, stop, counter, local, rounds>>

mutex_thread_fn(t) == sample = "mutex" /\ (LoopTop(t) \/ Increment(t) \/ Unlock(t))
semaphore_thread_fn(t) == sample = "semaphore" /\ (LoopTop(t) \/ Increment(t) \/ Unlock(t))

\* thread_fn1 of spinlock.c: holds the lock for five seconds, then ends.
SpinHold ==
  LET t == "thread1"
  IN  /\ sample = "spinlock"
      /\ \/ At(t, "top") /\ Acquire(t) /\ Goto(t, "held")
         \/ At(t, "held") /\ lock' = NULL /\ Goto(t, "done")
      /\ UNCHANGED <<life, stop, counter, local, rounds>>

\* thread_fn2 of spinlock.c: spin_trylock, and what it got is released.
SpinTry ==
  LET t == "thread2"
  IN  /\ sample = "spinlock"
      /\ \/ At(t, "top") /\ lock = NULL /\ lock' = t /\ Goto(t, "held")
         \/ At(t, "top") /\ lock # NULL /\ Goto(t, "done") /\ UNCHANGED lock
         \/ At(t, "held") /\ lock' = NULL /\ Goto(t, "done")
      /\ UNCHANGED <<life, stop, counter, local, rounds>>

Run(t) ==
  \/ Starts(t) \/ mutex_thread_fn(t) \/ semaphore_thread_fn(t)
  \/ t = "thread1" /\ SpinHold
  \/ t = "thread2" /\ SpinTry

Next ==
  \/ mutex_cleanup_thread \/ semaphore_cleanup_thread \/ thread_cleanup
  \/ \E t \in Threads :
       \/ mutex_init_thread(t) \/ semaphore_init_thread(t) \/ thread_init(t)
       \/ Lock(t) \/ Run(t)

\* Threads are scheduled; a mutex and a semaphore are handed over to those who
\* wait for them; the exit function runs to its end once it has begun.
WeakFairness == (\A t \in Threads : WF_vars(Run(t))) /\ WF_vars(module = "exit" /\ Cleanup)

Fairness == WeakFairness /\ \A t \in Threads : SF_vars(Lock(t))

Spec == Init /\ [][Next]_vars /\ Fairness

------------------------------------------------------------------------------
(* Properties. *)

\* No increment is lost, although each is a read and a write.
CounterExact == counter = rounds

\* rmmod returns: a thread that waits for the lock gets it and sees the stop,
\* while the other one goes on locking and unlocking.  (An oops is the subject
\* of ThreadsStopped.)
ExitReturns == module = "exit" ~> module \in {"gone", "oops"}

\* Once the module is gone its threads have ended, but for the second one of
\* spinlock.c, which nobody stops; and kthread_stop only meets a thread that
\* is no longer there if it was never created or, in spinlock.c, ended by
\* itself; nothing else makes the kernel follow a bad pointer.
ThreadsStopped ==
  /\ module = "gone" => \A t \in Threads : \/ pc[t] \in {"none", "done"}
                                           \/ sample = "spinlock" /\ t = "thread2"
  /\ \A t \in stale : ptr[t] = "error" \/ sample = "spinlock"
  /\ module = "oops" => \E t \in Threads : ptr[t] = "error" \/ t \in stale
==============================================================================
