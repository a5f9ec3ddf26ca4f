------------------------------ MODULE KmemThread ------------------------------
(***************************************************************************)
(* The modules kthread/kthread.c and kmem/kmem.c: one kernel thread that   *)
(* sleeps in a loop until it is stopped or killed.  The thread of kmem.c   *)
(* first creates two slab caches with an object each; the exit function    *)
(* destroys them before it stops the thread.                               *)
(***************************************************************************)
EXTENDS Integers, Sequences

CONSTANT Samples   \* a subset of {"kthread", "kmem"}

VARIABLES
  sample,
  module,   \* "out", "in", "exit", "gone" or "oops"
  thread,   \* thread_st: "none", "error", or "task"
  pc,       \* of the thread: "none", then "new" to "done"
  stop,     \* kthread_should_stop()
  killed,   \* SIGKILL is pending
  cache,    \* test_kmem and test_kmem1: "none", "live" or "destroyed"
  obj,      \* obj1 and obj2: "null", "held" or, as they are not cleared, "freed"
  cleanup,  \* the steps the exit function still has to take
  early,    \* history: the exit function began while the thread set up
  misuse,   \* history: an object of a destroyed cache was allocated or freed
  stale     \* history: kthread_stop met a thread that was no longer there

vars == <<sample, module, thread, pc, stop, killed, cache, obj, cleanup, early, misuse, stale>>

Init ==
  /\ sample \in Samples /\ module = "out" /\ thread = "none" /\ pc = "none"
  /\ stop = FALSE /\ killed = FALSE
  /\ cache = <<"none", "none">> /\ obj = <<"null", "null">>
  /\ cleanup = <<>> /\ early = FALSE /\ misuse = FALSE /\ stale = FALSE

------------------------------------------------------------------------------
(* The thread. *)

\* Starts, unless it was stopped before it ran.
Starts ==
  /\ pc = "new"
  /\ pc' = IF stop THEN "done" ELSE IF sample = "kmem" THEN "create1" ELSE "top"
  /\ UNCHANGED <<sample, module, thread, stop, killed, cache, obj, cleanup, early, misuse, stale>>

\* kmem_cache_create, twice, either of which may fail; the results are tested
\* after the second.
CreateCache(i) ==
  /\ pc = <<"create1", "create2">>[i] /\ pc' = <<"create2", "test">>[i]
  /\ cache' \in {cache, [cache EXCEPT ![i] = "live"]}
  /\ UNCHANGED <<sample, module, thread, stop, killed, obj, cleanup, early, misuse, stale>>
TestCaches ==
  /\ pc = "test"
  /\ pc' = IF \E i \in {1, 2} : cache[i] = "none" THEN "done" ELSE "alloc1"
  /\ UNCHANGED <<sample, module, thread, stop, killed, cache, obj, cleanup, early, misuse, stale>>

\* kmem_cache_alloc, twice; only the first result is tested.
AllocObj(i) ==
  /\ pc = <<"alloc1", "alloc2">>[i]
  /\ misuse' = (misuse \/ cache[i] = "destroyed")
  /\ obj' \in {obj, [obj EXCEPT ![i] = "held"]}
  /\ pc' = IF i = 1 THEN "alloc2" ELSE IF obj'[1] # "null" THEN "top" ELSE "done"
  /\ UNCHANGED <<sample, module, thread, stop, killed, cache, cleanup, early, stale>>

\* The loop: ended by kthread_stop, or by SIGKILL after a sleep.
LoopTop ==
  /\ pc = "top" /\ pc' = IF stop THEN "done" ELSE "sleep"
  /\ UNCHANGED <<sample, module, thread, stop, killed, cache, obj, cleanup, early, misuse, stale>>
Sleep ==
  /\ pc = "sleep" /\ pc' = IF killed THEN "done" ELSE "top"
  /\ UNCHANGED <<sample, module, thread, stop, killed, cache, obj, cleanup, early, misuse, stale>>

\* allow_signal(SIGKILL): somebody kills the thread.
Kill ==
  /\ pc \notin {"none", "new", "done"} /\ ~killed /\ killed' = TRUE
  /\ UNCHANGED <<sample, module, thread, pc, stop, cache, obj, cleanup, early, misuse, stale>>

------------------------------------------------------------------------------
(* Loading and unloading. *)

\* kthread_run; the result is compared with NULL, but a failure is an ERR_PTR.
RunThread ==
  /\ module = "out" /\ module' = "in"
  /\ \/ thread' = "task" /\ pc' = "new"
     \/ thread' = "error" /\ UNCHANGED pc
  /\ UNCHANGED <<sample, stop, killed, cache, obj, cleanup, early, misuse, stale>>
kthread_init_thread == sample = "kthread" /\ RunThread
kmem_init_thread == sample = "kmem" /\ RunThread

\* MUTANT: the objects are left to kmem_cache_destroy, which then fails.
CleanupSteps_NoFree == <<"destroy1", "destroy2", "stop", "wait">>

\* The body of cleanup_thread, in its order.
CleanupSteps ==
  (IF sample = "kmem" THEN <<"free1", "destroy1", "free2", "destroy2">> ELSE <<>>)
  \o <<"stop", "wait">>

cleanup_thread ==
  /\ module = "in" /\ module' = "exit" /\ cleanup' = CleanupSteps
  /\ early' = (pc \in {"new", "create1", "create2", "test", "alloc1", "alloc2"})
  /\ UNCHANGED <<sample, thread, pc, stop, killed, cache, obj, misuse, stale>>

\* A step of cleanup_thread.  A cache is destroyed only if it is empty; the
\* pointers are not cleared.  kthread_stop follows an ERR_PTR, which is an
\* oops; the memory of a thread that ended may still be there or not.
CleanupStep ==
  LET i == IF Head(cleanup) \in {"free1", "destroy1"} THEN 1 ELSE 2
  IN  /\ module = "exit"
      /\ cleanup' = Tail(cleanup)
      /\ module' \in IF Tail(cleanup) = <<>> THEN {"gone"}
                      ELSE IF Head(cleanup) # "stop" THEN {"exit"}
                      ELSE IF thread = "error" THEN {"oops"}
                      ELSE IF pc = "done" THEN {"exit", "oops"} ELSE {"exit"}
      /\ \/ /\ Head(cleanup) \in {"free1", "free2"}
            /\ misuse' = (misuse \/ (obj[i] # "null" /\ cache[i] = "destroyed"))
            /\ obj' = [obj EXCEPT ![i] = IF @ = "null" THEN @ ELSE "freed"]
            /\ UNCHANGED <<cache, stop, stale>>
         \/ /\ Head(cleanup) \in {"destroy1", "destroy2"}
            /\ cache' = IF cache[i] = "live" /\ obj[i] # "held"
                        THEN [cache EXCEPT ![i] = "destroyed"] ELSE cache
            /\ UNCHANGED <<obj, stop, misuse, stale>>
         \/ /\ Head(cleanup) = "stop"
            /\ stop' = TRUE /\ stale' = (pc \in {"none", "done"})
            /\ UNCHANGED <<cache, obj, misuse>>
         \/ /\ Head(cleanup) = "wait" /\ pc = "done"
            /\ UNCHANGED <<cache, obj, stop, misuse, stale>>
      /\ UNCHANGED <<sample, thread, pc, killed, early>>

Thread ==
  Starts \/ TestCaches \/ LoopTop \/ Sleep \/ \E i \in {1, 2} : CreateCache(i) \/ AllocObj(i)

Next == Thread \/ Kill \/ kthread_init_thread \/ kmem_init_thread \/ cleanup_thread \/ CleanupStep

\* The thread is scheduled; the exit function runs to its end.
Fairness == WF_vars(Thread) /\ WF_vars(CleanupStep)

Spec == Init /\ [][Next]_vars /\ Fairness

------------------------------------------------------------------------------
(* Properties. *)

\* Once the module is gone its caches are destroyed and no object of a
\* destroyed cache was touched, unless the exit function began before the
\* thread had reached its loop: it takes the caches away before it stops the
\* thread.  kthread_stop finds the thread, unless it was never created, was
\* killed, or gave up for want of memory.
CachesReleased ==
  /\ module = "gone" => early \/ \A i \in {1, 2} : cache[i] # "live"
  /\ misuse => early
  /\ module = "oops" => stale
  /\ stale => \/ thread = "error" \/ killed
              \/ sample = "kmem" /\ (obj[1] = "null" \/ \E i \in {1, 2} : cache[i] = "none")

\* rmmod returns, or dies in kthread_stop (see CachesReleased).
ExitReturns == module = "exit" ~> module \in {"gone", "oops"}
===============================================================================
