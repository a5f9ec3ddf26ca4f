----------------------------- MODULE CharDevices -----------------------------
(***************************************************************************)
(* The character devices wakeup/wakeup.c, lock/rwsem, lock/cdev_mutex and  *)
(* lock/cdev_semaphore: processes that wait for each other in read and     *)
(* write.  All four register and unregister their device in the same way.  *)
(***************************************************************************)
EXTENDS Integers, Sequences, FiniteSets

CONSTANTS
  Samples,    \* a subset of {"wakeup", "rwsem", "cdev_mutex", "cdev_semaphore"}
  Procs,      \* processes that open the device
  MaxCalls    \* bound: the reads and writes of a behaviour

VARIABLES
  sample,
  module,     \* "out", "in", "failed" or "gone"
  regs,       \* what the init function has registered, in order
  ready,      \* the lock is initialised; only rwsem.c does so at run time
  opened,     \* the processes that have the device open
  pc,         \* per process: where it is in read or write; "user" outside
  flag,       \* wakeup.c: "n" or "y"; "0" after a fault
  queue,      \* wakeup.c: the processes on the wait queue wq
  awake,      \* wakeup.c: the processes on wq that have been woken
  holders,    \* processes that hold the lock, as the lock itself sees it
  inside,     \* processes that got the lock and did not yet give it back
  foreign,    \* history: the lock was released, or initialised, under a holder
  calls

device == <<sample, module, regs, ready, opened>>
wait == <<flag, queue, awake>>
locks == <<holders, inside, foreign>>
vars == <<device, pc, wait, locks, calls>>

Init ==
  /\ sample \in Samples /\ module = "out" /\ regs = <<>> /\ opened = {}
  /\ ready = (sample # "rwsem")
  /\ pc = [p \in Procs |-> "user"]
  /\ flag = "n" /\ queue = {} /\ awake = {}
  /\ holders = {} /\ inside = {} /\ foreign = FALSE /\ calls = 0

------------------------------------------------------------------------------
(* Registration. *)

Registrations == <<"region", "cdev", "class", "device">>

\* MUTANT: the error path of device_create forgets unregister_chrdev_region.
Released_NotRegion(n) ==
  CASE n = 1 -> {}
    [] n = 2 -> {"region"}
    [] n = 3 -> {"cdev", "region"}
    [] n = 4 -> {"class", "cdev"}

\* What the error path of the n-th registration releases.
Released(n) ==
  CASE n = 1 -> {}
    [] n = 2 -> {"region"}
    [] n = 3 -> {"cdev", "region"}
    [] n = 4 -> {"class", "cdev", "region"}

\* The init functions: the next registration, or its failure; at the end
\* rwsem.c initialises its semaphore.
Register ==
  /\ module = "out"
  /\ \/ /\ Len(regs) < 4 /\ regs' = Append(regs, Registrations[Len(regs) + 1])
        /\ UNCHANGED <<module, ready, holders, foreign>>
     \/ /\ Len(regs) < 4 /\ module' = "failed"
        /\ regs' = SelectSeq(regs, LAMBDA x : x \notin Released(Len(regs) + 1))
        /\ UNCHANGED <<ready, holders, foreign>>
     \/ /\ Len(regs) = 4 /\ module' = "in" /\ ready' = TRUE
        /\ IF ready THEN UNCHANGED <<holders, foreign>>
           ELSE holders' = {} /\ foreign' = (foreign \/ holders # {})
        /\ UNCHANGED regs
  /\ UNCHANGED <<sample, opened, pc, wait, inside, calls>>
schd_init == sample = "wakeup" /\ Register
rw_sem_init == sample = "rwsem" /\ Register
init_mutex == sample = "cdev_mutex" /\ Register
sem_init == sample = "cdev_semaphore" /\ Register

\* The samples whose file_operations set .owner.
HasOwner == {"cdev_mutex", "cdev_semaphore"}

\* The exit functions.  .owner keeps the module loaded while the device is
\* open.
Unregister ==
  /\ module = "in"
  /\ sample \in HasOwner => opened = {}
  /\ module' = "gone"
  /\ regs' = SelectSeq(regs, LAMBDA x : x \notin {"device", "class", "cdev", "region"})
  /\ UNCHANGED <<sample, ready, opened, pc, wait, locks, calls>>
schd_cleanup == sample = "wakeup" /\ Unregister
rw_sem_cleanup == sample = "rwsem" /\ Unregister
exit_mutex == sample = "cdev_mutex" /\ Unregister
sem_exit == sample = "cdev_semaphore" /\ Unregister

\* open and release.  The node exists once device_create has run.
Open(p) ==
  /\ Len(regs) = 4 /\ p \notin opened /\ opened' = opened \cup {p}
  /\ UNCHANGED <<sample, module, regs, ready, pc, wait, locks, calls>>
Release(p) ==
  /\ p \in opened /\ pc[p] = "user" /\ opened' = opened \ {p}
  /\ UNCHANGED <<sample, module, regs, ready, pc, wait, locks, calls>>

\* A process enters read or write of sample s.
Call(p, s, label) ==
  /\ sample = s /\ p \in opened /\ module # "gone" /\ pc[p] = "user" /\ calls < MaxCalls
  /\ calls' = calls + 1
  /\ pc' = [pc EXCEPT ![p] = label]
\* It goes on; what it executes once the module is gone is undefined.
Goto(p, label) ==
  module # "gone" /\ pc' = [pc EXCEPT ![p] = label] /\ UNCHANGED calls

------------------------------------------------------------------------------
(* wakeup.c: read waits for the flag, write sets it. *)

\* wait_event_interruptible: on the queue first, then the test.
ReadQueues(p) ==
  /\ Call(p, "wakeup", "test") /\ queue' = queue \cup {p} /\ awake' = awake \ {p}
  /\ UNCHANGED <<device, flag, locks>>
ReadTests(p) ==
  /\ pc[p] = "test" /\ Goto(p, IF flag = "y" THEN "reset" ELSE "asleep")
  /\ UNCHANGED <<device, wait, locks>>
\* Woken, it tests again; a signal ends the wait, and read goes on as well.
ReadWoken(p) ==
  /\ pc[p] = "asleep"
  /\ \/ p \in awake /\ awake' = awake \ {p} /\ Goto(p, "test")
     \/ Goto(p, "reset") /\ UNCHANGED awake
  /\ UNCHANGED <<device, flag, queue, locks>>
ReadResets(p) ==
  /\ pc[p] = "reset" /\ flag' = "n" /\ queue' = queue \ {p} /\ awake' = awake \ {p}
  /\ Goto(p, "user")
  /\ UNCHANGED <<device, locks>>

\* MUTANT: the flag is set after the waiting processes are woken.
write_WakesFirst(p) ==
  \/ /\ Call(p, "wakeup", "wake")
     /\ awake' = queue /\ UNCHANGED <<device, flag, queue, locks>>
  \/ /\ pc[p] = "wake" /\ flag' = "y" /\ Goto(p, "user")
     /\ UNCHANGED <<device, queue, awake, locks>>

\* write: __get_user (any byte, or a fault), then wake_up_interruptible.
write(p) ==
  \/ /\ Call(p, "wakeup", "wake") /\ flag' \in {"n", "y"}
     /\ UNCHANGED <<device, queue, awake, locks>>
  \/ /\ Call(p, "wakeup", "user") /\ flag' = "0"
     /\ UNCHANGED <<device, queue, awake, locks>>
  \/ /\ pc[p] = "wake" /\ awake' = queue /\ Goto(p, "user")
     /\ UNCHANGED <<device, flag, queue, locks>>

------------------------------------------------------------------------------
(* rwsem.c: readers share, a writer is alone. *)

\* MUTANT: read takes the semaphore when a reader holds it, or a writer.
down_read_Any(p) == holders' = holders \cup {<<p, "r">>}

down_read(p) == (\A h \in holders : h[2] = "r") /\ holders' = holders \cup {<<p, "r">>}
down_write(p) == holders = {} /\ holders' = {<<p, "w">>}

rwsem_read(p) ==
  \/ Call(p, "rwsem", "down_read") /\ UNCHANGED <<device, wait, locks>>
  \/ /\ pc[p] = "down_read" /\ down_read(p) /\ inside' = inside \cup {<<p, "r">>}
     /\ Goto(p, "up_read") /\ UNCHANGED <<device, wait, foreign>>
  \/ /\ pc[p] = "up_read" /\ holders' = holders \ {<<p, "r">>}
     /\ inside' = inside \ {<<p, "r">>} /\ Goto(p, "user")
     /\ UNCHANGED <<device, wait, foreign>>
rwsem_write(p) ==
  \/ Call(p, "rwsem", "down_write") /\ UNCHANGED <<device, wait, locks>>
  \/ /\ pc[p] = "down_write" /\ down_write(p) /\ inside' = inside \cup {<<p, "w">>}
     /\ Goto(p, "up_write") /\ UNCHANGED <<device, wait, foreign>>
  \/ /\ pc[p] = "up_write" /\ holders' = holders \ {<<p, "w">>}
     /\ inside' = inside \ {<<p, "w">>} /\ Goto(p, "user")
     /\ UNCHANGED <<device, wait, foreign>>

------------------------------------------------------------------------------
(* cdev_mutex.c, cdev_semaphore.c: read locks, write unlocks. *)

\* my_read takes the lock and returns with the lock held.
LockTaken(p, s) ==
  \/ Call(p, s, "lock") /\ UNCHANGED <<device, wait, locks>>
  \/ /\ sample = s /\ pc[p] = "lock" /\ holders = {} /\ holders' = {<<p, "w">>}
     /\ inside' = inside \cup {<<p, "w">>} /\ Goto(p, "user")
     /\ UNCHANGED <<device, wait, foreign>>

\* cdev_mutex.c: mutex_lock_interruptible, which a signal ends.
mutex_read(p) ==
  \/ LockTaken(p, "cdev_mutex")
  \/ /\ sample = "cdev_mutex" /\ pc[p] = "lock" /\ Goto(p, "user")
     /\ UNCHANGED <<device, wait, locks>>

\* cdev_semaphore.c: spin_lock.
semaphore_read(p) == LockTaken(p, "cdev_semaphore")

\* my_write: unlocks, whoever holds it.
LockReleased(p, s) ==
  /\ Call(p, s, "user")
  /\ holders' = {} /\ inside' = inside \ {<<p, "w">>}
  /\ foreign' = (foreign \/ <<p, "w">> \notin holders)
  /\ UNCHANGED <<device, wait>>
mutex_write(p) == LockReleased(p, "cdev_mutex")
semaphore_write(p) == LockReleased(p, "cdev_semaphore")

------------------------------------------------------------------------------
Next ==
  \/ schd_init \/ rw_sem_init \/ init_mutex \/ sem_init
  \/ schd_cleanup \/ rw_sem_cleanup \/ exit_mutex \/ sem_exit
  \/ \E p \in Procs :
       \/ Open(p) \/ Release(p) \/ ReadQueues(p) \/ ReadTests(p) \/ ReadWoken(p)
       \/ ReadResets(p) \/ write(p) \/ rwsem_read(p) \/ rwsem_write(p)
       \/ mutex_read(p) \/ mutex_write(p) \/ semaphore_read(p) \/ semaphore_write(p)

\* A process that is in the kernel and can go on does so, and the semaphore
\* passes over nobody for ever.  No process has to get a signal, or to write.
WeakFairness ==
  \A p \in Procs :
    /\ WF_vars(ReadTests(p) \/ ReadResets(p) \/ (p \in awake /\ ReadWoken(p)))
    /\ WF_vars(pc[p] # "user" /\ write(p))

Waits(p) == pc[p] # "user" /\ (rwsem_read(p) \/ rwsem_write(p))

Fairness == WeakFairness /\ \A p \in Procs : SF_vars(Waits(p))

Spec == Init /\ [][Next]_vars /\ Fairness

------------------------------------------------------------------------------
(* Properties. *)

\* An init function that fails and an exit function leave nothing registered,
\* and a module that is gone has no process that uses its device, unless its
\* file operations do not set .owner.
NothingLeft ==
  /\ module \in {"failed", "gone"} => regs = <<>>
  /\ module = "gone" /\ sample \in HasOwner => opened = {}

\* Readers of rwsem.c exclude writers, and a reader of cdev_mutex.c or
\* cdev_semaphore.c excludes the others until it writes, unless somebody
\* writes without having read, or rw_sem_init initialises the semaphore of a
\* device that is already in use.
Exclusive ==
  \A h, k \in inside : h # k /\ (h[2] = "w" \/ k[2] = "w") => foreign

\* The flag that write sets in wakeup.c is not overlooked: every process that
\* sleeps wakes up, or another one has taken the flag.  A read or write of
\* rwsem.c returns.  Neither holds once rmmod took the code away.
CallsReturn ==
  \A p \in Procs :
    /\ pc[p] = "asleep" /\ flag = "y" ~> flag # "y" \/ pc[p] # "asleep" \/ module = "gone"
    /\ pc[p] \in {"down_read", "down_write"} ~> pc[p] = "user" \/ module = "gone"
==============================================================================
