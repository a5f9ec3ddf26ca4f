----------------------------- MODULE SampleLocks -----------------------------
(***************************************************************************)
(* The samples whose subject is a lock, side by side: the page-cache       *)
(* scanner, the threads of mutex.c, semaphore.c and spinlock.c, and the    *)
(* character devices.  They share nothing.                                 *)
(***************************************************************************)
EXTENDS Integers, Sequences, FiniteSets

CONSTANTS
  NULL, TORN,
  \* pgcache_scan
  Writers, SuperBlocks, Processes, NoBdev, Inodes, Files, Freeing, Unlinked, Cached,
  Pages, TopNs, Modes, MaxWrites, MaxSettings, MaxTouches,
  \* the threads, the character devices
  Wrap, Procs, MaxCalls

VARIABLES
  \* pgcache_scan
  pg_module, pg_registered, top_n, pg_mode, deleted_but_used, ordered_list, pg_lock, nrpages,
  job, pg_inside, alone, found, shown, stray, writes, settings, touches,
  \* mutex, semaphore, spinlock
  lt_sample, lt_module, ptr, lt_pc, lt_stop, lt_lock, counter, local, rounds, stopping, stale,
  \* the character devices
  cd_sample, cd_module, regs, cd_ready, opened, cd_pc, flag, queue, awake, holders,
  cd_inside, foreign, calls

Pg == INSTANCE PgcacheScan WITH
  module <- pg_module, registered <- pg_registered, mode <- pg_mode, lock <- pg_lock,
  inside <- pg_inside

Lt == INSTANCE LockThreads WITH
  sample <- lt_sample, module <- lt_module, pc <- lt_pc, stop <- lt_stop, lock <- lt_lock,
  Samples <- {"mutex", "semaphore", "spinlock"}

Cd == INSTANCE CharDevices WITH
  sample <- cd_sample, module <- cd_module, ready <- cd_ready, pc <- cd_pc,
  inside <- cd_inside,
  Samples <- {"wakeup", "rwsem", "cdev_mutex", "cdev_semaphore"}

\* The locks do their work: one handler of pgcache_scan in ordered_list, no
\* increment lost by the threads of mutex.c and semaphore.c, no writer of
\* rwsem.c beside another process, one holder of the lock of cdev_mutex.c and
\* cdev_semaphore.c; up to a release by one who does not hold the lock.
LocksExclude == Pg!Exclusive /\ Lt!CounterExact /\ Cd!Exclusive
==============================================================================
