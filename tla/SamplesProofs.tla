---------------------------- MODULE SamplesProofs ----------------------------
(***************************************************************************)
(* What the samples promise, for every value of their constants: their     *)
(* locks exclude, and who waits for another finds the work of the other    *)
(* done.  One section per sample; an invariant XxInv is the inductive one  *)
(* of the instance Xx.                                                     *)
(***************************************************************************)
EXTENDS SampleLocks, SampleHandover, TLAPS

------------------------------------------------------------------------------
(* The page-cache scanner. *)

\* Until print_top_num releases the lock of another handler, a handler that is
\* in ordered_list holds ordered_list_lock.
PgInv ==
  /\ pg_inside \in [Writers -> BOOLEAN]
  /\ stray = "held" \/ \A w \in Writers : pg_inside[w] => pg_lock = w

\* A step that touches no lock.
LEMMA PgOtherStep ==
  ASSUME PgInv, UNCHANGED <<pg_lock, pg_inside, stray>>
  PROVE  PgInv'
  BY DEF PgInv

\* The end of a section, with spin_unlock of the one who holds the lock.
LEMMA PgLeaveStep ==
  ASSUME NULL \notin Writers, "stuck" \notin Writers, PgInv, NEW w \in Writers, Pg!Leave(w)
  PROVE  PgInv'
<1>1. /\ pg_inside[w] /\ pg_inside' = [pg_inside EXCEPT ![w] = FALSE] /\ stray' = stray
      /\ Pg!spin_unlock
  BY DEF Pg!Leave
<1>2. CASE stray = "held"
  BY <1>1, <1>2 DEF PgInv
<1>3. CASE stray # "held"
  <2>1. pg_lock = w /\ \A v \in Writers : v # w => ~pg_inside[v]
    BY <1>1, <1>3 DEF PgInv
  <2> QED
    BY <1>1, <2>1 DEF PgInv
<1> QED
  BY <1>2, <1>3

\* The print of an empty list releases the lock, whoever holds it.
LEMMA PgPrintStep ==
  ASSUME NULL \notin Writers, "stuck" \notin Writers, PgInv, NEW w \in Writers, Pg!PrintEmpty(w)
  PROVE  PgInv'
<1>1. /\ pg_inside' = pg_inside /\ Pg!spin_unlock
      /\ stray' = IF pg_lock \in Writers \/ stray = "held" THEN "held" ELSE "free"
  BY DEF Pg!PrintEmpty
<1>2. CASE pg_lock \in Writers \/ stray = "held"
  BY <1>1, <1>2 DEF PgInv
<1>3. CASE ~(pg_lock \in Writers \/ stray = "held")
  <2>1. \A v \in Writers : ~pg_inside[v]
    BY <1>3 DEF PgInv
  <2> QED
    BY <1>1, <2>1 DEF PgInv
<1> QED
  BY <1>2, <1>3

\* Every step keeps the invariant.
LEMMA PgStepInv ==
  ASSUME NULL \notin Writers, "stuck" \notin Writers, PgInv, [Pg!Next]_(Pg!vars)
  PROVE  PgInv'
<1>1. CASE Pg!init \/ Pg!fini \/ Pg!Touch
  BY <1>1, PgOtherStep DEF Pg!init, Pg!fini, Pg!Touch, Pg!calls
<1>2. ASSUME NEW w \in Writers, Pg!StoreSetting(w) \/ Pg!PrintTests(w)
      PROVE  PgInv'
  BY <1>2, PgOtherStep DEF Pg!StoreSetting, Pg!PrintTests, Pg!calls
<1>3. ASSUME NEW w \in Writers, NEW n \in TopNs, Pg!scan_caches_sysctl_handler(w, n)
      PROVE  PgInv'
  BY <1>3, PgOtherStep DEF Pg!scan_caches_sysctl_handler
<1>4. ASSUME NEW w \in Writers, Pg!Enter(w)
      PROVE  PgInv'
  BY <1>4 DEF PgInv, Pg!Enter, Pg!spin_lock
<1>5. CASE UNCHANGED Pg!vars
  BY <1>5, PgOtherStep DEF Pg!vars, Pg!calls
<1> QED
  BY <1>1, <1>2, <1>3, <1>4, <1>5, PgLeaveStep, PgPrintStep DEF Pg!Next, Pg!Step

\* Only one handler of pgcache_scan is in ordered_list, however many write to
\* the file and whatever they find, until print_top_num, the list being empty,
\* releases the lock in the middle of another one's section.
LEMMA PgExclusive ==
  ASSUME NULL \notin Writers, "stuck" \notin Writers
  PROVE  Pg!Spec => []Pg!Exclusive
<1>1. Pg!Init => PgInv
  BY DEF Pg!Init, PgInv
<1>2. PgInv /\ [Pg!Next]_(Pg!vars) => PgInv'
  BY PgStepInv
<1>3. PgInv => Pg!Exclusive
  BY DEF PgInv, Pg!Exclusive
<1> QED
  BY <1>1, <1>2, <1>3, PTL DEF Pg!Spec

------------------------------------------------------------------------------
(* The threads of mutex.c, semaphore.c and spinlock.c. *)

LtLabels == {"none", "new", "top", "want", "read", "write", "held", "done"}

\* A thread between its lock and its unlock holds the lock, and between its
\* read and its write of the counter what it read is still there.  A thread is
\* created once.
LtInv ==
  /\ lt_pc \in [Lt!Threads -> LtLabels] /\ local \in [Lt!Threads -> {0} \cup {counter}]
  /\ ptr \in [Lt!Threads -> {"task", "error", NULL}]
  /\ \A t \in Lt!Threads :
       /\ lt_pc[t] \in {"read", "write", "held"} => lt_lock = t
       /\ lt_pc[t] = "write" => local[t] = counter
       /\ lt_pc[t] # "write" => local[t] = 0
       /\ lt_pc[t] # "none" => ptr[t] # NULL
  /\ counter = rounds

\* A thread that takes the free lock finds no other one between its lock and
\* its unlock.
LEMMA LtLockFree ==
  ASSUME NULL \notin Lt!Threads, LtInv, NEW t \in Lt!Threads,
         NEW label \in {"read", "held"},
         lt_pc[t] \in {"top", "want"}, Lt!Acquire(t), Lt!Goto(t, label),
         UNCHANGED <<ptr, counter, local, rounds>>
  PROVE  LtInv'
  BY DEF LtInv, Lt!Acquire, Lt!Goto, LtLabels

\* A thread that holds the lock gives it back.
LEMMA LtLockBack ==
  ASSUME LtInv, NEW t \in Lt!Threads, lt_pc[t] = "held", lt_lock' = NULL,
         NEW label \in {"top", "done"}, Lt!Goto(t, label),
         UNCHANGED <<ptr, counter, local, rounds>>
  PROVE  LtInv'
<1>1. lt_lock = t
  BY DEF LtInv
<1>2. \A u \in Lt!Threads : u # t => lt_pc[u] \notin {"read", "write", "held"}
  BY <1>1 DEF LtInv
<1> QED
  BY <1>2 DEF LtInv, Lt!Goto, LtLabels

\* A step outside of the locked part.
LEMMA LtLockSame ==
  ASSUME LtInv, NEW t \in Lt!Threads, lt_pc[t] \in {"new", "top"},
         NEW label \in {"top", "want", "done"}, Lt!Goto(t, label),
         UNCHANGED <<ptr, lt_lock, counter, local, rounds>>
  PROVE  LtInv'
  BY DEF LtInv, Lt!Goto, LtLabels

\* A step that touches no thread.
LEMMA LtNoThread ==
  ASSUME LtInv, UNCHANGED <<ptr, lt_pc, lt_lock, counter, local, rounds>>
  PROVE  LtInv'
  BY DEF LtInv

\* counter++ as a read and a write.
LEMMA LtIncrementStep ==
  ASSUME LtInv, NEW t \in Lt!Threads, Lt!Increment(t)
  PROVE  LtInv'
<1>1. lt_lock' = lt_lock /\ ptr' = ptr
  BY DEF Lt!Increment, Lt!life
<1>2. \A u \in Lt!Threads : u # t /\ lt_pc[t] \in {"read", "write"}
                               => lt_pc[u] \notin {"read", "write", "held"}
  BY DEF LtInv
<1>3. CASE Lt!At(t, "read")
  <2>1. /\ lt_pc' = [lt_pc EXCEPT ![t] = "write"] /\ local' = [local EXCEPT ![t] = counter]
        /\ counter' = counter /\ rounds' = rounds
    BY <1>3 DEF Lt!Increment, Lt!At, Lt!Goto
  <2> QED
    BY <1>1, <1>2, <1>3, <2>1 DEF LtInv, Lt!At, LtLabels
<1>4. CASE Lt!At(t, "write")
  <2>1. /\ lt_pc' = [lt_pc EXCEPT ![t] = "held"] /\ local' = [local EXCEPT ![t] = 0]
        /\ counter' = (local[t] + 1) % Wrap /\ rounds' = (rounds + 1) % Wrap
    BY <1>4 DEF Lt!Increment, Lt!At, Lt!Goto
  <2>2. local[t] = rounds
    BY <1>4 DEF LtInv, Lt!At
  <2>3. counter' = rounds'
    BY <2>1, <2>2, Zenon
  <2>4. \A u \in Lt!Threads : local[u]' = 0 /\ (lt_pc[u]' = "write" <=> FALSE)
    BY <1>2, <1>4, <2>1 DEF LtInv, Lt!At
  <2>5. \A u \in Lt!Threads :
          /\ lt_pc[u]' \in {"read", "write", "held"} => lt_lock' = u
          /\ lt_pc[u]' # "none" => ptr[u]' # NULL
    BY <1>1, <1>2, <1>4, <2>1 DEF LtInv, Lt!At
  <2>6. /\ lt_pc' \in [Lt!Threads -> LtLabels] /\ local' \in [Lt!Threads -> {0} \cup {counter'}]
        /\ ptr' \in [Lt!Threads -> {"task", "error", NULL}]
    BY <1>1, <2>1, <2>4 DEF LtInv, LtLabels
  <2> QED
    BY <2>3, <2>4, <2>5, <2>6, Zenon DEF LtInv
<1> QED
  BY <1>3, <1>4 DEF Lt!Increment

\* The thread is created, or is not.
LEMMA LtCreateStep ==
  ASSUME NULL \notin {"task", "error"}, LtInv, NEW t \in Lt!Threads, Lt!Create(t)
  PROVE  LtInv'
<1>1. lt_pc[t] = "none" /\ UNCHANGED <<lt_lock, counter, local, rounds>>
  BY DEF Lt!Create, LtInv
<1>2. CASE ptr' = [ptr EXCEPT ![t] = "task"] /\ Lt!Goto(t, "new")
  BY <1>1, <1>2 DEF LtInv, Lt!Goto, LtLabels
<1>3. CASE ptr' = [ptr EXCEPT ![t] = "error"] /\ lt_pc' = lt_pc
  BY <1>1, <1>3 DEF LtInv
<1> QED
  BY <1>2, <1>3 DEF Lt!Create

\* Every step keeps the invariant.
LEMMA LtStepInv ==
  ASSUME NULL \notin Lt!Threads \cup {"task", "error"}, LtInv, [Lt!Next]_(Lt!vars)
  PROVE  LtInv'
<1>1. CASE UNCHANGED Lt!vars
  BY <1>1, LtNoThread DEF Lt!vars, Lt!life
<1>2. CASE Lt!mutex_cleanup_thread \/ Lt!semaphore_cleanup_thread \/ Lt!thread_cleanup
  BY <1>2, LtNoThread
     DEF Lt!mutex_cleanup_thread, Lt!semaphore_cleanup_thread, Lt!thread_cleanup, Lt!Cleanup
<1>3. ASSUME NEW t \in Lt!Threads,
             Lt!mutex_init_thread(t) \/ Lt!semaphore_init_thread(t) \/ Lt!thread_init(t)
      PROVE  LtInv'
  <2>1. Lt!Create(t)
    BY <1>3 DEF Lt!mutex_init_thread, Lt!semaphore_init_thread, Lt!thread_init
  <2> QED
    BY <2>1, LtCreateStep
<1>4. ASSUME NEW t \in Lt!Threads, Lt!Lock(t)
      PROVE  LtInv'
  BY <1>4, LtLockFree DEF Lt!Lock, Lt!At, Lt!life
<1>5. ASSUME NEW t \in Lt!Threads, Lt!Starts(t) \/ Lt!LoopTop(t)
      PROVE  LtInv'
  <2>1. lt_pc[t] \in {"new", "top"} /\ UNCHANGED <<ptr, lt_lock, counter, local, rounds>>
    BY <1>5 DEF Lt!Starts, Lt!LoopTop, Lt!At, Lt!life
  <2>2. Lt!Goto(t, "done") \/ Lt!Goto(t, "top") \/ Lt!Goto(t, "want")
    BY <1>5 DEF Lt!Starts, Lt!LoopTop, Lt!Goto
  <2> QED
    BY <2>1, <2>2, LtLockSame
<1>6. ASSUME NEW t \in Lt!Threads, Lt!Unlock(t)
      PROVE  LtInv'
  BY <1>6, LtLockBack DEF Lt!Unlock, Lt!At, Lt!life
<1>7. CASE Lt!SpinHold
  BY <1>7, LtLockFree, LtLockBack DEF Lt!SpinHold, Lt!At, Lt!Threads, Lt!life
<1>8. CASE Lt!SpinTry
  BY <1>8, LtLockFree, LtLockBack, LtLockSame
     DEF Lt!SpinTry, Lt!Acquire, Lt!At, Lt!Threads, Lt!life
<1> QED
  BY <1>1, <1>2, <1>3, <1>4, <1>5, <1>6, <1>7, <1>8, LtIncrementStep
     DEF Lt!Next, Lt!Run, Lt!mutex_thread_fn, Lt!semaphore_thread_fn

\* No increment of counter by the two threads of mutex.c and semaphore.c is
\* lost, whatever the counter counts up to.
LEMMA LtCounterExact ==
  ASSUME NULL \notin Lt!Threads \cup {"task", "error"}
  PROVE  Lt!Spec => []Lt!CounterExact
<1>1. Lt!Init => LtInv
  BY DEF Lt!Init, LtInv, LtLabels
<1>2. LtInv /\ [Lt!Next]_(Lt!vars) => LtInv'
  BY LtStepInv
<1>3. LtInv => Lt!CounterExact
  BY DEF LtInv, Lt!CounterExact
<1> QED
  BY <1>1, <1>2, <1>3, PTL DEF Lt!Spec

------------------------------------------------------------------------------
(* The character devices. *)

\* As long as the lock is released by its holder only, who got it holds it, and
\* a writer holds it alone.
CdInv ==
  \/ foreign
  \/ /\ cd_inside \subseteq holders
     /\ \A h, k \in holders : h # k => h[2] = "r" /\ k[2] = "r"

\* A step that touches no lock.
LEMMA CdOtherStep ==
  ASSUME CdInv, UNCHANGED Cd!locks
  PROVE  CdInv'
  BY DEF CdInv, Cd!locks

\* The init functions, with init_rwsem of rw_sem_init.
LEMMA CdRegisterStep ==
  ASSUME CdInv, Cd!Register
  PROVE  CdInv'
<1>1. cd_inside' = cd_inside
  BY DEF Cd!Register
<1>2. CASE UNCHANGED <<holders, foreign>>
  BY <1>1, <1>2, CdOtherStep DEF Cd!locks
<1>3. CASE holders' = {} /\ foreign' = (foreign \/ holders # {})
  BY <1>1, <1>3, Zenon DEF CdInv
<1> QED
  BY <1>2, <1>3 DEF Cd!Register

\* down_read lets a reader of rwsem.c in beside other readers.
LEMMA CdTakeRead ==
  ASSUME CdInv, NEW p, Cd!down_read(p),
         cd_inside' = cd_inside \cup {<<p, "r">>}, foreign' = foreign
  PROVE  CdInv'
  BY DEF CdInv, Cd!down_read

\* down_write, mutex_lock and down let one process in when nobody is inside.
LEMMA CdTakeWrite ==
  ASSUME CdInv, NEW p, holders = {}, holders' = {<<p, "w">>},
         cd_inside' = cd_inside \cup {<<p, "w">>}, foreign' = foreign
  PROVE  CdInv'
  BY DEF CdInv

\* up_read and up_write: a holder leaves the section and gives the lock back.
LEMMA CdGiveBack ==
  ASSUME CdInv, NEW h, holders' = holders \ {h},
         cd_inside' = cd_inside \ {h}, foreign' = foreign
  PROVE  CdInv'
  BY DEF CdInv

\* my_write of cdev_mutex.c and cdev_semaphore.c.
LEMMA CdReleasedStep ==
  ASSUME CdInv, NEW p, NEW s, Cd!LockReleased(p, s)
  PROVE  CdInv'
<1> DEFINE h == <<p, "w">>
<1>1. /\ holders' = {} /\ cd_inside' = cd_inside \ {h}
      /\ foreign' = (foreign \/ h \notin holders)
  BY DEF Cd!LockReleased
<1>2. CASE foreign \/ h \notin holders
  BY <1>1, <1>2, Zenon DEF CdInv
<1>3. CASE ~foreign /\ h \in holders
  <2>1. h[2] # "r"
    OBVIOUS
  <2>2. cd_inside \subseteq {h}
    BY <1>3, <2>1 DEF CdInv
  <2> QED
    BY <1>1, <2>2 DEF CdInv
<1> QED
  BY <1>2, <1>3

\* Every step keeps the invariant.
LEMMA CdStepInv ==
  ASSUME CdInv, [Cd!Next]_(Cd!vars)
  PROVE  CdInv'
<1>1. CASE Cd!schd_init \/ Cd!rw_sem_init \/ Cd!init_mutex \/ Cd!sem_init
  BY <1>1, CdRegisterStep DEF Cd!schd_init, Cd!rw_sem_init, Cd!init_mutex, Cd!sem_init
<1>2. CASE Cd!schd_cleanup \/ Cd!rw_sem_cleanup \/ Cd!exit_mutex \/ Cd!sem_exit
  BY <1>2, CdOtherStep
     DEF Cd!schd_cleanup, Cd!rw_sem_cleanup, Cd!exit_mutex, Cd!sem_exit, Cd!Unregister
<1>3. ASSUME NEW p \in Procs,
             \/ Cd!Open(p) \/ Cd!Release(p) \/ Cd!ReadQueues(p) \/ Cd!ReadTests(p)
             \/ Cd!ReadWoken(p)
             \/ Cd!ReadResets(p) \/ Cd!write(p)
      PROVE  CdInv'
  BY <1>3, CdOtherStep
     DEF Cd!Open, Cd!Release, Cd!ReadQueues, Cd!ReadTests, Cd!ReadWoken, Cd!ReadResets, Cd!write
<1>4. ASSUME NEW p \in Procs, Cd!rwsem_read(p)
      PROVE  CdInv'
  BY <1>4, CdOtherStep, CdTakeRead, CdGiveBack, Zenon DEF Cd!rwsem_read
<1>5. ASSUME NEW p \in Procs, Cd!rwsem_write(p)
      PROVE  CdInv'
  BY <1>5, CdOtherStep, CdTakeWrite, CdGiveBack, Zenon DEF Cd!rwsem_write, Cd!down_write
<1>6. ASSUME NEW p \in Procs, NEW s, Cd!LockTaken(p, s)
      PROVE  CdInv'
  BY <1>6, CdOtherStep, CdTakeWrite DEF Cd!LockTaken
<1>7. ASSUME NEW p \in Procs, Cd!mutex_read(p) \/ Cd!semaphore_read(p)
      PROVE  CdInv'
  BY <1>6, <1>7, CdOtherStep DEF Cd!mutex_read, Cd!semaphore_read
<1>8. ASSUME NEW p \in Procs, Cd!mutex_write(p) \/ Cd!semaphore_write(p)
      PROVE  CdInv'
  BY <1>8, CdReleasedStep DEF Cd!mutex_write, Cd!semaphore_write
<1>9. CASE UNCHANGED Cd!vars
  BY <1>9, CdOtherStep DEF Cd!vars
<1> QED
  BY <1>1, <1>2, <1>3, <1>4, <1>5, <1>7, <1>8, <1>9 DEF Cd!Next

\* No writer of rwsem.c is beside another process, and no two processes have
\* the lock of cdev_mutex.c or cdev_semaphore.c, until somebody releases a lock
\* that is not theirs or rw_sem_init initialises one that is in use.
LEMMA CdExclusive == Cd!Spec => []Cd!Exclusive
<1>1. Cd!Init => CdInv
  BY DEF Cd!Init, CdInv
<1>2. CdInv /\ [Cd!Next]_(Cd!vars) => CdInv'
  BY CdStepInv
<1>3. CdInv => Cd!Exclusive
  <2> SUFFICES ASSUME CdInv, NEW h \in cd_inside, NEW k \in cd_inside, h # k,
                      h[2] = "w" \/ k[2] = "w"
               PROVE  foreign
    BY DEF Cd!Exclusive
  <2> QED
    BY DEF CdInv
<1> QED
  BY <1>1, <1>2, <1>3, PTL DEF Cd!Spec

------------------------------------------------------------------------------
(* tfutex.c. *)

\* FUTEX_WAKE comes after the child's last store, and the parent prints nothing
\* before it is woken.
FxInv ==
  /\ fx_parent \in {"fork", "fault", "arg", "wait", "asleep", "total", "items", "waitpid", "ended"}
  /\ fx_child \in {"none", "open", "store", "wake", "exited"}
  /\ fx_child = "wake" => todo = {}
  /\ Fx!TheTotal \notin todo => total = Total
  /\ \A x \in Fx!Parts : x \in todo \/ x \in stored
  /\ fx_printed \in Seq(SUBSET {"id", "name"}) /\ woken \in BOOLEAN /\ limit \in Int
  /\ total \in Int
  /\ fx_parent \in {"fork", "fault", "arg", "wait", "asleep", "total"} => fx_printed = <<>>
  /\ woken => /\ fx_child = "exited" /\ todo = {}
              /\ fx_parent \in {"total", "items", "waitpid", "ended"}
              /\ fx_parent # "total" => limit = Total
              /\ fx_parent \in {"waitpid", "ended"} => Len(fx_printed) >= limit
              /\ \A i \in 1..Len(fx_printed) : i <= Total => fx_printed[i] = {"id", "name"}

\* The child's stores.
LEMMA FxStoreStep ==
  ASSUME Total \in Nat, FxInv, Fx!store
  PROVE  FxInv'
<1>0. Fx!TheTotal \notin Fx!Parts
  BY DEF Fx!TheTotal, Fx!Parts
<1>1. PICK x \in todo : /\ todo' = todo \ {x}
                        /\ IF x = Fx!TheTotal THEN total' = Total /\ UNCHANGED stored
                           ELSE stored' = stored \cup {x} /\ UNCHANGED total
  BY DEF Fx!store
<1>2. ~woken
  BY DEF FxInv, Fx!store
<1>3. fx_child' \in {"wake", "store"} /\ (fx_child' = "wake" => todo' = {})
  BY DEF Fx!store
<1>4. (Fx!TheTotal \notin todo' => total' = Total) /\ total' \in Int
  BY <1>1 DEF FxInv
<1>5. \A y \in Fx!Parts : y \in todo' \/ y \in stored'
  BY <1>0, <1>1 DEF FxInv
<1> QED
  BY <1>2, <1>3, <1>4, <1>5 DEF FxInv, Fx!store

\* The parent prints what is stored, all of it if it was woken.
LEMMA FxPrintStep ==
  ASSUME Total \in Nat, FxInv, Fx!print
  PROVE  FxInv'
<1> USE DEF FxInv
<1>1. woken => total = Total /\ Fx!Parts \subseteq stored
  <2>1. woken => todo = {}
    OBVIOUS
  <2> QED
    BY <2>1
<1>2. CASE fx_parent = "total" /\ limit' = total /\ fx_parent' = "items" /\ UNCHANGED fx_printed
  <2>1. fx_printed = <<>>
    BY <1>2
  <2>2. total \in Int
    OBVIOUS
  <2> QED
    BY <1>1, <1>2, <2>1, <2>2 DEF Fx!print
<1>3. CASE fx_parent = "items" /\ Len(fx_printed) < limit /\ UNCHANGED <<fx_parent, limit>>
           /\ fx_printed' = Append(fx_printed, {x \in {"id", "name"} :
                                                  <<Len(fx_printed) + 1, x>> \in stored})
  <2> DEFINE n == Len(fx_printed) + 1
             new == {x \in {"id", "name"} : <<n, x>> \in stored}
  <2>1. n \in Nat /\ n >= 1 /\ fx_printed' = Append(fx_printed, new)
    BY <1>3
  <2>2. woken /\ n <= Total => new = {"id", "name"}
    <3>1. n <= Total => <<n, "id">> \in Fx!Parts /\ <<n, "name">> \in Fx!Parts
      BY <2>1 DEF Fx!Parts
    <3> QED
      BY <1>1, <3>1
  <2>3. new \in SUBSET {"id", "name"}
    OBVIOUS
  <2> HIDE DEF new
  <2>4. /\ fx_printed' \in Seq(SUBSET {"id", "name"}) /\ Len(fx_printed') = n
        /\ \A i \in 1 .. n - 1 : fx_printed'[i] = fx_printed[i]
        /\ fx_printed'[n] = new
    BY <2>1, <2>3
  <2>5. woken => \A i \in 1..Len(fx_printed') : i <= Total => fx_printed'[i] = {"id", "name"}
    BY <2>1, <2>2, <2>4
  <2> QED
    BY <1>3, <2>4, <2>5 DEF Fx!print
<1>4. CASE fx_parent = "items" /\ Len(fx_printed) >= limit /\ fx_parent' = "waitpid"
           /\ UNCHANGED <<fx_printed, limit>>
  BY <1>4 DEF Fx!print
<1> QED
  BY <1>2, <1>3, <1>4 DEF Fx!print

\* Every step keeps the invariant.
LEMMA FxStepInv ==
  ASSUME Total \in Nat, FxInv, [Fx!Next]_(Fx!vars)
  PROVE  FxInv'
<1>1. CASE Fx!fork
  BY <1>1 DEF FxInv, Fx!fork
<1>2. CASE Fx!shm_open
  BY <1>2 DEF FxInv, Fx!shm_open
<1>3. CASE Fx!FUTEX_WAKE
  BY <1>3 DEF FxInv, Fx!FUTEX_WAKE
<1>4. CASE Fx!FUTEX_WAIT
  BY <1>4 DEF FxInv, Fx!FUTEX_WAIT
<1>5. CASE Fx!waitpid
  BY <1>5 DEF FxInv, Fx!waitpid
<1>6. CASE UNCHANGED Fx!vars
  BY <1>6 DEF FxInv, Fx!vars
<1> QED
  BY <1>1, <1>2, <1>3, <1>4, <1>5, <1>6, FxStoreStep, FxPrintStep DEF Fx!Next

\* The parent of tfutex.c prints the whole list if FUTEX_WAKE woke it, in
\* whatever order the child's stores are seen.
LEMMA FxWholeList ==
  ASSUME Total \in Nat
  PROVE  Fx!Spec => []Fx!WholeList
<1>1. Fx!Init => FxInv
  <2> SUFFICES ASSUME Fx!Init PROVE FxInv
    OBVIOUS
  <2>1. fx_printed \in Seq(SUBSET {"id", "name"}) /\ limit \in Int /\ total \in Int
    BY DEF Fx!Init
  <2>2. Fx!Parts \subseteq todo /\ Fx!TheTotal \in todo
    BY DEF Fx!Init
  <2> QED
    BY <2>1, <2>2, Zenon DEF Fx!Init, FxInv
<1>2. FxInv /\ [Fx!Next]_(Fx!vars) => FxInv'
  BY FxStepInv
<1>3. FxInv => Fx!WholeList
  BY DEF FxInv, Fx!WholeList
<1> QED
  BY <1>1, <1>2, <1>3, PTL DEF Fx!Spec

------------------------------------------------------------------------------
(* userns_child_exec.c. *)

\* While the parent may still write a map it has the pipe open, and it has
\* written the maps that come before its place in the program.
UeInv ==
  /\ want \subseteq {"uid", "gid"}
  /\ ue_parent \in {"start", "uid", "gid", "close", "waitpid", "ended", "failed"}
  /\ ue_parent = "start" => ue_child = "none"
  /\ ue_parent \in {"uid", "gid", "close"} => "parent" \in writers
  /\ ue_parent \in {"gid", "close", "waitpid", "ended"} => want \cap {"uid"} \subseteq mapped
  /\ ue_parent \in {"close", "waitpid", "ended"} => want \cap {"gid"} \subseteq mapped
  /\ Ue!ExecAfterMaps

\* The parent's steps.
LEMMA UeParentStep ==
  ASSUME UeInv,
         \/ Ue!start \/ Ue!update_map("uid", "gid") \/ Ue!update_map("gid", "close")
         \/ Ue!close \/ Ue!waitpid
  PROVE  UeInv'
<1> USE DEF UeInv, Ue!ExecAfterMaps, Ue!Fails
<1>1. CASE Ue!start
  BY <1>1 DEF Ue!start
<1>2. CASE Ue!update_map("uid", "gid")
  BY <1>2 DEF Ue!update_map
<1>3. CASE Ue!update_map("gid", "close")
  BY <1>3 DEF Ue!update_map
<1>4. CASE Ue!close
  BY <1>4 DEF Ue!close
<1>5. CASE Ue!waitpid
  BY <1>5 DEF Ue!waitpid
<1> QED
  BY <1>1, <1>2, <1>3, <1>4, <1>5

\* The child's steps: the end of the pipe tells it that the parent is past the
\* maps, or gone.
LEMMA UeChildStep ==
  ASSUME UeInv, Ue!childFunc \/ Ue!read_fails \/ Ue!command
  PROVE  UeInv'
<1> USE DEF UeInv, Ue!ExecAfterMaps
<1>1. CASE Ue!childFunc
  <2>1. CASE ue_child = "read" /\ writers = {} /\ ue_child' = "exec" /\ UNCHANGED writers
    <3>1. ue_parent \in {"waitpid", "ended", "failed", "start"}
      BY <2>1
    <3>2. ue_parent # "failed" => want \subseteq mapped
      BY <2>1, <3>1
    <3> QED
      BY <1>1, <2>1, <3>2 DEF Ue!childFunc
  <2>2. CASE ue_child = "close" /\ ue_child' = "read" /\ writers' = writers \ {"child"}
    BY <1>1, <2>2 DEF Ue!childFunc
  <2>3. CASE ue_child = "exec" /\ ue_child' \in {"command", "ended"} /\ UNCHANGED writers
    BY <1>1, <2>3 DEF Ue!childFunc
  <2> QED
    BY <1>1, <2>1, <2>2, <2>3 DEF Ue!childFunc
<1>2. CASE Ue!read_fails \/ Ue!command
  BY <1>2, Zenon DEF Ue!read_fails, Ue!command
<1> QED
  BY <1>1, <1>2

\* The child of userns_child_exec runs its command only when the maps that were
\* asked for are written, or when the parent has ended without writing them.
LEMMA UeExecAfterMaps ==
  Ue!Spec => []Ue!ExecAfterMaps
<1>1. Ue!Init => UeInv
  BY DEF Ue!Init, UeInv, Ue!ExecAfterMaps
<1>2. UeInv /\ [Ue!Next]_(Ue!vars) => UeInv'
  <2>1. UeInv /\ Ue!Next => UeInv'
    BY UeParentStep, UeChildStep DEF Ue!Next
  <2>2. UeInv /\ UNCHANGED Ue!vars => UeInv'
    BY DEF UeInv, Ue!ExecAfterMaps, Ue!vars
  <2> QED
    BY <2>1, <2>2
<1>3. UeInv => Ue!ExecAfterMaps
  BY DEF UeInv
<1> QED
  BY <1>1, <1>2, <1>3, PTL DEF Ue!Spec

------------------------------------------------------------------------------
(* edu_driver.c. *)

\* What the handler has read is still set until it acknowledges it, so that a
\* bit raised meanwhile is one that it has not read.
EdInv ==
  \/ meddled
  \/ /\ status \subseteq Bits /\ unseen \subseteq status
     /\ handler \ {"read"} \subseteq status
     /\ handler \cap unseen = {}

\* The interrupt, from the device and from a process.
LEMMA EdRaiseStep ==
  ASSUME EdInv, NEW b \in Bits, Ed!Raise(b), UNCHANGED <<handler, meddled>>, "read" \notin Bits
  PROVE  EdInv'
  BY DEF EdInv, Ed!Raise

\* The handler reads the status, or acknowledges what it has read.
LEMMA EdHandlerStep ==
  ASSUME EdInv, Ed!irq_handler, "read" \notin Bits
  PROVE  EdInv'
<1>1. CASE handler' = status \cup {"read"} /\ unseen' = unseen \ status /\ status' = status
  BY <1>1 DEF EdInv, Ed!irq_handler, Ed!file
<1>2. CASE status' = status \ handler /\ handler' = {} /\ unseen' = unseen
  BY <1>2 DEF EdInv, Ed!irq_handler, Ed!file
<1> QED
  BY <1>1, <1>2 DEF Ed!irq_handler

\* A step that touches no interrupt.
LEMMA EdOtherStep ==
  ASSUME EdInv, UNCHANGED <<status, handler, unseen, meddled>>
  PROVE  EdInv'
  BY DEF EdInv

\* irq_handler of edu_driver.c acknowledges only what it has read, unless a
\* process writes the acknowledge register itself.
LEMMA EdAckedWasRead ==
  ASSUME "read" \notin Bits
  PROVE  Ed!Spec => []Ed!AckedWasRead
<1>1. Ed!Init => EdInv
  BY DEF Ed!Init, EdInv
<1>2. EdInv /\ [Ed!Next]_(Ed!vars) => EdInv'
  <2> SUFFICES ASSUME EdInv, [Ed!Next]_(Ed!vars) PROVE EdInv'
    OBVIOUS
  <2>1. CASE Ed!irq_handler
    BY <2>1, EdHandlerStep
  <2>2. CASE Ed!device
    BY <2>2, EdRaiseStep DEF Ed!device, Ed!file
  <2>3. CASE Ed!write
    <3>1. CASE meddled'
      BY <3>1 DEF EdInv
    <3>2. CASE ~meddled'
      BY <2>3, <3>2, EdRaiseStep DEF Ed!write
    <3> QED
      BY <3>1, <3>2
  <2>4. CASE Ed!myinit \/ Ed!pci_probe \/ Ed!checks \/ Ed!pci_remove \/ Ed!myexit
    BY <2>4, EdOtherStep, Zenon
       DEF Ed!myinit, Ed!pci_probe, Ed!checks, Ed!pci_remove, Ed!myexit, Ed!irqs,
           Ed!file
  <2>5. CASE Ed!open \/ Ed!llseek \/ Ed!read
    BY <2>5, EdOtherStep DEF Ed!open, Ed!llseek, Ed!read, Ed!irqs
  <2>6. CASE UNCHANGED Ed!vars
    BY <2>6, EdOtherStep DEF Ed!vars
  <2> QED
    BY <2>1, <2>2, <2>3, <2>4, <2>5, <2>6 DEF Ed!Next
<1>3. EdInv => Ed!AckedWasRead
  BY DEF EdInv, Ed!AckedWasRead
<1> QED
  BY <1>1, <1>2, <1>3, PTL DEF Ed!Spec

------------------------------------------------------------------------------
(* The samples side by side. *)

\* The locks of the samples exclude, for any number of writers, processes and
\* calls and however far the counter counts, with the exceptions stated in the
\* modules.
THEOREM LocksTheorem ==
  ASSUME NULL \notin Writers, "stuck" \notin Writers,
         NULL \notin Lt!Threads \cup {"task", "error"}
  PROVE  Pg!Spec /\ Lt!Spec /\ Cd!Spec => []LocksExclude
  BY PgExclusive, LtCounterExact, CdExclusive, PTL DEF LocksExclude

\* Who waits for another finds what the other had to do first done: the whole
\* list of tfutex.c, of any length; the maps of userns_child_exec.c; every bit
\* of an interrupt that edu_driver.c acknowledges, of any set of bits.
THEOREM HandoverTheorem ==
  ASSUME Total \in Nat, "read" \notin Bits
  PROVE  Fx!Spec /\ Ue!Spec /\ Ed!Spec => []HandedOver
  BY FxWholeList, UeExecAfterMaps, EdAckedWasRead, PTL DEF HandedOver
==============================================================================
