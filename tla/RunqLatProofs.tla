---------------------------- MODULE RunqLatProofs ----------------------------
(* Machine-checked proofs about RunqLat, for every number of CPUs, tasks,    *)
(* writers and readers and every size of the buffers.                        *)
EXTENDS RunqLat, TLAPS

------------------------------------------------------------------------------
(* What the probes rely on in the scheduler: who holds which run queue, and  *)
(* where the tasks are that a probe in progress is about.                    *)

Active(x, fn) == probe[x] # NULL /\ probe[x].fn = fn

\* A task that runs is nowhere else, and is what its CPU runs.
RunsHere ==
  \A c \in Cpus : run[c] # Idle => tst[run[c]] = "running" /\ tcpu[run[c]] = c
RunsThere == \A p \in Tasks : tst[p] = "running" => run[tcpu[p]] = p

\* The state in which __schedule leaves the task it switches out.
LeftAs(runnable) == IF runnable THEN "queued" ELSE "blocked"

\* While a probe is in progress its scheduler operation holds the run queue:
\* the task that was switched out or woken stays where it is, and one that is
\* moved is on no run queue.
SwitchHolds ==
  \A x \in Cpus : Active(x, "switch") =>
    /\ probe[x].rq = x /\ run[x] = probe[x].next
    /\ probe[x].watched \/ probe[x].runnable
    /\ probe[x].prev # Idle => /\ tcpu[probe[x].prev] = x
                               /\ tst[probe[x].prev] = LeftAs(probe[x].runnable)
WakeupHolds ==
  \A x \in Cpus : Active(x, "wakeup") =>
    probe[x].rq = tcpu[probe[x].p] /\ tst[probe[x].p] \in {"queued", "running"}
MigrateHolds ==
  \A x \in Cpus : Active(x, "migrate") => tst[probe[x].p] = "moving"

\* No two operations hold the same run queue or move the same task.
OneHolder ==
  \A x, y \in Cpus : x # y /\ probe[x] # NULL /\ probe[y] # NULL =>
    /\ probe[x].rq = probe[y].rq => probe[x].rq = NULL
    /\ Active(x, "migrate") /\ Active(y, "migrate") => probe[x].p # probe[y].p

JoinedBefore == \A p \in Tasks : since[p] <= now

SchedInv ==
  /\ RunsHere /\ RunsThere /\ SwitchHolds /\ WakeupHolds /\ MigrateHolds /\ OneHolder
  /\ JoinedBefore

------------------------------------------------------------------------------
\* The fields of a probe in progress.
LEMMA ProbeFields ==
  ASSUME TypeOK, NEW x \in Cpus, probe[x] # NULL
  PROVE  /\ Active(x, "switch") => /\ probe[x].rq \in Cpus
                                   /\ probe[x].prev \in Tasks \cup {Idle}
                                   /\ probe[x].next \in Tasks \cup {Idle}
                                   /\ probe[x].watched \in BOOLEAN
                                   /\ probe[x].runnable \in BOOLEAN
         /\ Active(x, "wakeup") => probe[x].rq \in Cpus /\ probe[x].p \in Tasks
         /\ Active(x, "migrate") => /\ probe[x].rq \in Cpus \cup {NULL}
                                    /\ probe[x].p \in Tasks /\ probe[x].cpu \in Cpus
                                    /\ probe[x].was \in {"queued", "blocked"}
         /\ Active(x, "switch") \/ Active(x, "wakeup") \/ Active(x, "migrate")
<1>1. probe[x] \in Probe
  BY DEF TypeOK
<1> QED
  BY <1>1 DEF Probe, Active

\* A step that leaves the scheduler and the probes alone.
LEMMA SchedSame ==
  ASSUME SchedInv, UNCHANGED <<probe, run, tcpu, tst, since, now>>
  PROVE  SchedInv'
  BY DEF SchedInv, RunsHere, RunsThere, SwitchHolds, WakeupHolds, MigrateHolds, OneHolder,
         JoinedBefore, Active

\* The end of a wakeup or switch probe gives the run queue back.
LEMMA ProbeEnds ==
  ASSUME TypeOK, SchedInv, NEW x \in Cpus, probe' = [probe EXCEPT ![x] = NULL],
         UNCHANGED sched
  PROVE  SchedInv'
<1>1. probe'[x] = NULL /\ \A y \in Cpus : y # x => probe'[y] = probe[y]
  BY DEF TypeOK
<1>2. \A y \in Cpus : \A fn : Active(y, fn)' => y # x /\ Active(y, fn) /\ probe'[y] = probe[y]
  BY <1>1 DEF Active
<1>3. UNCHANGED <<run, tcpu, tst, since, now>>
  BY DEF sched
<1>4. RunsHere' /\ RunsThere' /\ JoinedBefore'
  BY <1>3 DEF SchedInv, RunsHere, RunsThere, JoinedBefore
<1>5. SwitchHolds' /\ WakeupHolds' /\ MigrateHolds'
  BY <1>2, <1>3 DEF SchedInv, SwitchHolds, WakeupHolds, MigrateHolds
<1>6. OneHolder'
  BY <1>1, <1>2 DEF SchedInv, OneHolder
<1> QED
  BY <1>4, <1>5, <1>6 DEF SchedInv

\* Nobody holds the run queue of a task: no probe but the one of another
\* migration concerns the task.
LEMMA NobodyHolds ==
  ASSUME TypeOK, SchedInv, NEW p \in Tasks, RqFree(tcpu[p])
  PROVE  \A x \in Cpus : /\ Active(x, "wakeup") => probe[x].p # p
                         /\ Active(x, "switch") => probe[x].prev # p /\ probe[x].next # p
<1> SUFFICES ASSUME NEW x \in Cpus
             PROVE  /\ Active(x, "wakeup") => probe[x].p # p
                    /\ Active(x, "switch") => probe[x].prev # p /\ probe[x].next # p
  OBVIOUS
<1>1. probe[x] # NULL => probe[x].rq # tcpu[p]
  BY DEF RqFree
<1>2. p # Idle
  BY SetsAssumption
<1>3. Active(x, "switch") => probe[x].next # p
  BY <1>1, <1>2 DEF SchedInv, SwitchHolds, RunsHere, Active
<1> QED
  BY <1>1, <1>2, <1>3 DEF SchedInv, SwitchHolds, WakeupHolds, Active

\* try_to_wake_up takes the run queue of the task.
LEMMA WakeupSched ==
  ASSUME TypeOK, SchedInv, NEW x \in Cpus, NEW p \in Tasks, sched_wakeup(x, p)
  PROVE  SchedInv'
<1> DEFINE e == [fn |-> "wakeup", rq |-> tcpu[p], p |-> p]
<1>1. /\ probe[x] = NULL /\ RqFree(tcpu[p]) /\ tst[p] \in {"blocked", "running"}
      /\ UNCHANGED <<info, run, tcpu, now>>
  BY Zenon DEF sched_wakeup
<1>2. e \in Probe /\ e.fn = "wakeup" /\ e.rq = tcpu[p] /\ e.p = p /\ tcpu[p] \in Cpus
  BY Zenon DEF TypeOK, Probe
<1>3. (probe' = probe \/ probe' = [probe EXCEPT ![x] = e]) /\ e # NULL
  BY <1>2, ProbeAssumption DEF sched_wakeup
<1> HIDE DEF e
<1>4. \A y \in Cpus : y # x => probe'[y] = probe[y]
  BY <1>3 DEF TypeOK
<1>5. probe'[x] \in {NULL, e}
  BY <1>1, <1>3, Zenon DEF TypeOK
<1>6. /\ \A q \in Tasks : q # p => tst'[q] = tst[q] /\ since'[q] = since[q]
      /\ tst[p] = "blocked" => tst'[p] = "queued" /\ since'[p] = now
      /\ tst[p] = "running" => tst'[p] = "running" /\ since'[p] = since[p]
  BY DEF sched_wakeup, TypeOK
<1>7. \A y \in Cpus : /\ Active(y, "wakeup") => probe[y].p # p
                      /\ Active(y, "switch") => probe[y].prev # p /\ probe[y].next # p
  BY <1>1, NobodyHolds, Zenon
<1>8. \A y \in Cpus : \A fn :
        Active(y, fn)' => \/ y # x /\ Active(y, fn) /\ probe'[y] = probe[y]
                          \/ y = x /\ fn = "wakeup" /\ probe'[y] = e
  BY <1>2, <1>4, <1>5 DEF Active
<1>9. RunsHere' /\ RunsThere'
  <2>1. RunsHere'
    BY <1>1, <1>6 DEF SchedInv, RunsHere, TypeOK
  <2>2. RunsThere'
    BY <1>1, <1>6, Zenon DEF SchedInv, RunsThere
  <2> QED
    BY <2>1, <2>2, Zenon
<1>10. SwitchHolds'
  BY <1>1, <1>6, <1>7, <1>8, ProbeFields DEF SchedInv, SwitchHolds, Active
<1>11. WakeupHolds'
  BY <1>1, <1>2, <1>6, <1>8, ProbeFields DEF SchedInv, WakeupHolds, Active
<1>12. MigrateHolds'
  BY <1>1, <1>6, <1>8, ProbeFields DEF SchedInv, MigrateHolds, Active
<1>13. OneHolder'
  BY <1>1, <1>2, <1>3, <1>4, <1>5, <1>8 DEF SchedInv, OneHolder, RqFree
<1>14. JoinedBefore'
  BY <1>1, <1>6 DEF SchedInv, JoinedBefore, TypeOK
<1> QED
  BY <1>9, <1>10, <1>11, <1>12, <1>13, <1>14 DEF SchedInv

\* __schedule takes the run queue of its CPU.
LEMMA SwitchSched ==
  ASSUME TypeOK, SchedInv, NEW c \in Cpus, NEW n \in Tasks \cup {Idle}, NEW b \in BOOLEAN,
         sched_switch(c, n, b)
  PROVE  SchedInv'
<1> DEFINE e == [fn |-> "switch", rq |-> c, prev |-> run[c], next |-> n, runnable |-> b,
                 watched |-> info.cpu # INVALID]
<1>1. /\ probe[c] = NULL /\ RqFree(c) /\ tcpu' = tcpu
      /\ n # Idle => n \in Tasks /\ tst[n] = "queued" /\ tcpu[n] = c
  BY DEF sched_switch, Queued
<1>2. /\ e \in Probe /\ e.fn = "switch" /\ e.rq = c /\ e.prev = run[c] /\ e.next = n
      /\ e.runnable = b /\ e.watched = (info.cpu # INVALID)
      /\ run[c] \in Tasks \cup {Idle}
  BY Zenon DEF TypeOK, Probe
<1>3. /\ e # NULL
      /\ \/ probe' = probe
         \/ probe' = [probe EXCEPT ![c] = e] /\ (e.watched \/ e.runnable)
  BY <1>2, ProbeAssumption, Zenon DEF sched_switch, SwitchSkipped
<1> HIDE DEF e
<1>4. \A y \in Cpus : y # c => probe'[y] = probe[y] /\ run'[y] = run[y]
  BY DEF sched_switch
<1>5. probe'[c] \in {NULL, e} /\ run'[c] = n
  BY <1>3 DEF TypeOK, sched_switch
<1>6. \A q \in Tasks : /\ q = n => tst'[q] = "running"
                       /\ q # n /\ q = run[c] => tst'[q] = LeftAs(b)
                       /\ q # n /\ q # run[c] => tst'[q] = tst[q]
  BY DEF sched_switch, TypeOK, LeftAs
<1>7. now' \in Nat /\ now <= now'
  <2>1. PICK d \in Deltas : now' = now + d
    BY Zenon DEF sched_switch
  <2> QED
    BY <2>1, SizesAssumption DEF TypeOK
<1>8. \A q \in Tasks : since'[q] = since[q] \/ since'[q] = now'
  BY DEF sched_switch
<1>9. run[c] # Idle => tst[run[c]] = "running" /\ tcpu[run[c]] = c /\ run[c] \in Tasks
  BY <1>2 DEF SchedInv, RunsHere
<1>10. \A q \in Tasks : tcpu[q] = c => 
         \A y \in Cpus : /\ Active(y, "wakeup") => probe[y].p # q
                         /\ Active(y, "switch") => probe[y].prev # q /\ probe[y].next # q
  BY <1>1, NobodyHolds, Zenon
<1>11. \A y \in Cpus : \A fn :
         Active(y, fn)' => \/ y # c /\ Active(y, fn) /\ probe'[y] = probe[y]
                           \/ /\ y = c /\ fn = "switch" /\ probe'[y] = e
                              /\ e.watched \/ e.runnable
  BY <1>1, <1>2, <1>3, <1>4, <1>5 DEF Active
<1>12. RunsHere'
  <2> SUFFICES ASSUME NEW y \in Cpus, run'[y] # Idle
               PROVE  tst'[run'[y]] = "running" /\ tcpu'[run'[y]] = y
    BY Zenon DEF RunsHere
  <2>1. CASE y = c
    BY <1>1, <1>5, <1>6, <2>1, Zenon
  <2>2. CASE y # c
    <3>1. run'[y] = run[y] /\ tst[run[y]] = "running" /\ tcpu[run[y]] = y /\ run[y] \in Tasks
      BY <1>4, <2>2 DEF SchedInv, RunsHere, TypeOK
    <3>2. run[y] # n /\ run[y] # run[c]
      BY <1>1, <1>9, <2>2, <3>1, Zenon
    <3> QED
      BY <1>1, <1>6, <3>1, <3>2, Zenon
  <2> QED
    BY <2>1, <2>2
<1>13. SwitchHolds'
  <2> SUFFICES ASSUME NEW y \in Cpus, Active(y, "switch")'
               PROVE  /\ probe'[y].rq = y /\ run'[y] = probe'[y].next
                      /\ probe'[y].watched \/ probe'[y].runnable
                      /\ probe'[y].prev # Idle =>
                           /\ tcpu'[probe'[y].prev] = y
                           /\ tst'[probe'[y].prev] = LeftAs(probe'[y].runnable)
    BY Zenon DEF SwitchHolds
  <2>1. CASE y = c
    <3>1. probe'[y] = e /\ (e.watched \/ e.runnable)
      BY <1>11, <2>1, Zenon
    <3>2. run[c] # Idle => run[c] # n
      BY <1>1, <1>9, Zenon
    <3>3. run[c] # Idle => tcpu'[run[c]] = c /\ tst'[run[c]] = LeftAs(b)
      BY <1>1, <1>6, <1>9, <3>2, Zenon
    <3> QED
      BY <1>2, <1>5, <2>1, <3>1, <3>3, Zenon
  <2>2. CASE y # c
    <3>1. Active(y, "switch") /\ probe'[y] = probe[y] /\ run'[y] = run[y]
      BY <1>4, <1>11, <2>2, Zenon
    <3>2. probe[y].prev \in Tasks \cup {Idle}
      BY <3>1, ProbeFields, Zenon DEF Active
    <3>3. /\ probe[y].rq = y /\ run[y] = probe[y].next
          /\ probe[y].watched \/ probe[y].runnable
          /\ probe[y].prev # Idle => /\ tcpu[probe[y].prev] = y
                                     /\ tst[probe[y].prev] = LeftAs(probe[y].runnable)
      BY <3>1, Zenon DEF SchedInv, SwitchHolds
    <3>4. probe[y].prev # Idle => probe[y].prev # n /\ probe[y].prev # run[c]
      BY <1>1, <1>9, <2>2, <3>3, Zenon
    <3> QED
      BY <1>1, <1>6, <3>1, <3>2, <3>3, <3>4
  <2> QED
    BY <2>1, <2>2, Zenon
<1>14. WakeupHolds'
  <2> SUFFICES ASSUME NEW y \in Cpus, Active(y, "wakeup")'
               PROVE  /\ probe'[y].rq = tcpu'[probe'[y].p]
                      /\ tst'[probe'[y].p] \in {"queued", "running"}
    BY Zenon DEF WakeupHolds
  <2>1. Active(y, "wakeup") /\ probe'[y] = probe[y]
    BY <1>11
  <2>2. probe[y].p \in Tasks
    BY <2>1, ProbeFields, Zenon DEF Active
  <2>3. tcpu[probe[y].p] # c
    BY <1>10, <2>1, <2>2, Zenon
  <2>4. probe[y].p # n /\ probe[y].p # run[c]
    BY <1>1, <1>9, <2>2, <2>3, SetsAssumption, Zenon
  <2> QED
    BY <1>1, <1>6, <2>1, <2>2, <2>4, Zenon DEF SchedInv, WakeupHolds
<1>15. MigrateHolds'
  <2> SUFFICES ASSUME NEW y \in Cpus, Active(y, "migrate")'
               PROVE  tst'[probe'[y].p] = "moving"
    BY Zenon DEF MigrateHolds
  <2>1. Active(y, "migrate") /\ probe'[y] = probe[y]
    BY <1>11
  <2>2. probe[y].p \in Tasks /\ tst[probe[y].p] = "moving"
    BY <2>1, ProbeFields, Zenon DEF Active, SchedInv, MigrateHolds
  <2> QED
    BY <1>1, <1>6, <1>9, <2>1, <2>2, SetsAssumption
<1>16. OneHolder'
  BY <1>1, <1>2, <1>3, <1>5, <1>11 DEF SchedInv, OneHolder, RqFree, Active
<1>17. JoinedBefore'
  BY <1>7, <1>8 DEF SchedInv, JoinedBefore, TypeOK
<1>18. RunsThere'
  <2> SUFFICES ASSUME NEW p \in Tasks, tst'[p] = "running"
               PROVE  run'[tcpu'[p]] = p
    BY Zenon DEF RunsThere
  <2>1. CASE p = n
    BY <1>1, <1>5, <2>1, SetsAssumption, Zenon
  <2>2. CASE p # n
    <3>1. p # run[c] /\ tst[p] = "running"
      BY <1>6, <2>2, Zenon DEF LeftAs
    <3>2. run[tcpu[p]] = p /\ tcpu[p] \in Cpus
      BY <3>1 DEF SchedInv, RunsThere, TypeOK
    <3> QED
      BY <1>1, <1>4, <3>1, <3>2, Zenon
  <2> QED
    BY <2>1, <2>2, Zenon
<1> QED
  BY <1>12, <1>13, <1>14, <1>15, <1>16, <1>17, <1>18, Zenon DEF SchedInv

\* set_task_cpu without a probe: the task is on no CPU and in no probe.
LEMMA MoveSched ==
  ASSUME TypeOK, SchedInv, NEW p \in Tasks, NEW c \in Cpus, tcpu' = [tcpu EXCEPT ![p] = c],
         \/ tst[p] = "queued" /\ RqFree(tcpu[p])
         \/ tst[p] = "blocked" /\ ~SwitchingOut(p),
         UNCHANGED <<probe, run, tst, since>>, now' \in Nat, now <= now'
  PROVE  SchedInv'
<1>1. \A q \in Tasks : q # p => tcpu'[q] = tcpu[q]
  BY Zenon DEF TypeOK
<1>2. \A x \in Cpus : Active(x, "wakeup") => probe[x].p # p
  BY NobodyHolds, Zenon DEF SchedInv, WakeupHolds
<1>3. \A x \in Cpus : Active(x, "switch") => probe[x].prev # p
  BY NobodyHolds, Zenon DEF SwitchingOut, Active
<1>4. \A x \in Cpus : run[x] # p
  BY SetsAssumption DEF SchedInv, RunsHere
<1>5. RunsHere' /\ RunsThere'
  BY <1>1 DEF SchedInv, RunsHere, RunsThere
<1>6. SwitchHolds'
  BY <1>1, <1>3 DEF SchedInv, SwitchHolds, Active
<1>7. WakeupHolds'
  BY <1>2 DEF SchedInv, WakeupHolds, Active
<1>8. MigrateHolds' /\ OneHolder'
  BY DEF SchedInv, MigrateHolds, OneHolder, Active
<1>9. JoinedBefore'
  BY DEF SchedInv, JoinedBefore, TypeOK
<1> QED
  BY <1>5, <1>6, <1>7, <1>8, <1>9 DEF SchedInv

\* set_task_cpu of the target, whose probe has to wait: the task is moving.
LEMMA MovingSched ==
  ASSUME TypeOK, SchedInv, NEW x \in Cpus, NEW p \in Tasks, NEW e \in Probe,
         probe[x] = NULL, probe' = [probe EXCEPT ![x] = e],
         e.fn = "migrate", e.p = p, e.rq = IF tst[p] = "queued" THEN tcpu[p] ELSE NULL,
         tst' = [tst EXCEPT ![p] = "moving"],
         \/ tst[p] = "queued" /\ RqFree(tcpu[p])
         \/ tst[p] = "blocked" /\ ~SwitchingOut(p),
         UNCHANGED <<run, tcpu, since>>, now' \in Nat, now <= now'
  PROVE  SchedInv'
<1>1. \A q \in Tasks : q # p => tst'[q] = tst[q]
  OBVIOUS
<1>2. \A y \in Cpus : Active(y, "wakeup") => probe[y].p # p
  BY NobodyHolds, Zenon DEF SchedInv, WakeupHolds
<1>3. \A y \in Cpus : Active(y, "switch") => probe[y].prev # p
  BY NobodyHolds, Zenon DEF SwitchingOut, Active
<1>4. \A y \in Cpus : run[y] # p
  BY SetsAssumption DEF SchedInv, RunsHere
<1>5. \A y \in Cpus : y # x => probe'[y] = probe[y]
  BY Zenon DEF TypeOK
<1>6. probe'[x] = e /\ e # NULL /\ tst'[p] = "moving"
  BY ProbeAssumption, Zenon DEF TypeOK
<1>7. \A y \in Cpus : \A fn :
        Active(y, fn)' => \/ y # x /\ Active(y, fn) /\ probe'[y] = probe[y]
                          \/ y = x /\ fn = "migrate" /\ probe'[y] = e
  BY DEF Active
<1>8. RunsHere' /\ RunsThere'
  BY DEF SchedInv, RunsHere, RunsThere
<1>9. SwitchHolds'
  BY <1>1, <1>3, <1>7 DEF SchedInv, SwitchHolds
<1>10. WakeupHolds'
  BY <1>2, <1>7 DEF SchedInv, WakeupHolds
<1>11. MigrateHolds'
  BY <1>1, <1>6, <1>7 DEF SchedInv, MigrateHolds
<1>12. \A y \in Cpus : Active(y, "migrate") => probe[y].p # p
  BY Zenon DEF SchedInv, MigrateHolds
<1>13. OneHolder'
  <2>1. \A y \in Cpus : y # x /\ probe[y] # NULL => e.rq = NULL \/ e.rq # probe[y].rq
    BY Zenon DEF RqFree
  <2> QED
    BY <1>5, <1>6, <1>7, <1>12, <2>1 DEF SchedInv, OneHolder, Active
<1>14. JoinedBefore'
  BY DEF SchedInv, JoinedBefore, TypeOK
<1> QED
  BY <1>8, <1>9, <1>10, <1>11, <1>13, <1>14, Zenon DEF SchedInv

\* set_task_cpu.
LEMMA MigrateSched ==
  ASSUME TypeOK, SchedInv, NEW x \in Cpus, NEW p \in Tasks, NEW c \in Cpus,
         sched_migrate_task(x, p, c)
  PROVE  SchedInv'
<1> DEFINE e == [fn |-> "migrate", p |-> p, cpu |-> c, was |-> tst[p],
                 rq |-> IF tst[p] = "queued" THEN tcpu[p] ELSE NULL]
<1>1. e \in Probe
  BY DEF TypeOK, Probe, sched_migrate_task
<1>2. now' \in Nat /\ now <= now'
  <2>1. PICK d \in Deltas \cup {0} : now' = now + d
    BY Zenon DEF sched_migrate_task
  <2> QED
    BY <2>1, SizesAssumption DEF TypeOK
<1>3. /\ probe[x] = NULL
      /\ \/ tst[p] = "queued" /\ RqFree(tcpu[p])
         \/ tst[p] = "blocked" /\ ~SwitchingOut(p)
      /\ UNCHANGED <<run, since>>
  BY DEF sched_migrate_task
<1>4. CASE p # info.pid \/ info.cpu = INVALID
  <2>1. tcpu' = [tcpu EXCEPT ![p] = c] /\ UNCHANGED <<probe, tst>>
    BY <1>4 DEF sched_migrate_task
  <2> QED
    BY <1>2, <1>3, <2>1, MoveSched, Zenon
<1>5. CASE ~(p # info.pid \/ info.cpu = INVALID)
  <2>1. /\ probe' = [probe EXCEPT ![x] = e] /\ tst' = [tst EXCEPT ![p] = "moving"]
        /\ tcpu' = tcpu
    BY <1>5, Zenon DEF sched_migrate_task
  <2>2. e.fn = "migrate" /\ e.p = p /\ e.rq = IF tst[p] = "queued" THEN tcpu[p] ELSE NULL
    BY Zenon
  <2> HIDE DEF e
  <2> QED
    BY <1>1, <1>2, <1>3, <2>1, <2>2, MovingSched, Zenon
<1> QED
  BY <1>4, <1>5, Zenon

\* The end of the probe of a migration: the task is on the run queue of its new
\* CPU, or sleeps there.
LEMMA MigratedSched ==
  ASSUME TypeOK, SchedInv, NEW x \in Cpus, probe_sched_migrate_task(x)
  PROVE  SchedInv'
<1> DEFINE e == probe[x]
           p == e.p
<1>1. Active(x, "migrate") /\ p \in Tasks /\ e.cpu \in Cpus /\ e.was \in {"queued", "blocked"}
  BY ProbeFields, Zenon DEF probe_sched_migrate_task, Active
<1>2. tst[p] = "moving"
  BY <1>1, Zenon DEF SchedInv, MigrateHolds
<1>3. /\ \A q \in Tasks : q # p => tcpu'[q] = tcpu[q] /\ tst'[q] = tst[q]
      /\ UNCHANGED <<run, since, now>>
      /\ probe'[x] = NULL /\ \A y \in Cpus : y # x => probe'[y] = probe[y]
  BY Zenon DEF TypeOK, probe_sched_migrate_task
<1>4. \A y \in Cpus : \A fn : Active(y, fn)' => y # x /\ Active(y, fn) /\ probe'[y] = probe[y]
  BY <1>3, Zenon DEF Active
<1> HIDE DEF e
<1>5. \A y \in Cpus : run[y] # p
  BY <1>1, <1>2, SetsAssumption DEF SchedInv, RunsHere
<1>6. \A y \in Cpus : /\ Active(y, "wakeup") => probe[y].p # p
                      /\ Active(y, "switch") => probe[y].prev # p
                      /\ Active(y, "migrate") /\ y # x => probe[y].p # p
  BY <1>1, <1>2, SetsAssumption
     DEF SchedInv, WakeupHolds, SwitchHolds, LeftAs, OneHolder, Active, e
<1>7. RunsHere' /\ JoinedBefore'
  BY <1>3, <1>5 DEF SchedInv, RunsHere, JoinedBefore, TypeOK
<1>12. RunsThere'
  <2>1. tst'[p] # "running"
    BY <1>1, Zenon DEF probe_sched_migrate_task, TypeOK, e
  <2> QED
    BY <1>3, <2>1 DEF SchedInv, RunsThere
<1>8. SwitchHolds'
  BY <1>3, <1>4, <1>6, ProbeFields DEF SchedInv, SwitchHolds, Active
<1>9. WakeupHolds'
  BY <1>3, <1>6, ProbeFields DEF SchedInv, WakeupHolds, Active
<1>10. MigrateHolds'
  BY <1>3, <1>6, ProbeFields DEF SchedInv, MigrateHolds, Active
<1>11. OneHolder'
  BY <1>3, <1>4 DEF SchedInv, OneHolder
<1> QED
  BY <1>7, <1>8, <1>9, <1>10, <1>11, <1>12, Zenon DEF SchedInv

\* Every step keeps what the probes rely on.
LEMMA StepSched ==
  ASSUME TypeOK, SchedInv, [Next]_vars
  PROVE  SchedInv'
<1>1. ASSUME NEW x \in Cpus, probe_sched_wakeup(x) \/ probe_sched_switch(x)
      PROVE  SchedInv'
  BY <1>1, ProbeEnds DEF probe_sched_wakeup, probe_sched_switch
<1>2. CASE Proc
  BY <1>2, SchedSame, Zenon DEF Proc, trace_pid_store, trace_pid_store_locked, threshold_store,
                         runqlat_show, runqlat_show_locked, sched
<1>3. CASE UNCHANGED vars
  BY <1>3, SchedSame, Zenon DEF vars
<1> QED
  BY <1>1, <1>2, <1>3, WakeupSched, SwitchSched, MigrateSched, MigratedSched, Zenon
     DEF Next, Scheduler, Probes

------------------------------------------------------------------------------
(* The inductive invariant of struct runqlat_info.  To the properties of     *)
(* RunqLat it adds that the trace being filled lies behind the kept ones,    *)
(* that the traces after it are empty, and that no time stamp is in the      *)
(* future.                                                                   *)

\* The slice of the trace being filled starts behind all kept slices.
CurrentBehindKept(i) ==
  i.nr_trace \in TraceIdx /\ Current(i).nr_tasks # 0 =>
    \A k \in Kept(i) : SliceEnd(i, k) <= Current(i).entries

\* The traces after the one being filled are still empty.
RestEmpty(i) ==
  \A k \in TraceIdx : k > i.nr_trace => i.trace_entries[k].nr_tasks = 0

Shape(i) ==
  /\ i \in Info
  /\ CurrentIsLast(i)
  /\ SlicesDisjoint(i)
  /\ CurrentBehindKept(i)
  /\ RestEmpty(i)

Stamps(i, t) == i.rq_start <= t /\ i.run_start <= t

Good(i, t) == Shape(i) /\ SessionHasRoom(i) /\ Stamps(i, t)

------------------------------------------------------------------------------
\* A step that only writes the scalar fields keeps the shape of the buffers.
SameBuffers(i, j) ==
  /\ j \in Info
  /\ j.nr_trace = i.nr_trace
  /\ j.nr_task = i.nr_task
  /\ j.trace_entries = i.trace_entries

\* The type of a field of runqlat_info.
LEMMA InfoFields ==
  ASSUME NEW i \in Info
  PROVE  /\ i.cpu \in Cpus \cup {INVALID}
         /\ i.pid \in Tasks \cup {INVALID}
         /\ i.rq_start \in Nat
         /\ i.run_start \in Nat
         /\ i.threshold \in Nat
         /\ i.curr \in Tasks \cup {NULL}
         /\ i.nr_trace \in 0 .. MAX_TRACE_ENTRIES
         /\ i.nr_task \in 0 .. MAX_TRACE_ENTRY_TASKS
         /\ \A k \in TraceIdx : /\ i.trace_entries[k].latency \in Nat
                                /\ i.trace_entries[k].nr_tasks \in Nat
                                /\ i.trace_entries[k].entries \in TaskIdx \cup {NULL}
         /\ i.trace_entries \in [TraceIdx -> TraceEntry]
         /\ i.task_entries \in [TaskIdx -> TaskEntry]
  BY Zenon DEF Info, TraceEntry

\* The shape depends on the buffers and their counters only.
LEMMA ShapeOfBuffers ==
  ASSUME NEW i, NEW j, Shape(i), SameBuffers(i, j)
  PROVE  Shape(j)
  BY Zenon DEF Shape, SameBuffers, CurrentIsLast, SlicesDisjoint, CurrentBehindKept,
         RestEmpty, Current, SliceEnd, Kept

\* runqlat_info_reset touches no buffer and clears both time stamps.
LEMMA ResetGood ==
  ASSUME NEW i, Shape(i), NEW t \in Nat
  PROVE  /\ Shape(runqlat_info_reset(i))
         /\ Stamps(runqlat_info_reset(i), t)
         /\ SessionHasRoom(i) => SessionHasRoom(runqlat_info_reset(i))
  <1> DEFINE j == runqlat_info_reset(i)
  <1>1. i \in Info
    BY DEF Shape
  <1>2. SameBuffers(i, j)
    BY <1>1, Zenon DEF SameBuffers, runqlat_info_reset, Info
  <1>3. Stamps(j, t) /\ j.pid = i.pid
    BY <1>1 DEF Stamps, runqlat_info_reset, Info
  <1> QED
    BY <1>2, <1>3, ShapeOfBuffers DEF SessionHasRoom, SameBuffers

\* A forced stop needs no room: afterwards no session is in progress.
LEMMA ForceDisableGood ==
  ASSUME NEW i, Shape(i), NEW t \in Nat
  PROVE  /\ Good(ForceDisable(i), t)
         /\ ForceDisable(i).nr_trace = i.nr_trace
         /\ ForceDisable(i).pid = INVALID
  <1> DEFINE j == ForceDisable(i)
  <1>1. i \in Info
    BY DEF Shape
  <1>2. SameBuffers(i, j)
    BY <1>1, Zenon DEF SameBuffers, ForceDisable, runqlat_info_reset, Info
  <1>3. Stamps(j, t) /\ j.pid = INVALID
    BY <1>1 DEF Stamps, ForceDisable, runqlat_info_reset, Info
  <1> QED
    BY <1>2, <1>3, ShapeOfBuffers DEF Good, SessionHasRoom, SameBuffers

------------------------------------------------------------------------------
\* The value record_task computes before it looks at the limit.
Recorded(i, p, runtime) ==
  LET trace == Current(i)
      first == IF trace.nr_tasks = 0 THEN i.nr_task ELSE trace.entries
  IN  [i EXCEPT
         !.trace_entries[i.nr_trace] =
            [trace EXCEPT !.entries = first, !.nr_tasks = @ + 1],
         !.task_entries[i.nr_task] = [pid |-> p, runtime |-> runtime],
         !.nr_task = @ + 1]

HasRoom(i) == i.nr_trace < MAX_TRACE_ENTRIES /\ i.nr_task < MAX_TRACE_ENTRY_TASKS

\* With room for a record, the next trace and the next task slot exist.
LEMMA RoomIndexes ==
  ASSUME NEW i, Shape(i), HasRoom(i)
  PROVE  i \in Info /\ i.nr_trace \in TraceIdx /\ i.nr_task \in TaskIdx
  <1>1. i \in Info
    BY Zenon DEF Shape
  <1>2. /\ i.nr_trace \in 0 .. MAX_TRACE_ENTRIES
        /\ i.nr_task \in 0 .. MAX_TRACE_ENTRY_TASKS
    BY <1>1, InfoFields, Zenon
  <1> QED
    BY <1>1, <1>2, SizesAssumption DEF HasRoom, TraceIdx, TaskIdx

\* The differences of time stamps the probes compute are natural numbers.
LEMMA ElapsedNat ==
  ASSUME NEW i, NEW t \in Nat, Good(i, t)
  PROVE  i \in Info /\ t - i.rq_start \in Nat /\ t - i.run_start \in Nat
  <1>1. i \in Info
    BY Zenon DEF Good, Shape
  <1>2. i.rq_start \in Nat /\ i.run_start \in Nat
    BY <1>1, InfoFields, Zenon
  <1>3. i.rq_start <= t /\ i.run_start <= t
    BY Zenon DEF Good, Stamps
  <1> QED
    BY <1>1, <1>2, <1>3

\* A trace with one more task is a trace.
LEMMA OneMoreTask ==
  ASSUME NEW e \in TraceEntry, NEW first \in TaskIdx \cup {NULL}
  PROVE  [e EXCEPT !.entries = first, !.nr_tasks = @ + 1] \in TraceEntry
  <1>1. e.nr_tasks + 1 \in Nat
    BY DEF TraceEntry
  <1> QED
    BY <1>1, Zenon DEF TraceEntry

\* What record_task writes, field by field.
LEMMA RecordedFields ==
  ASSUME NEW i, Shape(i), HasRoom(i), NEW p \in Tasks \cup {Idle},
         NEW runtime \in Nat
  PROVE  LET j == Recorded(i, p, runtime)
             e == i.trace_entries[i.nr_trace]
             f == j.trace_entries[i.nr_trace]
         IN  /\ j \in Info
             /\ j.nr_task = i.nr_task + 1
             /\ j.nr_trace = i.nr_trace
             /\ j.pid = i.pid
             /\ j.rq_start = i.rq_start
             /\ j.run_start = i.run_start
             /\ f.nr_tasks = e.nr_tasks + 1
             /\ f.entries = IF e.nr_tasks = 0 THEN i.nr_task ELSE e.entries
             /\ \A k \in TraceIdx :
                  k # i.nr_trace => j.trace_entries[k] = i.trace_entries[k]
  <1> DEFINE e == i.trace_entries[i.nr_trace]
             first == IF e.nr_tasks = 0 THEN i.nr_task ELSE e.entries
             f == [e EXCEPT !.entries = first, !.nr_tasks = @ + 1]
             j == Recorded(i, p, runtime)
  <1>1. i \in Info /\ i.nr_trace \in TraceIdx /\ i.nr_task \in TaskIdx
    BY RoomIndexes, Zenon
  <1>2. e \in TraceEntry
    BY <1>1, InfoFields DEF TraceEntry
  <1>3. f \in TraceEntry
    <2>1. first \in TaskIdx \cup {NULL}
      BY <1>1, <1>2 DEF TraceEntry
    <2> HIDE DEF first, e
    <2> QED
      BY <1>2, <2>1, OneMoreTask, Zenon
  <1>4. /\ j.trace_entries = [i.trace_entries EXCEPT ![i.nr_trace] = f]
        /\ j.task_entries = [i.task_entries EXCEPT
                               ![i.nr_task] = [pid |-> p, runtime |-> runtime]]
        /\ j.nr_task = i.nr_task + 1
        /\ j.nr_trace = i.nr_trace
        /\ j.pid = i.pid
        /\ j.rq_start = i.rq_start
        /\ j.run_start = i.run_start
    BY <1>1 DEF Recorded, Current, Info
  <1>5. j \in Info
    <2>1. j.trace_entries \in [TraceIdx -> TraceEntry]
      BY <1>1, <1>3, <1>4 DEF Info
    <2>2. [pid |-> p, runtime |-> runtime] \in TaskEntry
      BY DEF TaskEntry
    <2>3. j.task_entries \in [TaskIdx -> TaskEntry]
      BY <1>1, <1>4, <2>2 DEF Info
    <2>4. j.nr_task \in 0 .. MAX_TRACE_ENTRY_TASKS
      BY <1>1, <1>4, SizesAssumption DEF TaskIdx
    <2> QED
      BY <1>1, <2>1, <2>3, <2>4, Zenon DEF Recorded, Info
  <1> QED
    BY <1>1, <1>2, <1>4, <1>5, InfoFields DEF TraceEntry

\* Writing the next task slot keeps the shape of the buffers.
LEMMA RecordedShape ==
  ASSUME NEW i, Shape(i), HasRoom(i), NEW p \in Tasks \cup {Idle},
         NEW runtime \in Nat
  PROVE  Shape(Recorded(i, p, runtime))
  <1> DEFINE j == Recorded(i, p, runtime)
             e == i.trace_entries[i.nr_trace]
             f == j.trace_entries[i.nr_trace]
  <1>1. /\ j \in Info
        /\ j.nr_task = i.nr_task + 1
        /\ j.nr_trace = i.nr_trace
        /\ f.nr_tasks = e.nr_tasks + 1
        /\ f.entries = IF e.nr_tasks = 0 THEN i.nr_task ELSE e.entries
        /\ \A k \in TraceIdx :
             k # i.nr_trace => j.trace_entries[k] = i.trace_entries[k]
    BY RecordedFields
  <1> HIDE DEF j
  <1>2. /\ i \in Info
        /\ i.nr_trace \in TraceIdx
        /\ i.nr_task \in TaskIdx
        /\ e.nr_tasks \in Nat
    <2>1. i \in Info /\ i.nr_trace \in TraceIdx /\ i.nr_task \in TaskIdx
      BY RoomIndexes, Zenon
    <2> QED
      BY <2>1, InfoFields, Zenon
  <1>3. Kept(j) = Kept(i) /\ \A k \in Kept(i) : k \in TraceIdx /\ k # i.nr_trace
    BY <1>1, <1>2 DEF Kept, TraceIdx
  <1>4. \A k \in Kept(i) : /\ j.trace_entries[k] = i.trace_entries[k]
                           /\ SliceEnd(j, k) = SliceEnd(i, k)
                           /\ SliceEnd(i, k) \in Int
                           /\ SliceEnd(i, k) <= i.nr_task
    <2> HIDE DEF e, f
    <2> SUFFICES ASSUME NEW k \in Kept(i)
                 PROVE  /\ j.trace_entries[k] = i.trace_entries[k]
                        /\ SliceEnd(j, k) = SliceEnd(i, k)
                        /\ SliceEnd(i, k) \in Int
                        /\ SliceEnd(i, k) <= i.nr_task
      OBVIOUS
    <2>1. j.trace_entries[k] = i.trace_entries[k]
      BY <1>1, <1>3, Zenon
    <2>2. SliceEnd(j, k) = SliceEnd(i, k)
      BY <2>1, Zenon DEF SliceEnd
    <2>3. /\ i.trace_entries[k].nr_tasks \in Nat
          /\ i.trace_entries[k].entries \in TaskIdx \cup {NULL}
      BY <1>2, <1>3, InfoFields, Zenon
    <2>4. i.trace_entries[k].entries # NULL /\ SliceEnd(i, k) <= i.nr_task
      BY Zenon DEF Shape, SlicesDisjoint
    <2>5. i.trace_entries[k].entries \in TaskIdx
      BY <2>3, <2>4, Zenon
    <2> QED
      BY <2>1, <2>2, <2>3, <2>4, <2>5 DEF SliceEnd, TaskIdx
  <1>5. e.nr_tasks # 0 => /\ e.entries \in TaskIdx
                          /\ e.entries + e.nr_tasks = i.nr_task
    <2>1. e.entries \in TaskIdx \cup {NULL} /\ e = Current(i) /\ CurrentIsLast(i)
      BY <1>2, InfoFields, Zenon DEF Shape, Current
    <2> QED
      BY <1>2, <2>1, Zenon DEF CurrentIsLast
  <1>6. CurrentIsLast(j)
    <2>1. f = Current(j)
      BY <1>1, Zenon DEF Current
    <2> HIDE DEF e, f
    <2>2. f.entries # NULL /\ f.entries + f.nr_tasks = j.nr_task
      BY <1>1, <1>2, <1>5, SetsAssumption DEF TaskIdx
    <2> QED
      BY <2>1, <2>2, Zenon DEF CurrentIsLast
  <1>7. SlicesDisjoint(j)
    BY <1>1, <1>2, <1>3, <1>4 DEF SlicesDisjoint, Shape, TaskIdx
  <1>8. CurrentBehindKept(j)
    BY <1>1, <1>2, <1>3, <1>4, <1>5, Zenon DEF CurrentBehindKept, Current, Shape, TaskIdx
  <1>9. RestEmpty(j)
    BY <1>1, <1>2 DEF RestEmpty, Shape, TraceIdx
  <1> QED
    BY <1>1, <1>6, <1>7, <1>8, <1>9, Zenon DEF Shape, j

\* record_task keeps the invariant, at the last slot too: there it ends the
\* session.  The trace being filled stays in range for record_task_commit.
LEMMA RecordGood ==
  ASSUME NEW i, NEW t \in Nat, Shape(i), Stamps(i, t), HasRoom(i),
         NEW p \in Tasks \cup {Idle}, NEW runtime \in Nat
  PROVE  /\ Good(record_task(i, p, runtime), t)
         /\ record_task(i, p, runtime).nr_trace = i.nr_trace
  <1> DEFINE j == Recorded(i, p, runtime)
  <1>1. record_task(i, p, runtime) =
          IF j.nr_task >= MAX_TRACE_ENTRY_TASKS THEN ForceDisable(j) ELSE j
    BY DEF record_task, Recorded
  <1>2. Shape(j)
    BY RecordedShape, Zenon
  <1>3. /\ j \in Info /\ j.nr_trace = i.nr_trace
        /\ j.rq_start = i.rq_start /\ j.run_start = i.run_start
    BY RecordedFields
  <1> HIDE DEF j
  <1>4. CASE j.nr_task >= MAX_TRACE_ENTRY_TASKS
    BY <1>1, <1>2, <1>3, <1>4, ForceDisableGood, Zenon
  <1>5. CASE ~(j.nr_task >= MAX_TRACE_ENTRY_TASKS)
    BY <1>1, <1>2, <1>3, <1>5, SizesAssumption
       DEF Good, SessionHasRoom, Stamps, HasRoom, Info
  <1> QED
    BY <1>4, <1>5

------------------------------------------------------------------------------
\* latency_histogram_store never leaves latency_hist and touches no buffer.
LEMMA HistogramGood ==
  ASSUME NEW i, Shape(i), NEW delta \in Nat
  PROVE  LET h == latency_histogram_store(i, delta)
         IN  /\ Shape(h)
             /\ SameBuffers(i, h)
             /\ h.task_entries = i.task_entries
             /\ h.pid = i.pid
             /\ h.rq_start = i.rq_start
             /\ h.run_start = i.run_start
  <1> DEFINE ms == delta \div NsPerMs
             b == Bucket(ms)
             h == latency_histogram_store(i, delta)
  <1>1. i \in Info
    BY DEF Shape
  <1>2. b \in HistIdx
    BY SizesAssumption DEF Bucket, HistIdx
  <1>3. ms \in Nat
    BY SizesAssumption
  <1>4. i.latency_hist \in [HistIdx -> Nat] /\ i.sum_lat \in Nat
    BY <1>1 DEF Info
  <1>5. h = [i EXCEPT !.sum_lat = i.sum_lat + ms,
                      !.latency_hist = [i.latency_hist EXCEPT ![b] = i.latency_hist[b] + 1]]
    BY <1>1, Zenon DEF latency_histogram_store, Info
  <1> HIDE DEF b, ms, h
  <1>6. /\ [i.latency_hist EXCEPT ![b] = i.latency_hist[b] + 1] \in [HistIdx -> Nat]
        /\ i.sum_lat + ms \in Nat
    BY <1>2, <1>3, <1>4
  <1>7. h \in Info
    BY <1>1, <1>5, <1>6, Zenon DEF Info
  <1>8. /\ SameBuffers(i, h)
        /\ h.task_entries = i.task_entries
        /\ h.pid = i.pid
        /\ h.rq_start = i.rq_start
        /\ h.run_start = i.run_start
    BY <1>1, <1>5, <1>7 DEF SameBuffers, Info
  <1> QED
    BY <1>8, ShapeOfBuffers, Zenon DEF h

\* The two outcomes of record_task_commit before it looks at the limit.
KeptTrace(h, latency) ==
  [h EXCEPT !.trace_entries[h.nr_trace] = [Current(h) EXCEPT !.latency = latency],
            !.nr_trace = @ + 1]
DroppedTrace(h) ==
  [h EXCEPT !.trace_entries[h.nr_trace] =
              [Current(h) EXCEPT !.nr_tasks = 0, !.entries = NULL],
            !.nr_task = @ - Current(h).nr_tasks]

\* Where the tasks of the trace being filled are.
LEMMA CurrentSlice ==
  ASSUME NEW h, Shape(h), h.nr_trace < MAX_TRACE_ENTRIES, Current(h).nr_tasks # 0
  PROVE  /\ h \in Info
         /\ h.nr_trace \in TraceIdx
         /\ Current(h) \in TraceEntry
         /\ Current(h).nr_tasks \in Nat \ {0}
         /\ Current(h).entries \in TaskIdx
         /\ Current(h).entries + Current(h).nr_tasks = h.nr_task
  <1>1. h \in Info
    BY Zenon DEF Shape
  <1>2. h.nr_trace \in TraceIdx
    BY <1>1, InfoFields, SizesAssumption DEF TraceIdx
  <1>3. Current(h) \in TraceEntry
    BY <1>1, <1>2, InfoFields, Zenon DEF Current
  <1> QED
    BY <1>1, <1>2, <1>3 DEF Shape, CurrentIsLast, TraceEntry

\* Keeping a trace keeps the shape: its tasks lie behind the kept ones.
LEMMA KeptShape ==
  ASSUME NEW h, Shape(h), h.nr_trace < MAX_TRACE_ENTRIES,
         Current(h).nr_tasks # 0, NEW latency \in Nat
  PROVE  LET j == KeptTrace(h, latency)
         IN  /\ Shape(j)
             /\ j.nr_trace = h.nr_trace + 1
             /\ j.nr_task = h.nr_task
             /\ j.pid = h.pid
             /\ j.rq_start = h.rq_start
             /\ j.run_start = h.run_start
  <1> DEFINE j == KeptTrace(h, latency)
             c == Current(h)
             f == [c EXCEPT !.latency = latency]
             n == h.nr_trace
  <1>1. /\ h \in Info
        /\ n \in TraceIdx
        /\ c \in TraceEntry
        /\ c.nr_tasks \in Nat \ {0}
        /\ c.entries \in TaskIdx
        /\ c.entries + c.nr_tasks = h.nr_task
    BY CurrentSlice
  <1>2. f \in TraceEntry /\ f.nr_tasks = c.nr_tasks /\ f.entries = c.entries
    BY <1>1, Zenon DEF TraceEntry
  <1>3. h.trace_entries \in [TraceIdx -> TraceEntry] /\ h.nr_task \in Nat
    BY <1>1, InfoFields
  <1>4. [h.trace_entries EXCEPT ![n] = f] \in [TraceIdx -> TraceEntry]
    BY <1>1, <1>2, <1>3
  <1>5. /\ j.trace_entries = [h.trace_entries EXCEPT ![n] = f]
        /\ j.nr_trace = n + 1
        /\ j.nr_task = h.nr_task
        /\ j.pid = h.pid
        /\ j.rq_start = h.rq_start
        /\ j.run_start = h.run_start
    BY <1>1, Zenon DEF KeptTrace, Info
  <1>6. n + 1 \in 0 .. MAX_TRACE_ENTRIES
    BY <1>1, SizesAssumption DEF TraceIdx
  <1>7. j \in Info
    BY <1>1, <1>4, <1>5, <1>6, Zenon DEF KeptTrace, Info
  <1>8. c = h.trace_entries[n]
    BY Zenon DEF Current
  <1> HIDE DEF j, f, c
  <1>9. /\ Kept(j) = Kept(h) \cup {n}
        /\ n \notin Kept(h)
        /\ Kept(h) \subseteq TraceIdx
    BY <1>1, <1>5 DEF Kept, TraceIdx
  <1>10. /\ \A k \in TraceIdx \ {n} : j.trace_entries[k] = h.trace_entries[k]
         /\ j.trace_entries[n] = f
    BY <1>1, <1>3, <1>5, Zenon
  <1>11. \A k \in Kept(h) : /\ SliceEnd(j, k) = SliceEnd(h, k)
                            /\ j.trace_entries[k] = h.trace_entries[k]
                            /\ SliceEnd(h, k) <= c.entries
    BY <1>1, <1>8, <1>9, <1>10, Zenon
       DEF SliceEnd, Shape, CurrentBehindKept, Current
  <1>12. SliceEnd(j, n) = h.nr_task
    BY <1>1, <1>2, <1>10, Zenon DEF SliceEnd
  <1>13. SlicesDisjoint(j)
    <2>1. \A k \in Kept(j) : /\ j.trace_entries[k].nr_tasks > 0
                             /\ j.trace_entries[k].entries # NULL
                             /\ SliceEnd(j, k) <= j.nr_task
      BY <1>1, <1>2, <1>3, <1>5, <1>9, <1>10, <1>11, <1>12, SetsAssumption
         DEF Shape, SlicesDisjoint, TaskIdx
    <2>2. \A k, l \in Kept(j) : k < l => SliceEnd(j, k) <= j.trace_entries[l].entries
      <3> TAKE k, l \in Kept(j)
      <3> HAVE k < l
      <3>1. k \in Kept(h)
        BY <1>1, <1>9 DEF Kept, TraceIdx
      <3>2. CASE l = n
        BY <1>2, <1>10, <1>11, <3>1, <3>2, Zenon
      <3>3. CASE l \in Kept(h)
        BY <1>11, <3>1, <3>3, Zenon DEF Shape, SlicesDisjoint
      <3> QED
        BY <1>9, <3>2, <3>3, Zenon
    <2> QED
      BY <2>1, <2>2, Zenon DEF SlicesDisjoint
  <1>14. \A k \in TraceIdx : k > n => j.trace_entries[k].nr_tasks = 0
    BY <1>1, <1>10 DEF Shape, RestEmpty, TraceIdx
  <1>15. CurrentIsLast(j) /\ CurrentBehindKept(j) /\ RestEmpty(j)
    BY <1>1, <1>5, <1>14
       DEF CurrentIsLast, CurrentBehindKept, RestEmpty, Current, TraceIdx
  <1> QED
    BY <1>5, <1>7, <1>13, <1>15, Zenon DEF Shape, j

\* Dropping a wait gives its tasks back and touches no kept trace.
LEMMA DroppedShape ==
  ASSUME NEW h, Shape(h), h.nr_trace < MAX_TRACE_ENTRIES, Current(h).nr_tasks # 0
  PROVE  LET j == DroppedTrace(h)
         IN  /\ Shape(j)
             /\ j.nr_trace = h.nr_trace
             /\ j.nr_task \in TaskIdx
             /\ j.pid = h.pid
             /\ j.rq_start = h.rq_start
             /\ j.run_start = h.run_start
  <1> DEFINE j == DroppedTrace(h)
             c == Current(h)
             f == [c EXCEPT !.nr_tasks = 0, !.entries = NULL]
             n == h.nr_trace
  <1>1. /\ h \in Info
        /\ n \in TraceIdx
        /\ c \in TraceEntry
        /\ c.nr_tasks \in Nat \ {0}
        /\ c.entries \in TaskIdx
        /\ c.entries + c.nr_tasks = h.nr_task
    BY CurrentSlice
  <1>2. f \in TraceEntry /\ f.nr_tasks = 0
    BY <1>1, Zenon DEF TraceEntry
  <1>3. h.trace_entries \in [TraceIdx -> TraceEntry]
    BY <1>1, InfoFields
  <1>4. [h.trace_entries EXCEPT ![n] = f] \in [TraceIdx -> TraceEntry]
    BY <1>1, <1>2, <1>3
  <1>5. /\ j.trace_entries = [h.trace_entries EXCEPT ![n] = f]
        /\ j.nr_trace = n
        /\ j.nr_task = h.nr_task - c.nr_tasks
        /\ j.pid = h.pid
        /\ j.rq_start = h.rq_start
        /\ j.run_start = h.run_start
    BY <1>1, Zenon DEF DroppedTrace, Info
  <1>6. h.nr_task - c.nr_tasks = c.entries
    BY <1>1 DEF TaskIdx
  <1>7. h.nr_task - c.nr_tasks \in 0 .. MAX_TRACE_ENTRY_TASKS
    BY <1>1, <1>6, SizesAssumption DEF TaskIdx
  <1>8. j \in Info
    BY <1>1, <1>4, <1>5, <1>7, Zenon DEF DroppedTrace, Info
  <1>9. c = h.trace_entries[n]
    BY Zenon DEF Current
  <1> HIDE DEF j, f, c
  <1>10. Kept(j) = Kept(h) /\ n \notin Kept(h) /\ Kept(h) \subseteq TraceIdx
    BY <1>1, <1>5 DEF Kept, TraceIdx
  <1>11. /\ \A k \in TraceIdx \ {n} : j.trace_entries[k] = h.trace_entries[k]
         /\ j.trace_entries[n] = f
    BY <1>1, <1>3, <1>5, Zenon
  <1>12. \A k \in Kept(h) : /\ SliceEnd(j, k) = SliceEnd(h, k)
                            /\ j.trace_entries[k] = h.trace_entries[k]
                            /\ SliceEnd(h, k) <= c.entries
    BY <1>1, <1>9, <1>10, <1>11, Zenon DEF SliceEnd, Shape, CurrentBehindKept, Current
  <1>13. SlicesDisjoint(j)
    BY <1>5, <1>6, <1>10, <1>12, Zenon DEF Shape, SlicesDisjoint
  <1>14. CurrentIsLast(j) /\ CurrentBehindKept(j) /\ RestEmpty(j)
    BY <1>1, <1>2, <1>5, <1>11
       DEF CurrentIsLast, CurrentBehindKept, RestEmpty, Shape, Current, TraceIdx
  <1> QED
    BY <1>1, <1>5, <1>6, <1>8, <1>13, <1>14, Zenon DEF Shape, j

\* record_task_commit keeps the invariant, and also when the record_task
\* before it has just ended the session.
LEMMA CommitGood ==
  ASSUME NEW i, NEW t \in Nat, Good(i, t), i.nr_trace < MAX_TRACE_ENTRIES,
         NEW latency \in Nat
  PROVE  Good(record_task_commit(i, latency), t)
  <1> DEFINE h == latency_histogram_store(i, latency)
             kept == KeptTrace(h, latency)
             dropped == DroppedTrace(h)
  <1>1. /\ Shape(h)
        /\ h.nr_trace = i.nr_trace
        /\ h.nr_task = i.nr_task
        /\ h.pid = i.pid
        /\ h.rq_start = i.rq_start
        /\ h.run_start = i.run_start
    BY HistogramGood DEF Good, SameBuffers
  <1>2. Good(h, t)
    BY <1>1 DEF Good, SessionHasRoom, Stamps
  <1>3. record_task_commit(i, latency) =
          IF Current(h).nr_tasks = 0 THEN h
          ELSE IF latency < h.threshold THEN dropped
          ELSE IF kept.nr_trace >= MAX_TRACE_ENTRIES THEN ForceDisable(kept)
          ELSE kept
    BY DEF record_task_commit, KeptTrace, DroppedTrace
  <1>4. ASSUME Current(h).nr_tasks # 0
        PROVE  /\ Shape(dropped)
               /\ dropped.nr_trace = h.nr_trace /\ dropped.nr_task \in TaskIdx
               /\ dropped.pid = h.pid
               /\ dropped.rq_start = h.rq_start /\ dropped.run_start = h.run_start
    BY <1>1, <1>4, DroppedShape, Zenon
  <1>5. ASSUME Current(h).nr_tasks # 0
        PROVE  /\ Shape(kept)
               /\ kept.nr_task = h.nr_task
               /\ kept.pid = h.pid
               /\ kept.rq_start = h.rq_start /\ kept.run_start = h.run_start
    BY <1>1, <1>5, KeptShape, Zenon
  <1> HIDE DEF h, kept, dropped
  <1>6. ASSUME Current(h).nr_tasks # 0
        PROVE  Good(dropped, t)
    <2>1. dropped.nr_task < MAX_TRACE_ENTRY_TASKS
      BY <1>4, <1>6, SizesAssumption DEF TaskIdx
    <2> QED
      BY <1>1, <1>2, <1>4, <1>6, <2>1, Zenon DEF Good, SessionHasRoom, Stamps
  <1>7. ASSUME Current(h).nr_tasks # 0, kept.nr_trace < MAX_TRACE_ENTRIES
        PROVE  Good(kept, t)
    BY <1>2, <1>5, <1>7, Zenon DEF Good, SessionHasRoom, Stamps
  <1>8. ASSUME Current(h).nr_tasks # 0, ~(kept.nr_trace >= MAX_TRACE_ENTRIES)
        PROVE  kept.nr_trace < MAX_TRACE_ENTRIES
    <2>1. kept.nr_trace \in 0 .. MAX_TRACE_ENTRIES
      BY <1>5, <1>8, InfoFields, Zenon DEF Shape
    <2> QED
      BY <1>8, <2>1, SizesAssumption
  <1> QED
    BY <1>2, <1>3, <1>5, <1>6, <1>7, <1>8, ForceDisableGood, Zenon

------------------------------------------------------------------------------
\* Charging a task needs a session in progress.
LEMMA ChargeGood ==
  ASSUME NEW i, NEW t \in Nat, Good(i, t), HasRoom(i), NEW p \in Tasks \cup {Idle}
  PROVE  /\ Good(Charge(i, p, t), t)
         /\ Charge(i, p, t).nr_trace = i.nr_trace
  <1>1. t - i.run_start \in Nat
    BY ElapsedNat, Zenon
  <1> QED
    BY <1>1, RecordGood DEF Charge, Good

\* A change of the scalar fields that leaves pid alone.
LEMMA ScalarGood ==
  ASSUME NEW i, NEW j, NEW t \in Nat, Good(i, t), SameBuffers(i, j),
         j.pid = i.pid, Stamps(j, t)
  PROVE  Good(j, t)
  BY ShapeOfBuffers, Zenon DEF Good, SessionHasRoom, SameBuffers

\* Noting the new running task keeps the invariant.
LEMMA UpdateCurrGood ==
  ASSUME NEW i, NEW t \in Nat, Good(i, t), NEW next \in Tasks \cup {Idle}
  PROVE  /\ Good(UpdateCurr(i, next), t)
         /\ SameBuffers(i, UpdateCurr(i, next))
         /\ UpdateCurr(i, next).pid = i.pid
  <1>1. i \in Info
    BY DEF Good, Shape
  <1>2. /\ SameBuffers(i, UpdateCurr(i, next))
        /\ UpdateCurr(i, next).pid = i.pid
        /\ UpdateCurr(i, next).rq_start = i.rq_start
        /\ UpdateCurr(i, next).run_start = i.run_start
    BY <1>1 DEF UpdateCurr, SameBuffers, Info
  <1> QED
    BY <1>2, ScalarGood, Zenon DEF Good, Stamps

\* Starting a wait at the current time keeps the invariant.
LEMMA StartWaitGood ==
  ASSUME NEW i, NEW t \in Nat, Good(i, t), NEW c \in Cpus \cup {INVALID}
  PROVE  /\ Good(StartWait(i, t), t)
         /\ Good([StartWait(i, t) EXCEPT !.cpu = c], t)
  <1> DEFINE j == StartWait(i, t)
             k == [j EXCEPT !.cpu = c]
  <1>1. i \in Info
    BY DEF Good, Shape
  <1>2. j \in Info
    BY <1>1, Zenon DEF StartWait, Info
  <1>3. /\ j.nr_trace = i.nr_trace /\ j.nr_task = i.nr_task
        /\ j.trace_entries = i.trace_entries /\ j.pid = i.pid
        /\ j.rq_start = t /\ j.run_start = t
    BY <1>1 DEF StartWait, Info
  <1> HIDE DEF j
  <1>4. k \in Info
    BY <1>2 DEF Info
  <1>5. /\ k.nr_trace = j.nr_trace /\ k.nr_task = j.nr_task
        /\ k.trace_entries = j.trace_entries /\ k.pid = j.pid
        /\ k.rq_start = j.rq_start /\ k.run_start = j.run_start
    BY <1>2, Zenon DEF Info
  <1> HIDE DEF k
  <1>6. Good(j, t)
    BY <1>2, <1>3, ScalarGood DEF SameBuffers, Stamps
  <1>7. Good(k, t)
    BY <1>3, <1>4, <1>5, <1>6, ScalarGood DEF SameBuffers, Stamps
  <1> QED
    BY <1>6, <1>7 DEF j, k

------------------------------------------------------------------------------
(* The locked section of every entry point keeps the invariant.            *)

\* A switch away from the target starts a wait and keeps the invariant.
LEMMA SwitchUnwatchedGood ==
  ASSUME NEW i, NEW t \in Nat, Good(i, t), NEW c \in Cpus,
         NEW prev \in Tasks \cup {Idle}, NEW next \in Tasks \cup {Idle}
  PROVE  Good(SwitchUnwatched(i, c, prev, next, t), t)
  <1>1. Good([StartWait(i, t) EXCEPT !.cpu = c], t)
    BY StartWaitGood
  <1> QED
    BY <1>1, UpdateCurrGood, Zenon DEF SwitchUnwatched

\* A switch on the watched CPU (charge, commit, restart or reset) keeps the
\* invariant.
LEMMA SwitchWatchedGood ==
  ASSUME NEW i, NEW t \in Nat, Good(i, t), NEW c \in Cpus,
         NEW prev \in Tasks \cup {Idle}, NEW next \in Tasks \cup {Idle},
         NEW runnable \in BOOLEAN
  PROVE  Good(SwitchWatched(i, c, prev, next, runnable, t), t)
  <1> DEFINE j == UpdateCurr(i, next)
             k == Charge(j, prev, t)
  <1>1. CASE i.cpu # c \/ i.pid = INVALID
    BY <1>1 DEF SwitchWatched
  <1>2. CASE ~(i.cpu # c \/ i.pid = INVALID)
    <2>1. Good(j, t) /\ SameBuffers(i, j) /\ j.pid = i.pid
      BY UpdateCurrGood, Zenon
    <2>2. HasRoom(j)
      BY <1>2, <2>1, Zenon DEF Good, SessionHasRoom, HasRoom
    <2>3. Good(k, t) /\ k.nr_trace < MAX_TRACE_ENTRIES
      BY <2>1, <2>2, ChargeGood DEF HasRoom
    <2>4. SwitchWatched(i, c, prev, next, runnable, t) =
            IF j.pid = next THEN record_task_commit(k, t - k.rq_start)
            ELSE IF j.pid # prev THEN [k EXCEPT !.run_start = t]
            ELSE IF runnable THEN StartWait(j, t)
            ELSE runqlat_info_reset(j)
      BY <1>2, Zenon DEF SwitchWatched
    <2> HIDE DEF j, k
    <2>5. Good(record_task_commit(k, t - k.rq_start), t)
      <3>1. t - k.rq_start \in Nat
        BY <2>3, ElapsedNat, Zenon
      <3> QED
        BY <2>3, <3>1, CommitGood
    <2>6. Good([k EXCEPT !.run_start = t], t)
      <3>1. k \in Info
        BY <2>3 DEF Good, Shape
      <3> DEFINE l == [k EXCEPT !.run_start = t]
      <3>2. SameBuffers(k, l) /\ l.pid = k.pid /\ l.rq_start = k.rq_start /\ l.run_start = t
        BY <3>1 DEF SameBuffers, Info
      <3> HIDE DEF l
      <3>3. Stamps(l, t)
        BY <2>3, <3>2 DEF Good, Stamps
      <3>4. Good(l, t)
        BY <2>3, <3>2, <3>3, ScalarGood
      <3> QED
        BY <3>4, Zenon DEF l
    <2>7. Good(StartWait(j, t), t)
      BY <2>1, StartWaitGood, Zenon
    <2>8. Good(runqlat_info_reset(j), t)
      BY <2>1, ResetGood, Zenon DEF Good
    <2> QED
      BY <2>4, <2>5, <2>6, <2>7, <2>8, Zenon
  <1> QED
    BY <1>1, <1>2

\* A migration of the target keeps the invariant.
LEMMA MigrateGood ==
  ASSUME NEW i, NEW t \in Nat, Good(i, t), NEW c \in Cpus, NEW p \in Tasks
  PROVE  Good(Migrate(i, p, c, t), t)
  <1> DEFINE j == IF i.curr # NULL THEN Charge(i, i.curr, t) ELSE i
             k == [j EXCEPT !.cpu = c, !.run_start = t]
  <1>1. CASE p # i.pid \/ i.cpu = INVALID
    BY <1>1, Zenon DEF Migrate
  <1>2. CASE ~(p # i.pid \/ i.cpu = INVALID)
    <2>1. HasRoom(i)
      BY <1>2, SetsAssumption, Zenon DEF Good, SessionHasRoom, HasRoom
    <2>2. i.curr # NULL => i.curr \in Tasks \cup {Idle}
      BY InfoFields, Zenon DEF Good, Shape
    <2>3. Good(j, t)
      BY <2>1, <2>2, ChargeGood, Zenon
    <2>4. Migrate(i, p, c, t) = k
      BY <1>2, Zenon DEF Migrate
    <2> HIDE DEF j
    <2>5. j \in Info
      BY <2>3 DEF Good, Shape
    <2>6. k \in Info
      BY <2>5, Zenon DEF Info
    <2>7. /\ k.nr_trace = j.nr_trace /\ k.nr_task = j.nr_task
          /\ k.trace_entries = j.trace_entries /\ k.pid = j.pid
          /\ k.rq_start = j.rq_start /\ k.run_start = t
      BY <2>5 DEF Info
    <2> HIDE DEF k
    <2> QED
      BY <2>3, <2>4, <2>6, <2>7, ScalarGood DEF SameBuffers, Good, Stamps
  <1> QED
    BY <1>1, <1>2

\* A wakeup of the target keeps the invariant.
LEMMA WakeupGood ==
  ASSUME NEW i, NEW t \in Nat, Good(i, t), NEW c \in Cpus, NEW p \in Tasks
  PROVE  Good(Wakeup(i, p, c, t), t)
  BY StartWaitGood, Zenon DEF Wakeup

\* A new session starts with empty buffers, and so with room in both.
LEMMA StorePidGood ==
  ASSUME NEW i, NEW t \in Nat, Good(i, t), NEW pid \in Tasks \cup {INVALID}
  PROVE  Good(StorePid(i, pid), t)
  <1> DEFINE traces == [k \in TraceIdx |-> EmptyTrace]
             tasks == [k \in TaskIdx |-> EmptyTask]
             hist == [k \in HistIdx |-> 0]
             cleared == [i EXCEPT !.nr_trace = 0, !.nr_task = 0,
                                  !.trace_entries = traces,
                                  !.task_entries = tasks,
                                  !.latency_hist = hist]
             j == IF pid # INVALID THEN cleared ELSE i
             r == runqlat_info_reset(j)
             s == [r EXCEPT !.pid = pid]
  <1>1. i \in Info
    BY DEF Good, Shape
  <1>2. /\ traces \in [TraceIdx -> TraceEntry]
        /\ tasks \in [TaskIdx -> TaskEntry]
        /\ hist \in [HistIdx -> Nat]
        /\ \A k \in TraceIdx : traces[k].nr_tasks = 0
    BY DEF EmptyTrace, EmptyTask, TraceEntry, TaskEntry
  <1> HIDE DEF traces, tasks, hist
  <1>3. cleared \in Info
    <2>1. 0 \in 0 .. MAX_TRACE_ENTRIES /\ 0 \in 0 .. MAX_TRACE_ENTRY_TASKS
      BY SizesAssumption
    <2> QED
      BY <1>1, <1>2, <2>1, Zenon DEF Info
  <1>4. cleared.nr_trace = 0 /\ cleared.nr_task = 0 /\ cleared.trace_entries = traces
    BY <1>1, Zenon DEF Info
  <1> HIDE DEF cleared
  <1>5. Shape(cleared)
    <2>1. Kept(cleared) = {}
      BY <1>4 DEF Kept, TraceIdx
    <2> QED
      BY <1>2, <1>3, <1>4, <2>1, Zenon
         DEF Shape, CurrentIsLast, SlicesDisjoint, CurrentBehindKept, RestEmpty, Current
  <1>6. Shape(j)
    BY <1>5, Zenon DEF Good
  <1>7. pid # INVALID => j.nr_trace = 0 /\ j.nr_task = 0
    BY <1>4, Zenon
  <1> HIDE DEF j
  <1>8. Shape(r) /\ Stamps(r, t)
    BY <1>6, ResetGood
  <1>9. r.nr_trace = j.nr_trace /\ r.nr_task = j.nr_task
    BY <1>6 DEF Shape, runqlat_info_reset, Info
  <1> HIDE DEF r
  <1>10. /\ s \in Info /\ s.pid = pid
         /\ s.nr_trace = r.nr_trace /\ s.nr_task = r.nr_task
         /\ s.trace_entries = r.trace_entries
         /\ s.rq_start = r.rq_start /\ s.run_start = r.run_start
    BY <1>8 DEF Shape, Info
  <1>11. StorePid(i, pid) = IF i.pid = pid THEN i ELSE s
    BY Zenon DEF StorePid, Cleared, s, r, j, cleared, traces, tasks, hist
  <1> HIDE DEF s
  <1>12. Shape(s)
    BY <1>8, <1>10, ShapeOfBuffers, Zenon DEF SameBuffers
  <1>13. SessionHasRoom(s)
    BY <1>7, <1>9, <1>10, SizesAssumption DEF SessionHasRoom
  <1>14. Stamps(s, t)
    BY <1>8, <1>10 DEF Stamps
  <1> QED
    BY <1>11, <1>12, <1>13, <1>14, Zenon DEF Good

------------------------------------------------------------------------------
(* The inductive invariant of the whole system.                            *)

IInv == TypeOK /\ Good(info, now)

\* Time stamps that are not in the future stay so.
LEMMA LaterGood ==
  ASSUME NEW i, NEW t \in Nat, NEW u \in Nat, Good(i, t), t <= u
  PROVE  Good(i, u)
  <1>1. i.rq_start \in Nat /\ i.run_start \in Nat
    BY InfoFields, Zenon DEF Good, Shape
  <1>2. Stamps(i, t)
    BY Zenon DEF Good
  <1>3. Stamps(i, u)
    BY <1>1, <1>2 DEF Stamps
  <1> QED
    BY <1>3, Zenon DEF Good

\* trace_runqlat_init establishes the invariant.
LEMMA InitIInv == Init => IInv
  <1> SUFFICES ASSUME Init PROVE IInv
    BY Zenon
  <1>1. PICK th \in Thresholds : info = InitInfo(th)
    BY Zenon DEF Init
  <1>2. th \in Nat /\ now = 1
    BY SizesAssumption, Zenon DEF Init
  <1>3. /\ [k \in TraceIdx |-> EmptyTrace] \in [TraceIdx -> TraceEntry]
        /\ [k \in TaskIdx |-> EmptyTask] \in [TaskIdx -> TaskEntry]
        /\ [k \in HistIdx |-> 0] \in [HistIdx -> Nat]
    BY DEF EmptyTrace, EmptyTask, TraceEntry, TaskEntry
  <1>4. 0 \in 0 .. MAX_TRACE_ENTRIES /\ 0 \in 0 .. MAX_TRACE_ENTRY_TASKS
    BY SizesAssumption
  <1>5. info \in Info
    BY <1>1, <1>2, <1>3, <1>4, Zenon DEF InitInfo, Info
  <1>6. /\ info.nr_trace = 0 /\ info.pid = INVALID
        /\ info.rq_start = 0 /\ info.run_start = 0
        /\ info.trace_entries = [k \in TraceIdx |-> EmptyTrace]
    BY <1>1, Zenon DEF InitInfo
  <1>7. Kept(info) = {}
    BY <1>6 DEF Kept, TraceIdx
  <1>8. \A k \in TraceIdx : info.trace_entries[k].nr_tasks = 0
    BY <1>6 DEF EmptyTrace
  <1>9. Shape(info)
    BY <1>5, <1>6, <1>7, <1>8, Zenon
       DEF Shape, CurrentIsLast, SlicesDisjoint, CurrentBehindKept, RestEmpty, Current
  <1>10. Good(info, now)
    BY <1>2, <1>6, <1>9 DEF Good, SessionHasRoom, Stamps
  <1>11. TypeOK
    BY <1>5, <1>2 DEF Init, TypeOK
  <1> QED
    BY <1>10, <1>11 DEF IInv

\* The type of an array after the store of one element.
LEMMA StoreType ==
  ASSUME NEW S, NEW T, NEW f \in [S -> T], NEW x, NEW v \in T
  PROVE  [f EXCEPT ![x] = v] \in [S -> T]
  BY Zenon

\* Every step of the scheduler, of a probe and of a /proc file keeps it.
LEMMA StepIInv == IInv /\ [Next]_vars => IInv'
  <1> SUFFICES ASSUME IInv, [Next]_vars PROVE IInv'
    OBVIOUS
  <1>0. now \in Nat /\ info \in Info /\ Good(info, now) /\ TypeOK
    BY Zenon DEF IInv, TypeOK
  <1>13. /\ probe \in [Cpus -> Probe \cup {NULL}]
         /\ run \in [Cpus -> Tasks \cup {Idle}]
         /\ tcpu \in [Tasks -> Cpus]
         /\ tst \in [Tasks -> {"blocked", "queued", "running", "moving"}]
         /\ since \in [Tasks -> Nat]
    BY <1>0, Zenon DEF TypeOK
  <1>12. ASSUME NEW x \in Cpus, probe' = [probe EXCEPT ![x] = NULL]
         PROVE  probe' \in [Cpus -> Probe \cup {NULL}]
    BY <1>12, <1>13, StoreType, Zenon
  <1>1. ASSUME NEW x \in Cpus, NEW p \in Tasks, sched_wakeup(x, p)
        PROVE  IInv'
    <2>1. [fn |-> "wakeup", rq |-> tcpu[p], p |-> p] \in Probe
      BY <1>13 DEF Probe
    <2>2. probe' \in [Cpus -> Probe \cup {NULL}]
      BY <1>1, <1>13, <2>1, StoreType, Zenon DEF sched_wakeup
    <2>3. /\ tst' \in [Tasks -> {"blocked", "queued", "running", "moving"}]
          /\ since' \in [Tasks -> Nat]
      <3>1. \/ tst' = tst /\ since' = since
            \/ tst' = [tst EXCEPT ![p] = "queued"] /\ since' = [since EXCEPT ![p] = now]
        BY <1>1, Zenon DEF sched_wakeup
      <3>2. [tst EXCEPT ![p] = "queued"] \in [Tasks -> {"blocked", "queued", "running", "moving"}]
        BY <1>13, StoreType, Zenon
      <3>3. [since EXCEPT ![p] = now] \in [Tasks -> Nat]
        BY <1>0, <1>13, StoreType, Zenon
      <3> QED
        BY <1>13, <3>1, <3>2, <3>3, Zenon
    <2> QED
      BY <1>0, <1>1, <2>2, <2>3, Zenon DEF IInv, TypeOK, sched_wakeup, users
  <1>2. ASSUME NEW x \in Cpus, probe_sched_wakeup(x)
        PROVE  IInv'
    <2>1. probe[x].p \in Tasks /\ tcpu[probe[x].p] \in Cpus
      BY <1>0, <1>2, <1>13, ProbeFields, Zenon DEF probe_sched_wakeup, Active
    <2>2. Good(info', now)
      BY <1>0, <1>2, <2>1, WakeupGood, Zenon DEF probe_sched_wakeup
    <2>3. probe' \in [Cpus -> Probe \cup {NULL}]
      BY <1>2, <1>12, Zenon DEF probe_sched_wakeup
    <2> QED
      BY <1>0, <1>2, <2>2, <2>3, Zenon
         DEF IInv, TypeOK, Good, Shape, probe_sched_wakeup, users, sched
  <1>3. ASSUME NEW c \in Cpus, NEW n \in Tasks \cup {Idle}, NEW b \in BOOLEAN,
               sched_switch(c, n, b)
        PROVE  IInv'
    <2>1. now' \in Nat /\ now <= now'
      <3>1. PICK d \in Deltas : now' = now + d
        BY <1>3, Zenon DEF sched_switch
      <3> QED
        BY <1>0, <3>1, SizesAssumption
    <2>2. Good(info', now')
      BY <1>0, <1>3, <2>1, LaterGood, Zenon DEF sched_switch
    <2>3. [fn |-> "switch", rq |-> c, prev |-> run[c], next |-> n, runnable |-> b,
           watched |-> info.cpu # INVALID] \in Probe
      BY <1>13, Zenon DEF Probe
    <2>4. probe' \in [Cpus -> Probe \cup {NULL}]
      BY <1>3, <1>13, <2>3, StoreType, Zenon DEF sched_switch
    <2>5. run' \in [Cpus -> Tasks \cup {Idle}]
      BY <1>3, <1>13, StoreType, Zenon DEF sched_switch
    <2>6. tst' \in [Tasks -> {"blocked", "queued", "running", "moving"}]
      <3>1. tst' = [p \in Tasks |-> IF p = n THEN "running"
                                    ELSE IF p # run[c] THEN tst[p]
                                    ELSE IF b THEN "queued" ELSE "blocked"]
        BY <1>3, Zenon DEF sched_switch
      <3> QED
        BY <1>13, <3>1
    <2>7. since' \in [Tasks -> Nat]
      <3>1. since' = [p \in Tasks |-> IF p = run[c] /\ b THEN now' ELSE since[p]]
        BY <1>3, Zenon DEF sched_switch
      <3> QED
        BY <1>13, <2>1, <3>1
    <2> QED
      BY <1>0, <1>3, <2>1, <2>2, <2>4, <2>5, <2>6, <2>7, Zenon
         DEF IInv, TypeOK, sched_switch, users
  <1>4. ASSUME NEW c \in Cpus, probe_sched_switch(c)
        PROVE  IInv'
    <2>1. /\ probe[c].prev \in Tasks \cup {Idle}
          /\ probe[c].next \in Tasks \cup {Idle}
          /\ probe[c].runnable \in BOOLEAN
      BY <1>0, <1>4, ProbeFields, Zenon DEF probe_sched_switch, Active
    <2>2. Good(info', now)
      BY <1>0, <1>4, <2>1, SwitchWatchedGood, SwitchUnwatchedGood, Zenon
         DEF probe_sched_switch
    <2>3. probe' \in [Cpus -> Probe \cup {NULL}]
      BY <1>4, <1>12, Zenon DEF probe_sched_switch
    <2> QED
      BY <1>0, <1>4, <2>2, <2>3, Zenon
         DEF IInv, TypeOK, Good, Shape, probe_sched_switch, users, sched
  <1>5. ASSUME NEW x \in Cpus, NEW p \in Tasks, NEW c \in Cpus,
               sched_migrate_task(x, p, c)
        PROVE  IInv'
    <2>0. tst[p] \in {"queued", "blocked"}
      BY <1>5, Zenon DEF sched_migrate_task
    <2>1. [fn |-> "migrate", p |-> p, cpu |-> c, was |-> tst[p],
           rq |-> IF tst[p] = "queued" THEN tcpu[p] ELSE NULL] \in Probe
      BY <1>13, <2>0 DEF Probe
    <2>2. PICK e \in Probe :
             \/ tcpu' = [tcpu EXCEPT ![p] = c] /\ probe' = probe /\ tst' = tst
             \/ /\ probe' = [probe EXCEPT ![x] = e] /\ tst' = [tst EXCEPT ![p] = "moving"]
                /\ tcpu' = tcpu
      BY <1>5, <2>1, Zenon DEF sched_migrate_task
    <2>3. /\ probe' \in [Cpus -> Probe \cup {NULL}]
          /\ tcpu' \in [Tasks -> Cpus]
          /\ tst' \in [Tasks -> {"blocked", "queued", "running", "moving"}]
      <3>1. [probe EXCEPT ![x] = e] \in [Cpus -> Probe \cup {NULL}]
        BY <1>13, StoreType, Zenon
      <3>2. [tcpu EXCEPT ![p] = c] \in [Tasks -> Cpus]
        BY <1>13, StoreType, Zenon
      <3>3. [tst EXCEPT ![p] = "moving"] \in [Tasks -> {"blocked", "queued", "running", "moving"}]
        BY <1>13, StoreType, Zenon
      <3> QED
        BY <1>13, <2>2, <3>1, <3>2, <3>3, Zenon
    <2>4. now' \in Nat /\ now <= now'
      <3>1. PICK d \in Deltas \cup {0} : now' = now + d
        BY <1>5, Zenon DEF sched_migrate_task
      <3> QED
        BY <1>0, <3>1, SizesAssumption
    <2>5. Good(info', now')
      BY <1>0, <1>5, <2>4, LaterGood, Zenon DEF sched_migrate_task
    <2> QED
      BY <1>0, <1>5, <2>3, <2>4, <2>5, Zenon
         DEF IInv, TypeOK, sched_migrate_task, users
  <1>6. ASSUME NEW x \in Cpus, probe_sched_migrate_task(x)
        PROVE  IInv'
    <2>1. /\ probe[x].p \in Tasks
          /\ probe[x].cpu \in Cpus
          /\ probe[x].was \in {"queued", "blocked"}
      BY <1>0, <1>6, ProbeFields, Zenon DEF probe_sched_migrate_task, Active
    <2>2. Good(info', now)
      BY <1>0, <1>6, <2>1, MigrateGood, Zenon DEF probe_sched_migrate_task
    <2>3. probe' \in [Cpus -> Probe \cup {NULL}]
      BY <1>6, <1>12, Zenon DEF probe_sched_migrate_task
    <2>4. /\ tcpu' \in [Tasks -> Cpus]
          /\ tst' \in [Tasks -> {"blocked", "queued", "running", "moving"}]
      BY <1>6, <1>13, <2>1, StoreType, Zenon DEF probe_sched_migrate_task
    <2> QED
      BY <1>0, <1>6, <2>2, <2>3, <2>4, Zenon
         DEF IInv, TypeOK, Good, Shape, probe_sched_migrate_task, users
  <1>7. ASSUME NEW w \in Writers, NEW pid \in Targets \cup {INVALID},
               trace_pid_store(w, pid)
        PROVE  IInv'
    <2>1. pid \in Tasks \cup {INVALID, NULL}
      BY SetsAssumption
    <2>2. writer' \in [Writers -> Tasks \cup {INVALID, NULL}]
      BY <1>0, <1>7, <2>1, StoreType, Zenon DEF TypeOK, trace_pid_store
    <2> QED
      BY <1>0, <1>7, <2>2, Zenon DEF IInv, TypeOK, trace_pid_store, sched
  <1>8. ASSUME NEW w \in Writers, trace_pid_store_locked(w)
        PROVE  IInv'
    <2>1. writer[w] \in Tasks \cup {INVALID}
      BY <1>0, <1>8, Zenon DEF TypeOK, trace_pid_store_locked
    <2>2. Good(info', now)
      BY <1>0, <1>8, <2>1, StorePidGood, Zenon DEF trace_pid_store_locked
    <2>3. writer' \in [Writers -> Tasks \cup {INVALID, NULL}]
      BY <1>0, <1>8, StoreType, Zenon DEF TypeOK, trace_pid_store_locked
    <2> QED
      BY <1>0, <1>8, <2>2, <2>3, Zenon
         DEF IInv, TypeOK, Good, Shape, trace_pid_store_locked, sched
  <1>9. ASSUME NEW th \in Thresholds, threshold_store(th)
        PROVE  IInv'
    <2>1. th \in Nat
      BY SizesAssumption
    <2>2. /\ SameBuffers(info, info') /\ info'.pid = info.pid
          /\ info'.rq_start = info.rq_start /\ info'.run_start = info.run_start
      BY <1>0, <1>9, <2>1, Zenon DEF threshold_store, SameBuffers, Info
    <2>3. Good(info', now)
      BY <1>0, <2>2, ScalarGood, Zenon DEF Good, Stamps
    <2> QED
      BY <1>0, <1>9, <2>3, Zenon DEF IInv, TypeOK, Good, Shape, threshold_store, users, sched
  <1>10. ASSUME NEW r \in Readers, runqlat_show(r) \/ runqlat_show_locked(r)
         PROVE  IInv'
    BY <1>0, <1>10, Zenon DEF IInv, TypeOK, runqlat_show, runqlat_show_locked, sched
  <1>11. CASE UNCHANGED vars
    BY <1>0, <1>11, Zenon DEF IInv, TypeOK, vars, sched, users
  <1> QED
    BY <1>1, <1>2, <1>3, <1>4, <1>5, <1>6, <1>7, <1>8, <1>9, <1>10, <1>11, Zenon
       DEF Next, Scheduler, Probes, Proc

\* The inductive invariant holds in every reachable state.
THEOREM Inductive == Spec => []IInv
  BY InitIInv, StepIInv, PTL DEF Spec

\* Type correctness: counters and offsets stay inside the two buffers.
THEOREM TypeCorrect == Spec => []TypeOK
  <1>1. IInv => TypeOK
    BY Zenon DEF IInv
  <1> QED
    BY <1>1, Inductive, PTL

\* No probe writes outside the trace or the task buffer.
THEOREM InBounds == Spec => []RecordInBounds
  <1>1. IInv => RecordInBounds
    BY Zenon DEF IInv, Good, RecordInBounds
  <1> QED
    BY <1>1, Inductive, PTL

\* The WARN_ON_ONCE of record_task never fires.
THEOREM NoWarning == Spec => []WarnNeverFires
  <1>1. IInv => WarnNeverFires
    BY Zenon DEF IInv, Good, Shape, WarnNeverFires
  <1> QED
    BY <1>1, Inductive, PTL

\* The traces that runqlat_show prints do not share tasks.
THEOREM Disjoint == Spec => []TracesDisjoint
  <1>1. IInv => TracesDisjoint
    BY Zenon DEF IInv, Good, Shape, TracesDisjoint
  <1> QED
    BY <1>1, Inductive, PTL

------------------------------------------------------------------------------
(* Kept traces never change.                                               *)

\* The kept traces of i are kept traces of j, with the same contents.
Extends(i, j) ==
  /\ i.nr_trace <= j.nr_trace
  /\ \A k \in Kept(i) : Printed(j, k) = Printed(i, k)

\* Keeping the kept traces is transitive, so a handler is proved piecewise.
LEMMA ExtendsTransitive ==
  ASSUME NEW i \in Info, NEW j \in Info, NEW l \in Info, Extends(i, j), Extends(j, l)
  PROVE  Extends(i, l)
  <1>1. i.nr_trace \in Int /\ j.nr_trace \in Int /\ l.nr_trace \in Int
    BY InfoFields, SizesAssumption
  <1>2. Kept(i) \subseteq Kept(j)
    BY <1>1 DEF Extends, Kept, TraceIdx
  <1> QED
    BY <1>1, <1>2 DEF Extends

\* Both buffers as runqlat_show sees them.
SameContents(i, j) ==
  /\ j.nr_trace = i.nr_trace
  /\ j.trace_entries = i.trace_entries
  /\ j.task_entries = i.task_entries

\* A step that leaves both buffers alone keeps the kept traces.
LEMMA SameContentsExtends ==
  ASSUME NEW i \in Info, NEW j, SameContents(i, j)
  PROVE  Extends(i, j)
  BY InfoFields, SizesAssumption DEF SameContents, Extends, Printed

\* What a step writes lies outside every kept slice: it may change the trace
\* being filled and the task slots from nr_task on.
LEMMA WriteBehindExtends ==
  ASSUME NEW i, Shape(i), NEW j \in Info, i.nr_trace <= j.nr_trace,
         \A k \in Kept(i) : j.trace_entries[k] = i.trace_entries[k],
         \A m \in TaskIdx : m < i.nr_task => j.task_entries[m] = i.task_entries[m]
  PROVE  Extends(i, j)
  <1> SUFFICES ASSUME NEW k \in Kept(i) PROVE Printed(j, k) = Printed(i, k)
    BY Zenon DEF Extends
  <1> DEFINE e == i.trace_entries[k]
  <1>1. /\ k \in TraceIdx
        /\ e.nr_tasks \in Nat
        /\ e.entries \in TaskIdx
        /\ e.entries + e.nr_tasks <= i.nr_task
        /\ i.nr_task \in 0 .. MAX_TRACE_ENTRY_TASKS
    BY InfoFields, Zenon DEF Shape, SlicesDisjoint, SliceEnd, Kept
  <1>2. j.trace_entries[k] = e
    BY SMTT(30)
  <1> HIDE DEF e
  <1>3. \A m \in 0 .. (e.nr_tasks - 1) :
          j.task_entries[e.entries + m] = i.task_entries[e.entries + m]
    BY <1>1, SizesAssumption DEF TaskIdx
  <1> QED
    BY <1>2, <1>3, Zenon DEF Printed, e

\* record_task writes behind the kept traces.
LEMMA RecordExtends ==
  ASSUME NEW i, NEW t \in Nat, Shape(i), Stamps(i, t), HasRoom(i),
         NEW p \in Tasks \cup {Idle}, NEW runtime \in Nat
  PROVE  Extends(i, record_task(i, p, runtime))
  <1>1. i \in Info /\ i.nr_trace \in TraceIdx /\ i.nr_task \in TaskIdx
    BY RoomIndexes, Zenon
  <1> DEFINE j == Recorded(i, p, runtime)
             l == record_task(i, p, runtime)
  <1>2. /\ j \in Info
        /\ j.nr_trace = i.nr_trace
        /\ \A k \in TraceIdx :
             k # i.nr_trace => j.trace_entries[k] = i.trace_entries[k]
    BY RecordedFields, Zenon
  <1>3. j.task_entries = [i.task_entries EXCEPT
                            ![i.nr_task] = [pid |-> p, runtime |-> runtime]]
    BY <1>1, Zenon DEF Recorded, Info
  <1>4. /\ j.nr_trace = i.nr_trace
        /\ i.nr_trace \in Int
        /\ DOMAIN i.task_entries = TaskIdx
        /\ i.nr_task \in Int /\ TaskIdx \subseteq Int
    <2>1. i.task_entries \in [TaskIdx -> TaskEntry]
      BY <1>1, InfoFields, Zenon
    <2> HIDE DEF j
    <2> QED
      BY <1>1, <1>2, <2>1 DEF TraceIdx, TaskIdx
  <1>5. l = j \/ l = ForceDisable(j)
    BY Zenon DEF record_task, Recorded
  <1> HIDE DEF j, l
  <1>6. Extends(i, j)
    <2>1. \A k \in Kept(i) : j.trace_entries[k] = i.trace_entries[k]
      BY <1>1, <1>2 DEF Kept, TraceIdx
    <2>2. \A m \in TaskIdx : m < i.nr_task => j.task_entries[m] = i.task_entries[m]
      BY <1>3, <1>4
    <2>3. i.nr_trace <= j.nr_trace
      BY <1>4
    <2> QED
      BY <1>2, <2>1, <2>2, <2>3, WriteBehindExtends, Zenon
  <1>7. ForceDisable(j) \in Info /\ SameContents(j, ForceDisable(j))
    BY <1>2, Zenon DEF ForceDisable, runqlat_info_reset, SameContents, Info
  <1>8. Extends(i, ForceDisable(j))
    BY <1>1, <1>2, <1>6, <1>7, SameContentsExtends, ExtendsTransitive, Zenon
  <1>9. Extends(i, l)
    BY <1>5, <1>6, <1>8, Zenon
  <1> QED
    BY <1>9 DEF l

\* record_task_commit adds or drops the current trace and touches no kept one.
LEMMA CommitExtends ==
  ASSUME NEW i, NEW t \in Nat, Good(i, t), i.nr_trace < MAX_TRACE_ENTRIES,
         NEW latency \in Nat
  PROVE  Extends(i, record_task_commit(i, latency))
  <1> DEFINE h == latency_histogram_store(i, latency)
             kept == KeptTrace(h, latency)
             dropped == DroppedTrace(h)
  <1>1. Shape(h) /\ h.nr_trace = i.nr_trace
    BY HistogramGood, Zenon DEF Good, SameBuffers
  <1>2. i \in Info /\ h \in Info
    BY <1>1, Zenon DEF Good, Shape
  <1>3. SameContents(i, h)
    <2>1. SameBuffers(i, h) /\ h.task_entries = i.task_entries
      BY HistogramGood, Zenon DEF Good
    <2> HIDE DEF h
    <2> QED
      BY <2>1, Zenon DEF SameBuffers, SameContents
  <1>4. record_task_commit(i, latency) =
          IF Current(h).nr_tasks = 0 THEN h
          ELSE IF latency < h.threshold THEN dropped
          ELSE IF kept.nr_trace >= MAX_TRACE_ENTRIES THEN ForceDisable(kept)
          ELSE kept
    BY DEF record_task_commit, KeptTrace, DroppedTrace
  <1> HIDE DEF h
  <1>5. Extends(i, h)
    BY <1>2, <1>3, SameContentsExtends, Zenon
  <1>6. ASSUME Current(h).nr_tasks # 0
        PROVE  /\ dropped \in Info /\ Extends(h, dropped)
               /\ kept \in Info /\ Extends(h, kept)
    <2>1. h.nr_trace \in TraceIdx
      BY <1>1, <1>6, CurrentSlice, Zenon
    <2>2. /\ dropped \in Info /\ dropped.nr_trace = h.nr_trace
          /\ kept \in Info /\ kept.nr_trace = h.nr_trace + 1
      BY <1>1, <1>6, DroppedShape, KeptShape DEF Shape
    <2>3. dropped.task_entries = h.task_entries /\ kept.task_entries = h.task_entries
      BY <1>2, Zenon DEF DroppedTrace, KeptTrace, Info
    <2>4. \A k \in Kept(h) : /\ dropped.trace_entries[k] = h.trace_entries[k]
                             /\ kept.trace_entries[k] = h.trace_entries[k]
      <3>1. \A k \in Kept(h) : k \in TraceIdx /\ k # h.nr_trace
        BY <2>1 DEF Kept, TraceIdx
      <3>2. /\ dropped.trace_entries = [h.trace_entries EXCEPT ![h.nr_trace] =
                  [Current(h) EXCEPT !.nr_tasks = 0, !.entries = NULL]]
            /\ kept.trace_entries = [h.trace_entries EXCEPT ![h.nr_trace] =
                  [Current(h) EXCEPT !.latency = latency]]
        BY <1>2, Zenon DEF DroppedTrace, KeptTrace, Info
      <3> QED
        BY <1>2, <3>1, <3>2, InfoFields
    <2> HIDE DEF dropped, kept
    <2>5. h.nr_trace <= dropped.nr_trace /\ h.nr_trace <= kept.nr_trace
      BY <2>1, <2>2 DEF TraceIdx
    <2> QED
      BY <1>1, <2>2, <2>3, <2>4, <2>5, WriteBehindExtends
  <1> HIDE DEF dropped, kept
  <1>7. ASSUME Current(h).nr_tasks # 0
        PROVE  ForceDisable(kept) \in Info /\ Extends(h, ForceDisable(kept))
    <2>1. ForceDisable(kept) \in Info /\ SameContents(kept, ForceDisable(kept))
      BY <1>6, <1>7, Zenon DEF ForceDisable, runqlat_info_reset, SameContents, Info
    <2> QED
      BY <1>2, <1>6, <1>7, <2>1, SameContentsExtends, ExtendsTransitive
  <1> QED
    BY <1>2, <1>5, <1>4, <1>6, <1>7, ExtendsTransitive, Zenon

\* Charging an interval touches no kept trace.
LEMMA ChargeExtends ==
  ASSUME NEW i, NEW t \in Nat, Good(i, t), HasRoom(i), NEW p \in Tasks \cup {Idle}
  PROVE  Extends(i, Charge(i, p, t))
  <1>1. t - i.run_start \in Nat /\ i \in Info
    BY ElapsedNat, Zenon
  <1>2. Extends(i, i)
    BY <1>1, SameContentsExtends, Zenon DEF SameContents
  <1> QED
    BY <1>1, <1>2, RecordExtends, Zenon DEF Charge, Good

\* The locked section of each probe only adds kept traces.
LEMMA SwitchWatchedExtends ==
  ASSUME NEW i, NEW t \in Nat, Good(i, t), NEW c \in Cpus,
         NEW prev \in Tasks \cup {Idle}, NEW next \in Tasks \cup {Idle},
         NEW runnable \in BOOLEAN
  PROVE  Extends(i, SwitchWatched(i, c, prev, next, runnable, t))
  <1> DEFINE j == UpdateCurr(i, next)
             k == Charge(j, prev, t)
  <1>0. i \in Info
    BY Zenon DEF Good, Shape
  <1>1. CASE i.cpu # c \/ i.pid = INVALID
    BY <1>0, <1>1, SameContentsExtends DEF SwitchWatched, SameContents
  <1>2. CASE ~(i.cpu # c \/ i.pid = INVALID)
    <2>1. Good(j, t) /\ SameBuffers(i, j) /\ j.pid = i.pid
      BY UpdateCurrGood
    <2>2. HasRoom(j)
      BY <1>2, <2>1 DEF Good, SessionHasRoom, HasRoom
    <2>3. Good(k, t) /\ k.nr_trace < MAX_TRACE_ENTRIES
      BY <2>1, <2>2, ChargeGood DEF HasRoom
    <2>4. SameContents(i, j)
      BY <1>0, Zenon DEF UpdateCurr, SameContents, Info
    <2>5. Extends(j, k)
      BY <2>1, <2>2, ChargeExtends
    <2>6. SwitchWatched(i, c, prev, next, runnable, t) =
            IF j.pid = next THEN record_task_commit(k, t - k.rq_start)
            ELSE IF j.pid # prev THEN [k EXCEPT !.run_start = t]
            ELSE IF runnable THEN StartWait(j, t)
            ELSE runqlat_info_reset(j)
      BY <1>2 DEF SwitchWatched
    <2> HIDE DEF j, k
    <2>7. j \in Info /\ k \in Info /\ t - k.rq_start \in Nat
      BY <2>1, <2>3, ElapsedNat, Zenon
    <2>8. Extends(i, j) /\ Extends(i, k)
      BY <1>0, <2>4, <2>5, <2>7, SameContentsExtends, ExtendsTransitive, Zenon
    <2>9. Extends(i, record_task_commit(k, t - k.rq_start))
      <3>1. record_task_commit(k, t - k.rq_start) \in Info
        BY <2>3, <2>7, CommitGood, Zenon DEF Good, Shape
      <3>2. Extends(k, record_task_commit(k, t - k.rq_start))
        BY <2>3, <2>7, CommitExtends
      <3> QED
        BY <1>0, <2>7, <2>8, <3>1, <3>2, ExtendsTransitive, Zenon
    <2>10. Extends(i, [k EXCEPT !.run_start = t])
      <3>1. /\ [k EXCEPT !.run_start = t] \in Info
            /\ SameContents(k, [k EXCEPT !.run_start = t])
        BY <2>7, Zenon DEF SameContents, Info
      <3> QED
        BY <1>0, <2>7, <2>8, <3>1, SameContentsExtends, ExtendsTransitive, Zenon
    <2>11. Extends(i, StartWait(j, t))
      <3>1. StartWait(j, t) \in Info /\ SameContents(j, StartWait(j, t))
        BY <2>7, Zenon DEF StartWait, SameContents, Info
      <3> QED
        BY <1>0, <2>7, <2>8, <3>1, SameContentsExtends, ExtendsTransitive
    <2>12. Extends(i, runqlat_info_reset(j))
      <3>1. runqlat_info_reset(j) \in Info /\ SameContents(j, runqlat_info_reset(j))
        BY <2>7, Zenon DEF runqlat_info_reset, SameContents, Info
      <3> QED
        BY <1>0, <2>7, <2>8, <3>1, SameContentsExtends, ExtendsTransitive
    <2> QED
      BY <2>6, <2>9, <2>10, <2>11, <2>12
  <1> QED
    BY <1>1, <1>2, Zenon

\* A switch that starts a wait touches no kept trace.
LEMMA SwitchUnwatchedExtends ==
  ASSUME NEW i \in Info, NEW t \in Nat, NEW c, NEW prev, NEW next
  PROVE  Extends(i, SwitchUnwatched(i, c, prev, next, t))
  <1>1. SameContents(i, SwitchUnwatched(i, c, prev, next, t))
    BY Zenon DEF SwitchUnwatched, UpdateCurr, StartWait, SameContents, Info
  <1> QED
    BY <1>1, SameContentsExtends

\* A migration touches no kept trace.
LEMMA MigrateExtends ==
  ASSUME NEW i, NEW t \in Nat, Good(i, t), NEW c \in Cpus, NEW p \in Tasks
  PROVE  Extends(i, Migrate(i, p, c, t))
  <1> DEFINE j == IF i.curr # NULL THEN Charge(i, i.curr, t) ELSE i
             k == [j EXCEPT !.cpu = c, !.run_start = t]
  <1>0. i \in Info
    BY Zenon DEF Good, Shape
  <1>1. Extends(i, i)
    BY <1>0, SameContentsExtends DEF SameContents
  <1>2. CASE p # i.pid \/ i.cpu = INVALID
    BY <1>1, <1>2, Zenon DEF Migrate
  <1>3. CASE ~(p # i.pid \/ i.cpu = INVALID)
    <2>1. HasRoom(i)
      BY <1>3, SetsAssumption DEF Good, SessionHasRoom, HasRoom
    <2>2. i.curr # NULL => i.curr \in Tasks \cup {Idle}
      BY <1>0, InfoFields, Zenon
    <2>3. Good(j, t) /\ Extends(i, j)
      BY <1>1, <2>1, <2>2, ChargeGood, ChargeExtends, Zenon
    <2>4. Migrate(i, p, c, t) = k
      BY <1>3 DEF Migrate
    <2> HIDE DEF j
    <2>5. j \in Info
      BY <2>3 DEF Good, Shape
    <2>6. k \in Info /\ SameContents(j, k)
      BY <2>5, Zenon DEF SameContents, Info
    <2> HIDE DEF k
    <2> QED
      BY <1>0, <2>3, <2>4, <2>5, <2>6, SameContentsExtends, ExtendsTransitive, Zenon
  <1> QED
    BY <1>2, <1>3, Zenon

\* KeptTracesStable as a relation between two values of runqlat_info.
KeptStep(i, j) ==
  /\ j.nr_trace < i.nr_trace => j.nr_trace = 0 /\ j.pid # INVALID
  /\ \A k \in Kept(i) : k < j.nr_trace => Printed(j, k) = Printed(i, k)

\* A step that keeps the kept traces satisfies the action property.
LEMMA ExtendsKeptStep ==
  ASSUME NEW i \in Info, NEW j \in Info, Extends(i, j)
  PROVE  KeptStep(i, j)
  <1>1. i.nr_trace \in Int /\ j.nr_trace \in Int
    BY InfoFields, SizesAssumption
  <1> QED
    BY <1>1 DEF Extends, KeptStep

\* trace_pid_store either keeps the buffers or clears them for a new session.
LEMMA StorePidKeptStep ==
  ASSUME NEW i, NEW t \in Nat, Good(i, t), NEW pid \in Tasks \cup {INVALID}
  PROVE  KeptStep(i, StorePid(i, pid))
  <1>1. i \in Info /\ StorePid(i, pid) \in Info
    BY StorePidGood, Zenon DEF Good, Shape
  <1>2. CASE i.pid = pid \/ pid = INVALID
    <2>1. SameContents(i, StorePid(i, pid))
      BY <1>1, <1>2 DEF StorePid, Cleared, runqlat_info_reset, SameContents, Info
    <2> QED
      BY <1>1, <2>1, SameContentsExtends, ExtendsKeptStep, Zenon
  <1>3. CASE ~(i.pid = pid \/ pid = INVALID)
    <2>1. StorePid(i, pid).nr_trace = 0 /\ StorePid(i, pid).pid = pid
      BY <1>1, <1>3 DEF StorePid, Cleared, runqlat_info_reset, Info
    <2> QED
      BY <1>3, <2>1 DEF KeptStep, Kept, TraceIdx
  <1> QED
    BY <1>2, <1>3, Zenon

\* Every step from a good state satisfies the action property.
LEMMA StepKeptStep == IInv /\ [Next]_vars => KeptStep(info, info')
  <1> SUFFICES ASSUME IInv, [Next]_vars PROVE KeptStep(info, info')
    BY Zenon
  <1>0. now \in Nat /\ info \in Info /\ info' \in Info /\ Good(info, now)
    BY StepIInv, Zenon DEF IInv, TypeOK
  <1>1. info' = info => Extends(info, info')
    BY <1>0, SameContentsExtends, Zenon DEF SameContents
  <1>2. ASSUME NEW x \in Cpus, probe_sched_wakeup(x)
        PROVE  Extends(info, info')
    <2>1. SameContents(info, info')
      BY <1>0, <1>2 DEF probe_sched_wakeup, Wakeup, StartWait, SameContents, Info
    <2> QED
      BY <1>0, <2>1, SameContentsExtends, Zenon
  <1>3. ASSUME NEW c \in Cpus, probe_sched_switch(c)
        PROVE  Extends(info, info')
    <2>1. /\ probe[c].prev \in Tasks \cup {Idle}
          /\ probe[c].next \in Tasks \cup {Idle}
          /\ probe[c].runnable \in BOOLEAN
      BY <1>3, Zenon DEF IInv, TypeOK, probe_sched_switch, Probe
    <2> QED
      BY <1>0, <1>3, <2>1, SwitchWatchedExtends, SwitchUnwatchedExtends, ZenonT(30)
         DEF probe_sched_switch
  <1>4. ASSUME NEW x \in Cpus, probe_sched_migrate_task(x)
        PROVE  Extends(info, info')
    <2>1. probe[x].p \in Tasks /\ probe[x].cpu \in Cpus
      BY <1>4, Zenon DEF IInv, TypeOK, probe_sched_migrate_task, Probe
    <2> QED
      BY <1>0, <1>4, <2>1, MigrateExtends, Zenon DEF probe_sched_migrate_task
  <1>5. ASSUME NEW w \in Writers, trace_pid_store_locked(w)
        PROVE  KeptStep(info, info')
    <2>1. writer[w] \in Tasks \cup {INVALID}
      BY <1>5 DEF IInv, TypeOK, trace_pid_store_locked
    <2> QED
      BY <1>0, <1>5, <2>1, StorePidKeptStep, Zenon DEF trace_pid_store_locked
  <1>6. ASSUME NEW th \in Thresholds, threshold_store(th)
        PROVE  Extends(info, info')
    <2>1. SameContents(info, info')
      BY <1>0, <1>6 DEF threshold_store, SameContents, Info
    <2> QED
      BY <1>0, <2>1, SameContentsExtends
  <1>7. \/ info' = info
        \/ \E x \in Cpus : \/ probe_sched_wakeup(x)
                           \/ probe_sched_switch(x)
                           \/ probe_sched_migrate_task(x)
        \/ \E w \in Writers : trace_pid_store_locked(w)
        \/ \E th \in Thresholds : threshold_store(th)
    BY Zenon DEF Next, Scheduler, Probes, Proc, vars, sched_wakeup, sched_switch,
           sched_migrate_task, trace_pid_store, runqlat_show, runqlat_show_locked
  <1> QED
    BY <1>0, <1>1, <1>2, <1>3, <1>4, <1>5, <1>6, <1>7, ExtendsKeptStep, Zenon

\* What runqlat_show prints of a kept trace stays the same until a new
\* session removes all traces.
THEOREM KeptStable == Spec => KeptTracesStable
  <1>1. IInv /\ [Next]_vars =>
          [/\ info'.nr_trace < info.nr_trace => info'.nr_trace = 0 /\ info'.pid # INVALID
           /\ \A k \in Kept(info) :
                k < info'.nr_trace => Printed(info', k) = Printed(info, k)]_vars
    BY StepKeptStep, Zenon DEF KeptStep
  <1> QED
    BY <1>1, Inductive, PTL DEF Spec, KeptTracesStable
==============================================================================
