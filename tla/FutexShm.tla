------------------------------ MODULE FutexShm ------------------------------
(***************************************************************************)
(* lock/futex/tfutex.c: a parent waits on a futex in shared memory until   *)
(* its child has stored a list there.                                      *)
(***************************************************************************)
EXTENDS Integers, Sequences

CONSTANTS Total  \* the number of items that the child stores

VARIABLES
  total,     \* *ptr
  stored,    \* the parts of the items that are in the shared memory
  parent,    \* "fork", "fault", "arg", "wait", "asleep", "total", "items", "waitpid", "ended"
  child,     \* "open", "store", "wake", "exited"; "none" before fork
  todo,      \* the stores that the child has not done yet
  arg,       \* the value that FUTEX_WAIT expects
  woken,     \* FUTEX_WAKE found the parent asleep
  printed,   \* the items printed, each with the parts that were there
  limit      \* the total that the parent read; -1 before

vars == <<total, stored, parent, child, todo, arg, woken, printed, limit>>

Parts == (1..Total) \X {"id", "name"}
TheTotal == <<0, "total">>

\* The segment is new, or the one that an earlier run left: main never unlinks it.
Init ==
  /\ \/ total = 0 /\ stored = {}
     \/ total = Total /\ stored = Parts
  /\ parent = "fork" /\ child = "none" /\ todo = {TheTotal} \cup Parts
  /\ arg = -1 /\ woken = FALSE /\ printed = <<>> /\ limit = -1

\* main up to fork.  shm_open may fail, and main returns.  The results of
\* ftruncate and mmap are not looked at: the parent will "fault" when it uses
\* the memory.  fork may fail too: pid is not 0 either.
fork ==
  /\ parent = "fork"
  /\ \/ parent' = "ended" /\ UNCHANGED child
     \/ parent' \in {"arg", "fault"} /\ child' \in {"none", "open"}
  /\ UNCHANGED <<total, stored, todo, arg, woken, printed, limit>>

\* The child maps the segment again.  If shm_open or mmap fails it dies of its
\* first store, and wakes nobody.
shm_open ==
  /\ child = "open" /\ child' \in {"store", "exited"}
  /\ UNCHANGED <<total, stored, parent, todo, arg, woken, printed, limit>>

\* The child's plain stores; nothing orders them before the system call.
store ==
  /\ child = "store"
  /\ \E x \in todo :
       /\ todo' = todo \ {x}
       /\ IF x = TheTotal THEN total' = Total /\ UNCHANGED stored
          ELSE stored' = stored \cup {x} /\ UNCHANGED total
  /\ child' = IF todo' = {} THEN "wake" ELSE "store"
  /\ UNCHANGED <<parent, arg, woken, printed, limit>>

\* MUTANT: the parent is woken as soon as the total is there.
FUTEX_WAKE_Early ==
  /\ child \in {"store", "wake"} /\ TheTotal \notin todo /\ ~woken
  /\ woken' = (parent = "asleep") /\ parent' = IF parent = "asleep" THEN "total" ELSE parent
  /\ child' = IF todo = {} THEN "exited" ELSE child
  /\ UNCHANGED <<total, stored, todo, arg, printed, limit>>

\* MUTANT: the child exits without waking the parent.
FUTEX_WAKE_Never ==
  /\ child = "wake" /\ child' = "exited"
  /\ UNCHANGED <<total, stored, parent, todo, arg, woken, printed, limit>>

FUTEX_WAKE ==
  /\ child = "wake" /\ child' = "exited"
  /\ woken' = (parent = "asleep") /\ parent' = IF parent = "asleep" THEN "total" ELSE parent
  /\ UNCHANGED <<total, stored, todo, arg, printed, limit>>

\* The parent evaluates the expected value, which is a fault without the memory,
\* and enters the kernel, which compares it again and returns EAGAIN if it has
\* changed.
FUTEX_WAIT ==
  /\ \/ parent = "arg" /\ arg' = total /\ parent' = "wait"
     \/ parent = "fault" /\ parent' = "ended" /\ UNCHANGED arg
     \/ /\ parent = "wait" /\ parent' = IF total = arg THEN "asleep" ELSE "total"
        /\ UNCHANGED arg
  /\ UNCHANGED <<total, stored, child, todo, woken, printed, limit>>

print ==
  /\ \/ parent = "total" /\ limit' = total /\ parent' = "items" /\ UNCHANGED printed
     \/ /\ parent = "items" /\ Len(printed) < limit
        /\ LET i == Len(printed) + 1
           IN printed' = Append(printed, {x \in {"id", "name"} : <<i, x>> \in stored})
        /\ UNCHANGED <<parent, limit>>
     \/ /\ parent = "items" /\ Len(printed) >= limit /\ parent' = "waitpid"
        /\ UNCHANGED <<printed, limit>>
  /\ UNCHANGED <<total, stored, child, todo, arg, woken>>

waitpid ==
  /\ parent = "waitpid" /\ child = "exited" /\ parent' = "ended"
  /\ UNCHANGED <<total, stored, child, todo, arg, woken, printed, limit>>

Next == fork \/ shm_open \/ store \/ FUTEX_WAKE \/ FUTEX_WAIT \/ print \/ waitpid

\* Both processes run; the futex is the only place where one waits.
Fairness ==
  /\ WF_vars(shm_open) /\ WF_vars(store) /\ WF_vars(FUTEX_WAKE)
  /\ WF_vars(FUTEX_WAIT) /\ WF_vars(print) /\ WF_vars(waitpid)

Spec == Init /\ [][Next]_vars /\ Fairness

------------------------------------------------------------------------------
(* Properties. *)

\* What the parent prints is the whole list whenever it was woken: only a
\* FUTEX_WAIT that fails with EAGAIN can print a list that is still being
\* stored.
WholeList ==
  /\ parent \in {"waitpid", "ended"} /\ woken =>
       /\ limit = Total
       /\ \A i \in 1..Total : printed[i] = {"id", "name"}

\* The parent ends, unless its FUTEX_WAIT began after the child's FUTEX_WAKE,
\* the child could not map the segment, or there is no child.  A sleep that
\* began before the FUTEX_WAKE of a child that has the segment ends.
ParentEnds ==
  /\ parent = "arg" ~> parent = "ended" \/ (parent = "asleep" /\ child \in {"exited", "none"})
  /\ parent = "fault" ~> parent = "ended"
  /\ parent = "asleep" /\ child \in {"store", "wake"} ~> parent = "ended"
==============================================================================
