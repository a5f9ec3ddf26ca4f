------------------------------- MODULE TraceLog -------------------------------
(***************************************************************************)
(* What trace/runqlat promises its user, without buffers, offsets or       *)
(* locks: a session for one pid collects the tasks of the current wait and *)
(* keeps or forgets each wait as a whole.  A session ends when the user    *)
(* ends it or when the room for traces or for tasks is used up, and what   *)
(* it kept stays until the next session starts.                            *)
(***************************************************************************)
EXTENDS Integers, Sequences

CONSTANTS Pids, OFF, Records, Latencies, MaxTraces, MaxTasks

VARIABLES
  on,       \* the pid of the session, or OFF
  log,      \* the kept traces
  used,     \* how many tasks they hold together
  pending   \* the tasks of the current wait

logVars == <<on, log, used, pending>>

Init == on = OFF /\ log = <<>> /\ used = 0 /\ pending = <<>>

\* The session goes on only while there is room in both buffers; tasks and
\* traces are the fill levels the step has reached at their highest.
OnWhileRoom(tasks, traces) ==
  on' = IF tasks >= MaxTasks \/ traces >= MaxTraces THEN OFF ELSE on

Start(p) == on # p /\ on' = p /\ log' = <<>> /\ used' = 0 /\ pending' = <<>>

Stop == on # OFF /\ on' = OFF /\ UNCHANGED <<log, used, pending>>

\* One more task ran ahead of the target.
Ahead(r) ==
  /\ on # OFF
  /\ pending' = Append(pending, r)
  /\ OnWhileRoom(used + Len(pending'), Len(log))
  /\ UNCHANGED <<log, used>>

\* The target gets the CPU after the tasks `ahead', which are kept or
\* forgotten.
Keep(ahead, latency) ==
  /\ log' = Append(log, [latency |-> latency, tasks |-> ahead])
  /\ used' = used + Len(ahead)
  /\ OnWhileRoom(used', Len(log'))

Forget(ahead) ==
  /\ UNCHANGED <<log, used>>
  /\ OnWhileRoom(used + Len(ahead), Len(log))

Finish(ahead) ==
  /\ on # OFF
  /\ ahead # <<>>
  /\ pending' = <<>>
  /\ \/ \E latency \in Latencies : Keep(ahead, latency)
     \/ Forget(ahead)

Next ==
  \/ \E p \in Pids : Start(p)
  \/ Stop
  \/ \E r \in Records : Ahead(r) \/ Finish(Append(pending, r))
  \/ Finish(pending)

Spec == Init /\ [][Next]_logVars
==============================================================================
