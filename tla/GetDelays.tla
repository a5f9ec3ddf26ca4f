------------------------------ MODULE GetDelays ------------------------------
(***************************************************************************)
(* steal/getdelays.c: asks the kernel over a netlink socket for the delay  *)
(* statistics of one task (-t, -p, or a command started with -c) or of a   *)
(* container (-C), or registers for the tasks that exit on some CPUs (-m), *)
(* and prints what arrives.  The kernel handles a command while it is      *)
(* sent; exiting tasks report at any time; a full socket buffer drops      *)
(* messages and makes the next recv fail.                                  *)
(***************************************************************************)
EXTENDS Integers, Sequences

CONSTANTS
  Options,   \* command lines [mask, pid (-t, -p), fork, container, loop, log]
  Tasks,     \* other tasks that may exit; a task that is asked for is one
  Child,     \* the command started with -c
  RCVBUF,    \* messages that fit into the socket buffer
  NULL

VARIABLES
  opt,       \* the command line
  pc,        \* where main is
  tid,       \* the task asked for, or NULL
  child,     \* "none", "running", "stopped", then "continued", or "zombie"
  sigchld,   \* SIGCHLD is pending
  alive,     \* the other tasks that have not exited
  registered,\* the kernel sends the exits of the CPUs in the mask
  sock,      \* the messages to read: sequences of attributes
  overrun,   \* a message was dropped
  printed,   \* history: the tasks whose statistics were printed
  errors     \* history: what went wrong, a set

kernel == <<child, sigchld, alive, registered, sock, overrun>>
vars == <<opt, pc, tid, kernel, printed, errors>>

Init ==
  /\ opt \in Options
  /\ pc = "getopt" /\ tid = NULL /\ child = "none" /\ sigchld = FALSE
  /\ alive = Tasks /\ registered = FALSE /\ sock = <<>> /\ overrun = FALSE
  /\ printed = <<>> /\ errors = {}

Goto(label) == pc' = label
Fails(what, label) == errors' = errors \cup {what} /\ Goto(label)
Fine == UNCHANGED errors

\* A message of the kernel; netlink_overrun when the buffer is full.
Queued(msg) ==
  IF Len(sock) < RCVBUF THEN sock' = Append(sock, msg) /\ UNCHANGED overrun
  ELSE overrun' = TRUE /\ UNCHANGED sock

Aggr(t) == [type |-> "aggr", of |-> t]
Cgroup == [type |-> "cgroup", of |-> NULL]
ErrorMsg == <<>>

\* send_cmd: the loop sends all of it or sendto fails; the kernel answers
\* with the attributes, with an error, or (to the mask commands) not at all.
send_cmd(answer) == IF answer = NULL THEN UNCHANGED <<sock, overrun>> ELSE Queued(answer)

------------------------------------------------------------------------------
(* The kernel and the other tasks. *)

\* The exit of a task reaches those who registered; the last thread of a
\* process reports the process too.
TaskExits(t) ==
  /\ t \in alive /\ alive' = alive \ {t}
  /\ IF registered THEN Queued(<<Aggr(t), Aggr(t)>>) ELSE UNCHANGED <<sock, overrun>>
  /\ UNCHANGED <<opt, pc, tid, child, sigchld, registered, printed, errors>>

\* SIGCHLD tells of an exit, of a stop and of its end.
ChildExits ==
  /\ child \in {"running", "continued"} /\ child' = "zombie" /\ sigchld' = TRUE
  /\ IF registered THEN Queued(<<Aggr(Child), Aggr(Child)>>) ELSE UNCHANGED <<sock, overrun>>
  /\ UNCHANGED <<opt, pc, tid, alive, registered, printed, errors>>
ChildStops ==
  /\ \/ child = "running" /\ child' = "stopped"
     \/ child = "stopped" /\ child' = "continued"
  /\ sigchld' = TRUE
  /\ UNCHANGED <<opt, pc, tid, alive, registered, sock, overrun, printed, errors>>

------------------------------------------------------------------------------
(* main *)

\* MUTANT: SIGCHLD is blocked only when main is about to wait, so that the
\* signal of a child that was faster is lost.
getopt_NotBlocked ==
  /\ pc = "getopt" /\ Goto("socket")
  /\ IF opt.fork
     THEN /\ tid' = Child /\ child' \in {"running", "zombie"}
          /\ UNCHANGED sigchld
     ELSE tid' = opt.pid /\ UNCHANGED <<child, sigchld>>
  /\ Fine
  /\ UNCHANGED <<opt, alive, registered, sock, overrun, printed>>

\* The options.  -c blocks SIGCHLD, forks and takes no further option; the
\* child may be done before fork returns.
getopt ==
  /\ pc = "getopt"
  /\ IF opt.fork
     THEN \/ /\ tid' = Child /\ child' \in {"running", "zombie"}
             /\ sigchld' = (child' = "zombie") /\ Fine /\ Goto("socket")
          \/ Fails("fork", "exit") /\ UNCHANGED <<tid, child, sigchld>>
     ELSE tid' = opt.pid /\ Fine /\ Goto("socket") /\ UNCHANGED <<child, sigchld>>
  /\ UNCHANGED <<opt, alive, registered, sock, overrun, printed>>

\* The log file, create_nl_socket and get_family_id.
create_nl_socket ==
  /\ pc = "socket"
  /\ \/ Fine /\ Goto("register")
     \/ Fails("open", "exit")
     \/ Fails("family", "close")
  /\ UNCHANGED <<opt, tid, kernel, printed>>

\* Registers the mask; the kernel may refuse it with an error message.  Then
\* the test of -t against -C.
register_cpumask ==
  LET next == IF tid # NULL /\ opt.container THEN "both"
              ELSE IF opt.fork THEN "sigwait" ELSE IF tid # NULL THEN "ask" ELSE "container"
  IN  /\ pc = "register"
      /\ \/ /\ opt.mask /\ send_cmd(NULL) /\ registered' = TRUE /\ Fine /\ Goto(next)
         \/ /\ opt.mask /\ send_cmd(ErrorMsg) /\ Fine /\ Goto(next) /\ UNCHANGED registered
         \/ /\ opt.mask /\ Fails("send", "close") /\ UNCHANGED <<sock, overrun, registered>>
         \/ /\ ~opt.mask /\ Fine /\ Goto(next) /\ UNCHANGED <<sock, overrun, registered>>
      /\ UNCHANGED <<opt, tid, child, sigchld, alive, printed>>

\* "Select either -t or -C, not both"
both ==
  /\ pc = "both" /\ Fails("both", "close")
  /\ UNCHANGED <<opt, tid, kernel, printed>>

\* "If we forked a child, wait for it to exit."
sigwait ==
  /\ pc = "sigwait" /\ sigchld
  /\ sigchld' = FALSE /\ Goto("ask") /\ Fine
  /\ UNCHANGED <<opt, tid, child, alive, registered, sock, overrun, printed>>

\* Asks for the task: its statistics, or an error if there is none; a zombie
\* that was not waited for is still found.
Ask ==
  /\ pc = "ask"
  /\ \/ /\ send_cmd(IF tid \in alive \/ tid = Child THEN <<Aggr(tid)>> ELSE ErrorMsg)
        /\ Fine /\ Goto("container")
     \/ Fails("send", "done") /\ UNCHANGED <<sock, overrun>>
  /\ UNCHANGED <<opt, tid, child, sigchld, alive, registered, printed>>

\* Asks for the container: its statistics, or an error if it is none; or complains
\* that nothing was asked for.
Container ==
  /\ pc = "container"
  /\ \/ /\ opt.container
        /\ \/ send_cmd(<<Cgroup>>) /\ Fine /\ Goto("recv")
           \/ send_cmd(ErrorMsg) /\ Fine /\ Goto("recv")
           \/ Fails("container", "close") /\ UNCHANGED <<sock, overrun>>
     \/ /\ ~opt.container /\ (opt.mask \/ tid # NULL)
        /\ Fine /\ Goto("recv") /\ UNCHANGED <<sock, overrun>>
     \/ /\ ~opt.container /\ ~opt.mask /\ tid = NULL
        /\ Fails("usage", "close") /\ UNCHANGED <<sock, overrun>>
  /\ UNCHANGED <<opt, tid, child, sigchld, alive, registered, printed>>

\* MUTANT: the statistics of a task leave the switch only.
Statistics_All(msg) ==
  LET of == [i \in DOMAIN msg |-> msg[i].of] IN SelectSeq(of, LAMBDA t : t # NULL)

\* What main prints of a message: all attributes with -l, else up to the
\* first statistics of a task.
Statistics(msg) ==
  LET of == [i \in DOMAIN msg |-> msg[i].of]
      tasks == SelectSeq(of, LAMBDA t : t # NULL)
  IN  IF opt.loop \/ tasks = <<>> THEN tasks ELSE <<Head(tasks)>>

\* recv fails: "nonfatal", but "continue" evaluates the loop condition.
recv_Failed ==
  /\ pc = "recv" /\ overrun /\ overrun' = FALSE
  /\ Fine /\ Goto(IF opt.loop THEN "recv" ELSE "done")
  /\ UNCHANGED <<opt, tid, child, sigchld, alive, registered, sock, printed>>

\* recv returns a message: an error is fatal; writing the log may fail.
recv ==
  /\ pc = "recv" /\ ~overrun /\ sock # <<>>
  /\ sock' = Tail(sock)
  /\ \/ Head(sock) = ErrorMsg /\ Fails("reply", "done") /\ UNCHANGED printed
     \/ /\ Head(sock) # ErrorMsg
        /\ printed' = printed \o Statistics(Head(sock))
        /\ \/ Fine /\ Goto(IF opt.loop THEN "recv" ELSE "done")
           \/ opt.log /\ Statistics(Head(sock)) # <<>> /\ Fails("write", "exit")
  /\ UNCHANGED <<opt, tid, child, sigchld, alive, registered, overrun>>

\* MUTANT: only a program that listens forever deregisters.
deregister_OnlyLoop ==
  /\ pc = "done"
  /\ registered' = (registered /\ ~opt.loop) /\ Fine /\ Goto("close")
  /\ UNCHANGED <<opt, tid, child, sigchld, alive, sock, overrun, printed>>

\* done: deregister the mask; an error of send_cmd exits at once.
deregister_cpumask ==
  /\ pc = "done"
  /\ \/ opt.mask /\ registered' = FALSE /\ Fine /\ Goto("close")
     \/ opt.mask /\ Fails("deregister", "exit") /\ UNCHANGED registered
     \/ ~opt.mask /\ Fine /\ Goto("close") /\ UNCHANGED registered
  /\ UNCHANGED <<opt, tid, child, sigchld, alive, sock, overrun, printed>>

\* err: close the socket and the files.
close ==
  /\ pc = "close" /\ Goto("exit") /\ Fine
  /\ UNCHANGED <<opt, tid, kernel, printed>>

main ==
  getopt \/ create_nl_socket \/ register_cpumask \/ both \/ sigwait \/ Ask \/ Container
  \/ recv_Failed \/ recv \/ deregister_cpumask \/ close

Next == main \/ ChildExits \/ ChildStops \/ \E t \in Tasks : TaskExits(t)

\* The program, once started, runs, and its command ends; nobody else has to.
Fairness == WF_vars(pc # "getopt" /\ main) /\ WF_vars(ChildExits)

Spec == Init /\ [][Next]_vars /\ Fairness

------------------------------------------------------------------------------
(* Properties. *)

\* What is printed is of the task asked for or, with -m, of one that has exited;
\* without -l only one is, though an exit reports the task and the process; and
\* the answer about a command started with -c does not come before it ended (or
\* was stopped, which ends the sigwait too).
AskedForPrinted ==
  /\ \A i \in DOMAIN printed : \/ printed[i] = tid
                               \/ opt.mask /\ printed[i] \notin alive
                               \/ opt.mask /\ printed[i] = Child /\ child = "zombie"
  /\ ~opt.loop \/ ~opt.mask => Len(printed) <= 1
  /\ opt.fork /\ printed # <<>> /\ ~opt.mask => child # "running"

\* When main has ended the kernel no longer sends exits, except after the
\* errors that leave main behind the deregistration.
Deregistered ==
  pc = "exit" /\ registered => errors \cap {"both", "container", "write", "deregister"} # {}

\* Without -l a question about a task or a container is answered or fails,
\* and the program ends: SIGCHLD is blocked before the fork, so its sigwait
\* returns, and recv has an answer or an error to return.
QuestionEnds ==
  pc = "socket" /\ ~opt.loop /\ (tid # NULL \/ opt.container) ~> pc = "exit"
==============================================================================
