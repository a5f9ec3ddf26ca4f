----------------------------- MODULE UsernsExec -----------------------------
(***************************************************************************)
(* namespace/userns_child_exec.c: the child waits for the end of a pipe    *)
(* until the parent has written its UID and GID maps, then it calls execvp.*)
(***************************************************************************)
EXTENDS FiniteSets

CONSTANTS
  Requests  \* the maps that -M and -G ask for: subsets of {"uid", "gid"}

VARIABLES
  want,     \* the maps that are asked for
  user,     \* CLONE_NEWUSER is given
  mapped,   \* the maps that are written
  parent,   \* "start", "uid", "gid", "close", "waitpid", "ended", "failed"
  child,    \* "none", "close", "read", "exec", "command", "ended"
  writers   \* the processes that have the write end of the pipe open

vars == <<want, user, mapped, parent, child, writers>>

Init ==
  /\ want \in Requests /\ user \in BOOLEAN /\ mapped = {}
  /\ parent = "start" /\ child = "none" /\ writers = {}

\* exit, and death by a signal: the kernel closes the pipe.
Fails == parent' = "failed" /\ writers' = writers \ {"parent"}

\* main up to clone: -M or -G without -U prints the usage; pipe and clone may fail.
start ==
  /\ parent = "start"
  /\ \/ Fails /\ UNCHANGED child
     \/ /\ want # {} => user
        /\ parent' = "uid" /\ child' = "close" /\ writers' = {"parent", "child"}
  /\ UNCHANGED <<want, user, mapped>>

\* update_map: open or write fails, or the map is set.
update_map(which, next) ==
  /\ parent = which
  /\ \/ which \in want /\ mapped' = mapped \cup {which} /\ parent' = next /\ UNCHANGED writers
     \/ which \notin want /\ parent' = next /\ UNCHANGED <<mapped, writers>>
     \/ which \in want /\ Fails /\ UNCHANGED mapped
  /\ UNCHANGED <<want, user, child>>

\* MUTANT: the pipe is closed before the GID map is written.
close_BeforeGid ==
  /\ parent \in {"gid", "close"} /\ "parent" \in writers
  /\ writers' = writers \ {"parent"}
  /\ parent' = IF parent = "close" THEN "waitpid" ELSE parent
  /\ UNCHANGED <<want, user, mapped, child>>

close ==
  /\ parent = "close" /\ parent' = "waitpid" /\ writers' = writers \ {"parent"}
  /\ UNCHANGED <<want, user, mapped, child>>

\* waitpid returns when the child has ended; it may fail, and the parent may
\* get a signal at any time after clone.
waitpid ==
  /\ \/ parent = "waitpid" /\ child = "ended" /\ parent' = "ended" /\ UNCHANGED writers
     \/ parent \in {"uid", "gid", "close", "waitpid"} /\ Fails
  /\ UNCHANGED <<want, user, mapped, child>>

\* MUTANT: the child keeps its own write end.
childFunc_KeepsPipe ==
  /\ \/ child = "close" /\ child' = "read" /\ UNCHANGED writers
     \/ child = "read" /\ writers = {} /\ child' = "exec" /\ UNCHANGED writers
     \/ child = "exec" /\ child' \in {"command", "ended"} /\ UNCHANGED writers
  /\ UNCHANGED <<want, user, mapped, parent>>

\* childFunc: read returns 0 once nobody can write; execvp succeeds or fails.
childFunc ==
  /\ \/ child = "close" /\ child' = "read" /\ writers' = writers \ {"child"}
     \/ child = "read" /\ writers = {} /\ child' = "exec" /\ UNCHANGED writers
     \/ child = "exec" /\ child' \in {"command", "ended"} /\ UNCHANGED writers
  /\ UNCHANGED <<want, user, mapped, parent>>

\* "Failure in child": read fails, and the child exits without execvp.
read_fails ==
  /\ child = "read" /\ child' = "ended" /\ UNCHANGED <<want, user, mapped, parent, writers>>

\* The command ends.
command ==
  /\ child = "command" /\ child' = "ended" /\ UNCHANGED <<want, user, mapped, parent, writers>>

Next ==
  \/ start \/ update_map("uid", "gid") \/ update_map("gid", "close") \/ close \/ waitpid
  \/ childFunc \/ read_fails \/ command

\* Both processes run on; a signal, a failing read and the end of the command are
\* not assumed.
Fairness ==
  /\ WF_vars(update_map("uid", "gid")) /\ WF_vars(update_map("gid", "close"))
  /\ WF_vars(close) /\ WF_vars(child = "ended" /\ waitpid) /\ WF_vars(childFunc)

Spec == Init /\ [][Next]_vars /\ Fairness

------------------------------------------------------------------------------
(* Properties. *)

\* The child calls execvp only when the maps that were asked for are written,
\* or when the parent has died before it could write them: the end of the
\* pipe looks the same to the child.
ExecAfterMaps ==
  child \in {"exec", "command"} => want \subseteq mapped \/ parent = "failed"

\* A child that was cloned does not wait for ever for the pipe, and the parent
\* ends when it does.
BothEnd ==
  /\ child = "close" ~> child \in {"command", "ended"}
  /\ child = "ended" ~> parent \in {"ended", "failed"}
==============================================================================
