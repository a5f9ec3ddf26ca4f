---------------------------- MODULE SampleHandover ----------------------------
(***************************************************************************)
(* The samples in which one side waits for what the other one does, side   *)
(* by side: tfutex.c, userns_child_exec.c and edu_driver.c.  They share    *)
(* nothing.                                                                *)
(***************************************************************************)
EXTENDS Integers, Sequences, FiniteSets

CONSTANTS Total, Bits, MaxRaised

VARIABLES
  \* tfutex
  total, stored, fx_parent, fx_child, todo, arg, woken, fx_printed, limit,
  \* userns_child_exec
  want, user, mapped, ue_parent, ue_child, writers,
  \* edu_driver
  ed_mode, step, held, failed, status, message, handler, unseen, ed_early, off, meddled, raised

Fx == INSTANCE FutexShm WITH parent <- fx_parent, child <- fx_child, printed <- fx_printed

Ue == INSTANCE UsernsExec WITH
  parent <- ue_parent, child <- ue_child, Requests <- SUBSET {"uid", "gid"}

Ed == INSTANCE EduDriver WITH mode <- ed_mode, early <- ed_early

\* One who waits for another finds what the other had to do first done: the
\* list stored, the maps written, the interrupt read before it is
\* acknowledged.  Not promised: a list printed after a FUTEX_WAIT that returned
\* EAGAIN (tfutex.c), maps whose parent died before it wrote them
\* (userns_child_exec.c), interrupts when a process writes the acknowledge
\* register through the device file (edu_driver.c).
HandedOver == Fx!WholeList /\ Ue!ExecAfterMaps /\ Ed!AckedWasRead
================================================================================
