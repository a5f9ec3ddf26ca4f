------------------------------- MODULE MCIrqOff -------------------------------
(* Instances of IrqOff for TLC. *)
EXTENDS IrqOff, TLC

\* CPUs and processes are interchangeable.
Symmetry == Permutations(Cpus) \cup Permutations(Procs)
==============================================================================
