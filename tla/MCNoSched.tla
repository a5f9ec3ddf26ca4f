------------------------------ MODULE MCNoSched ------------------------------
(* Instances of NoSched for TLC. *)
EXTENDS NoSched, TLC

\* CPUs and tasks are interchangeable.
Symmetry == Permutations(Cpus) \cup Permutations(Tasks)
==============================================================================
