------------------------------ MODULE MCRunqLat ------------------------------
(* Instances of RunqLat for TLC. *)
EXTENDS RunqLatLog, TLC

\* CPUs are interchangeable, and so are writers and untraced tasks.
Symmetry ==
  Permutations(Cpus) \cup Permutations(Tasks \ Targets) \cup Permutations(Writers)
==============================================================================
