-------------------------- MODULE MCServiceLifecycle --------------------------
(* Model-checking instances of ServiceLifecycle. *)
EXTENDS ServiceLifecycle, TLC

\* Pids and kit processes are interchangeable.
Symmetry == Permutations(Pids) \cup Permutations(Procs)
=============================================================================
