---------------------------- MODULE MCPrivateSocket ----------------------------
(* Model-checking instances of PrivateSocket. *)
EXTENDS PrivateSocket, TLC

Symmetry == Permutations(Procs)
=============================================================================
