-------------------------- MODULE MCDocumentStore --------------------------
(* Model-checking instances of DocumentStore. *)
EXTENDS DocumentStore, TLC

Symmetry == Permutations(Contents) \cup Permutations(Stores) \cup Permutations(Callers)
=============================================================================
