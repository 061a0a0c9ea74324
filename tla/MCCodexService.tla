---------------------------- MODULE MCCodexService ----------------------------
(* Model-checking instances of CodexService: an older kit's configuration and  *)
(* new ones for two homes.                                                     *)
EXTENDS CodexService, TLC

CONSTANTS old, new, other, h, g

MCHomeOf == [c \in Releases |-> IF c = other THEN g ELSE h]

Symmetry == Permutations(Procs) \cup Permutations(Pids)
=============================================================================
