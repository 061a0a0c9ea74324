-------------------------- MODULE MCKeybindingHost --------------------------
(* Model-checking instances of KeybindingHost. *)
EXTENDS KeybindingHost, TLC

Symmetry == Permutations(Hosts) \cup Permutations(Owners) \cup Permutations(Keys)
=============================================================================
