--------------------------- MODULE MCServiceControl ---------------------------
(* Model-checking instances of ServiceControl. *)
EXTENDS ServiceControl, TLC

MCStatuses == {[state |-> "ready", accepting |-> TRUE],
               [state |-> "degraded", accepting |-> FALSE]}

\* With a drain and a shutdown there is enough to publish in three revisions.
OneStatus == {[state |-> "ready", accepting |-> TRUE]}

\* Callers are interchangeable, and so are clients.
Symmetry == Permutations(Callers) \cup Permutations(Clients)
=============================================================================
