----------------------------- MODULE DrainContract -----------------------------
(***************************************************************************)
(* What the lifecycle commands rely on when they drain a service before    *)
(* stopping it (drainActive, resumeAfterFailedMutation): a service is      *)
(* open, drained, or stuck half way, a drain that does not succeed leaves  *)
(* it open or stuck, and Resume leads back to open from either.            *)
(***************************************************************************)
VARIABLES mode,       \* "open", "draining", "drained" or "stuck"
          admitting   \* the application admits work

Init == mode = "open" /\ admitting = TRUE

BeginDrain ==
    /\ mode = "open" /\ mode' = "draining"
    /\ UNCHANGED admitting

\* The application's handlers run, also the one that undoes the drain.
Quiesce ==
    /\ mode = "draining" /\ mode' = mode
    /\ admitting' \in BOOLEAN

Drained ==
    /\ mode = "draining" /\ mode' = "drained"
    /\ admitting' = FALSE

\* The drain failed: undone, or not.
DrainUndone ==
    /\ mode = "draining" /\ mode' = "open"
    /\ admitting /\ admitting' = TRUE

DrainStuck ==
    /\ mode = "draining" /\ mode' = "stuck"
    /\ UNCHANGED admitting

Resume ==
    /\ mode \in {"drained", "stuck"} /\ mode' = "open"
    /\ admitting' = TRUE

ResumeFails ==
    /\ mode \in {"drained", "stuck"} /\ mode' = mode
    /\ admitting' \in BOOLEAN

\* A new process of the service.
Restart == mode' = "open" /\ admitting' = TRUE

Next ==
    \/ BeginDrain \/ Quiesce \/ Drained \/ DrainUndone \/ DrainStuck
    \/ Resume \/ ResumeFails \/ Restart

Spec == Init /\ [][Next]_<<mode, admitting>>
=============================================================================
