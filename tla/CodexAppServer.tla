---------------------------- MODULE CodexAppServer ----------------------------
(***************************************************************************)
(* The shared App Server as codex_lifecycle.go speaks to it: the threads   *)
(* it stores, their settings, and the requests of one client connection.   *)
(* The server itself is outside the repository.                            *)
(*                                                                         *)
(* A request is handled before a later one is answered: what the client    *)
(* reads back is final for everything it sent before.                      *)
(***************************************************************************)
EXTENDS HerdrPanes

CONSTANT MaxInstances     \* bound: the App Server is restarted this often

ASSUME InstancesAssumption == MaxInstances \in Nat \ {0}

VARIABLES
    thread,      \* per thread: identity, settings and history
    instance,    \* the App Server process; its socket survives it
    constraints  \* config/read and configRequirements/read, as a version

\* effort "unset": the record of an ordinary thread omits it.
Efforts == {"unset", "observed", "wanted", "foreign"}

\* The effective policy, every field but the effort as one value.  "default": what
\* a TUI or a loading server applies when it does not restore the thread's own.
Policies == {"source", "default", "wanted", "foreign"}

ThreadType == [exists : BOOLEAN, live : BOOLEAN, effort : Efforts, policy : Policies,
               turns : Nat, parent : OptThread]

NoSuchThread == [exists |-> FALSE, live |-> FALSE, effort |-> "unset", policy |-> "default",
                 turns |-> 0, parent |-> NoThread]

ServerTypeOK ==
    /\ thread \in [Threads -> ThreadType]
    /\ instance \in 1..MaxInstances
    /\ constraints \in {"first", "changed"}

\* codexThreadIdentity: what thread/read reports.
Identity(t) == [id |-> t, effort |-> thread[t].effort, parent |-> thread[t].parent]
Identities == [id : Threads, effort : Efforts, parent : OptThread]

\* EffectiveCodexPolicy.
Effective(t) == [effort |-> thread[t].effort, policy |-> thread[t].policy]
Settings == [effort : Efforts, policy : Policies]

-----------------------------------------------------------------------------
(***************************************************************************)
(* Requests.  A connection dies with the instance it was made to; audits   *)
(* dial the socket again.                                                  *)
(***************************************************************************)
Connected(made) == instance = made

\* ReadThread, ReadLoadedThread, ReadStableHistory.
CanRead(made, t) == Connected(made) /\ thread[t].exists
CanReadLive(made, t) == CanRead(made, t) /\ thread[t].live
CanReadHistory(made, t) == CanRead(made, t) /\ thread[t].turns > 0

\* ReadEffective resumes the thread on a connection of its own; a response
\* without an effort is refused.
CanAudit(t) == thread[t].exists /\ thread[t].effort # "unset"

\* requiredPolicyDrift: the fields in which two settings differ.
Drift(have, want) == {f \in {"effort", "policy"} : have[f] # want[f]}

\* config/read and configRequirements/read: every field that bears on a launch, and
\* whether it is one the kit supports, is part of the version.
ReadConstraints(made, version) == Connected(made) /\ constraints = version

\* thread/resume of a thread that is not live may load the server's defaults.
Loaded(t, policy) ==
    IF thread[t].live THEN thread' = thread
    ELSE thread' = [thread EXCEPT ![t].live = TRUE, ![t].policy = policy]
LoadedPolicies(t) == IF thread[t].live THEN {thread[t].policy} ELSE {thread[t].policy, "default"}

\* thread/settings/update of the complete settings.
SetEffective(t, s) == thread' = [thread EXCEPT ![t].effort = s.effort, ![t].policy = s.policy]

DeleteThread(t) == thread' = [thread EXCEPT ![t] = NoSuchThread]

-----------------------------------------------------------------------------
(***************************************************************************)
(* The server on its own, and its other clients.                           *)
(***************************************************************************)
\* Another process of the service: nothing is loaded.
Restarts ==
    /\ instance < MaxInstances /\ Touch
    /\ instance' = instance + 1
    /\ thread' = [t \in Threads |-> [thread[t] EXCEPT !.live = FALSE]]
    /\ UNCHANGED <<pane, procs, constraints>>

\* A thread that no TUI has open may be unloaded.
Unloads(t) ==
    /\ thread[t].live /\ \A p \in Panes : pane[p].thread # t
    /\ thread' = [thread EXCEPT ![t].live = FALSE]
    /\ UNCHANGED <<pane, procs, touches, instance, constraints>>

\* A TUI attaches its conversation; starting may reapply defaults.
TuiStarts(p, t) ==
    /\ Starts(p, t)
    /\ IF t = NoThread THEN UNCHANGED thread
       ELSE \E policy \in {thread[t].policy, "default"} :
                thread' = [thread EXCEPT ![t].live = TRUE, ![t].policy = policy]
    /\ UNCHANGED <<touches, instance, constraints>>

\* A TUI without a conversation creates c, with the settings of its argv.
TuiCreates(p, c, parent, s) ==
    /\ pane[p].open /\ pane[p].prog = "managed" /\ pane[p].thread = NoThread
    /\ ~thread[c].exists
    /\ Update(p, [pane[p] EXCEPT !.thread = c])
    /\ thread' = [thread EXCEPT ![c] = [exists |-> TRUE, live |-> TRUE, effort |-> s.effort,
                                       policy |-> s.policy, turns |-> 0, parent |-> parent]]
    /\ UNCHANGED <<procs, touches, instance, constraints>>

\* Another client changes the settings of a thread.
OtherClientUpdates(t) ==
    /\ thread[t].exists /\ Touch
    /\ SetEffective(t, [effort |-> "foreign", policy |-> "foreign"])
    /\ UNCHANGED <<pane, procs, instance, constraints>>

\* Somebody edits config.toml or the requirements.
ConstraintsChange ==
    /\ constraints = "first" /\ Touch
    /\ constraints' = "changed"
    /\ UNCHANGED <<pane, procs, thread, instance>>

\* Whoever sits at a TUI submits a prompt.
PersonSubmits(p) ==
    /\ pane[p].open /\ pane[p].prog \in Tui /\ pane[p].thread # NoThread
    /\ pane[p].draft = "typed"
    /\ Update(p, [pane[p] EXCEPT !.draft = "empty", !.busy = TRUE])
    /\ thread' = [thread EXCEPT ![pane[p].thread].turns = @ + 1]
    /\ UNCHANGED <<procs, touches, instance, constraints>>
=============================================================================
