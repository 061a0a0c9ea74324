---------------------------- MODULE LifecycleState ----------------------------
(***************************************************************************)
(* What every command of servicehost.Lifecycle works on: the files of an   *)
(* installation (descriptor, unit, per-version executables, purge          *)
(* manifest), the lifecycle flock, and the local state of the kit process  *)
(* that runs the command.                                                  *)
(*                                                                         *)
(* A release stands for its version, executable digest and arguments.  The *)
(* previous and candidate releases of a transition are not kept apart:     *)
(* they are the descriptor's cur and pend, since validDescriptor refuses   *)
(* any other, when a descriptor is written and when it is read.            *)
(***************************************************************************)
EXTENDS ServiceManager, FiniteSets

CONSTANTS Procs,    \* kit processes that run lifecycle commands
          NoProc    \* the lock is free

ASSUME ProcsAssumption == NoProc \notin Procs

VARIABLES
    desc,      \* the descriptor file
    binRoot,   \* the binary directory exists
    manifest,  \* the purge manifest exists
    data,      \* service data below the purge paths exists
    lock,      \* the holder of the lifecycle flock
    cmd,       \* per process: the command it runs and its local variables
    result     \* what the last finished command reported

fileVars == <<desc, unit, bins, binRoot, manifest, data>>
vars == <<fileVars, managerVars, lock, cmd, result>>

Phases == {"stopping-previous", "previous-stopped", "switching-unit",
           "candidate-unit", "candidate-started"}

\* cur = NoRelease: no descriptor file; phase = "none": no transition.
Descriptors == [cur : OptRelease, prev : OptRelease, pend : OptRelease,
                phase : Phases \cup {"none"}, src : OptPid, recovery : BOOLEAN]

NoDescriptor == [cur |-> NoRelease, prev |-> NoRelease, pend |-> NoRelease,
                 phase |-> "none", src |-> NoPid, recovery |-> FALSE]

Installed == desc.cur # NoRelease
InTransition == desc.phase # "none"

Tracked(d) == {d.cur, d.prev, d.pend} \ {NoRelease}

ValidDescriptor(d) ==
    /\ d.cur # NoRelease
    /\ d.prev # d.cur /\ d.pend # d.cur
    /\ d.prev # NoRelease => d.prev # d.pend
    /\ d.phase # "none" => d.pend # NoRelease /\ d.phase \in Phases

Made == {"bin", "unit", "descriptor", "manifest"}

Idle == [step |-> "idle", op |-> "none", mine |-> NoDescriptor,
         before |-> [active |-> FALSE, pid |-> NoPid],
         client |-> NoPid, target |-> NoRelease, made |-> {}]

Results == {"none", "ok", "error", "rolled-back", "recovery", "crashed"}

LifecycleInit ==
    /\ ManagerInit
    /\ desc = NoDescriptor
    /\ unit = NoRelease
    /\ bins = [r \in Releases |-> "absent"]
    /\ binRoot = FALSE
    /\ manifest = FALSE
    /\ data = FALSE
    /\ lock = NoProc
    /\ cmd = [p \in Procs |-> Idle]
    /\ result = "none"

(***************************************************************************)
(* Control.                                                                *)
(***************************************************************************)
At(p, step) == cmd[p].step = step

Goto(p, step) ==
    /\ cmd' = [cmd EXCEPT ![p].step = step]
    /\ UNCHANGED <<lock, result>>

\* Every return path closes the deferred flock.
Finish(p, outcome) ==
    /\ cmd' = [cmd EXCEPT ![p] = Idle]
    /\ lock' = NoProc
    /\ result' = outcome

\* A mistake the runs must notice: the flock is ignored.
LockIgnored == TRUE

\* acquireLifecycleLock does not wait: a held lock is ErrLifecycleBusy.
LockFree == lock = NoProc

Begin(p, o, step, target) ==
    /\ At(p, "idle") /\ LockFree
    /\ lock' = p
    /\ result' = "none"
    /\ cmd' = [cmd EXCEPT ![p] = [Idle EXCEPT !.op = o, !.step = step,
                                   !.mine = desc, !.target = target]]
    /\ UNCHANGED managerVars

(***************************************************************************)
(* Verification of what is on disk.                                        *)
(***************************************************************************)
\* transitionUsesCurrentUnit
UsesCurrentUnit(d) ==
    d.phase \in {"none", "stopping-previous", "previous-stopped"}

\* The units verifyDescriptorUnit and expectedUninstallUnit accept.
ExpectedUnits(d) ==
    IF UsesCurrentUnit(d) THEN {d.cur}
    ELSE IF d.phase = "switching-unit" THEN {d.cur, d.pend} ELSE {d.pend}

\* verifyInstallation without an error.
Verified ==
    /\ Installed
    /\ ~InTransition
    /\ unit \in ExpectedUnits(desc)
    /\ \A r \in Tracked(desc) : bins[r] = "file"
    /\ manifest

\* verifyUninstallInventory without an error: a unit that is present matches
\* the current or the candidate release, every version directory is tracked.
\* (It accepts the current release's unit in every phase.)
InventoryTracked ==
    /\ manifest
    /\ unit \in {NoRelease, desc.cur} \cup ExpectedUnits(desc)
    /\ \A r \in Releases : bins[r] # "absent" => r \in Tracked(desc)

(***************************************************************************)
(* Writes.  replaceLifecycleFile compares the file with what the command   *)
(* last wrote, and renames a synced temporary over it: all or nothing.     *)
(***************************************************************************)
\* A mistake: the command forgets that it wrote (*descriptor = next).
ReplaceAndForget(p, next, step) ==
    /\ desc = cmd[p].mine /\ ValidDescriptor(next)
    /\ desc' = next
    /\ Goto(p, step)
    /\ UNCHANGED <<unit, bins, binRoot, manifest, data, managerVars>>

ReplaceDescriptor(p, next, step) ==
    /\ desc = cmd[p].mine /\ ValidDescriptor(next)
    /\ desc' = next
    /\ cmd' = [cmd EXCEPT ![p].mine = next, ![p].step = step]
    /\ UNCHANGED <<unit, bins, binRoot, manifest, data, managerVars, lock, result>>

\* The last write of a command: it returns with the lock released.
CommitDescriptor(p, next, outcome) ==
    /\ desc = cmd[p].mine /\ ValidDescriptor(next)
    /\ desc' = next
    /\ Finish(p, outcome)
    /\ UNCHANGED <<unit, bins, binRoot, manifest, data, managerVars>>

ReplaceUnit(p, from, to, step) ==
    /\ unit = from
    /\ unit' = to
    /\ Goto(p, step)
    /\ UNCHANGED <<desc, bins, binRoot, manifest, data, managerVars>>

InPhase(d, phase) == [d EXCEPT !.phase = phase]
ClearTransition(d) ==
    [d EXCEPT !.phase = "none", !.src = NoPid, !.recovery = FALSE]

(***************************************************************************)
(* Observations of the manager, and the service's maintenance RPCs.        *)
(***************************************************************************)
\* A new process gets a pid that nobody still remembers, also not a descriptor:
\* that a pid comes round again while the SourcePID of an interrupted upgrade is
\* on disk (runningReleaseIsCurrent compares nothing else) is left out.
FreshPids ==
    Pids \ ({svc.pid, desc.src} \cup {cmd[p].before.pid : p \in Procs}
            \cup {cmd[p].client : p \in Procs} \cup {cmd[p].mine.src : p \in Procs})

\* sameProcess and activeProcess, against the status read before the change.
SameProcess(p) == Active /\ svc.pid = cmd[p].before.pid

Observe(p, step) ==
    /\ cmd' = [cmd EXCEPT ![p].step = step,
                          ![p].before = [active |-> Active, pid |-> svc.pid]]
    /\ UNCHANGED <<fileVars, managerVars, lock, result>>

\* drainActive on an active service: the handshake must name the expected
\* release; the client is kept so that a failed mutation can resume it.
DrainSucceeds(p, expected, step) ==
    /\ cmd[p].before.active
    /\ Active /\ svc.rel = expected /\ svc.health \in {"ready", "drained"}
    /\ SvcBecomes([svc EXCEPT !.health = "drained"])
    /\ cmd' = [cmd EXCEPT ![p].step = step, ![p].client = svc.pid]
    /\ UNCHANGED <<fileVars, loaded, enabled, lock, result>>

DrainSkipped(p, step) ==
    /\ ~cmd[p].before.active
    /\ Goto(p, step)
    /\ UNCHANGED <<fileVars, managerVars>>

\* The effect of Resume on the process the client is connected to, if that
\* process still runs.  A lost Resume leaves it drained.
ResumeEffect(client) ==
    /\ UNCHANGED <<loaded, enabled>>
    /\ IF client # NoPid /\ svc.pid = client /\ svc.health = "drained"
       THEN \/ SvcBecomes([svc EXCEPT !.health = "ready"])
            \/ excused' = TRUE /\ UNCHANGED svc
       ELSE UNCHANGED <<svc, excused>>

\* drainActive failed: the dial failed (nothing happened), or the answer was
\* lost after the service drained, and Resume was attempted.
DrainFails(p, expected) ==
    /\ cmd[p].before.active
    /\ UNCHANGED fileVars
    /\ Finish(p, "error")
    /\ \/ UNCHANGED managerVars
       \/ /\ Active /\ svc.rel = expected /\ svc.health \in {"ready", "drained"}
          /\ UNCHANGED <<loaded, enabled>>
          /\ \/ SvcBecomes([svc EXCEPT !.health = "ready"])
             \/ svc' = [svc EXCEPT !.health = "drained"] /\ excused' = TRUE

\* A mistake: the drained service is not resumed.
FailWithoutResume(p) ==
    /\ Finish(p, "error")
    /\ UNCHANGED <<fileVars, managerVars>>

\* resumeAfterFailedMutation, and return.
FailWithResume(p) ==
    /\ ResumeEffect(cmd[p].client)
    /\ Finish(p, "error")
    /\ UNCHANGED fileVars

Fail(p, outcome) ==
    /\ Finish(p, outcome)
    /\ UNCHANGED <<fileVars, managerVars>>

\* awaitReady returned nil: the running service has the expected identity, is
\* ready and accepting.  It may fail (timeout, identity) in any state.
Answers(expected) ==
    Active /\ svc.rel = expected /\ svc.health = "ready"
=============================================================================
