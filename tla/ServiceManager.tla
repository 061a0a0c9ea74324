---------------------------- MODULE ServiceManager ----------------------------
(***************************************************************************)
(* The systemd user manager and the one service it supervises, as          *)
(* runtime/servicehost/lifecycle.go drives and observes them through       *)
(* `systemctl --user`.  systemd is not part of the repository: each verb   *)
(* is modelled by what the Go code asks of it and re-checks afterwards.    *)
(* A command's exit code and its effect are separate, because the code     *)
(* runs every command under a timeout: a command that is reported as       *)
(* failed may have taken effect.  A start, a stop or a restart is a job    *)
(* that the manager may also end later; a reload, enable or disable is one *)
(* request, which the manager has carried out or not before it answers the *)
(* next one, so that nobody can see it take effect late.                   *)
(***************************************************************************)
EXTENDS Naturals

CONSTANTS Releases,   \* installable releases: version, digest and arguments
          NoRelease,  \* "no release": an absent file, field or loaded unit
          Pids,       \* process identifiers
          NoPid       \* MainPID=0

ASSUME ReleasesAssumption == NoRelease \notin Releases
ASSUME PidsAssumption == NoPid \notin Pids

VARIABLES
    unit,     \* the release the unit file on disk starts, or NoRelease
    bins,     \* per release: its version directory and executable on disk
    loaded,   \* the release of the unit definition the manager holds in memory
    enabled,  \* the unit is wanted by default.target (it starts at boot)
    svc,      \* the service: manager state, main process and its health
    excused   \* history: this process may stay drained with nobody left to
              \* resume it (the command died, or its Resume was lost)

managerVars == <<loaded, enabled, svc, excused>>

OptRelease == Releases \cup {NoRelease}
OptPid == Pids \cup {NoPid}

ManagerTypeOK ==
    /\ unit \in OptRelease
    /\ bins \in [Releases -> {"absent", "directory", "file"}]
    /\ loaded \in OptRelease
    /\ enabled \in BOOLEAN
    /\ svc \in [state : {"inactive", "failed", "active", "stopping", "restarting"},
                pid : OptPid, rel : OptRelease,
                health : {"none", "starting", "ready", "drained"}]
    /\ excused \in BOOLEAN

Stopped(state) ==
    [state |-> state, pid |-> NoPid, rel |-> NoRelease, health |-> "none"]

Running(pid, release) ==
    [state |-> "active", pid |-> pid, rel |-> release, health |-> "starting"]

ManagerInit ==
    /\ loaded = NoRelease
    /\ enabled = FALSE
    /\ svc = Stopped("inactive")
    /\ excused = FALSE

\* `Active`: ActiveState=active.  A service that is being stopped or that waits
\* to be started ("restarting") is not active, and is not terminal either.
Active == svc.state = "active"

\* terminalStopped: not active, no main process, inactive or failed.
TerminalStopped ==
    svc.state \in {"inactive", "failed"} /\ svc.pid = NoPid

\* The unit definition the manager uses: the one it keeps in memory, else the
\* file on disk, which any query or verb loads.  LoadState=loaded if there is one.
Resolved == IF loaded # NoRelease THEN loaded ELSE unit
Loaded == Resolved # NoRelease

SvcBecomes(next) ==
    /\ svc' = next
    /\ excused' = (excused /\ next.health = "drained")

(***************************************************************************)
(* Effects of the verbs.  `fresh` are the pids a new process may get.      *)
(***************************************************************************)
SpawnEffect(fresh) ==
    /\ Resolved # NoRelease
    /\ loaded' = Resolved
    /\ IF bins[Resolved] = "file"
       THEN \E pid \in fresh : SvcBecomes(Running(pid, Resolved))
       ELSE SvcBecomes(Stopped("failed"))
    /\ UNCHANGED enabled

StartEffect(fresh) ==
    \/ Active /\ UNCHANGED managerVars
    \/ ~Active /\ SpawnEffect(fresh)

StopEffect ==
    /\ \E state \in {"inactive", "failed"} : SvcBecomes(Stopped(state))
    /\ UNCHANGED <<loaded, enabled>>

\* The stop job is queued and the client gave up: the process is on its way
\* out, the manager ends the stop later (ManagerFinishesStop).
StopPending ==
    /\ svc.state \in {"active", "restarting"}
    /\ SvcBecomes([svc EXCEPT !.state = "stopping"])
    /\ UNCHANGED <<loaded, enabled>>

\* The start job is queued and the client gave up: the unit is activating, the
\* manager starts it later (ManagerRestarts) or not at all (ManagerGivesUp).
StartPending ==
    /\ Resolved # NoRelease
    /\ loaded' = Resolved
    /\ SvcBecomes(Stopped("restarting"))
    /\ UNCHANGED enabled

Reread == IF loaded # NoRelease THEN unit ELSE NoRelease

ReloadEffect ==
    /\ loaded' = Reread
    /\ UNCHANGED <<enabled, svc, excused>>

\* enable and disable reload the manager; what default.target wants is loaded.
EnableEffect(on) ==
    /\ on => unit # NoRelease
    /\ enabled' = on
    /\ loaded' = IF on THEN unit ELSE Reread
    /\ UNCHANGED <<svc, excused>>

NoEffect == UNCHANGED managerVars

(***************************************************************************)
(* The verbs, by reported result.                                          *)
(***************************************************************************)
SystemctlStart(ok, fresh) ==
    \/ StartEffect(fresh)
    \/ ~ok /\ NoEffect
    \/ ~ok /\ ~Active /\ StartPending

\* A stop or restart that reports success while the old process is still the
\* main process is what the code's checks after these verbs guard against.
SystemctlStop(ok) ==
    \/ StopEffect
    \/ NoEffect
    \/ ~ok /\ StopPending

\* What is left of a restart to do later is its stop half or its start half.
SystemctlRestart(ok, fresh) ==
    \/ SpawnEffect(fresh)
    \/ ~ok /\ (NoEffect \/ StopPending \/ StartPending)
    \/ /\ ok /\ excused' = (excused \/ svc.health = "drained")
       /\ UNCHANGED <<loaded, enabled, svc>>

SystemctlReload(ok) ==
    \/ ReloadEffect
    \/ ~ok /\ NoEffect

SystemctlEnable(ok, on) ==
    \/ EnableEffect(on)
    \/ ~ok /\ NoEffect

(***************************************************************************)
(* What the manager and the service do on their own.                       *)
(***************************************************************************)
\* A stopped unit nothing wants is garbage collected.
ManagerUnloads ==
    /\ loaded # NoRelease /\ TerminalStopped /\ ~enabled
    /\ loaded' = NoRelease
    /\ UNCHANGED <<enabled, svc, excused>>

ManagerFinishesStop ==
    /\ svc.state = "stopping"
    /\ StopEffect

\* Restart=on-failure, RestartSec=2s: until it starts the unit is activating.
ServiceCrashes ==
    /\ Active
    /\ SvcBecomes(Stopped("restarting"))
    /\ UNCHANGED <<loaded, enabled>>

ManagerRestarts(fresh) ==
    /\ svc.state = "restarting"
    /\ SpawnEffect(fresh)

\* StartLimitBurst reached, or the pending start failed.
ManagerGivesUp ==
    /\ svc.state = "restarting"
    /\ SvcBecomes(Stopped("failed"))
    /\ UNCHANGED <<loaded, enabled>>

ServiceBecomesReady ==
    /\ Active /\ svc.health = "starting"
    /\ SvcBecomes([svc EXCEPT !.health = "ready"])
    /\ UNCHANGED <<loaded, enabled>>

\* After a reboot the manager knows only what is on disk, and starts the unit
\* when it is enabled.
Boot(fresh) ==
    /\ enabled' = enabled
    /\ excused' = FALSE
    /\ IF enabled /\ unit # NoRelease
       THEN /\ loaded' = unit
            /\ IF bins[unit] = "file"
               THEN \E pid \in fresh : svc' = Running(pid, unit)
               ELSE svc' = Stopped("failed")
       ELSE /\ loaded' = NoRelease
            /\ svc' = Stopped("inactive")
=============================================================================
