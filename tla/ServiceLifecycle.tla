--------------------------- MODULE ServiceLifecycle ---------------------------
(***************************************************************************)
(* An installed service over its whole life: any number of kit processes   *)
(* run lifecycle commands, the manager and the service act on their own,   *)
(* kit processes die between any two steps and the machine reboots.        *)
(***************************************************************************)
EXTENDS LifecycleCommands, LifecycleUpgrade

InstallNext(p) ==
    \/ InstallPreparesDirectories(p)
    \/ \E r \in Releases : BeginInstall(p, r) \/ BeginReinstall(p, r)
    \/ InstallCopy(p) \/ InstallWriteUnit(p) \/ InstallWriteDescriptor(p)
    \/ InstallWriteManifest(p) \/ InstallStepFails(p) \/ InstallReload(p)
    \/ InstallUndo(p)

StageNext(p) ==
    \/ \E r \in Releases : BeginStage(p, r)
    \/ StageCopy(p) \/ StagePublish(p) \/ StageFails(p)

BeginControl(p) ==
    \/ BeginCommand(p, "Start", "start.status")
    \/ BeginCommand(p, "StartEnabled", "start.status")
    \/ BeginCommand(p, "Enable", "enable.status")
    \/ BeginCommand(p, "Disable", "enable.status")
    \/ BeginCommand(p, "Stop", "stop.status")
    \/ BeginCommand(p, "Restart", "restart.status")

ControlNext(p) ==
    \/ StartStatus(p) \/ StartCommand(p) \/ AwaitReady(p) \/ StartedStatus(p)
    \/ EnableStatus(p) \/ EnableCommand(p) \/ EnableCheck(p)
    \/ StopStatus(p) \/ RestartStatus(p) \/ Drain(p) \/ ResumeAfterFailure(p)
    \/ StopCommand(p) \/ StopCheck(p) \/ RestartCommand(p) \/ RestartCheck(p)

UninstallNext(p) ==
    \/ BeginUninstall(p) \/ UninstallStatus(p) \/ UninstallDrain(p)
    \/ UninstallDisable(p) \/ UninstallStop(p) \/ UninstallStopped(p)
    \/ UninstallExecutable(p) \/ UninstallBinaryDirectory(p)
    \/ UninstallUnit(p) \/ UninstallReload(p) \/ UninstallAbsent(p)
    \/ UninstallDescriptor(p) \/ UninstallFails(p)

PurgeNext(p) ==
    BeginPurge(p) \/ PurgeData(p) \/ PurgeManifest(p) \/ PurgeFails(p)

CommandNext(p) ==
    \/ InstallNext(p) \/ StageNext(p) \/ BeginControl(p) \/ ControlNext(p)
    \/ UninstallNext(p) \/ PurgeNext(p) \/ ActivateNext(p)

(***************************************************************************)
(* The rest of the machine.                                                *)
(***************************************************************************)
ServiceWritesData ==
    /\ Active /\ ~data
    /\ data' = TRUE
    /\ UNCHANGED <<desc, unit, bins, binRoot, manifest, managerVars>>

Environment ==
    /\ UNCHANGED <<lock, cmd, result>>
    /\ \/ ServiceWritesData
       \/ /\ UNCHANGED fileVars
          /\ \/ ManagerUnloads \/ ManagerFinishesStop
             \/ ServiceCrashes \/ ManagerRestarts(FreshPids) \/ ManagerGivesUp
             \/ ServiceBecomesReady

\* The kit process dies: the kernel drops its flock, its files stay as they
\* are, and a service it drained has nobody left to resume it.
KitCrash(p) ==
    /\ ~At(p, "idle")
    /\ Finish(p, "crashed")
    /\ excused' = (excused \/ svc.health = "drained")
    /\ UNCHANGED <<fileVars, loaded, enabled, svc>>

Reboot ==
    /\ Boot(FreshPids)
    /\ cmd' = [p \in Procs |-> Idle]
    /\ lock' = NoProc
    /\ result' = "crashed"
    /\ UNCHANGED fileVars

Next ==
    \/ \E p \in Procs : CommandNext(p) \/ KitCrash(p)
    \/ Environment
    \/ Reboot

Spec == LifecycleInit /\ [][Next]_vars

(***************************************************************************)
(* Properties.                                                             *)
(***************************************************************************)
Steps == {"idle"} \cup InstallSteps \cup StageSteps \cup ControlSteps
            \cup UninstallSteps \cup PurgeSteps \cup ActivateSteps
Ops == {"none", "Install", "Stage", "Start", "StartEnabled", "Enable", "Disable",
        "Stop", "Restart", "Uninstall", "Purge", "Activate"}

\* Every variable holds a value of its type; the lock names a process.
TypeOK ==
    /\ ManagerTypeOK
    /\ desc \in Descriptors
    /\ binRoot \in BOOLEAN /\ manifest \in BOOLEAN /\ data \in BOOLEAN
    /\ lock \in Procs \cup {NoProc}
    /\ cmd \in [Procs -> [step : Steps, op : Ops, mine : Descriptors,
                          before : [active : BOOLEAN, pid : OptPid],
                          client : OptPid, target : OptRelease,
                          made : SUBSET Made]]
    /\ result \in Results

\* Only the holder of the flock is at work, and the descriptor that a command
\* holds in memory, against which its next write is compared
\* (replaceLifecycleFile), is the one on disk, after any of its earlier writes
\* and whatever another process or a command that died has done before.
CommandsHoldTheDescriptor ==
    \A p \in Procs : ~At(p, "idle") =>
        /\ lock = p
        /\ cmd[p].step \in StageSteps \cup ActivateSteps => cmd[p].mine = desc

\* In every state a crash can leave behind, the unit on disk is one that the
\* descriptor's phase announces (expectedUninstallUnit, verifyDescriptorUnit):
\* no kit process dies between a unit and the descriptor that explains it.
UnitMatchesPhase ==
    Installed /\ unit # NoRelease => unit \in ExpectedUnits(desc)

\* The service that runs is the installed release, or during an activation
\* the candidate: the manager never runs a release the descriptor forgot.
RunningReleaseIsTracked ==
    svc.rel # NoRelease =>
        /\ Installed
        /\ svc.rel = desc.cur \/ (InTransition /\ svc.rel = desc.pend)

\* An enabled unit can start at any boot: it exists and so does the
\* executable it names, also half way through an upgrade or an uninstall.
EnabledServiceCanBoot ==
    enabled => unit # NoRelease /\ bins[unit] = "file"

\* A command never leaves a drained service behind: when no command runs, a
\* running service admits requests, unless a transition is recorded (the upgrade
\* was given up and reported as requiring recovery, or its command died: what
\* then becomes of the service is for Uninstall), a command died or a Resume
\* was lost.
DrainedIsAccountedFor ==
    svc.state = "active" /\ svc.health = "drained" /\ lock = NoProc =>
        excused \/ InTransition

\* A command that reported anything but recovery left no transition behind,
\* and one that reported recovery did: ErrUpgradeRecoveryRequired is exact.
RecoveryIsReported ==
    [][\A p \in Procs :
          (cmd[p].op = "Activate" /\ cmd'[p] = Idle /\ result' # "crashed")
              => (result' = "recovery" <=> desc'.phase # "none")]_vars

\* The installed release changes only when the candidate's unit is on disk and
\* loaded, and what was installed stays as the previous release.
CommitFollowsCandidate ==
    [][desc.cur # NoRelease /\ desc'.cur # desc.cur /\ desc'.cur # NoRelease
          => /\ desc.phase = "candidate-started"
             /\ desc'.cur = desc.pend /\ desc'.prev = desc.cur
             /\ unit = desc'.cur /\ Resolved = desc'.cur]_vars

\* An executable the descriptor names is removed only once nothing runs it and
\* nothing will start it.
ExecutablesOutliveService ==
    [][\A r \in Tracked(desc) :
          bins[r] = "file" /\ bins'[r] # "file" => TerminalStopped /\ ~enabled]_vars

\* Uninstall forgets an installation only when nothing of it is left, and data
\* is purged only when the service cannot be running.
RemovalIsOrdered ==
    [][/\ \A p \in Procs :
             (cmd[p].op = "Uninstall" /\ Installed /\ desc' = NoDescriptor)
                 => /\ unit = NoRelease /\ loaded = NoRelease /\ ~enabled
                    /\ TerminalStopped
                    /\ \A r \in Releases : bins[r] = "absent"
       /\ data /\ ~data' =>
             ~Installed /\ unit = NoRelease /\ ~enabled /\ TerminalStopped]_vars

\* Uninstall takes an active service for the release it is, except after a
\* reboot in the middle of a unit switch, where the previous release came up
\* under a pid the descriptor does not know.
RunningReleaseIsRecognised ==
    svc.state = "active" /\ Installed =>
        \/ RunningRelease(desc, svc.pid) = svc.rel
        \/ desc.phase = "switching-unit" /\ unit = desc.cur

\* Who holds the lock knows what runs: no process of a release the descriptor
\* forgot, and none that drainActive would take for another release.
RunningReleaseIsKnown == RunningReleaseIsTracked /\ RunningReleaseIsRecognised

\* An upgrade ends where its answer says (ErrUpgradeRecoveryRequired), and the
\* installed release changes on the way there only for a loaded candidate.
UpgradeIsExact == RecoveryIsReported /\ CommitFollowsCandidate

\* Nothing is taken away before what needs it: executables while a service may
\* run them, the descriptor while something is left, data while it may be used.
RemovalIsSafe == ExecutablesOutliveService /\ RemovalIsOrdered
=============================================================================
