-------------------------- MODULE LifecycleCommands --------------------------
(***************************************************************************)
(* The commands of servicehost.Lifecycle other than ActivateUpgrade, one   *)
(* action per step another actor (the manager, the service, a crash) can   *)
(* come between.  A command that refuses before changing anything is a     *)
(* stuttering step and is not modelled.                                    *)
(***************************************************************************)
EXTENDS LifecycleState

InstallSteps == {"install.copy", "install.unit", "install.descriptor",
                 "install.manifest", "install.reload", "install.undo"}
StageSteps == {"stage.copy", "stage.publish"}
ControlSteps == {"start.status", "start.command", "start.ready", "started",
                 "enable.status", "enable.command", "enable.check",
                 "stop.status", "stop.drain", "stop.command", "stop.check",
                 "restart.status", "restart.drain", "restart.command",
                 "restart.check", "restart.ready", "resume"}
UninstallSteps == {"uninstall.status", "uninstall.drain", "uninstall.disable",
                   "uninstall.disable-missing", "uninstall.stop",
                   "uninstall.stopped", "uninstall.executables",
                   "uninstall.unit", "uninstall.reload", "uninstall.absent",
                   "uninstall.descriptor"}
PurgeSteps == {"purge.data", "purge.manifest"}

(***************************************************************************)
(* Install.                                                                *)
(***************************************************************************)
\* ensureLifecycleDirectories runs before the lock is taken, also for an
\* Install that is then refused.
InstallPreparesDirectories(p) ==
    /\ At(p, "idle")
    /\ ~binRoot /\ binRoot' = TRUE
    /\ UNCHANGED <<desc, unit, bins, manifest, data, managerVars, lock, cmd, result>>

BeginInstall(p, r) ==
    /\ Begin(p, "Install", "install.copy", r)
    /\ ~Installed /\ unit = NoRelease /\ bins[r] # "file"
    /\ binRoot' = TRUE
    /\ UNCHANGED <<desc, unit, bins, manifest, data>>

\* The same release is already installed: only the manager is reloaded.
BeginReinstall(p, r) ==
    /\ Begin(p, "Install", "install.reload", r)
    /\ Installed /\ ~InTransition /\ desc.cur = r
    /\ unit = r /\ bins[r] = "file" /\ manifest
    /\ binRoot' = TRUE
    /\ UNCHANGED <<desc, unit, bins, manifest, data>>

MakeAndGoto(p, file, step) ==
    /\ cmd' = [cmd EXCEPT ![p].step = step, ![p].made = @ \cup {file}]
    /\ UNCHANGED <<lock, result>>

\* copyNewExecutable creates the missing directories, then links a synced copy.
CopyExecutable(p, next) ==
    /\ bins[cmd[p].target] # "file"
    /\ bins' = [bins EXCEPT ![cmd[p].target] = "file"]
    /\ binRoot' = TRUE
    /\ MakeAndGoto(p, "bin", next)
    /\ UNCHANGED <<desc, unit, manifest, data, managerVars>>

\* A copy that fails leaves the version directory it made; one that was linked
\* and then could not be inspected is there, and nobody recorded it.
CopyFails(p) ==
    /\ bins[cmd[p].target] # "file"
    /\ \/ UNCHANGED <<bins, binRoot>>
       \/ /\ \E left \in {"directory", "file"} :
                bins' = [bins EXCEPT ![cmd[p].target] = left]
          /\ binRoot' = TRUE
    /\ Finish(p, "error")
    /\ UNCHANGED <<desc, unit, manifest, data, managerVars>>

InstallCopy(p) ==
    /\ At(p, "install.copy")
    /\ CopyExecutable(p, "install.unit") \/ CopyFails(p)

\* What rollback does not remove: a file that was linked but could not be
\* inspected (inspectCreatedFile) was not recorded as created.
LinkedUnrecorded(p) ==
    \/ /\ At(p, "install.unit") /\ unit = NoRelease
       /\ unit' = cmd[p].target
       /\ UNCHANGED <<desc, manifest>>
    \/ /\ At(p, "install.descriptor") /\ ~Installed
       /\ desc' = [NoDescriptor EXCEPT !.cur = cmd[p].target]
       /\ UNCHANGED <<unit, manifest>>
    \/ /\ At(p, "install.manifest") /\ ~manifest
       /\ manifest' = TRUE
       /\ UNCHANGED <<desc, unit>>

InstallStepFails(p) ==
    /\ cmd[p].step \in {"install.unit", "install.descriptor", "install.manifest"}
    /\ \/ UNCHANGED <<desc, unit, manifest>>
       \/ LinkedUnrecorded(p)
    /\ Goto(p, "install.undo")
    /\ UNCHANGED <<bins, binRoot, data, managerVars>>

InstallWriteUnit(p) ==
    /\ At(p, "install.unit")
    /\ unit = NoRelease /\ unit' = cmd[p].target
    /\ MakeAndGoto(p, "unit", "install.descriptor")
    /\ UNCHANGED <<desc, bins, binRoot, manifest, data, managerVars>>

InstallWriteDescriptor(p) ==
    /\ At(p, "install.descriptor")
    /\ ~Installed
    /\ desc' = [NoDescriptor EXCEPT !.cur = cmd[p].target]
    /\ MakeAndGoto(p, "descriptor", "install.manifest")
    /\ UNCHANGED <<unit, bins, binRoot, manifest, data, managerVars>>

\* A manifest retained by an earlier Uninstall is kept as it is.
InstallWriteManifest(p) ==
    /\ At(p, "install.manifest")
    /\ IF manifest THEN Goto(p, "install.reload")
                   ELSE MakeAndGoto(p, "manifest", "install.reload")
    /\ manifest' = TRUE
    /\ UNCHANGED <<desc, unit, bins, binRoot, data, managerVars>>

InstallReload(p) ==
    /\ At(p, "install.reload")
    /\ \/ SystemctlReload(TRUE) /\ Finish(p, "ok")
       \/ SystemctlReload(FALSE) /\ Goto(p, "install.undo")
    /\ UNCHANGED fileVars

\* rollback removes what this command created, last first; a removal may fail.
UndoNext(p, file) ==
    /\ At(p, "install.undo")
    /\ file \in cmd[p].made
    /\ file = "descriptor" => "manifest" \notin cmd[p].made
    /\ file = "unit" => cmd[p].made \subseteq {"bin", "unit"}
    /\ file = "bin" => cmd[p].made = {"bin"}
    /\ cmd' = [cmd EXCEPT ![p].made = @ \ {file}]
    /\ UNCHANGED <<binRoot, data, managerVars, lock, result>>

InstallUndo(p) ==
    \/ /\ \E file \in Made : UndoNext(p, file)
       /\ UNCHANGED <<desc, unit, bins, manifest>>
    \/ UndoNext(p, "manifest") /\ manifest' = FALSE /\ UNCHANGED <<desc, unit, bins>>
    \/ UndoNext(p, "descriptor") /\ desc' = NoDescriptor /\ UNCHANGED <<unit, bins, manifest>>
    \/ UndoNext(p, "unit") /\ unit' = NoRelease /\ UNCHANGED <<desc, bins, manifest>>
    \/ /\ UndoNext(p, "bin")
       /\ bins' = [bins EXCEPT ![cmd[p].target] = "directory"]
       /\ UNCHANGED <<desc, unit, manifest>>
    \/ At(p, "install.undo") /\ cmd[p].made = {} /\ Fail(p, "error")

(***************************************************************************)
(* StageUpgrade: a second executable beside the first, then the descriptor *)
(* names it as pending.                                                    *)
(***************************************************************************)
BeginStage(p, r) ==
    /\ Begin(p, "Stage", "stage.copy", r)
    /\ Verified
    /\ r # desc.cur /\ desc.pend = NoRelease
    /\ UNCHANGED fileVars

StageCopy(p) ==
    /\ At(p, "stage.copy")
    /\ \/ CopyExecutable(p, "stage.publish")
       \/ CopyFails(p)
       \/ /\ bins[cmd[p].target] = "file"
          /\ Goto(p, "stage.publish")
          /\ UNCHANGED <<fileVars, managerVars>>

StagePublish(p) ==
    /\ At(p, "stage.publish")
    /\ CommitDescriptor(p, [cmd[p].mine EXCEPT !.pend = cmd[p].target], "ok")

\* Only an executable this command copied is removed; its directory stays.
StageFails(p) ==
    /\ At(p, "stage.publish")
    /\ \/ UNCHANGED bins
       \/ /\ "bin" \in cmd[p].made
          /\ bins' = [bins EXCEPT ![cmd[p].target] = "directory"]
    /\ Finish(p, "error")
    /\ UNCHANGED <<desc, unit, binRoot, manifest, data, managerVars>>

(***************************************************************************)
(* Start, StartEnabled, Enable, Disable.                                   *)
(***************************************************************************)
BeginCommand(p, o, step) ==
    /\ Begin(p, o, step, NoRelease)
    /\ Verified
    /\ UNCHANGED fileVars

\* ownedManagerStatus, and for StartEnabled the enabled state.
StartStatus(p) ==
    /\ At(p, "start.status")
    /\ \/ /\ Loaded
          /\ cmd[p].op = "StartEnabled" => enabled
          /\ Goto(p, "start.command")
          /\ UNCHANGED <<fileVars, managerVars>>
       \/ Fail(p, "error")

StartCommand(p) ==
    /\ At(p, "start.command")
    /\ \/ SystemctlStart(TRUE, FreshPids) /\ Goto(p, "start.ready")
       \/ SystemctlStart(FALSE, FreshPids) /\ Finish(p, "error")
    /\ UNCHANGED fileVars

\* awaitReady, then the status must still show a process.  Restart ends alike.
AwaitReady(p) ==
    /\ cmd[p].step \in {"start.ready", "restart.ready"}
    /\ \/ /\ Answers(cmd[p].mine.cur)
          /\ Goto(p, "started")
          /\ UNCHANGED <<fileVars, managerVars>>
       \/ Fail(p, "error")

StartedStatus(p) ==
    /\ At(p, "started")
    /\ \/ Active /\ Fail(p, "ok")
       \/ Fail(p, "error")

EnableStatus(p) ==
    /\ At(p, "enable.status")
    /\ \/ /\ Loaded
          /\ Goto(p, "enable.command")
          /\ UNCHANGED <<fileVars, managerVars>>
       \/ Fail(p, "error")

EnableCommand(p) ==
    LET on == cmd[p].op = "Enable" IN
    /\ At(p, "enable.command")
    /\ \/ SystemctlEnable(TRUE, on) /\ Goto(p, "enable.check")
       \/ SystemctlEnable(FALSE, on) /\ Finish(p, "error")
    /\ UNCHANGED fileVars

EnableCheck(p) ==
    /\ At(p, "enable.check")
    /\ \/ enabled = (cmd[p].op = "Enable") /\ Fail(p, "ok")
       \/ Fail(p, "error")

(***************************************************************************)
(* Stop and Restart: drain, the verb, and check that it did what it said.  *)
(***************************************************************************)
StopStatus(p) ==
    /\ At(p, "stop.status")
    /\ Observe(p, "stop.drain") \/ Fail(p, "error")

RestartStatus(p) ==
    /\ At(p, "restart.status")
    /\ \/ Loaded /\ Observe(p, "restart.drain")
       \/ Fail(p, "error")

Drain(p) ==
    \/ /\ At(p, "stop.drain")
       /\ \/ DrainSucceeds(p, cmd[p].mine.cur, "stop.command")
          \/ DrainSkipped(p, "stop.command")
          \/ DrainFails(p, cmd[p].mine.cur)
    \/ /\ At(p, "restart.drain")
       /\ \/ DrainSucceeds(p, cmd[p].mine.cur, "restart.command")
          \/ DrainSkipped(p, "restart.command")
          \/ DrainFails(p, cmd[p].mine.cur)

\* resumeAfterFailedMutation on the kept client.
ResumeAfterFailure(p) ==
    /\ At(p, "resume")
    /\ FailWithResume(p)

StopCommand(p) ==
    /\ At(p, "stop.command")
    /\ \/ SystemctlStop(TRUE) /\ Goto(p, "stop.check")
       \/ SystemctlStop(FALSE) /\ Goto(p, "resume")
    /\ UNCHANGED fileVars

StopCheck(p) ==
    /\ At(p, "stop.check")
    /\ \/ TerminalStopped /\ Fail(p, "ok")
       \/ Goto(p, "resume") /\ UNCHANGED <<fileVars, managerVars>>

RestartCommand(p) ==
    /\ At(p, "restart.command")
    /\ \/ SystemctlRestart(TRUE, FreshPids) /\ Goto(p, "restart.check")
       \/ SystemctlRestart(FALSE, FreshPids) /\ Goto(p, "resume")
    /\ UNCHANGED fileVars

\* When the status cannot be read after a restart that reported success the
\* client is closed without Resume: the old process is taken to be gone.
RestartCheck(p) ==
    /\ At(p, "restart.check")
    /\ \/ /\ cmd[p].before.active /\ SameProcess(p)
          /\ Goto(p, "resume") /\ UNCHANGED <<fileVars, managerVars>>
       \/ /\ ~(cmd[p].before.active /\ SameProcess(p))
          /\ Active
          /\ Goto(p, "restart.ready") /\ UNCHANGED <<fileVars, managerVars>>
       \/ /\ ~(cmd[p].before.active /\ SameProcess(p))
          /\ ~Active
          /\ Fail(p, "error")
       \/ /\ excused' = (excused \/ svc.health = "drained")
          /\ Finish(p, "error")
          /\ UNCHANGED <<fileVars, loaded, enabled, svc>>

(***************************************************************************)
(* Uninstall: also the way out of an interrupted upgrade or uninstall, so  *)
(* it verifies the inventory, not the installation.  Descriptor last.      *)
(***************************************************************************)
BeginUninstall(p) ==
    /\ Begin(p, "Uninstall", "uninstall.status", NoRelease)
    /\ Installed /\ InventoryTracked
    /\ UNCHANGED fileVars

UninstallStatus(p) ==
    /\ At(p, "uninstall.status")
    /\ \/ /\ Loaded /\ unit # NoRelease
          /\ Observe(p, "uninstall.drain")
       \/ /\ Loaded /\ unit = NoRelease /\ TerminalStopped
          /\ Goto(p, "uninstall.disable-missing") /\ UNCHANGED <<fileVars, managerVars>>
       \/ /\ ~Loaded /\ TerminalStopped
          /\ Goto(p, "uninstall.executables") /\ UNCHANGED <<fileVars, managerVars>>
       \/ Fail(p, "error")

\* descriptorForRunningTransition: the release an active service is taken to be.
RunningRelease(d, pid) ==
    IF UsesCurrentUnit(d) \/ pid = d.src THEN d.cur ELSE d.pend

UninstallDrain(p) ==
    LET expected == RunningRelease(cmd[p].mine, cmd[p].before.pid) IN
    /\ At(p, "uninstall.drain")
    /\ \/ DrainSucceeds(p, expected, "uninstall.disable")
       \/ DrainSkipped(p, "uninstall.disable")
       \/ DrainFails(p, expected)

\* A mistake: the unit is left enabled.
UninstallLeavesEnabled(p) ==
    /\ UNCHANGED <<fileVars, managerVars>>
    /\ \/ At(p, "uninstall.disable") /\ Goto(p, "uninstall.stop")
       \/ At(p, "uninstall.disable-missing") /\ Goto(p, "uninstall.executables")

UninstallDisable(p) ==
    /\ UNCHANGED fileVars
    /\ \/ /\ At(p, "uninstall.disable")
          /\ \/ SystemctlEnable(TRUE, FALSE) /\ Goto(p, "uninstall.stop")
             \/ SystemctlEnable(FALSE, FALSE) /\ Goto(p, "resume")
       \/ /\ At(p, "uninstall.disable-missing")
          /\ \/ SystemctlEnable(TRUE, FALSE) /\ Goto(p, "uninstall.executables")
             \/ SystemctlEnable(FALSE, FALSE) /\ Finish(p, "error")

UninstallStop(p) ==
    /\ At(p, "uninstall.stop")
    /\ UNCHANGED fileVars
    /\ \/ ~cmd[p].before.active /\ NoEffect /\ Goto(p, "uninstall.stopped")
       \/ cmd[p].before.active /\ SystemctlStop(TRUE) /\ Goto(p, "uninstall.stopped")
       \/ cmd[p].before.active /\ SystemctlStop(FALSE) /\ Goto(p, "resume")

\* A mistake: a stop that reports success is believed.
UninstallTrustsStop(p) ==
    /\ At(p, "uninstall.stopped")
    /\ UNCHANGED <<fileVars, managerVars>>
    /\ Goto(p, "uninstall.executables")

UninstallStopped(p) ==
    /\ At(p, "uninstall.stopped")
    /\ UNCHANGED <<fileVars, managerVars>>
    /\ \/ TerminalStopped /\ Goto(p, "uninstall.executables")
       \/ Goto(p, "resume")

\* removeVerifiedExecutable, for the current, previous and pending release in
\* this order: the file, then its directory.
UninstallExecutable(p) ==
    LET d == cmd[p].mine
        next == {r \in Tracked(d) :
                   /\ bins[r] # "absent"
                   /\ r # d.cur => bins[d.cur] = "absent"
                   /\ (r = d.pend /\ d.prev # NoRelease) => bins[d.prev] = "absent"}
    IN
    /\ At(p, "uninstall.executables")
    /\ \E r \in next :
         \/ /\ bins' = [bins EXCEPT ![r] = "absent"]
            /\ UNCHANGED <<cmd, lock, result>>
         \/ /\ bins' = [bins EXCEPT ![r] = "directory"]
            /\ Finish(p, "error")
    /\ UNCHANGED <<desc, unit, binRoot, manifest, data, managerVars>>

UninstallBinaryDirectory(p) ==
    /\ At(p, "uninstall.executables")
    /\ \A r \in Releases : bins[r] = "absent"
    /\ binRoot' = FALSE
    /\ Goto(p, "uninstall.unit")
    /\ UNCHANGED <<desc, unit, bins, manifest, data, managerVars>>

UninstallUnit(p) ==
    /\ At(p, "uninstall.unit")
    /\ unit' = NoRelease
    /\ Goto(p, "uninstall.reload")
    /\ UNCHANGED <<desc, bins, binRoot, manifest, data, managerVars>>

UninstallReload(p) ==
    /\ At(p, "uninstall.reload")
    /\ \/ SystemctlReload(TRUE) /\ Goto(p, "uninstall.absent")
       \/ SystemctlReload(FALSE) /\ Finish(p, "error")
    /\ UNCHANGED fileVars

UninstallAbsent(p) ==
    /\ At(p, "uninstall.absent")
    /\ ~Loaded /\ ~Active /\ svc.pid = NoPid
    /\ Goto(p, "uninstall.descriptor")
    /\ UNCHANGED <<fileVars, managerVars>>

UninstallDescriptor(p) ==
    /\ At(p, "uninstall.descriptor")
    /\ desc = cmd[p].mine
    /\ desc' = NoDescriptor
    /\ Finish(p, "ok")
    /\ UNCHANGED <<unit, bins, binRoot, manifest, data, managerVars>>

\* Any of these steps may fail without effect and end the command.
UninstallFails(p) ==
    /\ cmd[p].step \in {"uninstall.executables", "uninstall.unit",
                        "uninstall.absent", "uninstall.descriptor"}
    /\ Fail(p, "error")

(***************************************************************************)
(* Purge: the service's data, after Uninstall; manifest last.              *)
(***************************************************************************)
BeginPurge(p) ==
    /\ Begin(p, "Purge", "purge.data", NoRelease)
    /\ manifest /\ ~Installed /\ unit = NoRelease /\ ~binRoot
    /\ UNCHANGED fileVars

PurgeData(p) ==
    /\ At(p, "purge.data")
    /\ data' = FALSE
    /\ Goto(p, "purge.manifest")
    /\ UNCHANGED <<desc, unit, bins, binRoot, manifest, managerVars>>

PurgeManifest(p) ==
    /\ At(p, "purge.manifest")
    /\ manifest' = FALSE
    /\ Finish(p, "ok")
    /\ UNCHANGED <<desc, unit, bins, binRoot, data, managerVars>>

PurgeFails(p) ==
    /\ cmd[p].step \in {"purge.data", "purge.manifest"}
    /\ Fail(p, "error")
=============================================================================
