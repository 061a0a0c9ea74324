--------------------------- MODULE LifecycleUpgrade ---------------------------
(***************************************************************************)
(* ActivateUpgrade: the pending release replaces the current one.  Every   *)
(* phase is written to the descriptor before the change it announces, so   *)
(* that what a crash leaves behind is known.  Three ways back: abort       *)
(* (nothing changed yet), restore (the previous release was stopped, the   *)
(* unit not replaced) and rollback (the candidate was started).  What      *)
(* cannot be taken back is marked as requiring recovery.                   *)
(***************************************************************************)
EXTENDS LifecycleState

\* Nothing is replaced yet, or everything is put back: the unit is the
\* previous release's.
PreviousUnitSteps == {
    "activate.status", "activate.drain", "activate.publish", "activate.resume",
    "activate.stop", "activate.stopped", "activate.previous-stopped",
    "activate.switching-unit", "abort", "restore.status", "restore.start",
    "restore.started", "restore.ready", "restore.check", "restore.clear",
    "rollback.reload", "rollback.start", "rollback.started", "rollback.ready",
    "rollback.active", "rollback.commit"}
\* The unit may be either release's.
SwitchingSteps == {"activate.unit", "activate.candidate-unit", "rollback.unit",
                   "rollback.previous-stopped"}
\* The unit is the candidate's.
CandidateUnitSteps == {
    "activate.reload", "activate.start", "activate.started",
    "activate.candidate-started", "activate.ready", "activate.check",
    "activate.commit", "rollback.stop", "rollback.stopped", "rollback.check",
    "rollback.switching-unit"}
ActivateSteps == PreviousUnitSteps \cup SwitchingSteps \cup CandidateUnitSteps
                    \cup {"abort.resume", "final-stop", "mark"}

Mine(p) == cmd[p].mine
Advance(p, step) == Goto(p, step) /\ UNCHANGED <<fileVars, managerVars>>

BeginActivate(p) ==
    /\ Begin(p, "Activate", "activate.status", NoRelease)
    /\ Verified /\ desc.pend # NoRelease
    /\ UNCHANGED fileVars

ActivateStatus(p) ==
    /\ At(p, "activate.status")
    /\ \/ Loaded /\ Observe(p, "activate.drain")
       \/ Fail(p, "error")

ActivateDrain(p) ==
    /\ At(p, "activate.drain")
    /\ \/ DrainSucceeds(p, Mine(p).cur, "activate.publish")
       \/ DrainSkipped(p, "activate.publish")
       \/ DrainFails(p, Mine(p).cur)

\* publishDescriptorTransition; a failed write resumes the drained service.
ActivatePublish(p) ==
    /\ At(p, "activate.publish")
    /\ \/ ReplaceDescriptor(p, [Mine(p) EXCEPT !.phase = "stopping-previous",
                                               !.src = cmd[p].before.pid],
                            "activate.stop")
       \/ Advance(p, "activate.resume")

ActivateResume(p) ==
    /\ At(p, "activate.resume")
    /\ FailWithResume(p)

ActivateStop(p) ==
    /\ At(p, "activate.stop")
    /\ UNCHANGED fileVars
    /\ \/ ~cmd[p].before.active /\ NoEffect /\ Goto(p, "activate.stopped")
       \/ cmd[p].before.active /\ SystemctlStop(TRUE) /\ Goto(p, "activate.stopped")
       \/ cmd[p].before.active /\ SystemctlStop(FALSE) /\ Goto(p, "restore.status")

ActivateStopped(p) ==
    /\ At(p, "activate.stopped")
    /\ \/ TerminalStopped /\ Advance(p, "activate.previous-stopped")
       \/ ~TerminalStopped /\ SameProcess(p) /\ Advance(p, "abort")
       \/ ~TerminalStopped /\ ~SameProcess(p) /\ Advance(p, "mark")
       \/ Advance(p, "restore.status")

\* A phase is published, or the failed write is marked as requiring recovery.
PublishPhase(p, at, phase, next) ==
    /\ At(p, at)
    /\ \/ ReplaceDescriptor(p, InPhase(Mine(p), phase), next)
       \/ Advance(p, "mark")

\* A mistake: the candidate's unit is announced before it is written.
ActivatePhasesEarly(p) ==
    \/ PublishPhase(p, "activate.previous-stopped", "previous-stopped",
                    "activate.switching-unit")
    \/ PublishPhase(p, "activate.switching-unit", "candidate-unit", "activate.unit")
    \/ PublishPhase(p, "activate.candidate-started", "candidate-started",
                    "activate.ready")

ActivatePhases(p) ==
    \/ PublishPhase(p, "activate.previous-stopped", "previous-stopped",
                    "activate.switching-unit")
    \/ PublishPhase(p, "activate.switching-unit", "switching-unit", "activate.unit")
    \/ PublishPhase(p, "activate.candidate-unit", "candidate-unit", "activate.reload")
    \/ PublishPhase(p, "activate.candidate-started", "candidate-started",
                    "activate.ready")

ActivateUnit(p) ==
    /\ At(p, "activate.unit")
    /\ \/ ReplaceUnit(p, Mine(p).cur, Mine(p).pend, "activate.candidate-unit")
       \/ Advance(p, "mark")

ActivateReload(p) ==
    /\ At(p, "activate.reload")
    /\ \/ SystemctlReload(TRUE) /\ Goto(p, "activate.start")
       \/ SystemctlReload(FALSE) /\ Goto(p, "mark")
    /\ UNCHANGED fileVars

ActivateStart(p) ==
    /\ At(p, "activate.start")
    /\ \/ SystemctlStart(TRUE, FreshPids) /\ Goto(p, "activate.started")
       \/ SystemctlStart(FALSE, FreshPids) /\ Goto(p, "rollback.stop")
    /\ UNCHANGED fileVars

ActivateStarted(p) ==
    /\ At(p, "activate.started")
    /\ \/ /\ Active
          /\ ~(cmd[p].before.active /\ SameProcess(p))
          /\ Advance(p, "activate.candidate-started")
       \/ Advance(p, "rollback.stop")

ActivateReady(p) ==
    /\ At(p, "activate.ready")
    /\ \/ Answers(Mine(p).pend) /\ Advance(p, "activate.check")
       \/ Advance(p, "rollback.stop")

ActivateCheck(p) ==
    /\ At(p, "activate.check")
    /\ \/ Active /\ Advance(p, "activate.commit")
       \/ Advance(p, "rollback.stop")

Committed(d) ==
    [NoDescriptor EXCEPT !.cur = d.pend, !.prev = d.cur]

ActivateCommit(p) ==
    /\ At(p, "activate.commit")
    /\ \/ CommitDescriptor(p, Committed(Mine(p)), "ok")
       \/ Advance(p, "rollback.stop")

(***************************************************************************)
(* abortUpgradeBeforeReplacement: the previous process still runs.         *)
(***************************************************************************)
Abort(p) ==
    /\ At(p, "abort")
    /\ \/ ReplaceDescriptor(p, ClearTransition(Mine(p)), "activate.resume")
       \/ Advance(p, "abort.resume")

AbortResume(p) ==
    /\ At(p, "abort.resume")
    /\ ResumeEffect(cmd[p].client)
    /\ Finish(p, "recovery")
    /\ UNCHANGED fileVars

(***************************************************************************)
(* restorePreviousBeforeReplacement.                                       *)
(***************************************************************************)
RestoreStatus(p) ==
    /\ At(p, "restore.status")
    /\ \/ SameProcess(p) /\ Advance(p, "abort")
       \/ ~SameProcess(p) /\ TerminalStopped /\ Advance(p, "restore.start")
       \/ ~SameProcess(p) /\ ~TerminalStopped /\ Advance(p, "mark")
       \/ Advance(p, "mark")

RestoreStart(p) ==
    /\ At(p, "restore.start")
    /\ \/ SystemctlStart(TRUE, FreshPids) /\ Goto(p, "restore.started")
       \/ SystemctlStart(FALSE, FreshPids) /\ Goto(p, "final-stop")
    /\ UNCHANGED fileVars

\* The same three checks as after a start: active, ready, still active.
RestoreChecks(p) ==
    \/ /\ At(p, "restore.started")
       /\ Active /\ Advance(p, "restore.ready")
    \/ /\ At(p, "restore.ready")
       /\ Answers(Mine(p).cur) /\ Advance(p, "restore.check")
    \/ /\ At(p, "restore.check")
       /\ Active /\ Advance(p, "restore.clear")
    \/ /\ cmd[p].step \in {"restore.started", "restore.ready", "restore.check"}
       /\ Advance(p, "final-stop")

\* A mistake: a transition that could not be cleared is reported as an error.
RestoreClearUnmarked(p) ==
    /\ At(p, "restore.clear")
    /\ \/ CommitDescriptor(p, ClearTransition(Mine(p)), "error")
       \/ Fail(p, "error")

RestoreClear(p) ==
    /\ At(p, "restore.clear")
    /\ \/ CommitDescriptor(p, ClearTransition(Mine(p)), "error")
       \/ Advance(p, "final-stop")

(***************************************************************************)
(* rollbackFailedCandidate.                                                *)
(***************************************************************************)
RollbackStop(p) ==
    /\ At(p, "rollback.stop")
    /\ \E ok \in BOOLEAN : SystemctlStop(ok)
    /\ Goto(p, "rollback.stopped")
    /\ UNCHANGED fileVars

RollbackStopped(p) ==
    /\ At(p, "rollback.stopped")
    /\ \/ TerminalStopped /\ Advance(p, "rollback.check")
       \/ Advance(p, "mark")

\* RollbackCheck is the caller's: it may refuse, or fail.
RollbackCheck(p) ==
    /\ At(p, "rollback.check")
    /\ Advance(p, "rollback.switching-unit") \/ Advance(p, "mark")

RollbackPhases(p) ==
    \/ PublishPhase(p, "rollback.switching-unit", "switching-unit", "rollback.unit")
    \/ PublishPhase(p, "rollback.previous-stopped", "previous-stopped",
                    "rollback.reload")

RollbackUnit(p) ==
    /\ At(p, "rollback.unit")
    /\ \/ ReplaceUnit(p, Mine(p).pend, Mine(p).cur, "rollback.previous-stopped")
       \/ Advance(p, "mark")

RollbackReload(p) ==
    /\ At(p, "rollback.reload")
    /\ \/ SystemctlReload(TRUE) /\ Goto(p, "rollback.start")
       \/ SystemctlReload(FALSE) /\ Goto(p, "mark")
    /\ UNCHANGED fileVars

RollbackStart(p) ==
    /\ At(p, "rollback.start")
    /\ \/ SystemctlStart(TRUE, FreshPids) /\ Goto(p, "rollback.started")
       \/ SystemctlStart(FALSE, FreshPids) /\ Goto(p, "final-stop")
    /\ UNCHANGED fileVars

RollbackChecks(p) ==
    \/ /\ At(p, "rollback.started")
       /\ Active /\ Advance(p, "rollback.ready")
    \/ /\ At(p, "rollback.ready")
       /\ Answers(Mine(p).cur) /\ Advance(p, "rollback.active")
    \/ /\ At(p, "rollback.active")
       /\ Active /\ Advance(p, "rollback.commit")
    \/ /\ cmd[p].step \in {"rollback.started", "rollback.ready", "rollback.active"}
       /\ Advance(p, "final-stop")

\* The candidate stays pending: it can be activated again.
RollbackCommit(p) ==
    /\ At(p, "rollback.commit")
    /\ \/ CommitDescriptor(p, ClearTransition(Mine(p)), "rolled-back")
       \/ Advance(p, "final-stop")

(***************************************************************************)
(* failPreviousRestore and failStoppedRollback stop what they started; the *)
(* status they read goes into the error.  markUpgradeRecovery ends both.   *)
(***************************************************************************)
FinalStop(p) ==
    /\ At(p, "final-stop")
    /\ \E ok \in BOOLEAN : SystemctlStop(ok)
    /\ Goto(p, "mark")
    /\ UNCHANGED fileVars

MarkUpgradeRecovery(p) ==
    /\ At(p, "mark")
    /\ \/ CommitDescriptor(p, [Mine(p) EXCEPT !.recovery = TRUE], "recovery")
       \/ Fail(p, "recovery")

ActivateNext(p) ==
    \/ BeginActivate(p)
    \/ ActivateStatus(p) \/ ActivateDrain(p) \/ ActivatePublish(p)
    \/ ActivateResume(p) \/ ActivateStop(p) \/ ActivateStopped(p)
    \/ ActivatePhases(p) \/ ActivateUnit(p) \/ ActivateReload(p)
    \/ ActivateStart(p) \/ ActivateStarted(p) \/ ActivateReady(p)
    \/ ActivateCheck(p) \/ ActivateCommit(p)
    \/ Abort(p) \/ AbortResume(p)
    \/ RestoreStatus(p) \/ RestoreStart(p) \/ RestoreChecks(p) \/ RestoreClear(p)
    \/ RollbackStop(p) \/ RollbackStopped(p) \/ RollbackCheck(p)
    \/ RollbackPhases(p) \/ RollbackUnit(p) \/ RollbackReload(p)
    \/ RollbackStart(p) \/ RollbackChecks(p) \/ RollbackCommit(p)
    \/ FinalStop(p) \/ MarkUpgradeRecovery(p)
=============================================================================
