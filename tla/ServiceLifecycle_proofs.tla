------------------------ MODULE ServiceLifecycle_proofs ------------------------
(***************************************************************************)
(* Proofs about ServiceLifecycle, for every set of releases, pids and kit  *)
(* processes.                                                              *)
(***************************************************************************)
EXTENDS ServiceLifecycle, TLAPS

CmdType == [step : Steps, op : Ops, mine : Descriptors,
            before : [active : BOOLEAN, pid : OptPid],
            client : OptPid, target : OptRelease, made : SUBSET Made]

SvcType == [state : {"inactive", "failed", "active", "stopping", "restarting"},
            pid : OptPid, rel : OptRelease,
            health : {"none", "starting", "ready", "drained"}]

LEMMA NoDescriptorType == NoDescriptor \in Descriptors
BY DEF NoDescriptor, Descriptors, OptRelease, OptPid

LEMMA IdleType == Idle \in CmdType
<1>1. [active |-> FALSE, pid |-> NoPid] \in [active : BOOLEAN, pid : OptPid]
  BY DEF OptPid
<1>2. NoRelease \in OptRelease /\ NoPid \in OptPid
  BY DEF OptRelease, OptPid
<1>3. {} \in SUBSET Made
  OBVIOUS
<1>4. "idle" \in Steps /\ "none" \in Ops
  BY DEF Steps, Ops
<1> QED
  BY NoDescriptorType, <1>1, <1>2, <1>3, <1>4, Zenon DEF Idle, CmdType

LEMMA GotoType ==
    ASSUME TypeOK, NEW p \in Procs, NEW s \in Steps, Goto(p, s)
    PROVE  cmd' \in [Procs -> CmdType] /\ lock' = lock /\ result' = result
BY DEF TypeOK, Goto, CmdType

LEMMA FinishType ==
    ASSUME TypeOK, NEW p \in Procs, NEW r \in Results, Finish(p, r)
    PROVE  /\ cmd' \in [Procs -> CmdType]
           /\ lock' \in Procs \cup {NoProc} /\ result' \in Results
BY IdleType DEF TypeOK, Finish, CmdType

LEMMA ManagerTypes ==
    ASSUME ManagerTypeOK, NEW fresh \in SUBSET Pids, NEW ok \in BOOLEAN,
           NEW on \in BOOLEAN,
           \/ SystemctlStart(ok, fresh) \/ SystemctlStop(ok)
           \/ SystemctlRestart(ok, fresh) \/ SystemctlReload(ok)
           \/ SystemctlEnable(ok, on)
           \/ ManagerUnloads \/ ManagerFinishesStop \/ ServiceCrashes
           \/ ManagerRestarts(fresh) \/ ManagerGivesUp \/ ServiceBecomesReady
           \/ Boot(fresh),
           UNCHANGED <<unit, bins>>
    PROVE  ManagerTypeOK'
<1>1. \A pid \in Pids, r \in OptRelease : Running(pid, r) \in SvcType
  BY DEF Running, SvcType, OptPid
<1>2. \A s \in {"inactive", "failed", "restarting"} : Stopped(s) \in SvcType
  BY DEF Stopped, SvcType, OptPid, OptRelease
<1>3. svc \in SvcType
  BY DEF ManagerTypeOK, SvcType
<1>4. \A next \in SvcType : SvcBecomes(next) => svc' \in SvcType /\ excused' \in BOOLEAN
  BY DEF SvcBecomes
<1>5. Resolved \in OptRelease /\ Reread \in OptRelease
  BY DEF Resolved, Reread, ManagerTypeOK, OptRelease
<1>6. SpawnEffect(fresh) => ManagerTypeOK'
  BY <1>1, <1>2, <1>4, <1>5 DEF SpawnEffect, ManagerTypeOK, SvcType
<1>7. StartEffect(fresh) \/ NoEffect => ManagerTypeOK'
  BY <1>6 DEF StartEffect, NoEffect, managerVars, ManagerTypeOK
<1>8. StopEffect => ManagerTypeOK'
  BY <1>2, <1>4 DEF StopEffect, ManagerTypeOK, SvcType
<1>9. StopPending => ManagerTypeOK'
  <2>1. [svc EXCEPT !.state = "stopping"] \in SvcType
    BY <1>3 DEF SvcType
  <2> QED
    BY <2>1, <1>4 DEF StopPending, ManagerTypeOK, SvcType
<1>10. ReloadEffect \/ EnableEffect(on) => ManagerTypeOK'
  BY <1>5 DEF ReloadEffect, EnableEffect, ManagerTypeOK
<1>11. ServiceBecomesReady => ManagerTypeOK'
  <2>1. [svc EXCEPT !.health = "ready"] \in SvcType
    BY <1>3 DEF SvcType
  <2> QED
    BY <2>1, <1>4 DEF ServiceBecomesReady, ManagerTypeOK, SvcType
<1>12. ServiceCrashes \/ ManagerGivesUp => ManagerTypeOK'
  BY <1>2, <1>4 DEF ServiceCrashes, ManagerGivesUp, ManagerTypeOK, SvcType
<1>13. ManagerUnloads => ManagerTypeOK'
  BY DEF ManagerUnloads, ManagerTypeOK, OptRelease
<1>14. Boot(fresh) => ManagerTypeOK'
  <2>1. Boot(fresh) => svc' \in SvcType
    BY <1>1, <1>2 DEF Boot, ManagerTypeOK
  <2>2. Boot(fresh) => loaded' \in OptRelease
    BY DEF Boot, ManagerTypeOK, OptRelease
  <2> QED
    BY <2>1, <2>2 DEF Boot, ManagerTypeOK, SvcType
<1>15. StartPending => ManagerTypeOK'
  BY <1>2, <1>4, <1>5 DEF StartPending, ManagerTypeOK, SvcType
<1>16. SystemctlRestart(ok, fresh) => ManagerTypeOK'
  BY <1>6, <1>7, <1>9, <1>15 DEF SystemctlRestart, ManagerTypeOK
<1> QED
  BY <1>6, <1>7, <1>8, <1>9, <1>10, <1>11, <1>12, <1>13, <1>14, <1>15, <1>16
     DEF SystemctlStart, SystemctlStop, SystemctlReload, SystemctlEnable,
         ManagerFinishesStop, ManagerRestarts

FilesTypeOK ==
    /\ desc \in Descriptors
    /\ unit \in OptRelease
    /\ bins \in [Releases -> {"absent", "directory", "file"}]
    /\ binRoot \in BOOLEAN /\ manifest \in BOOLEAN /\ data \in BOOLEAN

ControlTypeOK ==
    /\ lock \in Procs \cup {NoProc}
    /\ cmd \in [Procs -> CmdType]
    /\ result \in Results

LEMMA TypeParts ==
    /\ TypeOK <=> ManagerTypeOK /\ FilesTypeOK /\ ControlTypeOK
    /\ TypeOK' <=> ManagerTypeOK' /\ FilesTypeOK' /\ ControlTypeOK'
BY DEF TypeOK, ManagerTypeOK, FilesTypeOK, ControlTypeOK, CmdType

LEMMA ManagerStutters ==
    ASSUME ManagerTypeOK, UNCHANGED managerVars, unit' \in OptRelease,
           bins' \in [Releases -> {"absent", "directory", "file"}]
    PROVE  ManagerTypeOK'
BY DEF ManagerTypeOK, managerVars

LEMMA BeginType ==
    ASSUME TypeOK, NEW p \in Procs, NEW o \in Ops, NEW s \in Steps,
           NEW r \in OptRelease, Begin(p, o, s, r)
    PROVE  ControlTypeOK' /\ UNCHANGED managerVars
<1>1. [Idle EXCEPT !.op = o, !.step = s, !.mine = desc, !.target = r] \in CmdType
  BY IdleType DEF TypeOK, CmdType
<1> QED
  BY <1>1, TypeParts DEF ControlTypeOK, Begin, Results

LEMMA MakeType ==
    ASSUME TypeOK, NEW p \in Procs, NEW f \in Made, NEW s \in Steps,
           MakeAndGoto(p, f, s)
    PROVE  ControlTypeOK'
BY TypeParts DEF ControlTypeOK, MakeAndGoto, CmdType

LEMMA CopyType ==
    ASSUME TypeOK, NEW p \in Procs, NEW s \in Steps,
           CopyExecutable(p, s) \/ CopyFails(p)
    PROVE  TypeOK'
<1>1. ControlTypeOK'
  BY TypeParts, MakeType, FinishType
     DEF CopyExecutable, CopyFails, Made, Results, ControlTypeOK
<1>2. FilesTypeOK' /\ UNCHANGED managerVars
  BY TypeParts DEF CopyExecutable, CopyFails, FilesTypeOK
<1> QED
  BY <1>1, <1>2, TypeParts, ManagerStutters DEF FilesTypeOK

LEMMA FilesStutter == ASSUME TypeOK, UNCHANGED fileVars PROVE FilesTypeOK'
BY TypeParts DEF fileVars, FilesTypeOK

LEMMA FailType ==
    ASSUME TypeOK, NEW p \in Procs, NEW r \in Results, Fail(p, r)
    PROVE  TypeOK'
BY TypeParts, FinishType, FilesStutter, ManagerStutters
   DEF Fail, fileVars, FilesTypeOK, ControlTypeOK

LEMMA AdvanceType ==
    ASSUME TypeOK, NEW p \in Procs, NEW s \in Steps, Goto(p, s),
           UNCHANGED <<fileVars, managerVars>>
    PROVE  TypeOK'
<1>1. UNCHANGED fileVars /\ UNCHANGED managerVars
  OBVIOUS
<1> QED
  BY <1>1, TypeParts, GotoType, FilesStutter, ManagerStutters
     DEF FilesTypeOK, ControlTypeOK

LEMMA VerbType ==
    ASSUME TypeOK, NEW p \in Procs, NEW s \in Steps, NEW r \in Results,
           NEW ok \in BOOLEAN, NEW on \in BOOLEAN,
           \/ SystemctlStart(ok, FreshPids) \/ SystemctlStop(ok)
           \/ SystemctlRestart(ok, FreshPids) \/ SystemctlReload(ok)
           \/ SystemctlEnable(ok, on) \/ NoEffect,
           Goto(p, s) \/ Finish(p, r),
           UNCHANGED fileVars
    PROVE  TypeOK'
<1>1. FreshPids \in SUBSET Pids
  BY DEF FreshPids
<1>2. UNCHANGED <<unit, bins>>
  BY DEF fileVars
<1>3. FilesTypeOK'
  BY FilesStutter
<1>4. NoEffect => ManagerTypeOK'
  BY <1>3, TypeParts, ManagerStutters DEF NoEffect, FilesTypeOK
<1>5. ManagerTypeOK'
  BY <1>1, <1>2, <1>4, TypeParts, ManagerTypes
<1> QED
  BY <1>3, <1>5, TypeParts, GotoType, FinishType DEF ControlTypeOK

LEMMA DescriptorTypes ==
    ASSUME NEW d \in Descriptors
    PROVE  /\ \A ph \in Phases : InPhase(d, ph) \in Descriptors
           /\ ClearTransition(d) \in Descriptors
           /\ Committed(d) \in Descriptors
           /\ [d EXCEPT !.recovery = TRUE] \in Descriptors
           /\ \A r \in OptRelease : [d EXCEPT !.pend = r] \in Descriptors
           /\ \A pid \in OptPid :
                [d EXCEPT !.phase = "stopping-previous", !.src = pid] \in Descriptors
           /\ \A r \in OptRelease : [NoDescriptor EXCEPT !.cur = r] \in Descriptors
<1>1. NoPid \in OptPid /\ "none" \in Phases \cup {"none"} /\ "stopping-previous" \in Phases
  BY DEF OptPid, Phases
<1>2. NoDescriptor \in Descriptors
  BY NoDescriptorType
<1>3. Committed(d) \in Descriptors
  BY <1>2 DEF Committed, Descriptors
<1> QED
  BY <1>1, <1>2, <1>3 DEF Descriptors, InPhase, ClearTransition

LEMMA WriteType ==
    ASSUME TypeOK, NEW p \in Procs, NEW s \in Steps, NEW r \in Results,
           NEW d \in Descriptors,
           ReplaceDescriptor(p, d, s) \/ CommitDescriptor(p, d, r)
    PROVE  TypeOK'
<1> USE TypeParts
<1>1. CASE ReplaceDescriptor(p, d, s)
  <2>1. ControlTypeOK'
    BY <1>1 DEF ReplaceDescriptor, ControlTypeOK, CmdType
  <2>2. FilesTypeOK' /\ UNCHANGED managerVars
    BY <1>1 DEF ReplaceDescriptor, FilesTypeOK
  <2> QED
    BY <2>1, <2>2, ManagerStutters DEF FilesTypeOK
<1>2. CASE CommitDescriptor(p, d, r)
  <2>1. ControlTypeOK'
    BY <1>2, FinishType DEF CommitDescriptor, ControlTypeOK
  <2>2. FilesTypeOK' /\ UNCHANGED managerVars
    BY <1>2 DEF CommitDescriptor, FilesTypeOK
  <2> QED
    BY <2>1, <2>2, ManagerStutters DEF FilesTypeOK
<1> QED
  BY <1>1, <1>2

LEMMA UnitType ==
    ASSUME TypeOK, NEW p \in Procs, NEW s \in Steps, NEW a, NEW b \in OptRelease,
           ReplaceUnit(p, a, b, s)
    PROVE  TypeOK'
<1>1. FilesTypeOK' /\ UNCHANGED managerVars
  BY TypeParts DEF ReplaceUnit, FilesTypeOK
<1> QED
  BY <1>1, TypeParts, GotoType, ManagerStutters
     DEF ReplaceUnit, FilesTypeOK, ControlTypeOK

LEMMA ResumeType ==
    ASSUME TypeOK, NEW c, ResumeEffect(c), UNCHANGED fileVars
    PROVE  ManagerTypeOK' /\ FilesTypeOK'
<1>1. [svc EXCEPT !.health = "ready"] \in SvcType /\ svc \in SvcType
  BY DEF TypeOK, ManagerTypeOK, SvcType
<1>2. svc' \in SvcType /\ excused' \in BOOLEAN
  BY <1>1 DEF ResumeEffect, SvcBecomes, TypeOK, ManagerTypeOK
<1> QED
  BY <1>2, FilesStutter DEF ResumeEffect, TypeOK, ManagerTypeOK, SvcType, fileVars

LEMMA ObserveType ==
    ASSUME TypeOK, NEW p \in Procs, NEW s \in Steps, Observe(p, s)
    PROVE  TypeOK'
<1>1. [active |-> Active, pid |-> svc.pid] \in [active : BOOLEAN, pid : OptPid]
  BY DEF TypeOK, ManagerTypeOK, Active
<1>2. ControlTypeOK'
  BY <1>1, TypeParts DEF Observe, ControlTypeOK, CmdType
<1>3. UNCHANGED fileVars /\ UNCHANGED managerVars
  BY DEF Observe
<1> QED
  BY <1>2, <1>3, TypeParts, FilesStutter, ManagerStutters DEF FilesTypeOK

LEMMA DrainType ==
    ASSUME TypeOK, NEW p \in Procs, NEW s \in Steps, NEW e,
           DrainSucceeds(p, e, s) \/ DrainSkipped(p, s) \/ DrainFails(p, e)
    PROVE  TypeOK'
<1>1. /\ svc \in SvcType
      /\ [svc EXCEPT !.health = "ready"] \in SvcType
      /\ [svc EXCEPT !.health = "drained"] \in SvcType
  BY DEF TypeOK, ManagerTypeOK, SvcType
<1>2. CASE DrainSucceeds(p, e, s)
  <2>1. ControlTypeOK'
    <3>1. svc.pid \in OptPid
      BY <1>1 DEF SvcType
    <3> QED
      BY <3>1, <1>2, TypeParts DEF DrainSucceeds, ControlTypeOK, CmdType
  <2>2. svc' \in SvcType /\ excused' \in BOOLEAN
    BY <1>1, <1>2 DEF DrainSucceeds, SvcBecomes
  <2> QED
    BY <2>1, <2>2, <1>2, FilesStutter, TypeParts
       DEF DrainSucceeds, ManagerTypeOK, SvcType, fileVars
<1>3. CASE DrainSkipped(p, s)
  BY <1>3, AdvanceType DEF DrainSkipped
<1>4. CASE DrainFails(p, e)
  <2>1. svc' \in SvcType /\ excused' \in BOOLEAN /\ UNCHANGED <<loaded, enabled>>
    BY <1>1, <1>4 DEF DrainFails, SvcBecomes, managerVars, TypeOK, ManagerTypeOK
  <2>2. FilesTypeOK' /\ ControlTypeOK'
    BY <1>4, FilesStutter, FinishType DEF DrainFails, ControlTypeOK, Results
  <2> QED
    BY <2>1, <2>2, <1>4, TypeParts DEF DrainFails, ManagerTypeOK, SvcType, fileVars
<1> QED
  BY <1>2, <1>3, <1>4

LEMMA InstallTypes ==
    ASSUME TypeOK, NEW p \in Procs, InstallNext(p)
    PROVE  TypeOK'
<1> USE TypeParts
<1>1. InstallSteps \subseteq Steps
  BY DEF Steps
<1>2. CASE InstallPreparesDirectories(p)
  BY <1>2, ManagerStutters DEF InstallPreparesDirectories, FilesTypeOK, ControlTypeOK
<1>3. ASSUME NEW r \in Releases, BeginInstall(p, r) \/ BeginReinstall(p, r)
      PROVE  TypeOK'
  <2>1. ControlTypeOK' /\ UNCHANGED managerVars
    BY <1>1, <1>3, BeginType DEF BeginInstall, BeginReinstall, InstallSteps, Ops, OptRelease
  <2> QED
    BY <2>1, <1>3, ManagerStutters DEF BeginInstall, BeginReinstall, FilesTypeOK
<1>4. CASE InstallCopy(p)
  BY <1>1, <1>4, CopyType DEF InstallCopy, InstallSteps
<1>5. CASE InstallWriteUnit(p)
  <2>1. ControlTypeOK'
    BY <1>1, <1>5, MakeType DEF InstallWriteUnit, InstallSteps, Made
  <2>2. unit' \in OptRelease
    BY <1>5 DEF InstallWriteUnit, ControlTypeOK, CmdType
  <2> QED
    BY <2>1, <2>2, <1>5, ManagerStutters DEF InstallWriteUnit, FilesTypeOK
<1>6. CASE InstallWriteDescriptor(p)
  <2>1. ControlTypeOK'
    BY <1>1, <1>6, MakeType DEF InstallWriteDescriptor, InstallSteps, Made
  <2>2. cmd[p].target \in OptRelease
    BY DEF ControlTypeOK, CmdType
  <2>3. desc' \in Descriptors
    BY <2>2, <1>6, DescriptorTypes, NoDescriptorType DEF InstallWriteDescriptor
  <2> QED
    BY <2>1, <2>3, <1>6, ManagerStutters DEF InstallWriteDescriptor, FilesTypeOK
<1>7. CASE InstallWriteManifest(p)
  <2>1. ControlTypeOK'
    BY <1>1, <1>7, MakeType, GotoType
       DEF InstallWriteManifest, InstallSteps, Made, ControlTypeOK
  <2> QED
    BY <2>1, <1>7, ManagerStutters DEF InstallWriteManifest, FilesTypeOK
<1>8. CASE InstallStepFails(p)
  <2>1. ControlTypeOK' /\ UNCHANGED managerVars
    BY <1>1, <1>8, GotoType DEF InstallStepFails, InstallSteps, ControlTypeOK
  <2>2. cmd[p].target \in OptRelease
    BY DEF ControlTypeOK, CmdType
  <2>3. FilesTypeOK'
    BY <2>2, <1>8, DescriptorTypes, NoDescriptorType
       DEF InstallStepFails, LinkedUnrecorded, FilesTypeOK
  <2> QED
    BY <2>1, <2>3, ManagerStutters DEF FilesTypeOK
<1>9. CASE InstallReload(p)
  BY <1>1, <1>9, VerbType DEF InstallReload, InstallSteps, Results
<1>10. CASE InstallUndo(p)
  <2>1. CASE Fail(p, "error")
    BY <2>1, FailType DEF Results
  <2>2. CASE \E file \in Made : UndoNext(p, file)
    <3>1. PICK file \in Made : UndoNext(p, file)
      BY <2>2
    <3>2. ControlTypeOK' /\ UNCHANGED managerVars
      BY <3>1 DEF UndoNext, ControlTypeOK, CmdType
    <3>3. FilesTypeOK'
      BY <3>1, <1>10, NoDescriptorType
         DEF InstallUndo, UndoNext, FilesTypeOK, OptRelease, Fail, Finish, fileVars
    <3> QED
      BY <3>2, <3>3, ManagerStutters DEF FilesTypeOK
  <2> QED
    BY <2>1, <2>2, <1>10 DEF InstallUndo, Made
<1> QED
  BY <1>2, <1>3, <1>4, <1>5, <1>6, <1>7, <1>8, <1>9, <1>10 DEF InstallNext

LEMMA StageTypes ==
    ASSUME TypeOK, NEW p \in Procs, StageNext(p)
    PROVE  TypeOK'
<1> USE TypeParts
<1>1. StageSteps \subseteq Steps
  BY DEF Steps
<1>2. ASSUME NEW r \in Releases, BeginStage(p, r)
      PROVE  TypeOK'
  BY <1>1, <1>2, BeginType, FilesStutter, ManagerStutters
     DEF BeginStage, StageSteps, Ops, OptRelease, FilesTypeOK
<1>3. CASE StageCopy(p)
  BY <1>1, <1>3, CopyType, AdvanceType DEF StageCopy, StageSteps
<1>4. CASE StagePublish(p)
  <2>1. [cmd[p].mine EXCEPT !.pend = cmd[p].target] \in Descriptors
    BY DescriptorTypes DEF ControlTypeOK, CmdType
  <2> QED
    BY <2>1, <1>1, <1>4, WriteType DEF StagePublish, Results, StageSteps
<1>5. CASE StageFails(p)
  <2>1. ControlTypeOK'
    BY <1>5, FinishType DEF StageFails, Results, ControlTypeOK
  <2> QED
    BY <2>1, <1>5, ManagerStutters DEF StageFails, FilesTypeOK
<1> QED
  BY <1>2, <1>3, <1>4, <1>5 DEF StageNext

LEMMA ControlTypes ==
    ASSUME TypeOK, NEW p \in Procs, BeginControl(p) \/ ControlNext(p)
    PROVE  TypeOK'
<1> USE TypeParts
<1>1. ControlSteps \subseteq Steps
  BY DEF Steps
<1>2. ASSUME NEW o \in Ops, NEW s \in Steps, BeginCommand(p, o, s)
      PROVE  TypeOK'
  BY <1>2, BeginType, FilesStutter, ManagerStutters
     DEF BeginCommand, OptRelease, FilesTypeOK
<1>3. CASE BeginControl(p)
  BY <1>1, <1>2, <1>3 DEF BeginControl, Ops, ControlSteps
<1>4. CASE StartStatus(p) \/ EnableStatus(p) \/ AwaitReady(p)
  BY <1>1, <1>4, AdvanceType, FailType
     DEF StartStatus, EnableStatus, AwaitReady, ControlSteps, Results
<1>5. CASE StartedStatus(p) \/ EnableCheck(p)
  BY <1>5, FailType DEF StartedStatus, EnableCheck, Results
<1>6. CASE StartCommand(p)
  BY <1>1, <1>6, VerbType DEF StartCommand, ControlSteps, Results
<1>7. CASE EnableCommand(p)
  BY <1>1, <1>7, VerbType DEF EnableCommand, ControlSteps, Results
<1>8. CASE StopStatus(p) \/ RestartStatus(p)
  BY <1>1, <1>8, ObserveType, FailType DEF StopStatus, RestartStatus, ControlSteps, Results
<1>9. CASE Drain(p)
  BY <1>1, <1>9, DrainType DEF Drain, ControlSteps
<1>10. CASE ResumeAfterFailure(p)
  BY <1>10, ResumeType, FinishType
     DEF ResumeAfterFailure, FailWithResume, Results, ControlTypeOK
<1>11. CASE StopCommand(p) \/ RestartCommand(p)
  BY <1>1, <1>11, VerbType DEF StopCommand, RestartCommand, ControlSteps, Results
<1>12. CASE StopCheck(p)
  BY <1>1, <1>12, AdvanceType, FailType DEF StopCheck, ControlSteps, Results
<1>13. CASE RestartCheck(p)
  <2>1. CASE Finish(p, "error") /\ UNCHANGED <<fileVars, loaded, enabled, svc>>
             /\ excused' = (excused \/ svc.health = "drained")
    BY <2>1, FinishType, FilesStutter
       DEF Results, ControlTypeOK, ManagerTypeOK, fileVars
  <2> QED
    BY <2>1, <1>1, <1>13, AdvanceType, FailType DEF RestartCheck, ControlSteps, Results
<1> QED
  BY <1>3, <1>4, <1>5, <1>6, <1>7, <1>8, <1>9, <1>10, <1>11, <1>12, <1>13
     DEF ControlNext

LEMMA UninstallTypes ==
    ASSUME TypeOK, NEW p \in Procs, UninstallNext(p)
    PROVE  TypeOK'
<1> USE TypeParts
<1>1. UninstallSteps \subseteq Steps /\ "resume" \in Steps
  BY DEF Steps, ControlSteps
<1>2. CASE BeginUninstall(p)
  BY <1>1, <1>2, BeginType, FilesStutter, ManagerStutters
     DEF BeginUninstall, UninstallSteps, Ops, OptRelease, FilesTypeOK
<1>3. CASE UninstallStatus(p)
  BY <1>1, <1>3, ObserveType, AdvanceType, FailType
     DEF UninstallStatus, UninstallSteps, Results
<1>4. CASE UninstallDrain(p)
  BY <1>1, <1>4, DrainType DEF UninstallDrain, UninstallSteps
<1>5. CASE UninstallDisable(p)
  BY <1>1, <1>5, VerbType DEF UninstallDisable, UninstallSteps, Results
<1>6. CASE UninstallStop(p)
  BY <1>1, <1>6, VerbType DEF UninstallStop, UninstallSteps, Results
<1>7. CASE UninstallStopped(p) \/ UninstallAbsent(p) \/ UninstallFails(p)
  BY <1>1, <1>7, AdvanceType, FailType
     DEF UninstallStopped, UninstallAbsent, UninstallFails, UninstallSteps, Results
<1>8. CASE UninstallExecutable(p)
  <2>1. ControlTypeOK'
    BY <1>8, FinishType DEF UninstallExecutable, Results, ControlTypeOK
  <2>2. FilesTypeOK' /\ UNCHANGED managerVars
    BY <1>8 DEF UninstallExecutable, FilesTypeOK
  <2> QED
    BY <2>1, <2>2, ManagerStutters DEF FilesTypeOK
<1>9. CASE UninstallBinaryDirectory(p) \/ UninstallUnit(p)
  <2>1. ControlTypeOK'
    BY <1>1, <1>9, GotoType
       DEF UninstallBinaryDirectory, UninstallUnit, UninstallSteps, ControlTypeOK
  <2>2. FilesTypeOK' /\ UNCHANGED managerVars
    BY <1>9 DEF UninstallBinaryDirectory, UninstallUnit, FilesTypeOK, OptRelease
  <2> QED
    BY <2>1, <2>2, ManagerStutters DEF FilesTypeOK
<1>10. CASE UninstallReload(p)
  BY <1>1, <1>10, VerbType DEF UninstallReload, UninstallSteps, Results
<1>11. CASE UninstallDescriptor(p)
  <2>1. ControlTypeOK' /\ FilesTypeOK' /\ UNCHANGED managerVars
    BY <1>11, FinishType, NoDescriptorType
       DEF UninstallDescriptor, Results, ControlTypeOK, FilesTypeOK
  <2> QED
    BY <2>1, ManagerStutters DEF FilesTypeOK
<1> QED
  BY <1>2, <1>3, <1>4, <1>5, <1>6, <1>7, <1>8, <1>9, <1>10, <1>11 DEF UninstallNext

LEMMA PurgeTypes ==
    ASSUME TypeOK, NEW p \in Procs, PurgeNext(p)
    PROVE  TypeOK'
<1> USE TypeParts
<1>1. PurgeSteps \subseteq Steps
  BY DEF Steps
<1>2. CASE BeginPurge(p)
  BY <1>1, <1>2, BeginType, FilesStutter, ManagerStutters
     DEF BeginPurge, PurgeSteps, Ops, OptRelease, FilesTypeOK
<1>3. CASE PurgeData(p) \/ PurgeManifest(p)
  <2>1. ControlTypeOK'
    BY <1>1, <1>3, GotoType, FinishType
       DEF PurgeData, PurgeManifest, PurgeSteps, Results, ControlTypeOK
  <2>2. FilesTypeOK' /\ UNCHANGED managerVars
    BY <1>3 DEF PurgeData, PurgeManifest, FilesTypeOK
  <2> QED
    BY <2>1, <2>2, ManagerStutters DEF FilesTypeOK
<1>4. CASE PurgeFails(p)
  BY <1>4, FailType DEF PurgeFails, Results
<1> QED
  BY <1>2, <1>3, <1>4 DEF PurgeNext

LEMMA ActivateTypes ==
    ASSUME TypeOK, NEW p \in Procs, ActivateNext(p)
    PROVE  TypeOK'
<1> USE TypeParts
<1>1. ActivateSteps \subseteq Steps
  BY DEF Steps
<1>2. Mine(p) \in Descriptors /\ Mine(p).cur \in OptRelease /\ Mine(p).pend \in OptRelease
      /\ cmd[p].before.pid \in OptPid
  BY DEF Mine, ControlTypeOK, CmdType, Descriptors
<1> USE DEF ActivateSteps, PreviousUnitSteps, SwitchingSteps, CandidateUnitSteps, Results
<1>3. CASE BeginActivate(p)
  BY <1>1, <1>3, BeginType, FilesStutter, ManagerStutters
     DEF BeginActivate, Ops, OptRelease, FilesTypeOK
<1>4. CASE ActivateStatus(p)
  BY <1>1, <1>4, ObserveType, FailType DEF ActivateStatus
<1>5. CASE ActivateDrain(p)
  BY <1>1, <1>5, DrainType DEF ActivateDrain
<1>6. ASSUME NEW s \in ActivateSteps, Advance(p, s)
      PROVE  TypeOK'
  BY <1>1, <1>6, AdvanceType DEF Advance
<1>7. CASE ActivatePublish(p)
  BY <1>1, <1>2, <1>6, <1>7, DescriptorTypes, WriteType DEF ActivatePublish
<1>8. CASE ActivateResume(p) \/ AbortResume(p)
  BY <1>8, ResumeType, FinishType
     DEF ActivateResume, AbortResume, FailWithResume, ControlTypeOK
<1>9. CASE \/ ActivateStop(p) \/ ActivateReload(p) \/ ActivateStart(p)
           \/ RestoreStart(p) \/ RollbackStop(p) \/ RollbackReload(p)
           \/ RollbackStart(p) \/ FinalStop(p)
  BY <1>1, <1>9, VerbType
     DEF ActivateStop, ActivateReload, ActivateStart, RestoreStart, RollbackStop,
         RollbackReload, RollbackStart, FinalStop
<1>10. CASE \/ ActivateStopped(p) \/ ActivateStarted(p) \/ ActivateReady(p)
            \/ ActivateCheck(p) \/ RestoreStatus(p) \/ RestoreChecks(p)
            \/ RollbackStopped(p) \/ RollbackCheck(p) \/ RollbackChecks(p)
  BY <1>6, <1>10
     DEF ActivateStopped, ActivateStarted, ActivateReady, ActivateCheck,
         RestoreStatus, RestoreChecks, RollbackStopped, RollbackCheck, RollbackChecks
<1>11. ASSUME NEW at, NEW ph \in Phases, NEW s \in ActivateSteps,
              PublishPhase(p, at, ph, s)
       PROVE  TypeOK'
  BY <1>1, <1>2, <1>6, <1>11, DescriptorTypes, WriteType DEF PublishPhase
<1>12. CASE ActivatePhases(p) \/ RollbackPhases(p)
  BY <1>11, <1>12 DEF ActivatePhases, RollbackPhases, Phases
<1>13. CASE ActivateUnit(p) \/ RollbackUnit(p)
  BY <1>1, <1>2, <1>6, <1>13, UnitType DEF ActivateUnit, RollbackUnit
<1>14. CASE ActivateCommit(p) \/ RestoreClear(p) \/ RollbackCommit(p)
  BY <1>1, <1>2, <1>6, <1>14, DescriptorTypes, WriteType
     DEF ActivateCommit, RestoreClear, RollbackCommit
<1>15. CASE Abort(p)
  BY <1>1, <1>2, <1>6, <1>15, DescriptorTypes, WriteType DEF Abort
<1>16. CASE MarkUpgradeRecovery(p)
  BY <1>1, <1>2, <1>16, DescriptorTypes, WriteType, FailType DEF MarkUpgradeRecovery
<1> QED
  BY <1>3, <1>4, <1>5, <1>7, <1>8, <1>9, <1>10, <1>12, <1>13, <1>14, <1>15, <1>16
     DEF ActivateNext

LEMMA TypeInit == LifecycleInit => TypeOK
<1> SUFFICES ASSUME LifecycleInit PROVE TypeOK
  OBVIOUS
<1>1. ControlTypeOK
  BY IdleType DEF LifecycleInit, ControlTypeOK, Results
<1>2. FilesTypeOK
  BY NoDescriptorType DEF LifecycleInit, FilesTypeOK, OptRelease
<1>3. Stopped("inactive") \in SvcType
  BY DEF Stopped, SvcType, OptPid, OptRelease
<1>4. ManagerTypeOK
  BY <1>2, <1>3 DEF LifecycleInit, ManagerInit, ManagerTypeOK, FilesTypeOK, SvcType, OptRelease
<1> QED
  BY <1>1, <1>2, <1>4, TypeParts

LEMMA TypeNext == TypeOK /\ [Next]_vars => TypeOK'
<1> SUFFICES ASSUME TypeOK, [Next]_vars PROVE TypeOK'
  OBVIOUS
<1> USE TypeParts
<1>0. FreshPids \in SUBSET Pids
  BY DEF FreshPids
<1>1. CASE UNCHANGED vars
  <2>1. UNCHANGED fileVars /\ UNCHANGED managerVars /\ UNCHANGED <<lock, cmd, result>>
    BY <1>1 DEF vars
  <2> QED
    BY <2>1, FilesStutter, ManagerStutters DEF FilesTypeOK, ControlTypeOK
<1>2. ASSUME NEW p \in Procs, CommandNext(p)
      PROVE  TypeOK'
  BY <1>2, InstallTypes, StageTypes, ControlTypes, UninstallTypes, PurgeTypes,
     ActivateTypes DEF CommandNext
<1>3. ASSUME NEW p \in Procs, KitCrash(p)
      PROVE  TypeOK'
  BY <1>3, FinishType, FilesStutter
     DEF KitCrash, Results, ControlTypeOK, ManagerTypeOK, fileVars
<1>4. CASE Environment
  <2>1. CASE ServiceWritesData
    <3>1. FilesTypeOK' /\ UNCHANGED managerVars
      BY <2>1 DEF ServiceWritesData, FilesTypeOK
    <3> QED
      BY <3>1, <1>4, ManagerStutters DEF Environment, FilesTypeOK, ControlTypeOK
  <2>2. CASE UNCHANGED fileVars
    <3>1. FilesTypeOK' /\ UNCHANGED <<unit, bins>>
      BY <2>2, FilesStutter DEF fileVars
    <3>2. ManagerTypeOK'
      BY <3>1, <1>0, <1>4, ManagerTypes, ManagerStutters
         DEF Environment, ServiceWritesData, FilesTypeOK
    <3> QED
      BY <3>1, <3>2, <1>4 DEF Environment, ControlTypeOK
  <2> QED
    BY <2>1, <2>2, <1>4 DEF Environment
<1>5. CASE Reboot
  <2>1. FilesTypeOK' /\ UNCHANGED <<unit, bins>>
    BY <1>5, FilesStutter DEF Reboot, fileVars
  <2>2. ManagerTypeOK'
    BY <2>1, <1>0, <1>5, ManagerTypes DEF Reboot
  <2>3. ControlTypeOK'
    BY <1>5, IdleType DEF Reboot, ControlTypeOK, Results
  <2> QED
    BY <2>1, <2>2, <2>3
<1> QED
  BY <1>1, <1>2, <1>3, <1>4, <1>5 DEF Next

\* Whatever the commands, the manager and crashes do, every variable keeps its
\* type: in particular the descriptor on disk is always one the code can read.
THEOREM TypeCorrect == Spec => []TypeOK
BY TypeInit, TypeNext, PTL DEF Spec

(***************************************************************************)
(* The unit on disk is always one the descriptor announces.  The phase     *)
(* alone does not say it is: what makes the invariant inductive is that    *)
(* only the holder of the lock is between two writes, that its copy of the *)
(* descriptor is the one on disk, and where in the switch it stands.       *)
(***************************************************************************)
OneCommand == \A p \in Procs : ~At(p, "idle") => lock = p

StandsAt(c) ==
    /\ c.step \in StageSteps \cup ActivateSteps => c.mine = desc
    /\ c.step \in StageSteps \cup PreviousUnitSteps => UsesCurrentUnit(desc)
    /\ c.step \in SwitchingSteps => desc.phase = "switching-unit"
    /\ c.step \in CandidateUnitSteps => desc.phase \in {"candidate-unit", "candidate-started"}
    /\ c.step = "activate.candidate-unit" => unit = desc.pend
    /\ c.step = "rollback.previous-stopped" => unit = desc.cur
    /\ c.step \in {"install.copy", "install.unit", "install.descriptor"} => ~Installed
    /\ c.step = "install.descriptor" => unit = c.target

TransitionInstalled == desc.phase # "none" => Installed

UnitInv ==
    /\ TypeOK
    /\ OneCommand
    /\ TransitionInstalled
    /\ \A p \in Procs : StandsAt(cmd[p])
    /\ UnitMatchesPhase

\* A step of the lock holder that writes neither file.
LEMMA MoveKeeps ==
    ASSUME UnitInv, TypeOK', NEW p \in Procs, ~At(p, "idle"),
           UNCHANGED <<desc, unit>>,
           \A q \in Procs \ {p} : cmd'[q] = cmd[q],
           lock' = lock \/ cmd'[p].step = "idle",
           StandsAt(cmd'[p])
    PROVE  UnitInv'
<1>1. \A q \in Procs \ {p} : cmd[q].step = "idle"
  BY ProcsAssumption DEF UnitInv, OneCommand, At
<1>2. OneCommand'
  BY <1>1 DEF UnitInv, OneCommand, At
<1>3. \A q \in Procs : StandsAt(cmd[q])'
  BY DEF UnitInv, StandsAt, Installed, UsesCurrentUnit
<1> QED
  BY <1>2, <1>3 DEF UnitInv, TransitionInstalled, UnitMatchesPhase, Installed, ExpectedUnits,
     UsesCurrentUnit

LEMMA FinishKeeps ==
    ASSUME UnitInv, TypeOK', NEW p \in Procs, NEW r, ~At(p, "idle"),
           UNCHANGED <<desc, unit>>, Finish(p, r)
    PROVE  UnitInv'
<1>1. StandsAt(Idle)
  BY DEF StandsAt, Idle, StageSteps, ActivateSteps, PreviousUnitSteps,
         SwitchingSteps, CandidateUnitSteps
<1>2. cmd'[p] = Idle /\ \A q \in Procs \ {p} : cmd'[q] = cmd[q]
  BY DEF Finish, UnitInv, TypeOK
<1> QED
  BY <1>1, <1>2, MoveKeeps DEF Idle

LEMMA GotoKeeps ==
    ASSUME UnitInv, TypeOK', NEW p \in Procs, NEW s, ~At(p, "idle"),
           UNCHANGED <<desc, unit>>, Goto(p, s),
           StandsAt([cmd[p] EXCEPT !.step = s])
    PROVE  UnitInv'
<1>1. /\ cmd'[p] = [cmd[p] EXCEPT !.step = s]
      /\ \A q \in Procs \ {p} : cmd'[q] = cmd[q]
  BY DEF Goto, UnitInv, TypeOK
<1> QED
  BY <1>1, MoveKeeps DEF Goto

\* Steps at which the invariant asks nothing.
FreeSteps == {"install.manifest", "install.reload", "install.undo",
              "idle"} \cup ControlSteps \cup UninstallSteps \cup PurgeSteps

LEMMA FreeStands ==
    ASSUME NEW c, c.step \in FreeSteps
    PROVE  StandsAt(c)
BY DEF StandsAt, FreeSteps, ControlSteps, UninstallSteps, PurgeSteps, StageSteps,
       ActivateSteps, PreviousUnitSteps, SwitchingSteps, CandidateUnitSteps

\* A step of the lock holder to a place where the invariant asks nothing.
LEMMA FreeKeeps ==
    ASSUME UnitInv, TypeOK', NEW p \in Procs, ~At(p, "idle"),
           UNCHANGED <<desc, unit>>,
           \/ \E s \in FreeSteps : Goto(p, s)
           \/ \E s \in FreeSteps : Observe(p, s)
           \/ \E s \in FreeSteps : \E e : DrainSucceeds(p, e, s) \/ DrainFails(p, e)
           \/ \E s \in FreeSteps : DrainSkipped(p, s)
           \/ \E s \in FreeSteps, f \in Made : MakeAndGoto(p, f, s)
           \/ \E r : Finish(p, r)
    PROVE  UnitInv'
<1>1. CASE \E r : Finish(p, r)
  BY <1>1, FinishKeeps
<1>2. CASE \E e : DrainFails(p, e)
  BY <1>2, FinishKeeps DEF DrainFails
<1>3. CASE \/ \E s \in FreeSteps : Goto(p, s) \/ Observe(p, s) \/ DrainSkipped(p, s)
           \/ \E s \in FreeSteps : \E e : DrainSucceeds(p, e, s)
           \/ \E s \in FreeSteps, f \in Made : MakeAndGoto(p, f, s)
  <2>1. /\ cmd'[p].step \in FreeSteps
        /\ \A q \in Procs \ {p} : cmd'[q] = cmd[q]
        /\ lock' = lock
    <3> USE DEF UnitInv, TypeOK
    <3>1. CASE \E s \in FreeSteps : Goto(p, s) \/ DrainSkipped(p, s)
      BY <3>1 DEF Goto, DrainSkipped
    <3>2. CASE \E s \in FreeSteps : Observe(p, s)
      BY <3>2 DEF Observe
    <3>3. CASE \E s \in FreeSteps : \E e : DrainSucceeds(p, e, s)
      <4>1. PICK s \in FreeSteps :
                 /\ cmd' = [cmd EXCEPT ![p].step = s, ![p].client = svc.pid]
                 /\ UNCHANGED lock
        BY <3>3 DEF DrainSucceeds
      <4> QED
        BY <4>1
    <3>4. CASE \E s \in FreeSteps, f \in Made : MakeAndGoto(p, f, s)
      BY <3>4 DEF MakeAndGoto
    <3> QED
      BY <1>3, <3>1, <3>2, <3>3, <3>4
  <2> QED
    BY <2>1, FreeStands, MoveKeeps
<1> QED
  BY <1>1, <1>2, <1>3

\* Taking the lock.
LEMMA BeginKeeps ==
    ASSUME UnitInv, TypeOK', NEW p \in Procs, NEW o, NEW s, NEW r,
           Begin(p, o, s, r), UNCHANGED <<desc, unit>>,
           StandsAt([Idle EXCEPT !.op = o, !.step = s, !.mine = desc, !.target = r])
    PROVE  UnitInv'
<1>1. \A q \in Procs : cmd[q].step = "idle"
  BY ProcsAssumption DEF Begin, LockFree, UnitInv, OneCommand, At
<1>2. /\ \A q \in Procs \ {p} : cmd'[q] = cmd[q]
      /\ StandsAt(cmd'[p])
  BY DEF Begin, UnitInv, TypeOK
<1>3. OneCommand'
  BY <1>1, <1>2 DEF OneCommand, At, Begin
<1>4. \A q \in Procs : StandsAt(cmd[q])'
  BY <1>2 DEF UnitInv, StandsAt, Installed, UsesCurrentUnit
<1> QED
  BY <1>3, <1>4 DEF UnitInv, TransitionInstalled, UnitMatchesPhase, Installed, ExpectedUnits,
     UsesCurrentUnit

LEMMA ControlKeeps ==
    ASSUME UnitInv, TypeOK', NEW p \in Procs,
           BeginControl(p) \/ ControlNext(p)
    PROVE  UnitInv'
<1>1. ControlSteps \subseteq FreeSteps
  BY DEF FreeSteps
<1>2. CASE BeginControl(p)
  <2>1. ASSUME NEW o, NEW s \in ControlSteps, BeginCommand(p, o, s)
        PROVE  UnitInv'
    <3>1. [Idle EXCEPT !.op = o, !.step = s, !.mine = desc, !.target = NoRelease].step = s
      BY DEF Idle
    <3> QED
      BY <3>1, <1>1, <2>1, FreeStands, BeginKeeps DEF BeginCommand, fileVars
  <2> QED
    BY <2>1, <1>2 DEF BeginControl, ControlSteps
<1>3. CASE ControlNext(p)
  <2>1. UNCHANGED <<desc, unit>> /\ ~At(p, "idle")
    BY <1>3 DEF ControlNext, StartStatus, StartCommand, AwaitReady, StartedStatus,
       EnableStatus, EnableCommand, EnableCheck, StopStatus, RestartStatus, Drain,
       ResumeAfterFailure, StopCommand, StopCheck, RestartCommand, RestartCheck,
       Fail, Observe, DrainSucceeds, DrainSkipped, DrainFails, FailWithResume,
       fileVars, At
  <2>2. \/ \E s \in FreeSteps : Goto(p, s) \/ Observe(p, s) \/ DrainSkipped(p, s)
        \/ \E s \in FreeSteps : \E e : DrainSucceeds(p, e, s) \/ DrainFails(p, e)
        \/ \E r : Finish(p, r)
    BY <1>1, <1>3 DEF ControlNext, StartStatus, StartCommand, AwaitReady, StartedStatus,
       EnableStatus, EnableCommand, EnableCheck, StopStatus, RestartStatus, Drain,
       ResumeAfterFailure, StopCommand, StopCheck, RestartCommand, RestartCheck,
       Fail, FailWithResume, ControlSteps
  <2> QED
    BY <2>1, <2>2, FreeKeeps
<1> QED
  BY <1>2, <1>3

\* Steps that stay in the same stretch of the protocol, or leave it to mark
\* the upgrade, need no new fact.
Follows(a, b) ==
    \/ a \in StageSteps /\ b \in StageSteps
    \/ a \in PreviousUnitSteps /\ b \in PreviousUnitSteps \cup {"abort.resume", "final-stop"}
    \/ a \in CandidateUnitSteps /\ b \in CandidateUnitSteps
    \/ a \in ActivateSteps /\ b = "mark"

LEMMA StandMoves ==
    ASSUME NEW c, NEW d, d.mine = c.mine, StandsAt(c), Follows(c.step, d.step)
    PROVE  StandsAt(d)
BY DEF StandsAt, Follows, StageSteps, ActivateSteps, PreviousUnitSteps,
       SwitchingSteps, CandidateUnitSteps

LEMMA FollowKeeps ==
    ASSUME UnitInv, TypeOK', NEW p \in Procs, NEW s, Follows(cmd[p].step, s),
           UNCHANGED <<desc, unit>>,
           \/ Goto(p, s) \/ Observe(p, s) \/ DrainSkipped(p, s)
           \/ \E e : DrainSucceeds(p, e, s)
           \/ \E f \in Made : MakeAndGoto(p, f, s)
    PROVE  UnitInv'
<1>1. ~At(p, "idle")
  BY DEF At, Follows, StageSteps, ActivateSteps, PreviousUnitSteps, SwitchingSteps,
         CandidateUnitSteps
<1>2. /\ cmd'[p].step = s /\ cmd'[p].mine = cmd[p].mine
      /\ \A q \in Procs \ {p} : cmd'[q] = cmd[q]
      /\ lock' = lock
  <2> USE DEF UnitInv, TypeOK
  <2>1. CASE Goto(p, s) \/ DrainSkipped(p, s)
    BY <2>1 DEF Goto, DrainSkipped
  <2>2. CASE Observe(p, s)
    BY <2>2 DEF Observe
  <2>3. CASE \E e : DrainSucceeds(p, e, s)
    BY <2>3 DEF DrainSucceeds
  <2>4. CASE \E f \in Made : MakeAndGoto(p, f, s)
    BY <2>4 DEF MakeAndGoto
  <2> QED
    BY <2>1, <2>2, <2>3, <2>4
<1>3. StandsAt(cmd'[p])
  BY <1>2, StandMoves DEF UnitInv
<1> QED
  BY <1>1, <1>2, <1>3, MoveKeeps

LEMMA InstallKeeps ==
    ASSUME UnitInv, TypeOK', NEW p \in Procs, InstallNext(p)
    PROVE  UnitInv'
<1>1. CASE InstallPreparesDirectories(p)
  BY <1>1 DEF InstallPreparesDirectories, UnitInv, OneCommand, StandsAt, At,
     TransitionInstalled, UnitMatchesPhase, Installed, ExpectedUnits, UsesCurrentUnit
<1>2. ASSUME NEW r \in Releases, BeginInstall(p, r) \/ BeginReinstall(p, r)
      PROVE  UnitInv'
  <2>1. CASE BeginInstall(p, r)
    <3>1. StandsAt([Idle EXCEPT !.op = "Install", !.step = "install.copy",
                                !.mine = desc, !.target = r])
      BY <2>1 DEF BeginInstall, StandsAt, Idle, StageSteps, ActivateSteps,
         PreviousUnitSteps, SwitchingSteps, CandidateUnitSteps
    <3> QED
      BY <3>1, <2>1, BeginKeeps DEF BeginInstall
  <2>2. CASE BeginReinstall(p, r)
    <3>1. [Idle EXCEPT !.op = "Install", !.step = "install.reload",
                       !.mine = desc, !.target = r].step \in FreeSteps
      BY DEF Idle, FreeSteps
    <3> QED
      BY <3>1, <2>2, FreeStands, BeginKeeps DEF BeginReinstall
  <2> QED
    BY <1>2, <2>1, <2>2
<1>3. CASE InstallCopy(p)
  <2>1. UNCHANGED <<desc, unit>> /\ ~At(p, "idle")
    BY <1>3 DEF InstallCopy, CopyExecutable, CopyFails, At
  <2>2. CASE CopyFails(p)
    BY <2>1, <2>2, FinishKeeps DEF CopyFails
  <2>3. CASE CopyExecutable(p, "install.unit")
    <3>1. /\ cmd'[p].step = "install.unit"
          /\ \A q \in Procs \ {p} : cmd'[q] = cmd[q]
          /\ lock' = lock
      BY <2>3 DEF CopyExecutable, MakeAndGoto, UnitInv, TypeOK
    <3>2. ~Installed
      BY <1>3 DEF InstallCopy, At, UnitInv, StandsAt
    <3>3. StandsAt(cmd'[p])
      BY <3>1, <3>2 DEF StandsAt, StageSteps, ActivateSteps,
         PreviousUnitSteps, SwitchingSteps, CandidateUnitSteps
    <3> QED
      BY <2>1, <3>1, <3>3, MoveKeeps
  <2> QED
    BY <1>3, <2>2, <2>3 DEF InstallCopy
<1>4. CASE InstallWriteUnit(p)
  <2>1. /\ cmd'[p].step = "install.descriptor" /\ cmd'[p].target = cmd[p].target
        /\ \A q \in Procs \ {p} : cmd'[q] = cmd[q]
        /\ lock' = lock
    BY <1>4 DEF InstallWriteUnit, MakeAndGoto, UnitInv, TypeOK
  <2>2. ~Installed /\ desc' = desc /\ unit' = cmd[p].target
    BY <1>4 DEF InstallWriteUnit, At, UnitInv, StandsAt
  <2>3. \A q \in Procs \ {p} : cmd[q].step = "idle"
    BY <1>4, ProcsAssumption DEF InstallWriteUnit, At, UnitInv, OneCommand
  <2>4. OneCommand'
    BY <1>4, <2>1, <2>3 DEF InstallWriteUnit, At, UnitInv, OneCommand
  <2>5. \A q \in Procs : StandsAt(cmd[q])'
    BY <2>1, <2>2, <2>3 DEF StandsAt, Installed, StageSteps, ActivateSteps,
       PreviousUnitSteps, SwitchingSteps, CandidateUnitSteps
  <2> QED
    BY <2>2, <2>4, <2>5 DEF UnitInv, TransitionInstalled, UnitMatchesPhase, Installed
<1>5. CASE InstallWriteDescriptor(p)
  <2>1. /\ cmd'[p].step = "install.manifest"
        /\ \A q \in Procs \ {p} : cmd'[q] = cmd[q]
        /\ lock' = lock
    BY <1>5 DEF InstallWriteDescriptor, MakeAndGoto, UnitInv, TypeOK
  <2>2. /\ unit' = cmd[p].target /\ desc'.cur = cmd[p].target /\ desc'.phase = "none"
    BY <1>5 DEF InstallWriteDescriptor, At, UnitInv, StandsAt, NoDescriptor
  <2>3. \A q \in Procs \ {p} : cmd[q].step = "idle"
    BY <1>5, ProcsAssumption DEF InstallWriteDescriptor, At, UnitInv, OneCommand
  <2>4. OneCommand'
    BY <1>5, <2>1, <2>3 DEF InstallWriteDescriptor, At, UnitInv, OneCommand
  <2>5. \A q \in Procs : StandsAt(cmd[q])'
    BY <2>1, <2>3 DEF StandsAt, Installed, StageSteps, ActivateSteps,
       PreviousUnitSteps, SwitchingSteps, CandidateUnitSteps
  <2>6. UnitMatchesPhase'
    BY <2>2 DEF UnitMatchesPhase, ExpectedUnits, UsesCurrentUnit
  <2> QED
    BY <2>2, <2>4, <2>5, <2>6 DEF UnitInv, TransitionInstalled
<1>6. CASE InstallWriteManifest(p) \/ InstallReload(p)
  <2>1. UNCHANGED <<desc, unit>> /\ ~At(p, "idle")
    BY <1>6 DEF InstallWriteManifest, InstallReload, fileVars, At
  <2>2. \/ \E s \in FreeSteps : Goto(p, s)
        \/ \E s \in FreeSteps, f \in Made : MakeAndGoto(p, f, s)
        \/ \E r : Finish(p, r)
    BY <1>6 DEF InstallWriteManifest, InstallReload, FreeSteps, Made
  <2> QED
    BY <2>1, <2>2, FreeKeeps
<1>8. CASE InstallStepFails(p)
  <2>1. /\ cmd'[p].step = "install.undo"
        /\ \A q \in Procs \ {p} : cmd'[q] = cmd[q]
        /\ lock' = lock
    BY <1>8 DEF InstallStepFails, Goto, UnitInv, TypeOK
  <2>2. cmd[p].step # "idle"
    BY <1>8 DEF InstallStepFails
  <2>3. \A q \in Procs \ {p} : cmd[q].step = "idle"
    BY <2>2, ProcsAssumption DEF At, UnitInv, OneCommand
  <2>4. OneCommand'
    BY <2>1, <2>2, <2>3 DEF At, UnitInv, OneCommand
  <2>5. \A q \in Procs : StandsAt(cmd[q])'
    BY <2>1, <2>3 DEF StandsAt, StageSteps, ActivateSteps,
       PreviousUnitSteps, SwitchingSteps, CandidateUnitSteps
  <2>6. UnitMatchesPhase' /\ TransitionInstalled'
    BY <1>8 DEF InstallStepFails, LinkedUnrecorded, UnitInv, StandsAt, At, TransitionInstalled,
       UnitMatchesPhase, Installed, ExpectedUnits, UsesCurrentUnit, NoDescriptor
  <2> QED
    BY <2>4, <2>5, <2>6 DEF UnitInv
<1>7. CASE InstallUndo(p)
  <2>1. CASE Fail(p, "error") /\ At(p, "install.undo")
    BY <2>1, FinishKeeps DEF Fail, fileVars, At
  <2>2. CASE \E file \in Made : UndoNext(p, file)
    <3>1. PICK file \in Made : UndoNext(p, file)
      BY <2>2
    <3>2. /\ cmd[p].step = "install.undo" /\ cmd'[p].step = "install.undo"
          /\ \A q \in Procs \ {p} : cmd'[q] = cmd[q]
          /\ lock' = lock
      BY <3>1 DEF UndoNext, UnitInv, TypeOK, At
    <3>3. \A q \in Procs \ {p} : cmd[q].step = "idle"
      BY <3>2, ProcsAssumption DEF At, UnitInv, OneCommand
    <3>4. OneCommand'
      BY <3>2, <3>3 DEF At, UnitInv, OneCommand
    <3>5. \A q \in Procs : StandsAt(cmd[q])'
      BY <3>2, <3>3 DEF StandsAt, StageSteps, ActivateSteps,
         PreviousUnitSteps, SwitchingSteps, CandidateUnitSteps
    <3>6. UnitMatchesPhase' /\ TransitionInstalled'
      BY <2>2, <3>2, <1>7 DEF InstallUndo, UnitInv, TransitionInstalled, UnitMatchesPhase, Installed,
         ExpectedUnits, UsesCurrentUnit, Fail, fileVars, NoDescriptor
    <3> QED
      BY <3>4, <3>5, <3>6 DEF UnitInv
  <2> QED
    BY <1>7, <2>1, <2>2 DEF InstallUndo, Made
<1> QED
  BY <1>1, <1>2, <1>3, <1>4, <1>5, <1>6, <1>7, <1>8 DEF InstallNext

\* A step of the lock holder that writes the descriptor or the unit: the other
\* processes are idle, so only its own place and the two files matter.
LEMMA WriterKeeps ==
    ASSUME UnitInv, TypeOK', NEW p \in Procs, ~At(p, "idle"),
           \A q \in Procs \ {p} : cmd'[q] = cmd[q],
           lock' = lock \/ cmd'[p].step = "idle",
           StandsAt(cmd[p])', UnitMatchesPhase', TransitionInstalled'
    PROVE  UnitInv'
<1>1. \A q \in Procs \ {p} : cmd[q].step = "idle"
  BY ProcsAssumption DEF UnitInv, OneCommand, At
<1>2. OneCommand'
  BY <1>1 DEF UnitInv, OneCommand, At
<1>3. \A q \in Procs : StandsAt(cmd[q])'
  BY <1>1 DEF StandsAt, StageSteps, ActivateSteps, PreviousUnitSteps,
     SwitchingSteps, CandidateUnitSteps
<1> QED
  BY <1>2, <1>3 DEF UnitInv

\* The last write of a command: it stands nowhere afterwards.
LEMMA CommitKeeps ==
    ASSUME UnitInv, TypeOK', NEW p \in Procs, ~At(p, "idle"), NEW d, NEW r,
           CommitDescriptor(p, d, r),
           unit = NoRelease \/ unit \in ExpectedUnits(d)
    PROVE  UnitInv'
<1>1. /\ cmd'[p] = Idle /\ \A q \in Procs \ {p} : cmd'[q] = cmd[q]
      /\ desc' = d /\ unit' = unit
  BY DEF CommitDescriptor, Finish, UnitInv, TypeOK
<1>2. StandsAt(cmd[p])'
  BY <1>1 DEF StandsAt, Idle, StageSteps, ActivateSteps, PreviousUnitSteps,
     SwitchingSteps, CandidateUnitSteps
<1>3. UnitMatchesPhase' /\ TransitionInstalled'
  BY <1>1 DEF CommitDescriptor, ValidDescriptor, TransitionInstalled, Installed,
     UnitMatchesPhase, ExpectedUnits, UsesCurrentUnit
<1> QED
  BY <1>1, <1>2, <1>3, WriterKeeps DEF Idle

\* Staging publishes a pending release; no phase announces it yet.
LEMMA StageKeeps ==
    ASSUME UnitInv, TypeOK', NEW p \in Procs, StageNext(p)
    PROVE  UnitInv'
<1>1. ASSUME NEW r \in Releases, BeginStage(p, r) PROVE UnitInv'
  <2>1. StandsAt([Idle EXCEPT !.op = "Stage", !.step = "stage.copy",
                              !.mine = desc, !.target = r])
    BY <1>1 DEF BeginStage, Verified, InTransition, UsesCurrentUnit, StandsAt, Idle,
       StageSteps, ActivateSteps, PreviousUnitSteps, SwitchingSteps, CandidateUnitSteps
  <2> QED
    BY <2>1, <1>1, BeginKeeps DEF BeginStage, fileVars
<1>2. CASE StageCopy(p)
  <2>1. UNCHANGED <<desc, unit>> /\ At(p, "stage.copy")
    BY <1>2 DEF StageCopy, CopyExecutable, CopyFails, fileVars
  <2>2. Follows(cmd[p].step, "stage.publish")
    BY <2>1 DEF At, Follows, StageSteps
  <2>3. CASE Goto(p, "stage.publish") \/ MakeAndGoto(p, "bin", "stage.publish")
    BY <2>1, <2>2, <2>3, FollowKeeps DEF Made
  <2>4. CASE Finish(p, "error")
    BY <2>1, <2>4, FinishKeeps DEF At
  <2> QED
    BY <1>2, <2>3, <2>4 DEF StageCopy, CopyExecutable, CopyFails
<1>3. CASE StagePublish(p)
  <2>1. At(p, "stage.publish") /\ cmd[p].mine = desc /\ UsesCurrentUnit(desc)
    BY <1>3 DEF StagePublish, At, UnitInv, StandsAt, StageSteps
  <2>2. PICK d : d = [desc EXCEPT !.pend = cmd[p].target]
    OBVIOUS
  <2>3. d.cur = desc.cur /\ UsesCurrentUnit(d)
    BY <2>1, <2>2 DEF UsesCurrentUnit, UnitInv, TypeOK, Descriptors
  <2>4. unit = NoRelease \/ unit \in ExpectedUnits(d)
    BY <1>3, <2>1, <2>3 DEF StagePublish, CommitDescriptor, ValidDescriptor, UnitInv,
       UnitMatchesPhase, Installed, ExpectedUnits, Finish
  <2> QED
    BY <1>3, <2>1, <2>2, <2>4, CommitKeeps DEF StagePublish, At
<1>4. CASE StageFails(p)
  BY <1>4, FinishKeeps DEF StageFails, At
<1> QED
  BY <1>1, <1>2, <1>3, <1>4 DEF StageNext

\* Uninstall and Purge: the unit goes before the descriptor that explains it.
LEMMA UninstallKeeps ==
    ASSUME UnitInv, TypeOK', NEW p \in Procs, UninstallNext(p)
    PROVE  UnitInv'
<1>1. UninstallSteps \subseteq FreeSteps
  BY DEF FreeSteps
<1>2. CASE BeginUninstall(p)
  <2>1. [Idle EXCEPT !.op = "Uninstall", !.step = "uninstall.status",
                     !.mine = desc, !.target = NoRelease].step \in FreeSteps
    BY <1>1 DEF Idle, UninstallSteps
  <2> QED
    BY <2>1, <1>2, FreeStands, BeginKeeps DEF BeginUninstall, fileVars
<1>3. CASE \/ UninstallStatus(p) \/ UninstallDrain(p) \/ UninstallDisable(p)
           \/ UninstallStop(p) \/ UninstallStopped(p) \/ UninstallBinaryDirectory(p)
           \/ UninstallReload(p) \/ UninstallAbsent(p) \/ UninstallFails(p)
  <2>1. UNCHANGED <<desc, unit>> /\ ~At(p, "idle")
    BY <1>3 DEF UninstallStatus, UninstallDrain, UninstallDisable, UninstallStop,
       UninstallStopped, UninstallBinaryDirectory, UninstallReload, UninstallAbsent,
       UninstallFails, Observe, Fail, DrainSucceeds, DrainSkipped, DrainFails,
       fileVars, At
  <2>2. \/ \E s \in FreeSteps : Goto(p, s) \/ Observe(p, s) \/ DrainSkipped(p, s)
        \/ \E s \in FreeSteps : \E e : DrainSucceeds(p, e, s) \/ DrainFails(p, e)
        \/ \E r : Finish(p, r)
    BY <1>1, <1>3 DEF UninstallStatus, UninstallDrain, UninstallDisable, UninstallStop,
       UninstallStopped, UninstallBinaryDirectory, UninstallReload, UninstallAbsent,
       UninstallFails, Fail, UninstallSteps, FreeSteps, ControlSteps
  <2> QED
    BY <2>1, <2>2, FreeKeeps
<1>4. CASE UninstallExecutable(p)
  <2>1. UNCHANGED <<desc, unit>> /\ At(p, "uninstall.executables")
    BY <1>4 DEF UninstallExecutable
  <2>2. CASE UNCHANGED <<cmd, lock>>
    <3>1. cmd[p].step \in FreeSteps
      BY <1>1, <2>1 DEF At, UninstallSteps
    <3> QED
      BY <2>1, <2>2, <3>1, FreeStands, MoveKeeps DEF At
  <2>3. CASE Finish(p, "error")
    BY <2>1, <2>3, FinishKeeps DEF At
  <2> QED
    BY <1>4, <2>2, <2>3 DEF UninstallExecutable
<1>5. CASE UninstallUnit(p) \/ UninstallDescriptor(p)
  <2>1. /\ ~At(p, "idle")
        /\ cmd'[p].step \in {"uninstall.reload", "idle"}
        /\ \A q \in Procs \ {p} : cmd'[q] = cmd[q]
        /\ lock' = lock \/ cmd'[p].step = "idle"
    BY <1>5 DEF UninstallUnit, UninstallDescriptor, Goto, Finish, Idle, At,
       UnitInv, TypeOK
  <2>2. StandsAt(cmd[p])'
    BY <2>1 DEF StandsAt, StageSteps, ActivateSteps, PreviousUnitSteps,
       SwitchingSteps, CandidateUnitSteps
  <2>3. UnitMatchesPhase' /\ TransitionInstalled'
    BY <1>5 DEF UninstallUnit, UninstallDescriptor, UnitInv, TransitionInstalled,
       UnitMatchesPhase, Installed, NoDescriptor
  <2> QED
    BY <2>1, <2>2, <2>3, WriterKeeps
<1> QED
  BY <1>2, <1>3, <1>4, <1>5 DEF UninstallNext

LEMMA PurgeKeeps ==
    ASSUME UnitInv, TypeOK', NEW p \in Procs, PurgeNext(p)
    PROVE  UnitInv'
<1>1. CASE BeginPurge(p)
  <2>1. [Idle EXCEPT !.op = "Purge", !.step = "purge.data",
                     !.mine = desc, !.target = NoRelease].step \in FreeSteps
    BY DEF Idle, PurgeSteps, FreeSteps
  <2> QED
    BY <2>1, <1>1, FreeStands, BeginKeeps DEF BeginPurge, fileVars
<1>2. CASE PurgeData(p) \/ PurgeManifest(p) \/ PurgeFails(p)
  <2>1. UNCHANGED <<desc, unit>> /\ ~At(p, "idle")
    BY <1>2 DEF PurgeData, PurgeManifest, PurgeFails, Fail, fileVars, At
  <2>2. Goto(p, "purge.manifest") \/ \E r : Finish(p, r)
    BY <1>2 DEF PurgeData, PurgeManifest, PurgeFails, Fail
  <2>3. "purge.manifest" \in FreeSteps
    BY DEF FreeSteps, PurgeSteps
  <2> QED
    BY <2>1, <2>2, <2>3, FreeKeeps
<1> QED
  BY <1>1, <1>2 DEF PurgeNext

\* A phase is written: the unit on disk must be one the new phase announces,
\* and the next step belongs to the stretch of that phase.
LEMMA PhaseKeeps ==
    ASSUME UnitInv, TypeOK', NEW p \in Procs, ~At(p, "idle"), NEW d, NEW s,
           ReplaceDescriptor(p, d, s),
           unit = NoRelease \/ unit \in ExpectedUnits(d),
           \/ s \in PreviousUnitSteps /\ UsesCurrentUnit(d)
           \/ s \in {"activate.unit", "rollback.unit"} /\ d.phase = "switching-unit"
           \/ s \in CandidateUnitSteps /\ d.phase \in {"candidate-unit", "candidate-started"}
    PROVE  UnitInv'
<1>1. /\ cmd'[p].step = s /\ cmd'[p].mine = d
      /\ \A q \in Procs \ {p} : cmd'[q] = cmd[q]
      /\ desc' = d /\ unit' = unit /\ lock' = lock
  BY DEF ReplaceDescriptor, UnitInv, TypeOK
<1>2. StandsAt(cmd[p])'
  BY <1>1 DEF StandsAt, UsesCurrentUnit, StageSteps, PreviousUnitSteps, SwitchingSteps,
     CandidateUnitSteps
<1>3. UnitMatchesPhase' /\ TransitionInstalled'
  BY <1>1 DEF ReplaceDescriptor, ValidDescriptor, TransitionInstalled, Installed,
     UnitMatchesPhase, ExpectedUnits, UsesCurrentUnit
<1> QED
  BY <1>1, <1>2, <1>3, WriterKeeps

LEMMA PhaseFields ==
    ASSUME NEW d \in Descriptors, NEW ph, NEW pid
    PROVE  /\ InPhase(d, ph).cur = d.cur /\ InPhase(d, ph).pend = d.pend
           /\ InPhase(d, ph).phase = ph
           /\ ClearTransition(d).cur = d.cur /\ ClearTransition(d).phase = "none"
           /\ [d EXCEPT !.phase = "stopping-previous", !.src = pid].cur = d.cur
           /\ [d EXCEPT !.phase = "stopping-previous", !.src = pid].phase = "stopping-previous"
           /\ [d EXCEPT !.recovery = TRUE].cur = d.cur
           /\ [d EXCEPT !.recovery = TRUE].pend = d.pend
           /\ [d EXCEPT !.recovery = TRUE].phase = d.phase
BY DEF InPhase, ClearTransition, Descriptors

\* What a process in the middle of an activation knows.
LEMMA ActivateStands ==
    ASSUME UnitInv, NEW p \in Procs, cmd[p].step \in ActivateSteps
    PROVE  /\ ~At(p, "idle")
           /\ cmd[p].mine = desc /\ desc \in Descriptors
           /\ unit = NoRelease \/ ~Installed \/ unit \in ExpectedUnits(desc)
           /\ cmd[p].step \in PreviousUnitSteps => UsesCurrentUnit(desc)
           /\ cmd[p].step \in SwitchingSteps => desc.phase = "switching-unit"
           /\ cmd[p].step \in CandidateUnitSteps =>
                desc.phase \in {"candidate-unit", "candidate-started"}
           /\ desc.phase # "none" => Installed
           /\ At(p, "activate.candidate-unit") => unit = desc.pend
           /\ At(p, "rollback.previous-stopped") => unit = desc.cur
<1>1. ~At(p, "idle")
  BY DEF At, ActivateSteps, PreviousUnitSteps, SwitchingSteps, CandidateUnitSteps
<1>2. /\ StandsAt(cmd[p]) /\ desc \in Descriptors
      /\ UnitMatchesPhase /\ TransitionInstalled
  BY DEF UnitInv, TypeOK
<1> QED
  BY <1>1, <1>2 DEF StandsAt, At, UnitMatchesPhase, TransitionInstalled

\* The writes of the transition.
LEMMA PublishKeeps ==
    ASSUME UnitInv, TypeOK', NEW p \in Procs,
           ActivatePublish(p) \/ ActivatePhases(p) \/ RollbackPhases(p) \/ Abort(p)
    PROVE  UnitInv'
<1>1. cmd[p].step \in ActivateSteps
  BY DEF ActivatePublish, ActivatePhases, RollbackPhases, Abort, PublishPhase, At,
     ActivateSteps, PreviousUnitSteps, SwitchingSteps, CandidateUnitSteps
<1>2. /\ ~At(p, "idle") /\ cmd[p].mine = desc /\ desc \in Descriptors
  BY <1>1, ActivateStands
<1>3. ASSUME NEW d, NEW s, ReplaceDescriptor(p, d, s), d.cur = desc.cur
      PROVE  unit = NoRelease \/ unit \in ExpectedUnits(desc)
  BY <1>1, <1>3, ActivateStands DEF ReplaceDescriptor, ValidDescriptor, Installed
<1>4. ASSUME NEW s \in {"mark", "abort.resume", "activate.resume"}, Advance(p, s),
             Follows(cmd[p].step, s)
      PROVE  UnitInv'
  BY <1>4, FollowKeeps DEF Advance, fileVars
<1>5. ASSUME cmd[p].step \in PreviousUnitSteps, NEW d, NEW s, ReplaceDescriptor(p, d, s),
             d.cur = desc.cur, s \in PreviousUnitSteps, UsesCurrentUnit(d)
      PROVE  UnitInv'
  <2>1. unit = NoRelease \/ unit = d.cur
    BY <1>1, <1>3, <1>5, ActivateStands DEF ExpectedUnits
  <2> QED
    BY <1>2, <1>5, <2>1, PhaseKeeps DEF ExpectedUnits
<1>6. CASE ActivatePublish(p)
  <2>1. At(p, "activate.publish") /\ cmd[p].step \in PreviousUnitSteps
    BY <1>6 DEF ActivatePublish, At, PreviousUnitSteps
  <2>2. Follows(cmd[p].step, "activate.resume") /\ "activate.stop" \in PreviousUnitSteps
    BY <2>1 DEF Follows, PreviousUnitSteps
  <2>3. PICK d : d = [desc EXCEPT !.phase = "stopping-previous", !.src = cmd[p].before.pid]
    OBVIOUS
  <2>4. d.cur = desc.cur /\ UsesCurrentUnit(d)
    BY <1>2, <2>3, PhaseFields DEF UsesCurrentUnit
  <2>5. ReplaceDescriptor(p, d, "activate.stop") \/ Advance(p, "activate.resume")
    BY <1>2, <1>6, <2>3 DEF ActivatePublish, Mine
  <2> QED
    BY <1>4, <1>5, <2>1, <2>2, <2>4, <2>5
<1>7. CASE Abort(p)
  <2>1. At(p, "abort") /\ cmd[p].step \in PreviousUnitSteps
    BY <1>7 DEF Abort, At, PreviousUnitSteps
  <2>2. Follows(cmd[p].step, "abort.resume") /\ "activate.resume" \in PreviousUnitSteps
    BY <2>1 DEF Follows, PreviousUnitSteps
  <2>3. ClearTransition(desc).cur = desc.cur /\ UsesCurrentUnit(ClearTransition(desc))
    BY <1>2, PhaseFields DEF UsesCurrentUnit
  <2>4. ReplaceDescriptor(p, ClearTransition(desc), "activate.resume") \/ Advance(p, "abort.resume")
    BY <1>2, <1>7 DEF Abort, Mine
  <2> QED
    BY <1>4, <1>5, <2>1, <2>2, <2>3, <2>4
<1>8. ASSUME NEW at, NEW ph, NEW s, PublishPhase(p, at, ph, s),
             ASSUME ReplaceDescriptor(p, InPhase(desc, ph), s) PROVE UnitInv'
      PROVE  UnitInv'
  BY <1>1, <1>2, <1>4, <1>8 DEF PublishPhase, Follows, Mine
<1>9. ASSUME NEW ph PROVE /\ InPhase(desc, ph).cur = desc.cur
                          /\ InPhase(desc, ph).pend = desc.pend
                          /\ InPhase(desc, ph).phase = ph
  BY <1>2, PhaseFields
<1>10. CASE PublishPhase(p, "activate.previous-stopped", "previous-stopped",
                         "activate.switching-unit")
  <2>1. cmd[p].step \in PreviousUnitSteps /\ "activate.switching-unit" \in PreviousUnitSteps
    BY <1>10 DEF PublishPhase, At, PreviousUnitSteps
  <2>2. UsesCurrentUnit(InPhase(desc, "previous-stopped"))
    BY <1>9 DEF UsesCurrentUnit
  <2> QED
    BY <1>5, <1>8, <1>9, <1>10, <2>1, <2>2
<1>11. CASE PublishPhase(p, "activate.switching-unit", "switching-unit", "activate.unit")
  <2>1. cmd[p].step \in PreviousUnitSteps
    BY <1>11 DEF PublishPhase, At, PreviousUnitSteps
  <2>2. ASSUME ReplaceDescriptor(p, InPhase(desc, "switching-unit"), "activate.unit")
        PROVE  UnitInv'
    <3>1. unit = NoRelease \/ unit = desc.cur
      BY <1>1, <1>3, <1>9, <2>1, <2>2, ActivateStands DEF ExpectedUnits
    <3>2. unit = NoRelease \/ unit \in ExpectedUnits(InPhase(desc, "switching-unit"))
      BY <1>9, <3>1 DEF ExpectedUnits, UsesCurrentUnit
    <3> QED
      BY <1>2, <1>9, <2>2, <3>2, PhaseKeeps
  <2> QED
    BY <1>8, <1>11, <2>2
<1>12. CASE PublishPhase(p, "activate.candidate-unit", "candidate-unit", "activate.reload")
  <2>1. ASSUME ReplaceDescriptor(p, InPhase(desc, "candidate-unit"), "activate.reload")
        PROVE  UnitInv'
    <3>1. unit = desc.pend
      BY <1>1, <1>12, ActivateStands DEF PublishPhase
    <3>2. unit \in ExpectedUnits(InPhase(desc, "candidate-unit"))
      BY <1>9, <3>1 DEF ExpectedUnits, UsesCurrentUnit
    <3>3. "activate.reload" \in CandidateUnitSteps
      BY DEF CandidateUnitSteps
    <3> QED
      BY <1>2, <1>9, <2>1, <3>2, <3>3, PhaseKeeps
  <2> QED
    BY <1>8, <1>12, <2>1
<1>13. CASE PublishPhase(p, "activate.candidate-started", "candidate-started",
                         "activate.ready")
  <2>1. cmd[p].step \in CandidateUnitSteps /\ "activate.ready" \in CandidateUnitSteps
    BY <1>13 DEF PublishPhase, At, CandidateUnitSteps
  <2>2. ASSUME ReplaceDescriptor(p, InPhase(desc, "candidate-started"), "activate.ready")
        PROVE  UnitInv'
    <3>1. unit = NoRelease \/ unit = desc.pend
      BY <1>1, <1>3, <1>9, <2>1, <2>2, ActivateStands DEF ExpectedUnits, UsesCurrentUnit
    <3>2. unit = NoRelease \/ unit \in ExpectedUnits(InPhase(desc, "candidate-started"))
      BY <1>9, <3>1 DEF ExpectedUnits, UsesCurrentUnit
    <3> QED
      BY <1>2, <1>9, <2>1, <2>2, <3>2, PhaseKeeps
  <2> QED
    BY <1>8, <1>13, <2>2
<1>14. CASE PublishPhase(p, "rollback.switching-unit", "switching-unit", "rollback.unit")
  <2>1. cmd[p].step \in CandidateUnitSteps
    BY <1>14 DEF PublishPhase, At, CandidateUnitSteps
  <2>2. ASSUME ReplaceDescriptor(p, InPhase(desc, "switching-unit"), "rollback.unit")
        PROVE  UnitInv'
    <3>1. unit = NoRelease \/ unit = desc.pend
      BY <1>1, <1>3, <1>9, <2>1, <2>2, ActivateStands DEF ExpectedUnits, UsesCurrentUnit
    <3>2. unit = NoRelease \/ unit \in ExpectedUnits(InPhase(desc, "switching-unit"))
      BY <1>9, <3>1 DEF ExpectedUnits, UsesCurrentUnit
    <3> QED
      BY <1>2, <1>9, <2>2, <3>2, PhaseKeeps
  <2> QED
    BY <1>8, <1>14, <2>2
<1>15. CASE PublishPhase(p, "rollback.previous-stopped", "previous-stopped",
                         "rollback.reload")
  <2>1. ASSUME ReplaceDescriptor(p, InPhase(desc, "previous-stopped"), "rollback.reload")
        PROVE  UnitInv'
    <3>1. unit = desc.cur
      BY <1>1, <1>15, ActivateStands DEF PublishPhase
    <3>2. /\ unit \in ExpectedUnits(InPhase(desc, "previous-stopped"))
          /\ UsesCurrentUnit(InPhase(desc, "previous-stopped"))
      BY <1>9, <3>1 DEF ExpectedUnits, UsesCurrentUnit
    <3>3. "rollback.reload" \in PreviousUnitSteps
      BY DEF PreviousUnitSteps
    <3> QED
      BY <1>2, <2>1, <3>2, <3>3, PhaseKeeps
  <2> QED
    BY <1>8, <1>15, <2>1
<1> QED
  BY <1>6, <1>7, <1>10, <1>11, <1>12, <1>13, <1>14, <1>15
     DEF ActivatePhases, RollbackPhases

\* The two unit renames, both under phase switching-unit.
LEMMA SwitchKeeps ==
    ASSUME UnitInv, TypeOK', NEW p \in Procs, ActivateUnit(p) \/ RollbackUnit(p)
    PROVE  UnitInv'
<1>1. cmd[p].step \in {"activate.unit", "rollback.unit"}
  BY DEF ActivateUnit, RollbackUnit, At
<1>2. cmd[p].step \in ActivateSteps /\ cmd[p].step \in SwitchingSteps
  BY <1>1 DEF ActivateSteps, SwitchingSteps
<1>3. /\ ~At(p, "idle") /\ cmd[p].mine = desc /\ desc.phase = "switching-unit"
  BY <1>2, ActivateStands
<1>4. CASE Advance(p, "mark")
  BY <1>2, <1>4, FollowKeeps DEF Advance, fileVars, Follows
<1>5. ASSUME NEW from, NEW to, NEW s, ReplaceUnit(p, from, to, s), Mine(p) = desc,
             \/ s = "activate.candidate-unit" /\ to = desc.pend
             \/ s = "rollback.previous-stopped" /\ to = desc.cur
      PROVE  UnitInv'
  <2>1. /\ cmd'[p].step = s /\ cmd'[p].mine = desc /\ desc' = desc /\ unit' = to
        /\ \A q \in Procs \ {p} : cmd'[q] = cmd[q]
        /\ lock' = lock
    BY <1>5 DEF ReplaceUnit, Goto, Mine, UnitInv, TypeOK
  <2>2. StandsAt(cmd[p])'
    BY <1>3, <1>5, <2>1 DEF StandsAt, StageSteps, PreviousUnitSteps, SwitchingSteps,
       CandidateUnitSteps
  <2>3. UnitMatchesPhase' /\ TransitionInstalled'
    BY <1>3, <1>5, <2>1 DEF UnitInv, TransitionInstalled, Installed, UnitMatchesPhase,
       ExpectedUnits, UsesCurrentUnit
  <2> QED
    BY <1>3, <2>1, <2>2, <2>3, WriterKeeps
<1> QED
  BY <1>3, <1>4, <1>5 DEF ActivateUnit, RollbackUnit, Mine

\* The last writes of an activation: commit, both ways back, and the mark.
LEMMA OutcomeKeeps ==
    ASSUME UnitInv, TypeOK', NEW p \in Procs,
           \/ ActivateCommit(p) \/ RestoreClear(p)
           \/ RollbackCommit(p) \/ MarkUpgradeRecovery(p)
    PROVE  UnitInv'
<1>1. cmd[p].step \in ActivateSteps
  BY DEF ActivateCommit, RestoreClear, RollbackCommit, MarkUpgradeRecovery, At,
     ActivateSteps, PreviousUnitSteps, SwitchingSteps, CandidateUnitSteps
<1>2. ~At(p, "idle") /\ cmd[p].mine = desc /\ desc \in Descriptors
  BY <1>1, ActivateStands
<1>3. ASSUME NEW s, Advance(p, s), Follows(cmd[p].step, s)
      PROVE  UnitInv'
  BY <1>3, FollowKeeps DEF Advance, fileVars
<1>4. CASE ActivateCommit(p)
  <2>1. cmd[p].step \in CandidateUnitSteps /\ Follows(cmd[p].step, "rollback.stop")
    BY <1>4 DEF ActivateCommit, At, CandidateUnitSteps, Follows
  <2>2. CASE CommitDescriptor(p, Committed(desc), "ok")
    <3>1. Committed(desc).cur = desc.pend /\ Committed(desc).phase = "none"
      BY DEF Committed, NoDescriptor
    <3>2. unit = NoRelease \/ ~Installed \/ unit = desc.pend
      BY <1>1, <2>1, ActivateStands DEF ExpectedUnits, UsesCurrentUnit
    <3>3. Installed
      BY <1>1, <2>1, ActivateStands
    <3>4. unit = NoRelease \/ unit \in ExpectedUnits(Committed(desc))
      BY <3>1, <3>2, <3>3 DEF ExpectedUnits, UsesCurrentUnit
    <3> QED
      BY <1>2, <2>2, <3>4, CommitKeeps
  <2> QED
    BY <1>2, <1>3, <1>4, <2>1, <2>2 DEF ActivateCommit, Mine
<1>5. CASE RestoreClear(p) \/ RollbackCommit(p)
  <2>1. cmd[p].step \in PreviousUnitSteps /\ Follows(cmd[p].step, "final-stop")
    BY <1>5 DEF RestoreClear, RollbackCommit, At, PreviousUnitSteps, Follows
  <2>2. ASSUME NEW r, CommitDescriptor(p, ClearTransition(desc), r)
        PROVE  UnitInv'
    <3>1. ClearTransition(desc).cur = desc.cur /\ ClearTransition(desc).phase = "none"
      BY <1>2, PhaseFields
    <3>2. Installed
      BY <2>2, <3>1 DEF CommitDescriptor, ValidDescriptor, Installed
    <3>3. unit = NoRelease \/ unit = desc.cur
      BY <1>1, <2>1, <3>2, ActivateStands DEF ExpectedUnits
    <3>4. unit = NoRelease \/ unit \in ExpectedUnits(ClearTransition(desc))
      BY <3>1, <3>3 DEF ExpectedUnits, UsesCurrentUnit
    <3> QED
      BY <1>2, <2>2, <3>4, CommitKeeps
  <2> QED
    BY <1>2, <1>3, <1>5, <2>1, <2>2 DEF RestoreClear, RollbackCommit, Mine
<1>6. CASE MarkUpgradeRecovery(p)
  <2>1. CASE Fail(p, "recovery")
    BY <1>2, <2>1, FinishKeeps DEF Fail, fileVars
  <2>2. CASE CommitDescriptor(p, [desc EXCEPT !.recovery = TRUE], "recovery")
    <3>1. PICK d : d = [desc EXCEPT !.recovery = TRUE]
      OBVIOUS
    <3>2. d.cur = desc.cur /\ d.pend = desc.pend /\ d.phase = desc.phase
      BY <1>2, <3>1, PhaseFields
    <3>3. CommitDescriptor(p, d, "recovery")
      BY <2>2, <3>1
    <3>4. Installed
      BY <3>2, <3>3 DEF CommitDescriptor, ValidDescriptor, Installed
    <3>5. unit = NoRelease \/ unit \in ExpectedUnits(desc)
      BY <1>1, <3>4, ActivateStands
    <3>6. unit = NoRelease \/ unit \in ExpectedUnits(d)
      BY <3>2, <3>5 DEF ExpectedUnits, UsesCurrentUnit
    <3> QED
      BY <1>2, <3>3, <3>6, CommitKeeps
  <2> QED
    BY <1>2, <1>6, <2>1, <2>2 DEF MarkUpgradeRecovery, Mine
<1> QED
  BY <1>4, <1>5, <1>6

\* Everything else an activation does leaves both files alone and stays in
\* the stretch it is in.
LEMMA ActivateKeeps ==
    ASSUME UnitInv, TypeOK', NEW p \in Procs, ActivateNext(p)
    PROVE  UnitInv'
<1> USE DEF At, Advance, Follows, fileVars
<1>0. ASSUME NEW s, Goto(p, s), UNCHANGED <<desc, unit>>, Follows(cmd[p].step, s)
      PROVE  UnitInv'
  BY <1>0, FollowKeeps
<1>1. CASE BeginActivate(p)
  <2>1. StandsAt([Idle EXCEPT !.op = "Activate", !.step = "activate.status",
                              !.mine = desc, !.target = NoRelease])
    BY <1>1 DEF BeginActivate, Verified, InTransition, UsesCurrentUnit, StandsAt, Idle,
       StageSteps, ActivateSteps, PreviousUnitSteps, SwitchingSteps, CandidateUnitSteps
  <2> QED
    BY <2>1, <1>1, BeginKeeps DEF BeginActivate
<1>2. CASE ActivateStatus(p)
  <2>1. cmd[p].step = "activate.status" /\ Follows("activate.status", "activate.drain")
    BY <1>2 DEF ActivateStatus, PreviousUnitSteps
  <2>2. CASE Observe(p, "activate.drain")
    BY <2>1, <2>2, FollowKeeps DEF Observe
  <2>3. CASE Fail(p, "error")
    BY <2>1, <2>3, FinishKeeps DEF Fail
  <2> QED
    BY <1>2, <2>2, <2>3 DEF ActivateStatus
<1>3. CASE ActivateDrain(p)
  <2>1. cmd[p].step = "activate.drain" /\ Follows("activate.drain", "activate.publish")
    BY <1>3 DEF ActivateDrain, PreviousUnitSteps
  <2>2. CASE \/ DrainSucceeds(p, Mine(p).cur, "activate.publish")
             \/ DrainSkipped(p, "activate.publish")
    BY <2>1, <2>2, FollowKeeps DEF DrainSucceeds, DrainSkipped
  <2>3. CASE DrainFails(p, Mine(p).cur)
    BY <2>1, <2>3, FinishKeeps DEF DrainFails
  <2> QED
    BY <1>3, <2>2, <2>3 DEF ActivateDrain
<1>4. CASE ActivateResume(p) \/ AbortResume(p)
  BY <1>4, FinishKeeps DEF ActivateResume, AbortResume, FailWithResume
<1>5. CASE ActivatePublish(p) \/ ActivatePhases(p) \/ RollbackPhases(p) \/ Abort(p)
  BY <1>5, PublishKeeps
<1>6. CASE ActivateUnit(p) \/ RollbackUnit(p)
  BY <1>6, SwitchKeeps
<1>7. CASE \/ ActivateCommit(p) \/ RestoreClear(p)
           \/ RollbackCommit(p) \/ MarkUpgradeRecovery(p)
  BY <1>7, OutcomeKeeps
<1>8. CASE ActivateStop(p) \/ ActivateStopped(p) \/ RestoreStatus(p)
  BY <1>0, <1>8 DEF ActivateStop, ActivateStopped, RestoreStatus,
     PreviousUnitSteps, ActivateSteps
<1>9. CASE RestoreStart(p) \/ RestoreChecks(p)
  BY <1>0, <1>9 DEF RestoreStart, RestoreChecks, PreviousUnitSteps, ActivateSteps
<1>10. CASE RollbackReload(p) \/ RollbackStart(p) \/ RollbackChecks(p)
  BY <1>0, <1>10 DEF RollbackReload, RollbackStart, RollbackChecks,
     PreviousUnitSteps, ActivateSteps
<1>11. CASE ActivateReload(p) \/ ActivateStart(p) \/ ActivateStarted(p)
            \/ ActivateReady(p) \/ ActivateCheck(p)
  BY <1>0, <1>11 DEF ActivateReload, ActivateStart, ActivateStarted, ActivateReady,
     ActivateCheck, CandidateUnitSteps, ActivateSteps
<1>12. CASE RollbackStop(p) \/ RollbackStopped(p) \/ RollbackCheck(p) \/ FinalStop(p)
  BY <1>0, <1>12 DEF RollbackStop, RollbackStopped, RollbackCheck, FinalStop,
     CandidateUnitSteps, ActivateSteps
<1> QED
  BY <1>1, <1>2, <1>3, <1>4, <1>5, <1>6, <1>7, <1>8, <1>9, <1>10, <1>11, <1>12
     DEF ActivateNext

\* Deaths, reboots and what the manager does on its own.
LEMMA UnitInvStep ==
    ASSUME UnitInv, TypeOK', [Next]_vars
    PROVE  UnitInv'
<1>1. ASSUME NEW p \in Procs, CommandNext(p)
      PROVE  UnitInv'
  BY <1>1, InstallKeeps, StageKeeps, ControlKeeps, UninstallKeeps, PurgeKeeps,
     ActivateKeeps DEF CommandNext
<1>2. ASSUME NEW p \in Procs, KitCrash(p)
      PROVE  UnitInv'
  BY <1>2, FinishKeeps DEF KitCrash, fileVars
<1>3. CASE Environment
  BY <1>3 DEF Environment, ServiceWritesData, fileVars, UnitInv, OneCommand, StandsAt,
     At, TransitionInstalled, UnitMatchesPhase, Installed, ExpectedUnits, UsesCurrentUnit
<1>4. CASE Reboot
  <2>1. \A q \in Procs : cmd'[q].step = "idle"
    BY <1>4 DEF Reboot, Idle
  <2>2. \A q \in Procs : StandsAt(cmd[q])'
    BY <2>1 DEF StandsAt, StageSteps, ActivateSteps, PreviousUnitSteps, SwitchingSteps,
       CandidateUnitSteps
  <2>3. OneCommand'
    BY <2>1 DEF OneCommand, At
  <2> QED
    BY <1>4, <2>2, <2>3 DEF Reboot, fileVars, UnitInv, TransitionInstalled, UnitMatchesPhase, Installed,
       ExpectedUnits, UsesCurrentUnit
<1>5. CASE UNCHANGED vars
  BY <1>5 DEF vars, fileVars, UnitInv, OneCommand, StandsAt, At, TransitionInstalled, UnitMatchesPhase,
     Installed, ExpectedUnits, UsesCurrentUnit
<1> QED
  BY <1>1, <1>2, <1>3, <1>4, <1>5 DEF Next

LEMMA UnitInvInit == ASSUME LifecycleInit, TypeOK PROVE UnitInv
<1>1. \A q \in Procs : cmd[q].step = "idle"
  BY DEF LifecycleInit, Idle
<1> QED
  BY <1>1 DEF LifecycleInit, UnitInv, OneCommand, At, StandsAt, StageSteps, ActivateSteps,
     PreviousUnitSteps, SwitchingSteps, CandidateUnitSteps, TransitionInstalled,
     UnitMatchesPhase, Installed, NoDescriptor

(***************************************************************************)
(* Whatever commands run, whoever dies and whenever the machine reboots,   *)
(* the unit on disk is one that the descriptor's phase announces: the      *)
(* write order of Install, ActivateUpgrade and Uninstall is crash-safe.    *)
(***************************************************************************)
THEOREM UnitAlwaysExplained == Spec => []UnitMatchesPhase
<1>1. LifecycleInit /\ TypeOK => UnitInv
  BY UnitInvInit
<1>2. UnitInv /\ TypeOK' /\ [Next]_vars => UnitInv'
  BY UnitInvStep
<1>3. UnitInv => UnitMatchesPhase
  BY DEF UnitInv
<1> QED
  BY <1>1, <1>2, <1>3, TypeCorrect, PTL DEF Spec

(***************************************************************************)
(* While a command runs nobody else does, and what it holds in memory is   *)
(* the descriptor on disk: acquireLifecycleLock and the verification under *)
(* it, kept up by every write (replaceDescriptor, *descriptor = next),     *)
(* whatever an earlier command that died had left there.                   *)
(***************************************************************************)
THEOREM CommandsAreCurrent == Spec => []CommandsHoldTheDescriptor
<1>1. LifecycleInit /\ TypeOK => UnitInv
  BY UnitInvInit
<1>2. UnitInv /\ TypeOK' /\ [Next]_vars => UnitInv'
  BY UnitInvStep
<1>3. UnitInv => CommandsHoldTheDescriptor
  BY DEF UnitInv, OneCommand, StandsAt, CommandsHoldTheDescriptor
<1> QED
  BY <1>1, <1>2, <1>3, TypeCorrect, PTL DEF Spec

(***************************************************************************)
(* What runs, what would start and what is left on disk.  UnitInv says     *)
(* what the descriptor promises about the unit; the safety invariants need *)
(* to know as well that the manager keeps the promise:  a service that is  *)
(* not terminal was started from the unit on disk (RunsTheUnit), nothing   *)
(* is wanted or running without an installation (UninstalledIsQuiet),      *)
(* outside a transition the manager holds no other unit than the one on    *)
(* disk (SettledFits), and no process of before a switch outlives it       *)
(* (SourceIsGone).                                                         *)
(***************************************************************************)
Runs == svc.state \notin {"inactive", "failed"}

LoadedFits == loaded \in {NoRelease, unit}

Quiet == loaded = NoRelease /\ ~enabled /\ ~Runs

SvcShape ==
    /\ svc.state \in {"inactive", "failed", "restarting"} =>
          svc.pid = NoPid /\ svc.rel = NoRelease
    /\ svc.state = "active" => svc.pid # NoPid /\ svc.rel # NoRelease
    /\ svc.pid = NoPid => svc.health = "none"

RunsTheUnit ==
    Runs => loaded = unit /\ unit # NoRelease /\ svc.rel \in {NoRelease, unit}

UninstalledIsQuiet == ~Installed => Quiet

SettledFits == ~InTransition /\ unit # NoRelease => LoadedFits

SourceIsGone ==
    Active /\ ~UsesCurrentUnit(desc) /\ unit = desc.pend => svc.pid # desc.src

WorldInv ==
    /\ SvcShape
    /\ RunsTheUnit
    /\ UninstalledIsQuiet
    /\ SettledFits
    /\ EnabledServiceCanBoot
    /\ SourceIsGone

\* Where the holder of the lock knows more than that: the service is stopped, ...
StoppedSteps ==
    {"uninstall.disable-missing", "uninstall.executables", "uninstall.unit",
     "uninstall.reload", "uninstall.absent", "uninstall.descriptor",
     "activate.previous-stopped", "activate.switching-unit", "activate.unit",
     "activate.candidate-unit", "activate.reload", "activate.start", "restore.start",
     "rollback.check", "rollback.switching-unit", "rollback.unit",
     "rollback.previous-stopped", "rollback.reload", "rollback.start"}

\* ... it is no longer wanted, its executables and its unit are gone, ...
AbsentSteps == {"uninstall.unit", "uninstall.reload", "uninstall.absent",
                "uninstall.descriptor"}
UnwantedSteps == AbsentSteps \cup {"uninstall.stop", "uninstall.stopped",
                                   "uninstall.executables"}
UnitlessSteps == (AbsentSteps \ {"uninstall.unit"}) \cup PurgeSteps

\* ... the manager holds the unit on disk or none, ...
FittingSteps ==
    (PreviousUnitSteps \cup CandidateUnitSteps) \ {"activate.reload", "rollback.reload"}

\* ... no transition is recorded, ...
BeforeSteps == {"activate.status", "activate.drain", "activate.publish", "activate.resume"}
SettledSteps == StageSteps \cup BeforeSteps \cup
    {"start.status", "start.command", "enable.status", "enable.command",
     "restart.status", "restart.drain", "restart.command"}

\* ... or it drained the service and has still to resume it.
DrainedSteps ==
    {"stop.command", "stop.check", "restart.command", "resume", "uninstall.disable",
     "uninstall.stop", "uninstall.stopped", "activate.publish", "activate.resume",
     "activate.stop", "activate.stopped", "restore.status", "abort"}

\* Steps of an activation that ends with its transition recorded.
GivenUpSteps == {"abort.resume", "final-stop", "mark"}

\* The unit and every executable the descriptor names exist.
Whole == unit # NoRelease /\ \A r \in Tracked(desc) : bins[r] = "file"

Drained == svc.health = "drained"

Accounted(c) ==
    Drained =>
        \/ excused
        \/ c.step \in DrainedSteps /\ c.client = svc.pid
        \/ InTransition /\ c.step \notin ActivateSteps \ GivenUpSteps

OpFits(c) ==
    /\ c.op = "Activate" => c.step \in ActivateSteps
    /\ c.op = "Uninstall" => c.step \in UninstallSteps \cup {"resume"}

SafelyAt(c) ==
    /\ OpFits(c)
    /\ c.step \in SettledSteps => ~InTransition /\ Installed
    /\ c.step \in ActivateSteps \ BeforeSteps => InTransition
    /\ c.step \in ActivateSteps => desc.pend # NoRelease
    /\ c.step \in {"activate.ready", "activate.check", "activate.commit"} =>
          desc.phase = "candidate-started"
    /\ c.step \in SettledSteps \cup ActivateSteps => Whole
    /\ c.step \in FittingSteps => LoadedFits
    /\ c.step \in StoppedSteps => ~Runs
    /\ c.step \in UnwantedSteps => ~enabled
    /\ c.step \in AbsentSteps => \A r \in Releases : bins[r] = "absent"
    /\ c.step \in UnitlessSteps => unit = NoRelease
    /\ c.step = "uninstall.descriptor" => loaded = NoRelease
    /\ c.step \in PurgeSteps => ~Installed
    /\ c.step = "stage.copy" => c.made = {}
    /\ c.step \in {"install.unit", "install.descriptor", "install.manifest"} => c.made # {}
    /\ c.step = "stage.publish" /\ "bin" \in c.made => c.target \notin Tracked(desc)
    /\ c.step \in InstallSteps /\ c.made # {} => Quiet
    /\ Accounted(c)

DrainedWhenFree == LockFree /\ Drained => excused \/ InTransition

SafeInv ==
    /\ WorldInv
    /\ DrainedWhenFree
    /\ \A p \in Procs : OpFits(cmd[p]) /\ (~At(p, "idle") => SafelyAt(cmd[p]))

(***************************************************************************)
(* What the verbs of the manager do to it.                                 *)
(***************************************************************************)
\* No new process is drained, and the one that is stays accounted for.
DrainPersists ==
    Drained' => Drained /\ svc'.pid = svc.pid /\ (excused => excused')

LEMMA WorldStutters ==
    ASSUME WorldInv, UNCHANGED <<desc, unit, bins, loaded, enabled, svc>>
    PROVE  WorldInv'
BY DEF WorldInv, SvcShape, RunsTheUnit, Runs, UninstalledIsQuiet, Quiet, SettledFits,
       LoadedFits, EnabledServiceCanBoot, SourceIsGone, Active, Installed, InTransition,
       UsesCurrentUnit

\* The service record changes, the unit the manager holds does not.
LEMMA ServiceMoves ==
    ASSUME TypeOK, WorldInv, UNCHANGED <<desc, unit, bins, loaded, enabled>>, SvcShape',
           Runs' => Runs /\ svc'.rel \in {NoRelease, svc.rel},
           Active' => Active /\ svc'.pid = svc.pid
    PROVE  WorldInv'
BY DEF WorldInv, RunsTheUnit, Runs, UninstalledIsQuiet, Quiet, SettledFits,
       LoadedFits, EnabledServiceCanBoot, SourceIsGone, Active, Installed, InTransition,
       UsesCurrentUnit

LEMMA Shapes ==
    /\ \A s \in {"inactive", "failed", "restarting"} :
          Stopped(s).state = s /\ Stopped(s).pid = NoPid /\ Stopped(s).rel = NoRelease
          /\ Stopped(s).health = "none"
    /\ \A pid, r : /\ Running(pid, r).state = "active" /\ Running(pid, r).pid = pid
                   /\ Running(pid, r).rel = r /\ Running(pid, r).health = "starting"
BY DEF Stopped, Running

\* A service goes up from the unit on disk.
LEMMA SpawnSafe ==
    ASSUME TypeOK, WorldInv, UNCHANGED <<desc, unit, bins>>, SpawnEffect(FreshPids),
           Installed, LoadedFits
    PROVE  /\ WorldInv' /\ DrainPersists /\ LoadedFits' /\ UNCHANGED enabled
           /\ ~Drained'
<1>1. Resolved = unit /\ unit # NoRelease /\ loaded' = unit /\ enabled' = enabled
  BY DEF SpawnEffect, Resolved, LoadedFits
<1>2. \A pid \in FreshPids : pid \in Pids /\ pid # NoPid /\ pid # desc.src
  BY PidsAssumption DEF FreshPids
<1>3. \/ \E pid \in FreshPids : svc' = Running(pid, unit)
      \/ svc' = Stopped("failed")
  BY <1>1 DEF SpawnEffect, SvcBecomes
<1>4. /\ SvcShape' /\ ~Drained'
      /\ Active' => svc'.pid # desc.src /\ svc'.rel = unit
      /\ Runs' => Active'
  BY <1>1, <1>2, <1>3, Shapes DEF SvcShape, Active, Runs, Drained
<1>5. WorldInv'
  BY <1>1, <1>4 DEF WorldInv, RunsTheUnit, UninstalledIsQuiet, SettledFits,
     LoadedFits, EnabledServiceCanBoot, SourceIsGone, Installed, InTransition
<1> QED
  BY <1>1, <1>4, <1>5 DEF DrainPersists, LoadedFits

\* A start that is still to come: nothing runs yet, from the unit on disk.
LEMMA StartPendingSafe ==
    ASSUME TypeOK, WorldInv, UNCHANGED <<desc, unit, bins>>, StartPending,
           Installed, LoadedFits
    PROVE  /\ WorldInv' /\ DrainPersists /\ LoadedFits' /\ UNCHANGED enabled
           /\ ~Drained'
<1>1. /\ Resolved = unit /\ unit # NoRelease /\ loaded' = unit /\ enabled' = enabled
      /\ svc' = Stopped("restarting")
  BY DEF StartPending, SvcBecomes, Resolved, LoadedFits
<1>2. SvcShape' /\ ~Drained' /\ ~Active' /\ svc'.rel = NoRelease
  BY <1>1, Shapes DEF SvcShape, Active, Drained
<1>3. WorldInv'
  BY <1>1, <1>2 DEF WorldInv, RunsTheUnit, UninstalledIsQuiet, SettledFits,
     LoadedFits, EnabledServiceCanBoot, SourceIsGone, Installed, InTransition
<1> QED
  BY <1>1, <1>2, <1>3 DEF DrainPersists, LoadedFits

LEMMA StartSafe ==
    ASSUME TypeOK, WorldInv, UNCHANGED <<desc, unit, bins>>, NEW ok,
           SystemctlStart(ok, FreshPids), Installed, LoadedFits
    PROVE  WorldInv' /\ DrainPersists /\ LoadedFits' /\ UNCHANGED enabled
<1>1. CASE UNCHANGED managerVars
  BY <1>1, WorldStutters DEF managerVars, DrainPersists, LoadedFits, Drained
<1> QED
  BY <1>1, SpawnSafe, StartPendingSafe DEF SystemctlStart, StartEffect, NoEffect

LEMMA StopEffectSafe ==
    ASSUME TypeOK, WorldInv, UNCHANGED <<desc, unit, bins>>, StopEffect
    PROVE  WorldInv' /\ DrainPersists /\ UNCHANGED <<loaded, enabled>> /\ ~Runs'
<1>1. \E s \in {"inactive", "failed"} : svc' = Stopped(s)
  BY DEF StopEffect, SvcBecomes
<1>2. SvcShape' /\ ~Runs' /\ ~Active' /\ ~Drained'
  BY <1>1, Shapes DEF SvcShape, Runs, Active, Drained
<1> QED
  BY <1>2, ServiceMoves DEF StopEffect, DrainPersists

LEMMA StopPendingSafe ==
    ASSUME TypeOK, WorldInv, UNCHANGED <<desc, unit, bins>>, StopPending
    PROVE  WorldInv' /\ DrainPersists /\ UNCHANGED <<loaded, enabled>> /\ Runs
<1>1. /\ svc' = [svc EXCEPT !.state = "stopping"] /\ UNCHANGED <<loaded, enabled>>
      /\ svc.state \in {"active", "restarting"}
      /\ excused' = (excused /\ svc'.health = "drained")
  BY DEF StopPending, SvcBecomes
<1>2. /\ svc'.state = "stopping" /\ svc'.pid = svc.pid /\ svc'.rel = svc.rel
      /\ svc'.health = svc.health
  BY <1>1 DEF TypeOK, ManagerTypeOK
<1>3. SvcShape' /\ Runs /\ ~Active'
  BY <1>1, <1>2 DEF WorldInv, SvcShape, Runs, Active
<1> QED
  BY <1>1, <1>2, <1>3, ServiceMoves DEF DrainPersists, Drained

LEMMA StopSafe ==
    ASSUME TypeOK, WorldInv, UNCHANGED <<desc, unit, bins>>, NEW ok, SystemctlStop(ok)
    PROVE  WorldInv' /\ DrainPersists /\ UNCHANGED <<loaded, enabled>> /\ (~Runs => ~Runs')
<1>1. CASE UNCHANGED managerVars
  BY <1>1, WorldStutters DEF managerVars, DrainPersists, Drained, Runs
<1> QED
  BY <1>1, StopEffectSafe, StopPendingSafe DEF SystemctlStop, NoEffect

LEMMA ReloadSafe ==
    ASSUME TypeOK, WorldInv, UNCHANGED <<desc, unit, bins>>, NEW ok, SystemctlReload(ok)
    PROVE  /\ WorldInv' /\ DrainPersists /\ UNCHANGED <<enabled, svc, excused>>
           /\ ok => LoadedFits'
           /\ loaded = NoRelease \/ (ok /\ unit = NoRelease) => loaded' = NoRelease
<1>1. CASE UNCHANGED managerVars /\ ~ok
  BY <1>1, WorldStutters DEF managerVars, DrainPersists, Drained
<1>2. CASE ReloadEffect
  BY <1>2 DEF ReloadEffect, Reread, WorldInv, SvcShape, RunsTheUnit, Runs, UninstalledIsQuiet,
     Quiet, SettledFits, LoadedFits, EnabledServiceCanBoot, SourceIsGone, Active, Installed,
     InTransition, UsesCurrentUnit, DrainPersists, Drained
<1> QED
  BY <1>1, <1>2 DEF SystemctlReload, NoEffect

LEMMA EnableSafe ==
    ASSUME TypeOK, WorldInv, UNCHANGED <<desc, unit, bins>>, NEW ok, NEW on \in BOOLEAN,
           SystemctlEnable(ok, on), on => Installed /\ unit # NoRelease /\ bins[unit] = "file"
    PROVE  /\ WorldInv' /\ DrainPersists /\ UNCHANGED <<svc, excused>>
           /\ ok => enabled' = on
<1>1. CASE UNCHANGED managerVars /\ ~ok
  BY <1>1, WorldStutters DEF managerVars, DrainPersists, Drained
<1>2. CASE EnableEffect(on)
  BY <1>2 DEF EnableEffect, Reread, WorldInv, SvcShape, RunsTheUnit, Runs, UninstalledIsQuiet,
     Quiet, SettledFits, LoadedFits, EnabledServiceCanBoot, SourceIsGone, Active, Installed,
     InTransition, UsesCurrentUnit, DrainPersists, Drained
<1> QED
  BY <1>1, <1>2 DEF SystemctlEnable, NoEffect

\* A restart that reports success while the old process stays is excused.
LEMMA RestartSafe ==
    ASSUME TypeOK, WorldInv, UNCHANGED <<desc, unit, bins>>, NEW ok \in BOOLEAN,
           SystemctlRestart(ok, FreshPids), Installed, LoadedFits
    PROVE  WorldInv' /\ DrainPersists /\ (ok /\ Drained' => excused')
<1>1. CASE UNCHANGED <<loaded, enabled, svc>> /\ (excused => excused')
           /\ (ok /\ Drained => excused')
  BY <1>1, WorldStutters DEF DrainPersists, Drained
<1> QED
  BY <1>1, SpawnSafe, StopPendingSafe, StartPendingSafe
     DEF SystemctlRestart, NoEffect, managerVars, Drained

LEMMA ResumeSafe ==
    ASSUME TypeOK, WorldInv, UNCHANGED <<desc, unit, bins>>, NEW client, ResumeEffect(client)
    PROVE  /\ WorldInv' /\ DrainPersists
           /\ client = svc.pid /\ Drained' => excused'
<1>1. CASE UNCHANGED <<svc, excused>> /\ ~(client # NoPid /\ svc.pid = client /\ Drained)
  <2>1. client = svc.pid => ~Drained
    BY <1>1 DEF WorldInv, SvcShape, Drained
  <2> QED
    BY <2>1, <1>1, WorldStutters DEF ResumeEffect, DrainPersists, Drained
<1>2. CASE excused' = TRUE /\ UNCHANGED svc
  BY <1>2, WorldStutters DEF ResumeEffect, DrainPersists, Drained
<1>3. CASE svc' = [svc EXCEPT !.health = "ready"] /\ client # NoPid /\ svc.pid = client
  <2>1. svc'.health = "ready" /\ svc'.state = svc.state /\ svc'.pid = svc.pid
        /\ svc'.rel = svc.rel
    BY <1>3 DEF TypeOK, ManagerTypeOK
  <2>2. SvcShape' /\ ~Drained' /\ (Runs' <=> Runs) /\ (Active' <=> Active)
    BY <1>3, <2>1 DEF WorldInv, SvcShape, Runs, Active, Drained
  <2> QED
    BY <2>1, <2>2, ServiceMoves DEF ResumeEffect, DrainPersists
<1> QED
  BY <1>1, <1>2, <1>3 DEF ResumeEffect, SvcBecomes, Drained

\* A drain changes no more than the health of the process it reached.
LEMMA HealthSafe ==
    ASSUME TypeOK, WorldInv, UNCHANGED <<desc, unit, bins, loaded, enabled>>, Active,
           NEW h \in {"ready", "drained"}, svc' = [svc EXCEPT !.health = h]
    PROVE  /\ WorldInv' /\ svc'.pid = svc.pid /\ svc'.health = h
           /\ (Runs' <=> Runs) /\ (Active' <=> Active)
<1>1. svc'.health = h /\ svc'.state = svc.state /\ svc'.pid = svc.pid
      /\ svc'.rel = svc.rel
  BY DEF TypeOK, ManagerTypeOK
<1>2. SvcShape' /\ (Runs' <=> Runs) /\ (Active' <=> Active)
  BY <1>1 DEF WorldInv, SvcShape, Runs, Active
<1> QED
  BY <1>1, <1>2, ServiceMoves

(***************************************************************************)
(* Frames: a step concerns the holder of the lock alone.                   *)
(***************************************************************************)
LEMMA HolderKeeps ==
    ASSUME UnitInv, SafeInv, NEW p \in Procs, ~At(p, "idle"), lock' = lock,
           \A q \in Procs \ {p} : cmd'[q] = cmd[q],
           WorldInv', SafelyAt(cmd[p])'
    PROVE  SafeInv'
<1>1. lock = p /\ lock # NoProc /\ \A q \in Procs \ {p} : cmd[q].step = "idle"
  BY ProcsAssumption DEF UnitInv, OneCommand, At
<1>2. \A q \in Procs : OpFits(cmd[q])' /\ (~At(q, "idle")' => SafelyAt(cmd[q])')
  BY <1>1 DEF At, SafeInv, SafelyAt, OpFits
<1> QED
  BY <1>1, <1>2 DEF SafeInv, DrainedWhenFree, LockFree

LEMMA DoneKeeps ==
    ASSUME UnitInv, SafeInv, NEW p \in Procs, ~At(p, "idle"), NEW r, Finish(p, r),
           WorldInv', Drained' => excused' \/ InTransition'
    PROVE  SafeInv'
<1>1. \A q \in Procs \ {p} : cmd[q].step = "idle"
  BY ProcsAssumption DEF UnitInv, OneCommand, At
<1>2. \A q \in Procs : cmd'[q].step = "idle" /\ OpFits(cmd[q])'
  BY <1>1 DEF Finish, Idle, UnitInv, TypeOK, SafeInv, OpFits
<1> QED
  BY <1>2 DEF SafeInv, DrainedWhenFree, At

LEMMA HolderIsSafe ==
    ASSUME SafeInv, NEW p \in Procs, ~At(p, "idle")
    PROVE  SafelyAt(cmd[p])
BY DEF SafeInv

LEMMA GotoFields ==
    ASSUME UnitInv, NEW p \in Procs, NEW s, Goto(p, s)
    PROVE  /\ cmd'[p].step = s /\ cmd'[p].op = cmd[p].op /\ cmd'[p].mine = cmd[p].mine
           /\ cmd'[p].client = cmd[p].client /\ cmd'[p].target = cmd[p].target
           /\ cmd'[p].made = cmd[p].made
           /\ \A q \in Procs \ {p} : cmd'[q] = cmd[q]
           /\ lock' = lock
BY DEF Goto, UnitInv, TypeOK

LEMMA GotoSafe ==
    ASSUME UnitInv, SafeInv, NEW p \in Procs, ~At(p, "idle"), NEW s, Goto(p, s),
           WorldInv', SafelyAt(cmd[p])'
    PROVE  SafeInv'
BY GotoFields, HolderKeeps

\* Returning without a change needs that no drained service is left to resume.
LEMMA FailSafe ==
    ASSUME UnitInv, SafeInv, NEW p \in Procs, ~At(p, "idle"), NEW r, Fail(p, r),
           cmd[p].step \notin DrainedSteps \/ ~Drained
    PROVE  SafeInv'
<1>1. WorldInv' /\ UNCHANGED <<desc, svc, excused>> /\ Finish(p, r)
  BY WorldStutters DEF Fail, fileVars, managerVars, SafeInv
<1>2. Drained => excused \/ InTransition
  BY HolderIsSafe DEF SafelyAt, OpFits, Accounted
<1> QED
  BY <1>1, <1>2, DoneKeeps DEF Drained, InTransition

\* What the lock's last holder left is what its next one finds.
LEMMA BeginSafe ==
    ASSUME UnitInv, SafeInv, NEW p \in Procs, NEW o, NEW s, NEW t, Begin(p, o, s, t),
           UNCHANGED <<desc, unit, bins>>
    PROVE  /\ WorldInv' /\ (Drained' => excused' \/ InTransition')
           /\ cmd'[p].step = s /\ cmd'[p].op = o /\ cmd'[p].made = {} /\ cmd'[p].target = t
           /\ SafelyAt(cmd[p])' => SafeInv'
<1>1. \A q \in Procs : cmd[q].step = "idle"
  BY ProcsAssumption DEF Begin, LockFree, UnitInv, OneCommand, At
<1>2. WorldInv' /\ UNCHANGED managerVars
  BY WorldStutters DEF Begin, managerVars, SafeInv
<1>3. /\ cmd'[p].step = s /\ cmd'[p].op = o /\ cmd'[p].made = {} /\ cmd'[p].target = t
      /\ \A q \in Procs \ {p} : cmd'[q] = cmd[q]
  BY DEF Begin, Idle, UnitInv, TypeOK
<1>4. lock' # NoProc
  BY ProcsAssumption DEF Begin
<1>5. Drained' => excused' \/ InTransition'
  BY <1>2 DEF Begin, SafeInv, DrainedWhenFree, managerVars, Drained, InTransition
<1>6. SafelyAt(cmd[p])' => \A q \in Procs : OpFits(cmd[q])'
  BY <1>3 DEF SafeInv, SafelyAt, OpFits
<1> QED
  BY <1>1, <1>2, <1>3, <1>4, <1>5, <1>6 DEF SafeInv, DrainedWhenFree, LockFree, At

VerifiedIsWhole == Verified => ~InTransition /\ Installed /\ Whole

LEMMA VerifiedWhole == VerifiedIsWhole
BY DEF VerifiedIsWhole, Verified, Whole, ExpectedUnits, UsesCurrentUnit, InTransition, Installed

(***************************************************************************)
(* Start, Enable, Disable, Stop, Restart.                                  *)
(***************************************************************************)
LEMMA SafelyControlled ==
    ASSUME NEW p, cmd'[p].step \in ControlSteps, cmd'[p].op # "Activate",
           cmd'[p].op = "Uninstall" => cmd'[p].step = "resume",
           cmd'[p].step \in SettledSteps => ~InTransition' /\ Installed' /\ Whole',
           Accounted(cmd[p])'
    PROVE  SafelyAt(cmd[p])'
BY DEF SafelyAt, OpFits, ControlSteps, SettledSteps, ActivateSteps, PreviousUnitSteps, SwitchingSteps,
       CandidateUnitSteps, BeforeSteps, FittingSteps, StoppedSteps, UnwantedSteps, AbsentSteps,
       UnitlessSteps, PurgeSteps, InstallSteps, UninstallSteps, StageSteps

LEMMA ControlKnows ==
    ASSUME SafeInv, NEW p \in Procs, cmd[p].step \in ControlSteps
    PROVE  /\ ~At(p, "idle") /\ SafelyAt(cmd[p]) /\ cmd[p].op # "Activate"
           /\ cmd[p].step # "resume" => cmd[p].op # "Uninstall"
           /\ cmd[p].step \notin ActivateSteps
           /\ cmd[p].step \in SettledSteps => ~InTransition /\ Installed /\ Whole /\ LoadedFits
<1>1. ~At(p, "idle") /\ cmd[p].step \notin ActivateSteps
      /\ cmd[p].step \notin UninstallSteps
  BY DEF At, ControlSteps, ActivateSteps, PreviousUnitSteps, SwitchingSteps, CandidateUnitSteps,
     UninstallSteps
<1>2. SafelyAt(cmd[p]) /\ SettledFits
  BY <1>1, HolderIsSafe DEF SafeInv, WorldInv
<1> QED
  BY <1>1, <1>2 DEF SafelyAt, OpFits, SettledFits, Whole

LEMMA ControlGoes ==
    ASSUME UnitInv, SafeInv, NEW p \in Procs, cmd[p].step \in ControlSteps \ {"resume"},
           UNCHANGED <<desc, unit, bins>>, WorldInv', NEW s \in ControlSteps, Goto(p, s),
           s \in SettledSteps => cmd[p].step \in SettledSteps,
           DrainPersists,
           cmd[p].step \in DrainedSteps /\ Drained' => s \in DrainedSteps \/ excused'
    PROVE  SafeInv'
<1>1. /\ cmd'[p].step = s /\ cmd'[p].op = cmd[p].op /\ cmd'[p].client = cmd[p].client
      /\ SafelyAt(cmd[p]) /\ ~At(p, "idle")
  BY GotoFields, ControlKnows
<1>2. Accounted(cmd[p])
  BY <1>1 DEF SafelyAt, OpFits
<1>3. s \notin ActivateSteps
  BY DEF ControlSteps, ActivateSteps, PreviousUnitSteps, SwitchingSteps, CandidateUnitSteps
<1>4. Accounted(cmd[p])'
  BY <1>1, <1>2, <1>3 DEF Accounted, DrainPersists, InTransition, Drained
<1>5. SafelyAt(cmd[p])'
  BY <1>1, <1>4, ControlKnows, SafelyControlled DEF InTransition, Installed, Whole, Tracked
<1> QED
  BY <1>1, <1>5, GotoSafe

\* The drains of every command.
LEMMA DrainSafe ==
    ASSUME UnitInv, SafeInv, NEW p \in Procs, ~At(p, "idle"), NEW e, NEW s,
           cmd[p].step \notin DrainedSteps
    PROVE  /\ DrainFails(p, e) => SafeInv'
           /\ DrainSkipped(p, s) => /\ WorldInv' /\ Goto(p, s) /\ UNCHANGED <<fileVars, managerVars>>
                                    /\ Drained' => excused' \/ InTransition'
           /\ DrainSucceeds(p, e, s) =>
                 /\ WorldInv' /\ UNCHANGED <<fileVars, loaded, enabled, lock>>
                 /\ cmd'[p].step = s /\ cmd'[p].op = cmd[p].op /\ cmd'[p].client = svc'.pid
                 /\ cmd'[p].made = cmd[p].made
                 /\ \A q \in Procs \ {p} : cmd'[q] = cmd[q]
                 /\ Active /\ Active' /\ Runs /\ svc'.pid = svc.pid
<1> USE DEF fileVars, managerVars
<1>1. Drained => excused \/ InTransition
  BY HolderIsSafe DEF SafelyAt, OpFits, Accounted
<1>2. WorldInv /\ TypeOK /\ (Active => Runs)
  BY DEF SafeInv, UnitInv, Active, Runs
<1>3. ASSUME DrainFails(p, e)
      PROVE  SafeInv'
  <2>1. Finish(p, "error") /\ UNCHANGED <<desc, unit, bins, loaded, enabled>>
    BY <1>3 DEF DrainFails
  <2>2. CASE UNCHANGED managerVars
    BY <1>1, <1>2, <2>1, <2>2, WorldStutters, DoneKeeps DEF Drained, InTransition
  <2>3. CASE Active /\ SvcBecomes([svc EXCEPT !.health = "ready"])
    <3>1. WorldInv' /\ svc'.health = "ready"
      BY <1>2, <2>1, <2>3, HealthSafe DEF SvcBecomes
    <3> QED
      BY <3>1, <2>1, DoneKeeps DEF Drained
  <2>4. CASE Active /\ svc' = [svc EXCEPT !.health = "drained"] /\ excused' = TRUE
    <3>1. WorldInv'
      BY <1>2, <2>1, <2>4, HealthSafe
    <3> QED
      BY <3>1, <2>1, <2>4, DoneKeeps
  <2> QED
    BY <1>3, <2>2, <2>3, <2>4 DEF DrainFails
<1>4. ASSUME DrainSkipped(p, s)
      PROVE  /\ WorldInv' /\ Goto(p, s) /\ UNCHANGED <<fileVars, managerVars>>
             /\ Drained' => excused' \/ InTransition'
  BY <1>1, <1>2, <1>4, WorldStutters DEF DrainSkipped, Drained, InTransition
<1>5. ASSUME DrainSucceeds(p, e, s)
      PROVE  /\ WorldInv' /\ UNCHANGED <<fileVars, loaded, enabled, lock>>
             /\ cmd'[p].step = s /\ cmd'[p].op = cmd[p].op /\ cmd'[p].client = svc'.pid
             /\ cmd'[p].made = cmd[p].made
             /\ \A q \in Procs \ {p} : cmd'[q] = cmd[q]
             /\ Active /\ Active' /\ Runs /\ svc'.pid = svc.pid
  <2>1. /\ Active /\ svc' = [svc EXCEPT !.health = "drained"]
        /\ cmd' = [cmd EXCEPT ![p].step = s, ![p].client = svc.pid]
        /\ UNCHANGED <<fileVars, loaded, enabled, lock>>
    BY <1>5 DEF DrainSucceeds, SvcBecomes
  <2>2. /\ WorldInv' /\ svc'.pid = svc.pid /\ Active'
    BY <1>2, <2>1, HealthSafe
  <2>3. /\ cmd'[p].step = s /\ cmd'[p].op = cmd[p].op /\ cmd'[p].client = svc.pid
        /\ cmd'[p].made = cmd[p].made
        /\ \A q \in Procs \ {p} : cmd'[q] = cmd[q]
    BY <2>1, <1>2 DEF TypeOK
  <2> QED
    BY <1>2, <2>1, <2>2, <2>3
<1> QED
  BY <1>3, <1>4, <1>5

LEMMA ControlSafe ==
    ASSUME UnitInv, SafeInv, NEW p \in Procs, BeginControl(p) \/ ControlNext(p)
    PROVE  SafeInv'
<1> USE DEF At, fileVars
<1>0. TypeOK /\ WorldInv
  BY DEF UnitInv, SafeInv
<1>1. CASE BeginControl(p)
  <2>1. PICK o \in Ops \ {"Activate", "Uninstall"}, s \in ControlSteps : BeginCommand(p, o, s)
    BY <1>1 DEF BeginControl, Ops, ControlSteps
  <2>2. Begin(p, o, s, NoRelease) /\ UNCHANGED <<desc, unit, bins>> /\ Verified
    BY <2>1 DEF BeginCommand
  <2>3. /\ cmd'[p].step = s /\ cmd'[p].op = o /\ (Drained' => excused' \/ InTransition')
        /\ SafelyAt(cmd[p])' => SafeInv'
    BY <2>2, BeginSafe
  <2>4. ~InTransition' /\ Installed' /\ Whole'
    BY <2>2, VerifiedWhole DEF VerifiedIsWhole, InTransition, Installed, Whole, Tracked
  <2> QED
    BY <2>3, <2>4, SafelyControlled DEF Accounted
<1>2. CASE ControlNext(p) /\ cmd[p].step = "resume"
  <2>1. CASE ResumeAfterFailure(p)
    <3>1. /\ Finish(p, "error") /\ ResumeEffect(cmd[p].client) /\ UNCHANGED <<desc, unit, bins>>
      BY <2>1 DEF ResumeAfterFailure, FailWithResume
    <3>2. /\ WorldInv' /\ DrainPersists
          /\ cmd[p].client = svc.pid /\ Drained' => excused'
      BY <1>0, <3>1, ResumeSafe
    <3>3. Accounted(cmd[p])
      BY <1>2, HolderIsSafe DEF SafelyAt, OpFits
    <3>4. Drained' => excused' \/ InTransition'
      BY <3>1, <3>2, <3>3 DEF Accounted, DrainPersists, InTransition
    <3> QED
      BY <1>2, <3>1, <3>2, <3>4, DoneKeeps
  <2> QED
    BY <1>2, <2>1 DEF ControlNext, StartStatus, StartCommand, AwaitReady, StartedStatus,
       EnableStatus, EnableCommand, EnableCheck, StopStatus, RestartStatus, Drain,
       StopCommand, StopCheck, RestartCommand, RestartCheck
<1> USE DEF SettledSteps, BeforeSteps, StageSteps, DrainedSteps, ControlSteps
<1>3. ASSUME NEW s \in ControlSteps, Goto(p, s), UNCHANGED <<fileVars, managerVars>>,
             cmd[p].step \in ControlSteps \ {"resume"},
             s \in SettledSteps => cmd[p].step \in SettledSteps,
             cmd[p].step \in DrainedSteps /\ Drained => s \in DrainedSteps \/ excused
      PROVE  SafeInv'
  <2>1. WorldInv' /\ DrainPersists /\ (Drained' <=> Drained) /\ excused' = excused
    BY <1>0, <1>3, WorldStutters DEF managerVars, DrainPersists, Drained
  <2>2. UNCHANGED <<desc, unit, bins>>
    BY <1>3
  <2> HIDE DEF SettledSteps, BeforeSteps, StageSteps, DrainedSteps, ControlSteps
  <2> QED
    BY <1>3, <2>1, <2>2, ControlGoes
<1>4. CASE StartStatus(p) \/ EnableStatus(p) \/ AwaitReady(p) \/ StartedStatus(p) \/ EnableCheck(p)
  BY <1>3, <1>4, FailSafe DEF StartStatus, EnableStatus, AwaitReady, StartedStatus, EnableCheck
<1>5. CASE StartCommand(p)
  <2>1. /\ cmd[p].step = "start.command" /\ UNCHANGED <<desc, unit, bins>>
        /\ \E ok \in BOOLEAN : SystemctlStart(ok, FreshPids)
    BY <1>5 DEF StartCommand
  <2>2. ~At(p, "idle") /\ Installed /\ LoadedFits /\ SafelyAt(cmd[p])
    BY <2>1, ControlKnows
  <2>3. WorldInv' /\ DrainPersists
    BY <1>0, <2>1, <2>2, StartSafe
  <2>4. CASE Goto(p, "start.ready")
    BY <2>1, <2>3, <2>4, ControlGoes
  <2>5. CASE Finish(p, "error")
    <3>1. Drained' => excused' \/ InTransition'
      BY <2>1, <2>2, <2>3 DEF SafelyAt, OpFits, Accounted, DrainPersists, InTransition
    <3> QED
      BY <2>1, <2>2, <2>3, <2>5, <3>1, DoneKeeps
  <2> QED
    BY <1>5, <2>4, <2>5 DEF StartCommand
<1>6. CASE EnableCommand(p)
  <2>1. /\ cmd[p].step = "enable.command" /\ UNCHANGED <<desc, unit, bins>>
        /\ \E ok, on \in BOOLEAN : SystemctlEnable(ok, on)
    BY <1>6 DEF EnableCommand
  <2>2. ~At(p, "idle") /\ Installed /\ Whole /\ SafelyAt(cmd[p]) /\ ~InTransition
    BY <2>1, ControlKnows
  <2>3. bins[unit] = "file" /\ unit # NoRelease
    BY <2>2 DEF UnitInv, UnitMatchesPhase, ExpectedUnits, UsesCurrentUnit, InTransition, Whole,
       Tracked, Installed
  <2>4. WorldInv' /\ DrainPersists
    BY <1>0, <2>1, <2>2, <2>3, EnableSafe
  <2>5. CASE Goto(p, "enable.check")
    BY <2>1, <2>4, <2>5, ControlGoes
  <2>6. CASE Finish(p, "error")
    <3>1. Drained' => excused' \/ InTransition'
      BY <2>1, <2>2, <2>4 DEF SafelyAt, OpFits, Accounted, DrainPersists, InTransition
    <3> QED
      BY <2>1, <2>2, <2>4, <2>6, <3>1, DoneKeeps
  <2> QED
    BY <1>6, <2>5, <2>6 DEF EnableCommand
<1>7. CASE StopStatus(p) \/ RestartStatus(p)
  <2>1. cmd[p].step \in {"stop.status", "restart.status"}
    BY <1>7 DEF StopStatus, RestartStatus
  <2>2. CASE Fail(p, "error")
    BY <2>1, <2>2, FailSafe
  <2>3. ASSUME NEW s \in {"stop.drain", "restart.drain"}, Observe(p, s),
               s = "restart.drain" => cmd[p].step = "restart.status"
        PROVE  SafeInv'
    <3>1. /\ cmd'[p].step = s /\ cmd'[p].op = cmd[p].op /\ cmd'[p].client = cmd[p].client
          /\ \A q \in Procs \ {p} : cmd'[q] = cmd[q]
          /\ lock' = lock /\ UNCHANGED <<fileVars, managerVars>>
      BY <1>0, <2>3 DEF Observe, TypeOK
    <3>2. WorldInv' /\ ~At(p, "idle") /\ SafelyAt(cmd[p])
      BY <1>0, <2>1, <3>1, WorldStutters, ControlKnows DEF managerVars
    <3>3. Accounted(cmd[p])'
      BY <2>1, <3>1, <3>2 DEF SafelyAt, OpFits, Accounted, managerVars, Drained, InTransition,
         ActivateSteps, PreviousUnitSteps, SwitchingSteps, CandidateUnitSteps
    <3>4. SafelyAt(cmd[p])'
      BY <2>1, <2>3, <3>1, <3>3, ControlKnows, SafelyControlled DEF InTransition, Installed, Whole, Tracked
    <3> QED
      BY <3>1, <3>2, <3>4, HolderKeeps
  <2> QED
    BY <1>7, <2>1, <2>2, <2>3 DEF StopStatus, RestartStatus
<1>8. CASE Drain(p)
  <2>1. PICK s \in {"stop.command", "restart.command"} :
           /\ \/ DrainSucceeds(p, cmd[p].mine.cur, s) \/ DrainSkipped(p, s)
              \/ DrainFails(p, cmd[p].mine.cur)
           /\ \/ cmd[p].step = "stop.drain" /\ s = "stop.command"
              \/ cmd[p].step = "restart.drain" /\ s = "restart.command"
    BY <1>8 DEF Drain
  <2>2. ~At(p, "idle") /\ cmd[p].step \notin DrainedSteps /\ cmd[p].step \in ControlSteps
    BY <2>1
  <2>3. CASE DrainSkipped(p, s)
    BY <1>3, <2>1, <2>2, <2>3 DEF DrainSkipped
  <2>4. CASE DrainSucceeds(p, cmd[p].mine.cur, s)
    <3>1. /\ WorldInv' /\ UNCHANGED <<fileVars, loaded, enabled, lock>>
          /\ cmd'[p].step = s /\ cmd'[p].op = cmd[p].op /\ cmd'[p].client = svc'.pid
          /\ \A q \in Procs \ {p} : cmd'[q] = cmd[q]
      BY <2>2, <2>4, DrainSafe
    <3>2. Accounted(cmd[p])'
      BY <2>1, <3>1 DEF Accounted
    <3>3. SafelyAt(cmd[p])'
      BY <2>1, <3>1, <3>2, ControlKnows, SafelyControlled DEF InTransition, Installed, Whole, Tracked
    <3> QED
      BY <2>2, <3>1, <3>3, HolderKeeps
  <2> QED
    BY <2>1, <2>2, <2>3, <2>4, DrainSafe
<1>9. CASE StopCommand(p)
  <2>1. /\ cmd[p].step = "stop.command" /\ UNCHANGED <<desc, unit, bins>>
        /\ \E ok \in BOOLEAN : SystemctlStop(ok)
        /\ Goto(p, "stop.check") \/ Goto(p, "resume")
    BY <1>9 DEF StopCommand
  <2>2. WorldInv' /\ DrainPersists
    BY <1>0, <2>1, StopSafe
  <2> QED
    BY <2>1, <2>2, ControlGoes
<1>10. CASE StopCheck(p)
  <2>1. TerminalStopped => ~Drained
    BY <1>0 DEF TerminalStopped, WorldInv, SvcShape, Drained
  <2> QED
    BY <1>3, <1>10, <2>1, FailSafe DEF StopCheck
<1>11. CASE RestartCommand(p)
  <2>1. /\ cmd[p].step = "restart.command" /\ UNCHANGED <<desc, unit, bins>>
        /\ \/ SystemctlRestart(TRUE, FreshPids) /\ Goto(p, "restart.check")
           \/ SystemctlRestart(FALSE, FreshPids) /\ Goto(p, "resume")
    BY <1>11 DEF RestartCommand
  <2>2. Installed /\ LoadedFits
    BY <2>1, ControlKnows
  <2>3. CASE SystemctlRestart(TRUE, FreshPids) /\ Goto(p, "restart.check")
    <3>1. WorldInv' /\ DrainPersists /\ (Drained' => excused')
      BY <1>0, <2>1, <2>2, <2>3, RestartSafe
    <3> QED
      BY <2>1, <2>3, <3>1, ControlGoes
  <2>4. CASE SystemctlRestart(FALSE, FreshPids) /\ Goto(p, "resume")
    <3>1. WorldInv' /\ DrainPersists
      BY <1>0, <2>1, <2>2, <2>4, RestartSafe
    <3> QED
      BY <2>1, <2>4, <3>1, ControlGoes
  <2> QED
    BY <2>1, <2>3, <2>4
<1>12. CASE RestartCheck(p)
  <2>1. cmd[p].step = "restart.check"
    BY <1>12 DEF RestartCheck
  <2>2. CASE /\ excused' = (excused \/ svc.health = "drained") /\ Finish(p, "error")
             /\ UNCHANGED <<fileVars, loaded, enabled, svc>>
    <3>1. WorldInv' /\ (Drained' => excused')
      BY <1>0, <2>2, WorldStutters DEF Drained
    <3> QED
      BY <2>1, <2>2, <3>1, DoneKeeps
  <2> QED
    BY <1>3, <1>12, <2>1, <2>2, FailSafe DEF RestartCheck
<1>13. CASE ResumeAfterFailure(p)
  BY <1>2, <1>13 DEF ResumeAfterFailure, ControlNext
<1> QED
  BY <1>1, <1>4, <1>5, <1>6, <1>7, <1>8, <1>9, <1>10, <1>11, <1>12, <1>13 DEF ControlNext

(***************************************************************************)
(* Writes to the files.                                                    *)
(***************************************************************************)
\* While nothing runs, is wanted or loaded, any file may change.
LEMMA QuietKeeps ==
    ASSUME TypeOK, WorldInv, Quiet, UNCHANGED <<loaded, enabled, svc>>
    PROVE  WorldInv' /\ Quiet' /\ ~Drained'
<1>1. Quiet' /\ SvcShape'
  BY DEF Quiet, Runs, WorldInv, SvcShape
<1>2. ~Drained' /\ ~Active'
  BY DEF Quiet, Runs, WorldInv, SvcShape, Drained, Active
<1> QED
  BY <1>1, <1>2 DEF WorldInv, RunsTheUnit, Runs, UninstalledIsQuiet, Quiet, SettledFits,
     LoadedFits, EnabledServiceCanBoot, SourceIsGone

LEMMA ExecutablesChange ==
    ASSUME WorldInv, UNCHANGED <<desc, unit, loaded, enabled, svc>>,
           enabled => bins'[unit] = "file"
    PROVE  WorldInv'
BY DEF WorldInv, SvcShape, RunsTheUnit, Runs, UninstalledIsQuiet, Quiet, SettledFits,
       LoadedFits, EnabledServiceCanBoot, SourceIsGone, Active, Installed, InTransition,
       UsesCurrentUnit

LEMMA DescriptorChanges ==
    ASSUME WorldInv, UNCHANGED <<unit, bins, loaded, enabled, svc>>, Installed',
           desc'.phase = "none" => LoadedFits \/ unit = NoRelease,
           SourceIsGone'
    PROVE  WorldInv'
BY DEF WorldInv, SvcShape, RunsTheUnit, Runs, UninstalledIsQuiet, Quiet, SettledFits,
       LoadedFits, EnabledServiceCanBoot, Installed, InTransition

\* The unit changes while the service is stopped.
LEMMA UnitChanges ==
    ASSUME WorldInv, UNCHANGED <<desc, bins, loaded, enabled, svc>>, ~Runs, Installed,
           enabled => unit' # NoRelease /\ bins[unit'] = "file",
           InTransition \/ unit' = NoRelease
    PROVE  WorldInv'
BY DEF WorldInv, SvcShape, RunsTheUnit, Runs, UninstalledIsQuiet, Quiet, SettledFits,
       LoadedFits, EnabledServiceCanBoot, SourceIsGone, Active, Installed, InTransition

LEMMA SafeStutters ==
    ASSUME SafeInv, UNCHANGED <<desc, unit, bins, loaded, enabled, svc, excused, lock, cmd>>
    PROVE  SafeInv'
<1>1. WorldInv'
  BY WorldStutters DEF SafeInv
<1>2. \A p \in Procs : SafelyAt(cmd[p]) => SafelyAt(cmd[p])'
  BY DEF SafelyAt, OpFits, Accounted, InTransition, Installed, Whole, LoadedFits, Runs, Quiet, Drained
<1> QED
  BY <1>1, <1>2 DEF SafeInv, DrainedWhenFree, LockFree, Drained, InTransition, At, OpFits

LEMMA AccountedOn ==
    ASSUME NEW p, Accounted(cmd[p]), DrainPersists, UNCHANGED desc,
           cmd'[p].client = cmd[p].client,
           cmd'[p].step \notin ActivateSteps \ GivenUpSteps,
           cmd[p].step \in DrainedSteps => cmd'[p].step \in DrainedSteps \/ ~Drained' \/ excused'
    PROVE  Accounted(cmd[p])'
BY DEF Accounted, DrainPersists, InTransition, Drained

\* The outcome of a step that ends the command.
LEMMA AccountedOut ==
    ASSUME NEW p, Accounted(cmd[p]), DrainPersists, UNCHANGED desc,
           cmd[p].step \notin DrainedSteps
    PROVE  Drained' => excused' \/ InTransition'
BY DEF Accounted, DrainPersists, InTransition, Drained

LEMMA SameService == ASSUME UNCHANGED <<svc, excused>> PROVE DrainPersists
BY DEF DrainPersists, Drained

LEMMA StoppedIsNotDrained == ASSUME WorldInv, ~Runs, TypeOK PROVE ~Drained /\ ~Active /\ TerminalStopped
BY DEF WorldInv, SvcShape, Runs, Drained, Active, TerminalStopped, TypeOK, ManagerTypeOK

(***************************************************************************)
(* Install and StageUpgrade.                                               *)
(***************************************************************************)
LEMMA SafelyInstalling ==
    ASSUME NEW p, cmd'[p].step \in InstallSteps, cmd'[p].op \notin {"Activate", "Uninstall"},
           cmd'[p].made # {} => Quiet',
           cmd'[p].step \in {"install.unit", "install.descriptor", "install.manifest"} =>
               cmd'[p].made # {},
           Accounted(cmd[p])'
    PROVE  SafelyAt(cmd[p])'
BY DEF SafelyAt, OpFits, ControlSteps, SettledSteps, ActivateSteps, PreviousUnitSteps, SwitchingSteps,
       CandidateUnitSteps, BeforeSteps, FittingSteps, StoppedSteps, UnwantedSteps, AbsentSteps,
       UnitlessSteps, PurgeSteps, InstallSteps, UninstallSteps, StageSteps

LEMMA InstallKnows ==
    ASSUME UnitInv, SafeInv, NEW p \in Procs, cmd[p].step \in InstallSteps
    PROVE  /\ ~At(p, "idle") /\ SafelyAt(cmd[p]) /\ cmd[p].op \notin {"Activate", "Uninstall"}
           /\ cmd[p].step \notin ActivateSteps \cup DrainedSteps
           /\ cmd[p].made # {} => Quiet
           /\ cmd[p].step \in {"install.copy", "install.unit", "install.descriptor"} => Quiet
           /\ cmd[p].step \in {"install.unit", "install.descriptor", "install.manifest"} =>
                 cmd[p].made # {}
<1>1. ~At(p, "idle") /\ cmd[p].step \notin ActivateSteps /\ cmd[p].step \notin DrainedSteps
      /\ cmd[p].step \notin UninstallSteps \cup {"resume"}
  BY DEF At, InstallSteps, ActivateSteps, PreviousUnitSteps, SwitchingSteps, CandidateUnitSteps,
     UninstallSteps, DrainedSteps
<1>2. SafelyAt(cmd[p]) /\ UninstalledIsQuiet /\ StandsAt(cmd[p])
  BY <1>1, HolderIsSafe DEF SafeInv, WorldInv, UnitInv
<1> QED
  BY <1>1, <1>2 DEF SafelyAt, OpFits, StandsAt, UninstalledIsQuiet

LEMMA MakeFields ==
    ASSUME TypeOK, NEW p \in Procs, NEW f, NEW s, MakeAndGoto(p, f, s)
    PROVE  /\ cmd'[p].step = s /\ cmd'[p].op = cmd[p].op /\ cmd'[p].mine = cmd[p].mine
           /\ cmd'[p].client = cmd[p].client /\ cmd'[p].target = cmd[p].target
           /\ cmd'[p].made = cmd[p].made \cup {f}
           /\ \A q \in Procs \ {p} : cmd'[q] = cmd[q]
           /\ lock' = lock
BY DEF MakeAndGoto, TypeOK

\* A step of an Install that still has nothing to do with a service.
LEMMA InstallQuietly ==
    ASSUME UnitInv, SafeInv, NEW p \in Procs, cmd[p].step \in InstallSteps, Quiet,
           UNCHANGED <<loaded, enabled, svc>>,
           \/ \E r : Finish(p, r)
           \/ /\ cmd'[p].step \in InstallSteps /\ cmd'[p].op = cmd[p].op /\ lock' = lock
              /\ cmd'[p].step \in {"install.unit", "install.descriptor", "install.manifest"} =>
                    cmd'[p].made # {}
              /\ \A q \in Procs \ {p} : cmd'[q] = cmd[q]
    PROVE  SafeInv'
<1>1. WorldInv' /\ Quiet' /\ ~Drained'
  BY QuietKeeps DEF SafeInv, UnitInv
<1>2. ~At(p, "idle") /\ cmd[p].op \notin {"Activate", "Uninstall"}
  BY InstallKnows
<1>3. CASE \E r : Finish(p, r)
  BY <1>1, <1>2, <1>3, DoneKeeps
<1>4. CASE /\ cmd'[p].step \in InstallSteps /\ cmd'[p].op = cmd[p].op /\ lock' = lock
           /\ cmd'[p].step \in {"install.unit", "install.descriptor", "install.manifest"} =>
                 cmd'[p].made # {}
           /\ \A q \in Procs \ {p} : cmd'[q] = cmd[q]
  <2>1. SafelyAt(cmd[p])'
    BY <1>1, <1>2, <1>4, SafelyInstalling DEF Accounted
  <2> QED
    BY <1>1, <1>2, <1>4, <2>1, HolderKeeps
<1> QED
  BY <1>3, <1>4

LEMMA InstallSafe ==
    ASSUME UnitInv, SafeInv, NEW p \in Procs, InstallNext(p)
    PROVE  SafeInv'
<1> USE DEF At, fileVars, managerVars
<1>0. TypeOK /\ WorldInv
  BY DEF UnitInv, SafeInv
<1>1. CASE InstallPreparesDirectories(p)
  BY <1>1, SafeStutters DEF InstallPreparesDirectories
<1>2. ASSUME NEW r \in Releases, BeginInstall(p, r) \/ BeginReinstall(p, r)
      PROVE  SafeInv'
  <2>1. PICK s \in InstallSteps : /\ Begin(p, "Install", s, r) /\ UNCHANGED <<desc, unit, bins>>
                                  /\ s \in {"install.copy", "install.reload"}
    BY <1>2 DEF BeginInstall, BeginReinstall, InstallSteps
  <2>2. /\ cmd'[p].step = s /\ cmd'[p].op = "Install" /\ cmd'[p].made = {}
        /\ Drained' => excused' \/ InTransition'
        /\ SafelyAt(cmd[p])' => SafeInv'
    BY <2>1, BeginSafe
  <2>3. Accounted(cmd[p])'
    BY <2>1, <2>2 DEF Accounted, ActivateSteps, PreviousUnitSteps, SwitchingSteps, CandidateUnitSteps
  <2> QED
    BY <2>1, <2>2, <2>3, SafelyInstalling
<1>3. CASE InstallCopy(p)
  <2>1. cmd[p].step \in InstallSteps /\ Quiet /\ UNCHANGED <<loaded, enabled, svc>>
    BY <1>3, InstallKnows DEF InstallCopy, InstallSteps, CopyExecutable, CopyFails
  <2>2. CASE CopyExecutable(p, "install.unit")
    <3>1. /\ cmd'[p].step = "install.unit" /\ cmd'[p].op = cmd[p].op /\ lock' = lock
          /\ cmd'[p].made # {} /\ \A q \in Procs \ {p} : cmd'[q] = cmd[q]
      BY <1>0, <2>2, MakeFields DEF CopyExecutable
    <3> QED
      BY <2>1, <3>1, InstallQuietly DEF InstallSteps
  <2>3. CASE CopyFails(p)
    BY <2>1, <2>3, InstallQuietly DEF CopyFails
  <2> QED
    BY <1>3, <2>2, <2>3 DEF InstallCopy
<1>4. CASE InstallWriteUnit(p) \/ InstallWriteDescriptor(p) \/ InstallWriteManifest(p)
  <2>1. cmd[p].step \in {"install.unit", "install.descriptor", "install.manifest"}
        /\ UNCHANGED <<loaded, enabled, svc>>
    BY <1>4 DEF InstallWriteUnit, InstallWriteDescriptor, InstallWriteManifest
  <2>2. cmd[p].step \in InstallSteps /\ Quiet /\ cmd[p].made # {}
    BY <2>1, InstallKnows DEF InstallSteps
  <2>3. PICK s \in {"install.descriptor", "install.manifest", "install.reload"} :
           Goto(p, s) \/ \E f \in Made : MakeAndGoto(p, f, s)
    BY <1>4 DEF InstallWriteUnit, InstallWriteDescriptor, InstallWriteManifest, Made
  <2>4. /\ cmd'[p].step = s /\ cmd'[p].op = cmd[p].op /\ lock' = lock
        /\ cmd'[p].made # {} /\ \A q \in Procs \ {p} : cmd'[q] = cmd[q]
    BY <1>0, <2>2, <2>3, MakeFields, GotoFields
  <2> QED
    BY <2>1, <2>2, <2>4, InstallQuietly DEF InstallSteps
<1>5. CASE InstallStepFails(p)
  <2>1. /\ cmd[p].step \in {"install.unit", "install.descriptor", "install.manifest"}
        /\ UNCHANGED <<loaded, enabled, svc>> /\ Goto(p, "install.undo")
    BY <1>5 DEF InstallStepFails
  <2>2. cmd[p].step \in InstallSteps /\ Quiet
    BY <2>1, InstallKnows DEF InstallSteps
  <2>3. /\ cmd'[p].step = "install.undo" /\ cmd'[p].op = cmd[p].op /\ lock' = lock
        /\ \A q \in Procs \ {p} : cmd'[q] = cmd[q]
    BY <2>1, GotoFields
  <2> QED
    BY <2>1, <2>2, <2>3, InstallQuietly DEF InstallSteps
<1>6. CASE InstallReload(p)
  <2>1. /\ cmd[p].step = "install.reload" /\ UNCHANGED <<desc, unit, bins>>
        /\ \E ok \in BOOLEAN : SystemctlReload(ok)
        /\ Finish(p, "ok") \/ Goto(p, "install.undo")
    BY <1>6 DEF InstallReload
  <2>2. WorldInv' /\ DrainPersists /\ (Quiet => Quiet')
    BY <1>0, <2>1, ReloadSafe DEF Quiet, Runs
  <2>3. /\ cmd[p].step \in InstallSteps /\ ~At(p, "idle") /\ SafelyAt(cmd[p])
        /\ cmd[p].op \notin {"Activate", "Uninstall"} /\ (cmd[p].made # {} => Quiet)
        /\ cmd[p].step \notin DrainedSteps
    BY <2>1, InstallKnows DEF InstallSteps
  <2>4. Accounted(cmd[p])
    BY <2>3 DEF SafelyAt, OpFits
  <2>5. CASE Finish(p, "ok")
    BY <2>1, <2>2, <2>3, <2>4, <2>5, AccountedOut, DoneKeeps
  <2>6. CASE Goto(p, "install.undo")
    <3>1. /\ cmd'[p].step = "install.undo" /\ cmd'[p].op = cmd[p].op
          /\ cmd'[p].client = cmd[p].client /\ cmd'[p].made = cmd[p].made
      BY <2>6, GotoFields
    <3>2. "install.undo" \notin ActivateSteps /\ "install.undo" \in InstallSteps
      BY DEF ActivateSteps, PreviousUnitSteps, SwitchingSteps, CandidateUnitSteps, InstallSteps
    <3>3. SafelyAt(cmd[p])'
      BY <2>1, <2>2, <2>3, <2>4, <3>1, <3>2, AccountedOn, SafelyInstalling
    <3> QED
      BY <2>2, <2>3, <2>6, <3>3, GotoSafe
  <2> QED
    BY <2>1, <2>5, <2>6
<1>7. CASE InstallUndo(p)
  <2>1. cmd[p].step = "install.undo" /\ cmd[p].step \in InstallSteps
    BY <1>7 DEF InstallUndo, UndoNext, InstallSteps
  <2>2. CASE Fail(p, "error")
    BY <2>1, <2>2, InstallKnows, FailSafe
  <2>3. ASSUME NEW f \in Made, UndoNext(p, f)
        PROVE  SafeInv'
    <3>1. /\ cmd[p].made # {} /\ UNCHANGED <<loaded, enabled, svc>>
          /\ cmd'[p].step = cmd[p].step /\ cmd'[p].op = cmd[p].op /\ lock' = lock
          /\ \A q \in Procs \ {p} : cmd'[q] = cmd[q]
      BY <1>0, <2>3 DEF UndoNext, TypeOK
    <3>2. Quiet
      BY <2>1, <3>1, InstallKnows
    <3> QED
      BY <2>1, <3>1, <3>2, InstallQuietly
  <2> QED
    BY <1>7, <2>2, <2>3 DEF InstallUndo, Made
<1> QED
  BY <1>1, <1>2, <1>3, <1>4, <1>5, <1>6, <1>7 DEF InstallNext

LEMMA SafelyStaging ==
    ASSUME NEW p, cmd'[p].step \in StageSteps, cmd'[p].op \notin {"Activate", "Uninstall"},
           ~InTransition', Installed', Whole',
           cmd'[p].step = "stage.copy" => cmd'[p].made = {},
           "bin" \in cmd'[p].made => cmd'[p].target \notin Tracked(desc'),
           Accounted(cmd[p])'
    PROVE  SafelyAt(cmd[p])'
BY DEF SafelyAt, OpFits, ControlSteps, SettledSteps, ActivateSteps, PreviousUnitSteps, SwitchingSteps,
       CandidateUnitSteps, BeforeSteps, FittingSteps, StoppedSteps, UnwantedSteps, AbsentSteps,
       UnitlessSteps, PurgeSteps, InstallSteps, UninstallSteps, StageSteps

LEMMA StageSafe ==
    ASSUME UnitInv, SafeInv, NEW p \in Procs, StageNext(p)
    PROVE  SafeInv'
<1> USE DEF At, fileVars, managerVars
<1>0. TypeOK /\ WorldInv
  BY DEF UnitInv, SafeInv
<1>1. ASSUME NEW r \in Releases, BeginStage(p, r)
      PROVE  SafeInv'
  <2>1. Begin(p, "Stage", "stage.copy", r) /\ UNCHANGED <<desc, unit, bins>> /\ Verified
    BY <1>1 DEF BeginStage
  <2>2. /\ cmd'[p].step = "stage.copy" /\ cmd'[p].op = "Stage" /\ cmd'[p].made = {}
        /\ Drained' => excused' \/ InTransition'
        /\ SafelyAt(cmd[p])' => SafeInv'
    BY <2>1, BeginSafe
  <2>3. ~InTransition' /\ Installed' /\ Whole'
    BY <2>1, VerifiedWhole DEF VerifiedIsWhole, InTransition, Installed, Whole, Tracked
  <2>4. Accounted(cmd[p])'
    BY <2>2, <2>3 DEF Accounted
  <2> QED
    BY <2>2, <2>3, <2>4, SafelyStaging DEF StageSteps
<1>2. ASSUME cmd[p].step \in StageSteps
      PROVE  /\ ~At(p, "idle") /\ cmd[p].op \notin {"Activate", "Uninstall"}
             /\ ~InTransition /\ Installed /\ Whole
             /\ unit \in Releases /\ unit = desc.cur /\ unit \in Tracked(desc)
             /\ cmd[p].step = "stage.copy" => cmd[p].made = {}
             /\ cmd[p].step = "stage.publish" /\ "bin" \in cmd[p].made =>
                   cmd[p].target \notin Tracked(desc)
             /\ Drained => excused
             /\ cmd[p].step \notin DrainedSteps /\ cmd[p].mine = desc
  <2>1. /\ ~At(p, "idle") /\ cmd[p].step \notin ActivateSteps /\ cmd[p].step \notin DrainedSteps
        /\ cmd[p].step \notin UninstallSteps \cup {"resume"}
        /\ cmd[p].step \in SettledSteps
    BY <1>2 DEF At, StageSteps, ActivateSteps, PreviousUnitSteps, SwitchingSteps,
       CandidateUnitSteps, UninstallSteps, DrainedSteps, SettledSteps
  <2>2. SafelyAt(cmd[p]) /\ StandsAt(cmd[p])
    BY <2>1, HolderIsSafe DEF UnitInv
  <2>3. ~InTransition /\ Installed /\ Whole /\ cmd[p].mine = desc
    BY <1>2, <2>1, <2>2 DEF SafelyAt, OpFits, StandsAt
  <2>4. unit = desc.cur /\ unit \in Tracked(desc) /\ unit \in Releases
    BY <1>0, <2>3 DEF UnitInv, UnitMatchesPhase, ExpectedUnits, UsesCurrentUnit, InTransition,
       Whole, Tracked, TypeOK, ManagerTypeOK, OptRelease
  <2> QED
    BY <2>1, <2>2, <2>3, <2>4 DEF SafelyAt, OpFits, Accounted
<1>3. CASE CopyFails(p) /\ cmd[p].step \in StageSteps
  <2>1. /\ UNCHANGED <<desc, unit, loaded, enabled, svc, excused>> /\ Finish(p, "error")
        /\ bins'[unit] = "file"
    BY <1>0, <1>2, <1>3 DEF CopyFails, Whole, TypeOK, ManagerTypeOK
  <2> QED
    BY <1>0, <1>2, <1>3, <2>1, ExecutablesChange, DoneKeeps DEF Drained
<1>4. CASE StageCopy(p)
  <2>1. cmd[p].step = "stage.copy" /\ cmd[p].step \in StageSteps
    BY <1>4 DEF StageCopy, StageSteps
  <2>2. CASE CopyExecutable(p, "stage.publish")
    <3>1. /\ UNCHANGED <<desc, unit, loaded, enabled, svc, excused>>
          /\ bins[cmd[p].target] # "file"
          /\ bins' = [bins EXCEPT ![cmd[p].target] = "file"]
          /\ MakeAndGoto(p, "bin", "stage.publish")
      BY <2>2 DEF CopyExecutable
    <3>2. cmd[p].target \notin Tracked(desc) /\ Whole' /\ bins'[unit] = "file"
      BY <1>0, <1>2, <2>1, <3>1 DEF Whole, Tracked, TypeOK, ManagerTypeOK, Descriptors, OptRelease
    <3>3. WorldInv' /\ ~InTransition' /\ Installed'
      BY <1>0, <1>2, <2>1, <3>1, <3>2, ExecutablesChange DEF InTransition, Installed
    <3>4. /\ cmd'[p].step = "stage.publish" /\ cmd'[p].op = cmd[p].op /\ lock' = lock
          /\ cmd'[p].target = cmd[p].target
          /\ \A q \in Procs \ {p} : cmd'[q] = cmd[q]
      BY <1>0, <3>1, MakeFields
    <3>5. SafelyAt(cmd[p])'
      BY <1>2, <2>1, <3>1, <3>2, <3>3, <3>4, SafelyStaging DEF Accounted, StageSteps, Drained
    <3> QED
      BY <1>2, <2>1, <3>3, <3>4, <3>5, HolderKeeps
  <2>3. CASE Goto(p, "stage.publish") /\ UNCHANGED <<fileVars, managerVars>>
    <3>1. WorldInv' /\ ~InTransition' /\ Installed' /\ Whole'
      BY <1>0, <1>2, <2>1, <2>3, WorldStutters DEF InTransition, Installed, Whole
    <3>2. cmd'[p].step = "stage.publish" /\ cmd'[p].op = cmd[p].op /\ cmd'[p].made = {}
      BY <1>2, <2>1, <2>3, GotoFields
    <3>3. SafelyAt(cmd[p])'
      BY <1>2, <2>1, <2>3, <3>1, <3>2, SafelyStaging DEF Accounted, StageSteps, Drained
    <3> QED
      BY <1>2, <2>1, <2>3, <3>1, <3>3, GotoSafe
  <2> QED
    BY <1>3, <1>4, <2>1, <2>2, <2>3 DEF StageCopy
<1>5. CASE StagePublish(p) \/ StageFails(p)
  <2>1. cmd[p].step = "stage.publish" /\ cmd[p].step \in StageSteps
    BY <1>5 DEF StagePublish, StageFails, StageSteps
  <2>2. CASE StagePublish(p)
    <3>1. PICK d : d = [desc EXCEPT !.pend = cmd[p].target]
      OBVIOUS
    <3>2. /\ CommitDescriptor(p, d, "ok") /\ d.phase = "none"
      BY <1>0, <1>2, <2>1, <2>2, <3>1 DEF StagePublish, TypeOK, Descriptors, InTransition
    <3>3. /\ desc' = d /\ UNCHANGED <<unit, bins, loaded, enabled, svc, excused>>
          /\ Finish(p, "ok")
      BY <3>2 DEF CommitDescriptor
    <3>4. SourceIsGone' /\ LoadedFits
      BY <1>0, <1>2, <2>1, <3>2, <3>3
         DEF SourceIsGone, UsesCurrentUnit, WorldInv, SettledFits, Whole
    <3>5. WorldInv'
      BY <1>0, <1>2, <2>1, <3>2, <3>3, <3>4, DescriptorChanges
         DEF CommitDescriptor, ValidDescriptor, Installed
    <3> QED
      BY <1>2, <2>1, <3>3, <3>5, DoneKeeps DEF Drained
  <2>3. CASE StageFails(p)
    <3>1. /\ UNCHANGED <<desc, unit, loaded, enabled, svc, excused>> /\ Finish(p, "error")
          /\ bins'[unit] = "file"
      BY <1>0, <1>2, <2>1, <2>3 DEF StageFails, Whole, TypeOK, ManagerTypeOK
    <3> QED
      BY <1>0, <1>2, <2>1, <3>1, ExecutablesChange, DoneKeeps DEF Drained
  <2> QED
    BY <1>5, <2>2, <2>3
<1> QED
  BY <1>1, <1>4, <1>5 DEF StageNext


(***************************************************************************)
(* Uninstall and Purge.                                                    *)
(***************************************************************************)
\* What an Uninstall has to know about the world at its next step.
Taken(s) ==
    /\ s \in StoppedSteps => ~Runs
    /\ s \in UnwantedSteps => ~enabled
    /\ s \in AbsentSteps => \A r \in Releases : bins[r] = "absent"
    /\ s \in UnitlessSteps => unit = NoRelease
    /\ s = "uninstall.descriptor" => loaded = NoRelease

LEMMA SafelyUninstalling ==
    ASSUME NEW p, cmd'[p].step \in UninstallSteps \cup {"resume"}, cmd'[p].op # "Activate",
           Taken(cmd[p].step)', Accounted(cmd[p])'
    PROVE  SafelyAt(cmd[p])'
BY DEF SafelyAt, OpFits, Taken, SettledSteps, ActivateSteps, PreviousUnitSteps, SwitchingSteps,
       CandidateUnitSteps, BeforeSteps, FittingSteps, PurgeSteps, InstallSteps, UninstallSteps,
       StageSteps

LEMMA UninstallKnows ==
    ASSUME SafeInv, NEW p \in Procs, cmd[p].step \in UninstallSteps
    PROVE  /\ ~At(p, "idle") /\ SafelyAt(cmd[p]) /\ cmd[p].op # "Activate"
           /\ Taken(cmd[p].step) /\ Accounted(cmd[p])
<1>1. ~At(p, "idle") /\ cmd[p].step \notin ActivateSteps
  BY DEF At, ActivateSteps, PreviousUnitSteps, SwitchingSteps, CandidateUnitSteps, UninstallSteps
<1>2. SafelyAt(cmd[p])
  BY <1>1, HolderIsSafe
<1> QED
  BY <1>1, <1>2 DEF SafelyAt, OpFits, Taken

LEMMA UninstallGoes ==
    ASSUME UnitInv, SafeInv, NEW p \in Procs, cmd[p].step \in UninstallSteps,
           UNCHANGED desc, WorldInv', DrainPersists,
           NEW s \in UninstallSteps \cup {"resume"}, Goto(p, s), Taken(s)',
           cmd[p].step \in DrainedSteps => s \in DrainedSteps \/ ~Drained'
    PROVE  SafeInv'
<1>1. ~At(p, "idle") /\ cmd[p].op # "Activate" /\ Accounted(cmd[p])
  BY UninstallKnows
<1>2. cmd'[p].step = s /\ cmd'[p].op = cmd[p].op /\ cmd'[p].client = cmd[p].client
  BY GotoFields
<1>3. s \notin ActivateSteps
  BY DEF ActivateSteps, PreviousUnitSteps, SwitchingSteps, CandidateUnitSteps, UninstallSteps
<1>4. Accounted(cmd[p])'
  BY <1>1, <1>2, <1>3, AccountedOn
<1>5. Taken(cmd[p].step)'
  BY <1>2 DEF Taken
<1>6. SafelyAt(cmd[p])'
  BY <1>1, <1>2, <1>4, <1>5, SafelyUninstalling
<1> QED
  BY <1>1, <1>6, GotoSafe

\* The command ends at a step where nothing it drained is left to resume.
LEMMA UninstallEnds ==
    ASSUME UnitInv, SafeInv, NEW p \in Procs, cmd[p].step \in UninstallSteps,
           cmd[p].step \notin DrainedSteps, UNCHANGED desc, WorldInv', DrainPersists,
           NEW r, Finish(p, r)
    PROVE  SafeInv'
<1>1. ~At(p, "idle") /\ Accounted(cmd[p])
  BY UninstallKnows
<1>2. Drained' => excused' \/ InTransition'
  BY <1>1, AccountedOut
<1> QED
  BY <1>1, <1>2, DoneKeeps

LEMMA UninstallObserves ==
    ASSUME UnitInv, SafeInv, NEW p \in Procs, BeginUninstall(p) \/ UninstallStatus(p)
    PROVE  SafeInv'
<1> USE DEF At, fileVars, managerVars
<1>0. TypeOK /\ WorldInv
  BY DEF UnitInv, SafeInv
<1>1. CASE BeginUninstall(p)
  <2>1. Begin(p, "Uninstall", "uninstall.status", NoRelease) /\ UNCHANGED <<desc, unit, bins>>
    BY <1>1 DEF BeginUninstall
  <2>2. /\ cmd'[p].step = "uninstall.status" /\ cmd'[p].op = "Uninstall"
        /\ Drained' => excused' \/ InTransition'
        /\ SafelyAt(cmd[p])' => SafeInv'
    BY <2>1, BeginSafe
  <2>3. Accounted(cmd[p])' /\ Taken(cmd[p].step)'
    BY <2>2 DEF Accounted, Taken, ActivateSteps, PreviousUnitSteps, SwitchingSteps,
       CandidateUnitSteps, StoppedSteps, UnwantedSteps, AbsentSteps, UnitlessSteps, PurgeSteps
  <2> QED
    BY <2>2, <2>3, SafelyUninstalling DEF UninstallSteps
<1>2. CASE UninstallStatus(p)
  <2>1. cmd[p].step = "uninstall.status" /\ cmd[p].step \in UninstallSteps
        /\ cmd[p].step \notin DrainedSteps
    BY <1>2 DEF UninstallStatus, UninstallSteps, DrainedSteps
  <2>2. ~At(p, "idle") /\ cmd[p].op # "Activate" /\ Accounted(cmd[p])
    BY <2>1, UninstallKnows
  <2>3. CASE Fail(p, "error")
    BY <2>1, <2>2, <2>3, FailSafe
  <2>4. CASE Observe(p, "uninstall.drain")
    <3>1. /\ cmd'[p].step = "uninstall.drain" /\ cmd'[p].op = cmd[p].op
          /\ cmd'[p].client = cmd[p].client /\ lock' = lock
          /\ \A q \in Procs \ {p} : cmd'[q] = cmd[q]
          /\ UNCHANGED <<desc, unit, bins, loaded, enabled, svc, excused>>
      BY <1>0, <2>4 DEF Observe, TypeOK
    <3>2. WorldInv' /\ DrainPersists
      BY <1>0, <3>1, WorldStutters, SameService
    <3>3. Accounted(cmd[p])' /\ Taken(cmd[p].step)'
      BY <2>1, <2>2, <3>1, <3>2, AccountedOn DEF Taken, StoppedSteps, UnwantedSteps, AbsentSteps,
         UnitlessSteps, PurgeSteps, ActivateSteps, PreviousUnitSteps, SwitchingSteps,
         CandidateUnitSteps
    <3> QED
      BY <2>2, <3>1, <3>2, <3>3, SafelyUninstalling, HolderKeeps DEF UninstallSteps
  <2>5. ASSUME NEW s \in {"uninstall.disable-missing", "uninstall.executables"}, Goto(p, s),
               UNCHANGED <<fileVars, managerVars>>, TerminalStopped,
               s = "uninstall.executables" => ~Loaded
        PROVE  SafeInv'
    <3>1. WorldInv' /\ DrainPersists
      BY <1>0, <2>5, WorldStutters, SameService
    <3>2. ~Runs' /\ (s = "uninstall.executables" => ~enabled')
      BY <1>0, <2>5 DEF TerminalStopped, Runs, Loaded, Resolved, WorldInv, EnabledServiceCanBoot
    <3>3. Taken(s)'
      BY <3>2 DEF Taken, StoppedSteps, UnwantedSteps, AbsentSteps, UnitlessSteps, PurgeSteps
    <3> QED
      BY <2>1, <2>5, <3>1, <3>3, UninstallGoes DEF UninstallSteps
  <2> QED
    BY <1>2, <2>3, <2>4, <2>5 DEF UninstallStatus
<1> QED
  BY <1>1, <1>2

\* The steps that act on the service.
LEMMA UninstallStops ==
    ASSUME UnitInv, SafeInv, NEW p \in Procs,
           UninstallDrain(p) \/ UninstallDisable(p) \/ UninstallStop(p) \/ UninstallStopped(p)
    PROVE  SafeInv'
<1> USE DEF At, fileVars, managerVars
<1>0. TypeOK /\ WorldInv
  BY DEF UnitInv, SafeInv
<1>1. cmd[p].step \in {"uninstall.drain", "uninstall.disable", "uninstall.disable-missing",
                       "uninstall.stop", "uninstall.stopped"}
  BY DEF UninstallDrain, UninstallDisable, UninstallStop, UninstallStopped
<1>2. cmd[p].step \in UninstallSteps
      /\ (cmd[p].step \in {"uninstall.drain", "uninstall.disable-missing"} =>
             cmd[p].step \notin DrainedSteps)
  BY <1>1 DEF UninstallSteps, DrainedSteps
<1>3. ~At(p, "idle") /\ cmd[p].op # "Activate" /\ Accounted(cmd[p]) /\ Taken(cmd[p].step)
  BY <1>2, UninstallKnows
<1>4. \A s \in {"uninstall.disable", "resume"} : Taken(s)'
  BY DEF Taken, StoppedSteps, UnwantedSteps, AbsentSteps, UnitlessSteps, PurgeSteps
<1>5. \A s \in {"uninstall.stop", "uninstall.stopped"} : ~enabled' => Taken(s)'
  BY DEF Taken, StoppedSteps, UnwantedSteps, AbsentSteps, UnitlessSteps, PurgeSteps
<1>6. ~enabled' /\ ~Runs' => Taken("uninstall.executables")'
  BY DEF Taken, StoppedSteps, UnwantedSteps, AbsentSteps, UnitlessSteps, PurgeSteps
<1>7. /\ {"uninstall.disable", "resume", "uninstall.stop", "uninstall.stopped"} \subseteq DrainedSteps
      /\ {"uninstall.disable", "resume", "uninstall.stop", "uninstall.stopped",
          "uninstall.executables"} \subseteq UninstallSteps \cup {"resume"}
  BY DEF DrainedSteps, UninstallSteps
<1>8. CASE UninstallDrain(p)
  <2>1. PICK e : /\ \/ DrainSucceeds(p, e, "uninstall.disable")
                    \/ DrainSkipped(p, "uninstall.disable") \/ DrainFails(p, e)
                 /\ cmd[p].step = "uninstall.drain"
    BY <1>8 DEF UninstallDrain
  <2>2. CASE DrainSkipped(p, "uninstall.disable")
    <3>1. /\ WorldInv' /\ Goto(p, "uninstall.disable")
          /\ UNCHANGED <<desc, svc, excused>>
      BY <1>2, <1>3, <2>1, <2>2, DrainSafe
    <3> QED
      BY <1>2, <1>4, <1>7, <3>1, SameService, UninstallGoes
  <2>3. CASE DrainSucceeds(p, e, "uninstall.disable")
    <3>1. /\ WorldInv' /\ lock' = lock
          /\ cmd'[p].step = "uninstall.disable" /\ cmd'[p].op = cmd[p].op
          /\ cmd'[p].client = svc'.pid
          /\ \A q \in Procs \ {p} : cmd'[q] = cmd[q]
      BY <1>2, <1>3, <2>1, <2>3, DrainSafe
    <3>2. Accounted(cmd[p])' /\ Taken(cmd[p].step)'
      BY <1>4, <1>7, <3>1 DEF Accounted, Taken
    <3>3. SafelyAt(cmd[p])'
      BY <1>3, <1>7, <3>1, <3>2, SafelyUninstalling
    <3> QED
      BY <1>3, <3>1, <3>3, HolderKeeps
  <2> QED
    BY <1>2, <1>3, <2>1, <2>2, <2>3, DrainSafe
<1>9. CASE UninstallDisable(p)
  <2>1. PICK ok \in BOOLEAN : SystemctlEnable(ok, FALSE) /\
          (\/ cmd[p].step = "uninstall.disable" /\ ok /\ Goto(p, "uninstall.stop")
           \/ cmd[p].step = "uninstall.disable" /\ Goto(p, "resume")
           \/ cmd[p].step = "uninstall.disable-missing" /\ ok /\ Goto(p, "uninstall.executables")
           \/ cmd[p].step = "uninstall.disable-missing" /\ Finish(p, "error"))
    BY <1>9 DEF UninstallDisable
  <2>2. /\ WorldInv' /\ DrainPersists /\ UNCHANGED <<svc, excused>> /\ UNCHANGED desc
        /\ ok => ~enabled'
    BY <1>0, <1>9, <2>1, EnableSafe DEF UninstallDisable
  <2>3. cmd[p].step = "uninstall.disable-missing" => ~Runs'
    BY <1>3, <2>2 DEF Taken, StoppedSteps, Runs
  <2>4. CASE \/ cmd[p].step = "uninstall.disable" /\ ok /\ Goto(p, "uninstall.stop")
             \/ cmd[p].step = "uninstall.disable" /\ Goto(p, "resume")
             \/ cmd[p].step = "uninstall.disable-missing" /\ ok /\ Goto(p, "uninstall.executables")
    BY <1>2, <1>4, <1>5, <1>6, <1>7, <2>2, <2>3, <2>4, UninstallGoes
  <2>5. CASE cmd[p].step = "uninstall.disable-missing" /\ Finish(p, "error")
    BY <1>2, <2>2, <2>5, UninstallEnds
  <2> QED
    BY <2>1, <2>4, <2>5
<1>10. CASE UninstallStop(p)
  <2>1. /\ cmd[p].step = "uninstall.stop" /\ UNCHANGED <<desc, unit, bins>>
        /\ Goto(p, "uninstall.stopped") \/ Goto(p, "resume")
        /\ UNCHANGED managerVars \/ \E ok \in BOOLEAN : SystemctlStop(ok)
    BY <1>10 DEF UninstallStop, NoEffect
  <2>2. CASE UNCHANGED managerVars
    BY <1>0, <1>2, <1>3, <1>4, <1>5, <1>7, <2>1, <2>2, WorldStutters, SameService, UninstallGoes
       DEF Taken, UnwantedSteps
  <2>3. CASE \E ok \in BOOLEAN : SystemctlStop(ok)
    <3>1. WorldInv' /\ DrainPersists /\ UNCHANGED enabled
      BY <1>0, <2>1, <2>3, StopSafe
    <3> QED
      BY <1>2, <1>3, <1>4, <1>5, <1>7, <2>1, <3>1, UninstallGoes DEF Taken, UnwantedSteps
  <2> QED
    BY <2>1, <2>2, <2>3
<1>11. CASE UninstallStopped(p)
  <2>1. /\ cmd[p].step = "uninstall.stopped" /\ UNCHANGED <<fileVars, managerVars>>
        /\ \/ TerminalStopped /\ Goto(p, "uninstall.executables")
           \/ Goto(p, "resume")
    BY <1>11 DEF UninstallStopped
  <2>2. WorldInv' /\ DrainPersists /\ UNCHANGED desc
    BY <1>0, <2>1, WorldStutters, SameService
  <2>3. TerminalStopped => ~enabled' /\ ~Runs' /\ ~Drained'
    BY <1>0, <1>3, <2>1 DEF Taken, UnwantedSteps, TerminalStopped, Runs, WorldInv, SvcShape, Drained
  <2> QED
    BY <1>2, <1>4, <1>6, <1>7, <2>1, <2>2, <2>3, UninstallGoes
<1> QED
  BY <1>8, <1>9, <1>10, <1>11

\* The steps that remove files.
LEMMA UninstallRemoves ==
    ASSUME UnitInv, SafeInv, NEW p \in Procs,
           \/ UninstallExecutable(p) \/ UninstallBinaryDirectory(p) \/ UninstallUnit(p)
           \/ UninstallReload(p) \/ UninstallAbsent(p) \/ UninstallDescriptor(p)
           \/ UninstallFails(p)
    PROVE  SafeInv'
<1> USE DEF At, fileVars, managerVars
<1>0. TypeOK /\ WorldInv
  BY DEF UnitInv, SafeInv
<1>1. cmd[p].step \in AbsentSteps \cup {"uninstall.executables"}
  BY DEF UninstallExecutable, UninstallBinaryDirectory, UninstallUnit, UninstallReload,
     UninstallAbsent, UninstallDescriptor, UninstallFails, AbsentSteps
<1>2. cmd[p].step \in UninstallSteps /\ cmd[p].step \notin DrainedSteps
  BY <1>1 DEF UninstallSteps, DrainedSteps, AbsentSteps
<1>3. ~At(p, "idle") /\ cmd[p].op # "Activate" /\ Accounted(cmd[p]) /\ Taken(cmd[p].step)
  BY <1>2, UninstallKnows
<1>4. ~Runs /\ ~enabled
  BY <1>1, <1>3 DEF Taken, StoppedSteps, UnwantedSteps, AbsentSteps
<1>5. \A s \in {"uninstall.unit", "uninstall.reload", "uninstall.absent", "uninstall.descriptor"} :
         /\ s \in UninstallSteps
         /\ /\ ~Runs' /\ ~enabled' /\ \A r \in Releases : bins'[r] = "absent"
            /\ s # "uninstall.unit" => unit' = NoRelease
            /\ s = "uninstall.descriptor" => loaded' = NoRelease
            => Taken(s)'
  BY DEF UninstallSteps, Taken, StoppedSteps, UnwantedSteps, AbsentSteps, UnitlessSteps, PurgeSteps
<1>6. CASE UninstallExecutable(p)
  <2>1. /\ UNCHANGED <<desc, unit, loaded, enabled, svc, excused>>
        /\ cmd[p].step = "uninstall.executables"
        /\ UNCHANGED <<cmd, lock>> \/ Finish(p, "error")
    BY <1>6 DEF UninstallExecutable
  <2>2. WorldInv' /\ DrainPersists
    BY <1>0, <1>4, <2>1, ExecutablesChange, SameService
  <2>3. CASE UNCHANGED <<cmd, lock>>
    <3>1. Accounted(cmd[p])'
      BY <1>2, <1>3, <2>1, <2>3 DEF Accounted, Drained, InTransition
    <3>2. Taken(cmd[p].step)'
      BY <1>4, <2>1, <2>3 DEF Taken, Runs, StoppedSteps, UnwantedSteps, AbsentSteps,
         UnitlessSteps, PurgeSteps
    <3>3. SafelyAt(cmd[p])'
      BY <1>2, <1>3, <2>3, <3>1, <3>2, SafelyUninstalling
    <3> QED
      BY <1>3, <2>2, <2>3, <3>3, HolderKeeps
  <2> QED
    BY <1>2, <2>1, <2>2, <2>3, UninstallEnds
<1>7. CASE UninstallBinaryDirectory(p)
  <2>1. /\ UNCHANGED <<desc, unit, bins, loaded, enabled, svc, excused>>
        /\ \A r \in Releases : bins[r] = "absent"
        /\ Goto(p, "uninstall.unit")
    BY <1>7 DEF UninstallBinaryDirectory
  <2>2. WorldInv' /\ DrainPersists /\ ~Runs' /\ ~enabled'
    BY <1>0, <1>4, <2>1, WorldStutters, SameService DEF Runs
  <2> QED
    BY <1>2, <1>5, <2>1, <2>2, UninstallGoes
<1>8. CASE UninstallUnit(p)
  <2>1. /\ UNCHANGED <<desc, bins, loaded, enabled, svc, excused>> /\ unit' = NoRelease
        /\ cmd[p].step = "uninstall.unit" /\ Goto(p, "uninstall.reload")
    BY <1>8 DEF UninstallUnit
  <2>2. WorldInv'
    <3>1. CASE Installed
      BY <1>0, <1>4, <2>1, <3>1, UnitChanges
    <3>2. CASE ~Installed
      BY <1>0, <2>1, <3>2, QuietKeeps DEF WorldInv, UninstalledIsQuiet
    <3> QED
      BY <3>1, <3>2
  <2>3. ~Runs' /\ ~enabled' /\ \A r \in Releases : bins'[r] = "absent"
    BY <1>3, <1>4, <2>1 DEF Runs, Taken, AbsentSteps
  <2> QED
    BY <1>2, <1>5, <2>1, <2>2, <2>3, SameService, UninstallGoes
<1>9. CASE UninstallReload(p)
  <2>1. /\ UNCHANGED <<desc, unit, bins>> /\ cmd[p].step = "uninstall.reload"
        /\ \E ok \in BOOLEAN : SystemctlReload(ok)
        /\ Goto(p, "uninstall.absent") \/ Finish(p, "error")
    BY <1>9 DEF UninstallReload
  <2>2. WorldInv' /\ DrainPersists /\ UNCHANGED <<enabled, svc, excused>>
    BY <1>0, <2>1, ReloadSafe
  <2>3. ~Runs' /\ ~enabled' /\ unit' = NoRelease /\ \A r \in Releases : bins'[r] = "absent"
    BY <1>3, <1>4, <2>1, <2>2 DEF Runs, Taken, AbsentSteps, UnitlessSteps
  <2> QED
    BY <1>2, <1>5, <2>1, <2>2, <2>3, UninstallGoes, UninstallEnds
<1>10. CASE UninstallAbsent(p)
  <2>1. /\ UNCHANGED <<desc, unit, bins, loaded, enabled, svc, excused>>
        /\ cmd[p].step = "uninstall.absent" /\ Goto(p, "uninstall.descriptor") /\ ~Loaded
    BY <1>10 DEF UninstallAbsent
  <2>2. WorldInv' /\ DrainPersists /\ ~Runs' /\ ~enabled' /\ loaded' = NoRelease
    BY <1>0, <1>4, <2>1, WorldStutters, SameService DEF Runs, Loaded, Resolved
  <2>3. unit' = NoRelease /\ \A r \in Releases : bins'[r] = "absent"
    BY <1>3, <2>1 DEF Taken, AbsentSteps, UnitlessSteps
  <2> QED
    BY <1>2, <1>5, <2>1, <2>2, <2>3, UninstallGoes
<1>11. CASE UninstallDescriptor(p)
  <2>1. /\ UNCHANGED <<loaded, enabled, svc>> /\ Finish(p, "ok")
        /\ cmd[p].step = "uninstall.descriptor"
    BY <1>11 DEF UninstallDescriptor
  <2>2. Quiet
    BY <1>3, <1>4, <2>1 DEF Taken, Quiet
  <2>3. WorldInv' /\ ~Drained'
    BY <1>0, <2>1, <2>2, QuietKeeps
  <2> QED
    BY <1>3, <2>1, <2>3, DoneKeeps
<1>12. CASE UninstallFails(p)
  BY <1>2, <1>3, <1>12, FailSafe DEF UninstallFails
<1> QED
  BY <1>6, <1>7, <1>8, <1>9, <1>10, <1>11, <1>12

LEMMA UninstallSafe ==
    ASSUME UnitInv, SafeInv, NEW p \in Procs, UninstallNext(p)
    PROVE  SafeInv'
BY UninstallObserves, UninstallStops, UninstallRemoves DEF UninstallNext

LEMMA SafelyPurging ==
    ASSUME NEW p, cmd'[p].step \in PurgeSteps, cmd'[p].op \notin {"Activate", "Uninstall"},
           ~Installed', unit' = NoRelease, Accounted(cmd[p])'
    PROVE  SafelyAt(cmd[p])'
BY DEF SafelyAt, OpFits, SettledSteps, ActivateSteps, PreviousUnitSteps, SwitchingSteps,
       CandidateUnitSteps, BeforeSteps, FittingSteps, StoppedSteps, UnwantedSteps, AbsentSteps,
       UnitlessSteps, PurgeSteps, InstallSteps, UninstallSteps, StageSteps

\* Nothing of a service is left to be drained.
LEMMA PurgeSafe ==
    ASSUME UnitInv, SafeInv, NEW p \in Procs, PurgeNext(p)
    PROVE  SafeInv'
<1> USE DEF At, fileVars, managerVars
<1>0. TypeOK /\ WorldInv
  BY DEF UnitInv, SafeInv
<1>1. CASE BeginPurge(p)
  <2>1. /\ Begin(p, "Purge", "purge.data", NoRelease) /\ UNCHANGED <<desc, unit, bins>>
        /\ ~Installed /\ unit = NoRelease
    BY <1>1 DEF BeginPurge
  <2>2. /\ cmd'[p].step = "purge.data" /\ cmd'[p].op = "Purge"
        /\ Drained' => excused' \/ InTransition'
        /\ SafelyAt(cmd[p])' => SafeInv'
    BY <2>1, BeginSafe
  <2>3. ~Installed' /\ unit' = NoRelease
    BY <2>1 DEF Installed
  <2>4. Accounted(cmd[p])'
    BY <2>2 DEF Accounted, ActivateSteps, PreviousUnitSteps, SwitchingSteps, CandidateUnitSteps
  <2> QED
    BY <2>2, <2>3, <2>4, SafelyPurging DEF PurgeSteps
<1>2. CASE PurgeData(p) \/ PurgeManifest(p) \/ PurgeFails(p)
  <2>1. /\ cmd[p].step \in PurgeSteps
        /\ UNCHANGED <<desc, unit, bins, loaded, enabled, svc, excused>>
        /\ Goto(p, "purge.manifest") \/ \E r : Finish(p, r)
    BY <1>2 DEF PurgeData, PurgeManifest, PurgeFails, Fail, PurgeSteps
  <2>2. /\ ~At(p, "idle") /\ cmd[p].step \notin DrainedSteps /\ cmd[p].step \notin ActivateSteps
        /\ cmd[p].step \notin UninstallSteps \cup {"resume"} /\ cmd[p].step \in UnitlessSteps
    BY <2>1 DEF PurgeSteps, DrainedSteps, ActivateSteps, PreviousUnitSteps, SwitchingSteps,
       CandidateUnitSteps, UninstallSteps, UnitlessSteps
  <2>3. SafelyAt(cmd[p])
    BY <2>2, HolderIsSafe
  <2>4. /\ ~Installed /\ unit = NoRelease /\ Accounted(cmd[p])
        /\ cmd[p].op \notin {"Activate", "Uninstall"}
    BY <2>1, <2>2, <2>3 DEF SafelyAt, OpFits
  <2>5. WorldInv' /\ DrainPersists /\ ~Installed' /\ unit' = NoRelease
    BY <1>0, <2>1, <2>4, WorldStutters, SameService DEF Installed
  <2>6. CASE Goto(p, "purge.manifest")
    <3>1. /\ cmd'[p].step = "purge.manifest" /\ cmd'[p].op = cmd[p].op
          /\ cmd'[p].client = cmd[p].client
      BY <2>6, GotoFields
    <3>2. "purge.manifest" \in PurgeSteps /\ "purge.manifest" \notin ActivateSteps
      BY DEF PurgeSteps, ActivateSteps, PreviousUnitSteps, SwitchingSteps, CandidateUnitSteps
    <3>3. Accounted(cmd[p])'
      BY <2>1, <2>2, <2>4, <2>5, <3>1, <3>2, AccountedOn
    <3>4. SafelyAt(cmd[p])'
      BY <2>4, <2>5, <3>1, <3>2, <3>3, SafelyPurging
    <3> QED
      BY <2>2, <2>5, <2>6, <3>4, GotoSafe
  <2>7. CASE \E r : Finish(p, r)
    <3>1. Drained' => excused' \/ InTransition'
      BY <2>1, <2>2, <2>4, <2>5, AccountedOut
    <3> QED
      BY <2>2, <2>5, <2>7, <3>1, DoneKeeps
  <2> QED
    BY <2>1, <2>6, <2>7
<1> QED
  BY <1>1, <1>2 DEF PurgeNext

(***************************************************************************)
(* ActivateUpgrade.                                                        *)
(***************************************************************************)
\* What an activation has to know about the world at its next step.
Upgrading(s) ==
    /\ s \in BeforeSteps <=> ~InTransition
    /\ Installed /\ desc.pend # NoRelease /\ Whole
    /\ s \in {"activate.ready", "activate.check", "activate.commit"} =>
          desc.phase = "candidate-started"
    /\ s \in FittingSteps => LoadedFits
    /\ s \in StoppedSteps => ~Runs

LEMMA SafelyActivating ==
    ASSUME NEW p, cmd'[p].step \in ActivateSteps, cmd'[p].op # "Uninstall",
           Upgrading(cmd[p].step)', Accounted(cmd[p])'
    PROVE  SafelyAt(cmd[p])'
BY DEF SafelyAt, OpFits, Upgrading, SettledSteps, ActivateSteps, PreviousUnitSteps, SwitchingSteps,
       CandidateUnitSteps, BeforeSteps, UnwantedSteps, AbsentSteps, UnitlessSteps, PurgeSteps,
       InstallSteps, StageSteps

LEMMA ActivateKnows ==
    ASSUME UnitInv, SafeInv, NEW p \in Procs, cmd[p].step \in ActivateSteps
    PROVE  /\ ~At(p, "idle") /\ cmd[p].op # "Uninstall" /\ cmd[p].mine = desc
           /\ Upgrading(cmd[p].step) /\ Accounted(cmd[p])
           /\ UnitMatchesPhase /\ TypeOK /\ WorldInv
           /\ unit = NoRelease \/ unit \in ExpectedUnits(desc)
<1>1. /\ ~At(p, "idle") /\ cmd[p].mine = desc /\ TypeOK /\ UnitMatchesPhase
      /\ desc.phase # "none" => Installed
  BY ActivateStands DEF UnitInv
<1>2. cmd[p].step \notin UninstallSteps \cup {"resume"}
  BY DEF ActivateSteps, PreviousUnitSteps, SwitchingSteps, CandidateUnitSteps, UninstallSteps
<1>3. SafelyAt(cmd[p]) /\ WorldInv
  BY <1>1, HolderIsSafe DEF SafeInv
<1>4. cmd[p].step \in BeforeSteps => cmd[p].step \in SettledSteps
  BY DEF SettledSteps
<1> QED
  BY <1>1, <1>2, <1>3, <1>4 DEF SafelyAt, OpFits, Upgrading, InTransition, UnitMatchesPhase

\* A step that writes no file.
LEMMA ActivateGoes ==
    ASSUME UnitInv, SafeInv, NEW p \in Procs, cmd[p].step \in ActivateSteps,
           UNCHANGED <<desc, unit, bins>>, WorldInv', DrainPersists,
           NEW s \in ActivateSteps, Goto(p, s),
           s \in BeforeSteps <=> cmd[p].step \in BeforeSteps,
           s \in {"activate.ready", "activate.check", "activate.commit"} =>
              cmd[p].step \in {"activate.ready", "activate.check"},
           s \in FittingSteps => LoadedFits',
           s \in StoppedSteps => ~Runs',
           cmd[p].step \in DrainedSteps => s \in DrainedSteps \cup GivenUpSteps \/ ~Drained',
           cmd[p].step \in GivenUpSteps => s \in GivenUpSteps
    PROVE  SafeInv'
<1>1. /\ ~At(p, "idle") /\ cmd[p].op # "Uninstall" /\ Upgrading(cmd[p].step)
      /\ Accounted(cmd[p])
  BY ActivateKnows
<1>2. cmd'[p].step = s /\ cmd'[p].op = cmd[p].op /\ cmd'[p].client = cmd[p].client
  BY GotoFields
<1>3. Upgrading(cmd[p].step)'
  BY <1>1, <1>2 DEF Upgrading, InTransition, Installed, Whole
<1>4. s \in GivenUpSteps => InTransition'
  BY <1>2, <1>3 DEF Upgrading, GivenUpSteps, BeforeSteps
<1>5. Accounted(cmd[p])'
  BY <1>1, <1>2, <1>4 DEF Accounted, DrainPersists
<1>6. SafelyAt(cmd[p])'
  BY <1>1, <1>2, <1>3, <1>5, SafelyActivating
<1> QED
  BY <1>1, <1>6, GotoSafe

\* Moving on, with what is known at the step before or was just observed.
LEMMA AdvanceSafe ==
    ASSUME UnitInv, SafeInv, NEW p \in Procs, cmd[p].step \in ActivateSteps,
           NEW s \in ActivateSteps, Advance(p, s),
           s \in BeforeSteps <=> cmd[p].step \in BeforeSteps,
           s \in {"activate.ready", "activate.check", "activate.commit"} =>
              cmd[p].step \in {"activate.ready", "activate.check"},
           s \in FittingSteps => cmd[p].step \in FittingSteps,
           s \in StoppedSteps => cmd[p].step \in StoppedSteps \/ TerminalStopped,
           cmd[p].step \in DrainedSteps => s \in DrainedSteps \cup GivenUpSteps \/ TerminalStopped,
           cmd[p].step \in GivenUpSteps => s \in GivenUpSteps
    PROVE  SafeInv'
<1>1. Goto(p, s) /\ UNCHANGED <<desc, unit, bins, loaded, enabled, svc, excused>>
  BY DEF Advance, fileVars, managerVars
<1>2. WorldInv /\ Upgrading(cmd[p].step)
  BY ActivateKnows
<1>3. WorldInv' /\ DrainPersists
  BY <1>1, <1>2, WorldStutters, SameService
<1>4. TerminalStopped => ~Runs' /\ ~Drained'
  BY <1>1, <1>2 DEF TerminalStopped, Runs, WorldInv, SvcShape, Drained
<1>5. s \in FittingSteps => LoadedFits'
  BY <1>1, <1>2 DEF Upgrading, LoadedFits
<1>6. s \in StoppedSteps => ~Runs'
  BY <1>1, <1>2, <1>4 DEF Upgrading, Runs
<1> QED
  BY <1>1, <1>3, <1>4, <1>5, <1>6, ActivateGoes

\* A phase is written, or the transition cleared with the command still at work.
LEMMA PhaseSafe ==
    ASSUME UnitInv, SafeInv, NEW p \in Procs, cmd[p].step \in ActivateSteps,
           NEW d, NEW s \in ActivateSteps, ReplaceDescriptor(p, d, s),
           d.cur = desc.cur, d.prev = desc.prev, d.pend = desc.pend,
           SourceIsGone',
           s \in BeforeSteps <=> d.phase = "none",
           s \in {"activate.ready", "activate.check", "activate.commit"} =>
              d.phase = "candidate-started",
           s \in BeforeSteps \cup FittingSteps => cmd[p].step \in FittingSteps,
           s \in StoppedSteps => cmd[p].step \in StoppedSteps,
           cmd[p].step \in DrainedSteps => s \in DrainedSteps,
           cmd[p].step \notin GivenUpSteps
    PROVE  SafeInv'
<1>1. /\ ~At(p, "idle") /\ cmd[p].op # "Uninstall" /\ Upgrading(cmd[p].step)
      /\ Accounted(cmd[p]) /\ TypeOK /\ WorldInv
  BY ActivateKnows
<1>2. /\ desc' = d /\ UNCHANGED <<unit, bins, loaded, enabled, svc, excused, lock>>
      /\ cmd'[p].step = s /\ cmd'[p].op = cmd[p].op /\ cmd'[p].client = cmd[p].client
      /\ \A q \in Procs \ {p} : cmd'[q] = cmd[q]
  BY <1>1 DEF ReplaceDescriptor, managerVars, TypeOK
<1>3. Installed' /\ Whole' /\ desc'.pend # NoRelease /\ (LoadedFits' <=> LoadedFits)
      /\ (Runs' <=> Runs) /\ (Drained' <=> Drained)
  BY <1>1, <1>2 DEF Upgrading, Installed, Whole, Tracked, LoadedFits, Runs, Drained
<1>4. WorldInv'
  BY <1>1, <1>2, <1>3, DescriptorChanges DEF Upgrading
<1>5. Upgrading(cmd[p].step)'
  BY <1>1, <1>2, <1>3 DEF Upgrading, InTransition
<1>6. Accounted(cmd[p])'
  BY <1>1, <1>2, <1>3 DEF Accounted
<1>7. SafelyAt(cmd[p])'
  BY <1>1, <1>2, <1>5, <1>6, SafelyActivating
<1> QED
  BY <1>1, <1>2, <1>4, <1>7, HolderKeeps

\* The last write of an activation.
LEMMA OutcomeSafe ==
    ASSUME UnitInv, SafeInv, NEW p \in Procs, cmd[p].step \in ActivateSteps,
           NEW d, NEW r, CommitDescriptor(p, d, r),
           SourceIsGone',
           d.phase = "none" => cmd[p].step \in FittingSteps,
           cmd[p].step \in DrainedSteps \cup GivenUpSteps => d.phase # "none"
    PROVE  SafeInv'
<1>1. /\ ~At(p, "idle") /\ Upgrading(cmd[p].step) /\ Accounted(cmd[p]) /\ WorldInv
  BY ActivateKnows
<1>2. /\ desc' = d /\ UNCHANGED <<unit, bins, loaded, enabled, svc, excused>> /\ Finish(p, r)
      /\ d.cur # NoRelease
  BY DEF CommitDescriptor, managerVars, ValidDescriptor
<1>3. WorldInv'
  BY <1>1, <1>2, DescriptorChanges DEF Upgrading, Installed
<1>4. Drained' => excused' \/ InTransition'
  BY <1>1, <1>2 DEF Accounted, Drained, InTransition
<1> QED
  BY <1>1, <1>2, <1>3, <1>4, DoneKeeps

LEMMA TransitionFields ==
    ASSUME NEW d \in Descriptors, NEW ph, NEW pid
    PROVE  /\ InPhase(d, ph).cur = d.cur /\ InPhase(d, ph).prev = d.prev
           /\ InPhase(d, ph).pend = d.pend /\ InPhase(d, ph).src = d.src
           /\ InPhase(d, ph).phase = ph
           /\ ClearTransition(d).cur = d.cur /\ ClearTransition(d).prev = d.prev
           /\ ClearTransition(d).pend = d.pend /\ ClearTransition(d).phase = "none"
           /\ \A e : e = [d EXCEPT !.phase = "stopping-previous", !.src = pid] =>
                 /\ e.cur = d.cur /\ e.prev = d.prev /\ e.pend = d.pend
                 /\ e.phase = "stopping-previous"
           /\ \A e : e = [d EXCEPT !.recovery = TRUE] =>
                 e.cur = d.cur /\ e.pend = d.pend /\ e.src = d.src /\ e.phase = d.phase
BY DEF InPhase, ClearTransition, Descriptors

\* ActivateUpgrade up to its first write.
LEMMA ActivateBegins ==
    ASSUME UnitInv, SafeInv, NEW p \in Procs,
           \/ BeginActivate(p) \/ ActivateStatus(p) \/ ActivateDrain(p)
           \/ ActivatePublish(p) \/ ActivateResume(p)
    PROVE  SafeInv'
<1> USE DEF At, fileVars, managerVars
<1>0. TypeOK /\ WorldInv
  BY DEF UnitInv, SafeInv
<1>1. /\ BeforeSteps \subseteq ActivateSteps /\ BeforeSteps \subseteq FittingSteps
      /\ \A s \in BeforeSteps : s \notin StoppedSteps \cup GivenUpSteps
      /\ {"activate.publish", "activate.resume", "activate.stop"} \subseteq DrainedSteps
      /\ \A s \in {"activate.status", "activate.drain"} : s \in BeforeSteps /\ s \notin DrainedSteps
      /\ {"activate.publish", "activate.resume"} \subseteq BeforeSteps
  BY DEF BeforeSteps, ActivateSteps, FittingSteps, PreviousUnitSteps, StoppedSteps, GivenUpSteps,
     DrainedSteps
<1>2. CASE BeginActivate(p)
  <2>1. /\ Begin(p, "Activate", "activate.status", NoRelease) /\ UNCHANGED <<desc, unit, bins>>
        /\ Verified /\ desc.pend # NoRelease
    BY <1>2 DEF BeginActivate
  <2>2. /\ cmd'[p].step = "activate.status" /\ cmd'[p].op = "Activate" /\ WorldInv'
        /\ Drained' => excused' \/ InTransition'
        /\ SafelyAt(cmd[p])' => SafeInv'
    BY <2>1, BeginSafe
  <2>3. ~InTransition' /\ Installed' /\ Whole'
    BY <2>1, VerifiedWhole DEF VerifiedIsWhole, InTransition, Installed, Whole, Tracked
  <2>4. LoadedFits'
    BY <2>2, <2>3 DEF WorldInv, SettledFits, Whole
  <2>5. Accounted(cmd[p])' /\ Upgrading(cmd[p].step)'
    BY <1>1, <2>1, <2>2, <2>3, <2>4 DEF Accounted, Upgrading
  <2>6. cmd'[p].step \in ActivateSteps /\ cmd'[p].op # "Uninstall"
    BY <1>1, <2>2
  <2> QED
    BY <2>2, <2>5, <2>6, SafelyActivating
<1>3. CASE ActivateStatus(p)
  <2>1. cmd[p].step = "activate.status" /\ cmd[p].step \in ActivateSteps
    BY <1>1, <1>3 DEF ActivateStatus
  <2>2. ~At(p, "idle") /\ cmd[p].op # "Uninstall" /\ Upgrading(cmd[p].step) /\ Accounted(cmd[p])
    BY <2>1, ActivateKnows
  <2>3. CASE Fail(p, "error")
    BY <1>1, <2>1, <2>2, <2>3, FailSafe
  <2>4. CASE Observe(p, "activate.drain")
    <3>1. /\ cmd'[p].step = "activate.drain" /\ cmd'[p].op = cmd[p].op
          /\ cmd'[p].client = cmd[p].client /\ lock' = lock
          /\ \A q \in Procs \ {p} : cmd'[q] = cmd[q]
          /\ UNCHANGED <<desc, unit, bins, loaded, enabled, svc, excused>>
      BY <1>0, <2>4 DEF Observe, TypeOK
    <3>2. WorldInv'
      BY <1>0, <3>1, WorldStutters
    <3>3. Upgrading(cmd[p].step)'
      BY <1>1, <2>1, <2>2, <3>1 DEF Upgrading, InTransition, Installed, Whole, LoadedFits
    <3>4. Accounted(cmd[p])'
      BY <1>1, <2>1, <2>2, <3>1 DEF Accounted, Drained, InTransition
    <3> QED
      BY <1>1, <2>2, <3>1, <3>2, <3>3, <3>4, SafelyActivating, HolderKeeps
  <2> QED
    BY <1>3, <2>3, <2>4 DEF ActivateStatus
<1>4. CASE ActivateDrain(p)
  <2>1. PICK e : /\ cmd[p].step = "activate.drain"
                 /\ \/ DrainSucceeds(p, e, "activate.publish")
                    \/ DrainSkipped(p, "activate.publish") \/ DrainFails(p, e)
    BY <1>4 DEF ActivateDrain
  <2>2. /\ ~At(p, "idle") /\ cmd[p].op # "Uninstall" /\ Upgrading(cmd[p].step)
        /\ cmd[p].step \notin DrainedSteps
    BY <1>1, <2>1, ActivateKnows
  <2>3. CASE DrainSkipped(p, "activate.publish")
    <3>1. Advance(p, "activate.publish")
      BY <2>3 DEF DrainSkipped, Advance
    <3> QED
      BY <1>1, <2>1, <3>1, AdvanceSafe
  <2>4. CASE DrainSucceeds(p, e, "activate.publish")
    <3>1. /\ WorldInv' /\ UNCHANGED <<fileVars, loaded, enabled, lock>>
          /\ cmd'[p].step = "activate.publish" /\ cmd'[p].op = cmd[p].op
          /\ cmd'[p].client = svc'.pid
          /\ \A q \in Procs \ {p} : cmd'[q] = cmd[q]
      BY <2>2, <2>4, DrainSafe
    <3>2. Accounted(cmd[p])'
      BY <1>1, <3>1 DEF Accounted
    <3>3. Upgrading(cmd[p].step)'
      BY <1>1, <2>1, <2>2, <3>1 DEF Upgrading, InTransition, Installed, Whole, LoadedFits
    <3>4. SafelyAt(cmd[p])'
      BY <1>1, <2>2, <3>1, <3>2, <3>3, SafelyActivating
    <3> QED
      BY <2>2, <3>1, <3>4, HolderKeeps
  <2> QED
    BY <2>1, <2>2, <2>3, <2>4, DrainSafe
<1>5. CASE ActivatePublish(p)
  <2>1. cmd[p].step = "activate.publish" /\ cmd[p].step \in ActivateSteps
    BY <1>1, <1>5 DEF ActivatePublish
  <2>2. cmd[p].mine = desc /\ desc \in Descriptors /\ Upgrading(cmd[p].step)
    BY <2>1, <1>0, ActivateKnows DEF TypeOK
  <2>3. CASE Advance(p, "activate.resume")
    BY <1>1, <2>1, <2>3, AdvanceSafe
  <2>4. CASE ReplaceDescriptor(p, [desc EXCEPT !.phase = "stopping-previous",
                                               !.src = cmd[p].before.pid], "activate.stop")
    <3>0. PICK d : d = [desc EXCEPT !.phase = "stopping-previous", !.src = cmd[p].before.pid]
      OBVIOUS
    <3>1. d.cur = desc.cur /\ d.prev = desc.prev /\ d.pend = desc.pend
          /\ d.phase = "stopping-previous"
      BY <2>2, <3>0 DEF Descriptors
    <3>4. ReplaceDescriptor(p, d, "activate.stop")
      BY <2>4, <3>0
    <3>2. SourceIsGone'
      BY <3>1, <3>4 DEF ReplaceDescriptor, SourceIsGone, UsesCurrentUnit
    <3>3. /\ "activate.stop" \in ActivateSteps /\ "activate.stop" \notin BeforeSteps
          /\ "activate.stop" \notin StoppedSteps
      BY DEF ActivateSteps, PreviousUnitSteps, BeforeSteps, StoppedSteps
    <3> QED
      BY <1>1, <2>1, <3>1, <3>2, <3>3, <3>4, PhaseSafe
  <2> QED
    BY <1>5, <2>2, <2>3, <2>4 DEF ActivatePublish, Mine
<1>6. CASE ActivateResume(p)
  <2>1. /\ cmd[p].step = "activate.resume" /\ cmd[p].step \in ActivateSteps
        /\ Finish(p, "error") /\ ResumeEffect(cmd[p].client) /\ UNCHANGED <<desc, unit, bins>>
    BY <1>1, <1>6 DEF ActivateResume, FailWithResume
  <2>2. ~At(p, "idle") /\ Accounted(cmd[p])
    BY <2>1, ActivateKnows
  <2>3. /\ WorldInv' /\ DrainPersists
        /\ cmd[p].client = svc.pid /\ Drained' => excused'
    BY <1>0, <2>1, ResumeSafe
  <2>4. Drained' => excused' \/ InTransition'
    BY <2>1, <2>2, <2>3 DEF Accounted, DrainPersists, InTransition
  <2> QED
    BY <2>1, <2>2, <2>3, <2>4, DoneKeeps
<1> QED
  BY <1>2, <1>3, <1>4, <1>5, <1>6

\* Where a step may lead without anything being written or learned, ...
Leads(a, b) ==
    /\ a \in ActivateSteps \ BeforeSteps /\ b \in ActivateSteps \ BeforeSteps
    /\ b \in {"activate.ready", "activate.check", "activate.commit"} =>
          a \in {"activate.ready", "activate.check"}
    /\ b \in FittingSteps => a \in FittingSteps
    /\ b \in StoppedSteps => a \in StoppedSteps
    /\ a \in DrainedSteps => b \in DrainedSteps \cup GivenUpSteps
    /\ a \in GivenUpSteps => b \in GivenUpSteps

\* ... which is every way out of a check or a failed write.
LEMMA WaysOut ==
    /\ \A a \in ActivateSteps \ BeforeSteps : Leads(a, "mark") \/ a = "abort.resume"
    /\ Leads("activate.stopped", "abort") /\ Leads("activate.stopped", "restore.status")
    /\ Leads("restore.status", "abort") /\ Leads("abort", "abort.resume")
    /\ \A a \in {"activate.started", "activate.ready", "activate.check", "activate.commit"} :
          Leads(a, "rollback.stop")
    /\ \A a \in {"restore.started", "restore.ready", "restore.check", "restore.clear",
                 "rollback.started", "rollback.ready", "rollback.active", "rollback.commit"} :
          Leads(a, "final-stop")
    /\ Leads("activate.started", "activate.candidate-started")
    /\ Leads("activate.ready", "activate.check") /\ Leads("activate.check", "activate.commit")
    /\ Leads("restore.started", "restore.ready") /\ Leads("restore.ready", "restore.check")
    /\ Leads("restore.check", "restore.clear")
    /\ Leads("rollback.started", "rollback.ready") /\ Leads("rollback.ready", "rollback.active")
    /\ Leads("rollback.active", "rollback.commit")
    /\ Leads("rollback.check", "rollback.switching-unit")
BY DEF Leads, ActivateSteps, BeforeSteps, FittingSteps, StoppedSteps, DrainedSteps, GivenUpSteps,
       PreviousUnitSteps, SwitchingSteps, CandidateUnitSteps

LEMMA LeadsSafe ==
    ASSUME UnitInv, SafeInv, NEW p \in Procs, NEW s, Advance(p, s), Leads(cmd[p].step, s)
    PROVE  SafeInv'
BY AdvanceSafe DEF Leads

\* Where it leads once the service was seen stopped.
LEMMA LeadsStopped ==
    ASSUME UnitInv, SafeInv, NEW p \in Procs, NEW s, Advance(p, s), TerminalStopped,
           \/ cmd[p].step = "activate.stopped" /\ s = "activate.previous-stopped"
           \/ cmd[p].step = "restore.status" /\ s = "restore.start"
           \/ cmd[p].step = "rollback.stopped" /\ s = "rollback.check"
    PROVE  SafeInv'
<1>1. /\ cmd[p].step \in ActivateSteps \ BeforeSteps /\ s \in ActivateSteps \ BeforeSteps
      /\ cmd[p].step \in FittingSteps /\ cmd[p].step \notin GivenUpSteps
      /\ s \notin {"activate.ready", "activate.check", "activate.commit"}
  BY DEF ActivateSteps, BeforeSteps, FittingSteps, GivenUpSteps, PreviousUnitSteps, SwitchingSteps,
     CandidateUnitSteps
<1> QED
  BY <1>1, AdvanceSafe

\* The verbs of an activation.
LEMMA ActivateVerbs ==
    ASSUME UnitInv, SafeInv, NEW p \in Procs,
           \/ ActivateStop(p) \/ ActivateReload(p) \/ ActivateStart(p) \/ RestoreStart(p)
           \/ RollbackStop(p) \/ RollbackReload(p) \/ RollbackStart(p) \/ FinalStop(p)
    PROVE  SafeInv'
<1> USE DEF At, fileVars, managerVars
<1>1. cmd[p].step \in ActivateSteps \ BeforeSteps
  BY DEF ActivateStop, ActivateReload, ActivateStart, RestoreStart, RollbackStop, RollbackReload,
     RollbackStart, FinalStop, ActivateSteps, BeforeSteps, PreviousUnitSteps, CandidateUnitSteps
<1>2. /\ TypeOK /\ WorldInv /\ Upgrading(cmd[p].step) /\ Installed
      /\ cmd[p].step \in FittingSteps => LoadedFits
  BY <1>1, ActivateKnows DEF Upgrading
<1>3. ASSUME UNCHANGED <<desc, unit, bins>>, WorldInv', DrainPersists,
             NEW s \in ActivateSteps \ BeforeSteps, Goto(p, s),
             s \notin {"activate.ready", "activate.check", "activate.commit"},
             s \in FittingSteps => LoadedFits', s \in StoppedSteps => ~Runs',
             cmd[p].step \in DrainedSteps => s \in DrainedSteps \cup GivenUpSteps,
             cmd[p].step \in GivenUpSteps => s \in GivenUpSteps
      PROVE  SafeInv'
  BY <1>1, <1>3, ActivateGoes
<1>4. CASE ActivateStop(p)
  <2>1. /\ cmd[p].step = "activate.stop" /\ UNCHANGED <<desc, unit, bins>>
        /\ UNCHANGED managerVars \/ \E ok \in BOOLEAN : SystemctlStop(ok)
        /\ \E s \in {"activate.stopped", "restore.status"} : Goto(p, s)
    BY <1>4 DEF ActivateStop, NoEffect
  <2>2. WorldInv' /\ DrainPersists /\ UNCHANGED loaded
    <3>1. CASE UNCHANGED managerVars
      BY <1>2, <2>1, <3>1, WorldStutters, SameService
    <3> QED
      BY <1>2, <2>1, <3>1, StopSafe
  <2>3. \A s \in {"activate.stopped", "restore.status"} :
           s \in ActivateSteps \ BeforeSteps /\ s \in DrainedSteps /\ s \notin StoppedSteps
    BY DEF ActivateSteps, BeforeSteps, PreviousUnitSteps, DrainedSteps, StoppedSteps
  <2>4. LoadedFits' /\ cmd[p].step \notin GivenUpSteps
    BY <1>2, <2>1, <2>2 DEF LoadedFits, FittingSteps, PreviousUnitSteps, GivenUpSteps
  <2> QED
    BY <1>3, <2>1, <2>2, <2>3, <2>4
<1>5. CASE RollbackStop(p) \/ FinalStop(p)
  <2>1. PICK s \in {"rollback.stopped", "mark"} :
          /\ UNCHANGED <<desc, unit, bins>> /\ \E ok \in BOOLEAN : SystemctlStop(ok)
          /\ Goto(p, s)
          /\ \/ cmd[p].step = "rollback.stop" /\ s = "rollback.stopped"
             \/ cmd[p].step = "final-stop" /\ s = "mark"
    BY <1>5 DEF RollbackStop, FinalStop
  <2>2. WorldInv' /\ DrainPersists /\ UNCHANGED loaded
    BY <1>2, <2>1, StopSafe
  <2>3. /\ s \in ActivateSteps \ BeforeSteps /\ s \notin StoppedSteps
        /\ cmd[p].step \notin DrainedSteps
        /\ cmd[p].step \in GivenUpSteps => s \in GivenUpSteps
        /\ s \in FittingSteps => cmd[p].step \in FittingSteps
    BY <2>1 DEF ActivateSteps, BeforeSteps, CandidateUnitSteps, PreviousUnitSteps, DrainedSteps,
       StoppedSteps, GivenUpSteps, FittingSteps
  <2>4. s \in FittingSteps => LoadedFits'
    BY <1>2, <2>1, <2>2, <2>3 DEF LoadedFits
  <2> QED
    BY <1>3, <2>1, <2>2, <2>3, <2>4
<1>6. CASE ActivateReload(p) \/ RollbackReload(p)
  <2>1. PICK ok \in BOOLEAN, s \in {"activate.start", "rollback.start", "mark"} :
          /\ UNCHANGED <<desc, unit, bins>> /\ SystemctlReload(ok) /\ Goto(p, s)
          /\ cmd[p].step \in {"activate.reload", "rollback.reload"}
          /\ s = "mark" \/ ok
    BY <1>6 DEF ActivateReload, RollbackReload
  <2>2. WorldInv' /\ DrainPersists /\ UNCHANGED svc /\ (ok => LoadedFits')
    BY <1>2, <2>1, ReloadSafe
  <2>3. /\ s \in ActivateSteps \ BeforeSteps
        /\ cmd[p].step \notin DrainedSteps /\ cmd[p].step \notin GivenUpSteps
        /\ cmd[p].step \in StoppedSteps
        /\ "mark" \notin FittingSteps
    BY <2>1 DEF ActivateSteps, BeforeSteps, CandidateUnitSteps, PreviousUnitSteps, DrainedSteps,
       StoppedSteps, GivenUpSteps, FittingSteps
  <2>4. ~Runs'
    BY <1>2, <2>2, <2>3 DEF Upgrading, Runs
  <2> QED
    BY <1>3, <2>1, <2>2, <2>3, <2>4
<1>7. CASE ActivateStart(p) \/ RestoreStart(p) \/ RollbackStart(p)
  <2>1. PICK s \in {"activate.started", "rollback.stop", "restore.started", "final-stop",
                    "rollback.started"} :
          /\ UNCHANGED <<desc, unit, bins>> /\ \E ok : SystemctlStart(ok, FreshPids)
          /\ Goto(p, s)
          /\ cmd[p].step \in {"activate.start", "restore.start", "rollback.start"}
    BY <1>7 DEF ActivateStart, RestoreStart, RollbackStart
  <2>2. /\ s \in ActivateSteps \ BeforeSteps /\ s \notin StoppedSteps
        /\ cmd[p].step \notin DrainedSteps /\ cmd[p].step \notin GivenUpSteps
        /\ cmd[p].step \in FittingSteps
    BY <2>1 DEF ActivateSteps, BeforeSteps, CandidateUnitSteps, PreviousUnitSteps, DrainedSteps,
       StoppedSteps, GivenUpSteps, FittingSteps
  <2>3. WorldInv' /\ DrainPersists /\ LoadedFits'
    BY <1>2, <2>1, <2>2, StartSafe
  <2> QED
    BY <1>3, <2>1, <2>2, <2>3
<1> QED
  BY <1>4, <1>5, <1>6, <1>7

\* The unit is replaced while the service is stopped.
LEMMA SwitchSafe ==
    ASSUME UnitInv, SafeInv, NEW p \in Procs, ActivateUnit(p) \/ RollbackUnit(p)
    PROVE  SafeInv'
<1> USE DEF At, fileVars, managerVars
<1>1. /\ cmd[p].step \in {"activate.unit", "rollback.unit"}
      /\ cmd[p].step \in ActivateSteps \ BeforeSteps /\ cmd[p].step \in StoppedSteps
      /\ cmd[p].step \notin DrainedSteps /\ cmd[p].step \notin GivenUpSteps
  BY DEF ActivateUnit, RollbackUnit, ActivateSteps, BeforeSteps, SwitchingSteps, StoppedSteps,
     DrainedSteps, GivenUpSteps
<1>2. /\ ~At(p, "idle") /\ cmd[p].op # "Uninstall" /\ Upgrading(cmd[p].step)
      /\ Accounted(cmd[p]) /\ TypeOK /\ WorldInv /\ cmd[p].mine = desc
  BY <1>1, ActivateKnows
<1>3. CASE Advance(p, "mark")
  BY <1>1, <1>3, WaysOut, LeadsSafe
<1>4. ASSUME NEW from, NEW to \in {desc.cur, desc.pend},
             NEW s \in {"activate.candidate-unit", "rollback.previous-stopped"},
             ReplaceUnit(p, from, to, s)
      PROVE  SafeInv'
  <2>1. /\ unit' = to /\ UNCHANGED <<desc, bins, loaded, enabled, svc, excused, lock>>
        /\ cmd'[p].step = s /\ cmd'[p].op = cmd[p].op /\ cmd'[p].client = cmd[p].client
        /\ \A q \in Procs \ {p} : cmd'[q] = cmd[q]
    BY <1>4, GotoFields DEF ReplaceUnit
  <2>2. to # NoRelease /\ bins[to] = "file" /\ ~Runs /\ InTransition /\ Installed
    BY <1>1, <1>2 DEF Upgrading, Whole, Tracked, Installed
  <2>3. WorldInv'
    BY <1>2, <2>1, <2>2, UnitChanges
  <2>4. /\ s \in ActivateSteps \ BeforeSteps /\ s \notin FittingSteps
        /\ s \notin {"activate.ready", "activate.check", "activate.commit"}
    BY DEF ActivateSteps, BeforeSteps, SwitchingSteps, FittingSteps, PreviousUnitSteps,
       CandidateUnitSteps
  <2>5. Upgrading(cmd[p].step)'
    BY <1>1, <1>2, <2>1, <2>2, <2>4 DEF Upgrading, InTransition, Installed, Whole, Runs
  <2>6. Accounted(cmd[p])'
    BY <1>1, <1>2, <2>1 DEF Accounted, Drained
  <2> QED
    BY <1>2, <2>1, <2>3, <2>4, <2>5, <2>6, SafelyActivating, HolderKeeps
<1> QED
  BY <1>2, <1>3, <1>4 DEF ActivateUnit, RollbackUnit, Mine

\* A phase is announced.
LEMMA PhasesSafe ==
    ASSUME UnitInv, SafeInv, NEW p \in Procs,
           ActivatePhases(p) \/ RollbackPhases(p) \/ Abort(p)
    PROVE  SafeInv'
<1> USE DEF At
<1>1. PICK at \in {"activate.previous-stopped", "activate.switching-unit",
                   "activate.candidate-unit", "activate.candidate-started",
                   "rollback.switching-unit", "rollback.previous-stopped", "abort"} :
         cmd[p].step = at
  BY DEF ActivatePhases, RollbackPhases, Abort, PublishPhase
<1>2. at \in ActivateSteps \ BeforeSteps /\ at \notin GivenUpSteps
  BY DEF ActivateSteps, BeforeSteps, SwitchingSteps, PreviousUnitSteps, CandidateUnitSteps,
     GivenUpSteps
<1>3. /\ Upgrading(at) /\ WorldInv /\ cmd[p].mine = desc /\ desc \in Descriptors
  BY <1>1, <1>2, ActivateKnows DEF TypeOK
<1>4. ASSUME NEW s \in {"mark", "abort.resume"}, Advance(p, s), s = "mark" \/ at = "abort"
      PROVE  SafeInv'
  BY <1>1, <1>2, <1>4, WaysOut, LeadsSafe DEF Leads
<1>5. ASSUME NEW ph, NEW s, ReplaceDescriptor(p, InPhase(desc, ph), s),
             \/ ph = "previous-stopped"
                /\ \/ at = "activate.previous-stopped" /\ s = "activate.switching-unit"
                   \/ at = "rollback.previous-stopped" /\ s = "rollback.reload"
             \/ ph = "switching-unit"
                /\ \/ at = "activate.switching-unit" /\ s = "activate.unit"
                   \/ at = "rollback.switching-unit" /\ s = "rollback.unit"
             \/ ph = "candidate-unit" /\ at = "activate.candidate-unit" /\ s = "activate.reload"
             \/ ph = "candidate-started" /\ at = "activate.candidate-started"
                /\ s = "activate.ready"
      PROVE  SafeInv'
  <2>1. PICK d : d = InPhase(desc, ph)
    OBVIOUS
  <2>2. /\ d.cur = desc.cur /\ d.prev = desc.prev /\ d.pend = desc.pend /\ d.src = desc.src
        /\ d.phase = ph /\ ReplaceDescriptor(p, d, s)
    <3>1. /\ d.cur = desc.cur /\ d.prev = desc.prev /\ d.pend = desc.pend /\ d.src = desc.src
          /\ d.phase = ph
      BY <1>3, <2>1 DEF InPhase, Descriptors
    <3> QED
      BY <1>5, <2>1, <3>1
  <2>3. desc' = d /\ UNCHANGED <<unit, svc>>
    BY <2>2 DEF ReplaceDescriptor, managerVars
  <2>4. SourceIsGone'
    <3>1. CASE ph = "previous-stopped"
      BY <2>2, <2>3, <3>1 DEF SourceIsGone, UsesCurrentUnit
    <3>2. CASE ph = "candidate-started"
      <4>1. at \in CandidateUnitSteps
        BY <1>5, <3>2 DEF CandidateUnitSteps
      <4>2. ~UsesCurrentUnit(desc)
        BY <1>1, <1>2, <4>1, ActivateStands DEF UsesCurrentUnit
      <4> QED
        BY <1>3, <2>2, <2>3, <4>2 DEF WorldInv, SourceIsGone, Active
    <3>3. CASE ph \in {"switching-unit", "candidate-unit"}
      <4>1. at \in StoppedSteps
        BY <1>5, <3>3 DEF StoppedSteps
      <4>2. ~Active'
        BY <1>3, <2>3, <4>1 DEF Upgrading, Runs, Active
      <4> QED
        BY <4>2 DEF SourceIsGone
    <3> QED
      BY <1>5, <3>1, <3>2, <3>3
  <2>5. /\ s \in ActivateSteps \ BeforeSteps /\ at \notin DrainedSteps /\ ph # "none"
        /\ s \in {"activate.ready", "activate.check", "activate.commit"} =>
              ph = "candidate-started"
        /\ s \in FittingSteps => at \in FittingSteps
        /\ s \in StoppedSteps => at \in StoppedSteps
    BY <1>5 DEF ActivateSteps, BeforeSteps, SwitchingSteps, PreviousUnitSteps, CandidateUnitSteps,
       DrainedSteps, FittingSteps, StoppedSteps
  <2> QED
    BY <1>1, <1>2, <2>2, <2>4, <2>5, PhaseSafe
<1>6. CASE ReplaceDescriptor(p, ClearTransition(desc), "activate.resume") /\ at = "abort"
  <2>1. PICK d : d = ClearTransition(desc)
    OBVIOUS
  <2>2. /\ d.cur = desc.cur /\ d.prev = desc.prev /\ d.pend = desc.pend /\ d.phase = "none"
        /\ ReplaceDescriptor(p, d, "activate.resume")
    BY <1>3, <1>6, <2>1, TransitionFields
  <2>3. SourceIsGone'
    BY <2>2 DEF ReplaceDescriptor, SourceIsGone, UsesCurrentUnit
  <2>4. /\ "activate.resume" \in ActivateSteps /\ "activate.resume" \in BeforeSteps
        /\ at \in FittingSteps /\ "activate.resume" \notin StoppedSteps
        /\ "activate.resume" \in DrainedSteps
    BY <1>6 DEF ActivateSteps, BeforeSteps, PreviousUnitSteps, FittingSteps, StoppedSteps,
       DrainedSteps
  <2> QED
    BY <1>1, <1>2, <2>2, <2>3, <2>4, PhaseSafe
<1>7. CASE Abort(p)
  BY <1>1, <1>3, <1>4, <1>6, <1>7 DEF Abort, Mine
<1>8. CASE ActivatePhases(p)
  BY <1>1, <1>3, <1>4, <1>5, <1>8 DEF ActivatePhases, PublishPhase, Mine
<1>9. CASE RollbackPhases(p)
  BY <1>1, <1>3, <1>4, <1>5, <1>9 DEF RollbackPhases, PublishPhase, Mine
<1> QED
  BY <1>7, <1>8, <1>9

\* The last writes: commit, both ways back, and the mark.
LEMMA OutcomesSafe ==
    ASSUME UnitInv, SafeInv, NEW p \in Procs,
           \/ ActivateCommit(p) \/ RestoreClear(p) \/ RollbackCommit(p)
           \/ MarkUpgradeRecovery(p) \/ AbortResume(p)
    PROVE  SafeInv'
<1> USE DEF At, fileVars, managerVars
<1>1. PICK at \in {"activate.commit", "restore.clear", "rollback.commit", "mark",
                   "abort.resume"} : cmd[p].step = at
  BY DEF ActivateCommit, RestoreClear, RollbackCommit, MarkUpgradeRecovery, AbortResume
<1>2. /\ at \in ActivateSteps \ BeforeSteps /\ at \notin DrainedSteps
      /\ at \in {"activate.commit", "restore.clear", "rollback.commit"} =>
            at \in FittingSteps /\ at \notin GivenUpSteps
  BY DEF ActivateSteps, BeforeSteps, PreviousUnitSteps, CandidateUnitSteps, DrainedSteps,
     FittingSteps, GivenUpSteps
<1>3. /\ ~At(p, "idle") /\ Upgrading(at) /\ TypeOK /\ WorldInv /\ cmd[p].mine = desc
      /\ desc \in Descriptors
  BY <1>1, <1>2, ActivateKnows DEF TypeOK
<1>4. ASSUME NEW d, NEW r, CommitDescriptor(p, d, r), d.phase = "none",
             at \in {"activate.commit", "restore.clear", "rollback.commit"}
      PROVE  SafeInv'
  <2>1. SourceIsGone'
    BY <1>4 DEF CommitDescriptor, SourceIsGone, UsesCurrentUnit
  <2> QED
    BY <1>1, <1>2, <1>4, <2>1, OutcomeSafe
<1>5. Committed(desc).phase = "none" /\ ClearTransition(desc).phase = "none"
  BY <1>3, TransitionFields DEF Committed, NoDescriptor
<1>6. CASE ActivateCommit(p)
  BY <1>1, <1>3, <1>4, <1>5, <1>6, WaysOut, LeadsSafe DEF ActivateCommit, Mine
<1>7. CASE RestoreClear(p) \/ RollbackCommit(p)
  BY <1>1, <1>3, <1>4, <1>5, <1>7, WaysOut, LeadsSafe DEF RestoreClear, RollbackCommit, Mine
<1>8. CASE MarkUpgradeRecovery(p)
  <2>1. CASE Fail(p, "recovery")
    BY <1>1, <1>2, <1>3, <2>1, FailSafe
  <2>2. CASE CommitDescriptor(p, [desc EXCEPT !.recovery = TRUE], "recovery")
    <3>1. PICK d : d = [desc EXCEPT !.recovery = TRUE]
      OBVIOUS
    <3>2. d.cur = desc.cur /\ d.pend = desc.pend /\ d.src = desc.src /\ d.phase = desc.phase
      BY <1>3, <3>1 DEF Descriptors
    <3>3. CommitDescriptor(p, d, "recovery")
      BY <2>2, <3>1
    <3>4. d.phase # "none" /\ SourceIsGone'
      BY <1>2, <1>3, <3>2, <3>3 DEF Upgrading, InTransition, CommitDescriptor, WorldInv,
         SourceIsGone, UsesCurrentUnit, Active
    <3> QED
      BY <1>1, <1>2, <3>3, <3>4, OutcomeSafe
  <2> QED
    BY <1>3, <1>8, <2>1, <2>2 DEF MarkUpgradeRecovery, Mine
<1>9. CASE AbortResume(p)
  <2>1. Finish(p, "recovery") /\ ResumeEffect(cmd[p].client) /\ UNCHANGED <<desc, unit, bins>>
    BY <1>9 DEF AbortResume
  <2>2. WorldInv' /\ InTransition'
    BY <1>2, <1>3, <2>1, ResumeSafe DEF Upgrading, InTransition
  <2> QED
    BY <1>3, <2>1, <2>2, DoneKeeps
<1> QED
  BY <1>6, <1>7, <1>8, <1>9

LEMMA ActivateSafe ==
    ASSUME UnitInv, SafeInv, NEW p \in Procs, ActivateNext(p)
    PROVE  SafeInv'
<1> USE DEF At
<1>1. \A a \in {"activate.stopped", "restore.status", "rollback.stopped", "rollback.check"} :
         a \in ActivateSteps \ BeforeSteps
  BY DEF ActivateSteps, BeforeSteps, PreviousUnitSteps, CandidateUnitSteps
<1>2. ASSUME NEW a \in {"activate.stopped", "restore.status", "rollback.stopped",
                        "rollback.check"}, cmd[p].step = a, Advance(p, "mark")
      PROVE  SafeInv'
  BY <1>1, <1>2, WaysOut, LeadsSafe
<1>3. CASE ActivateStopped(p)
  BY <1>2, <1>3, WaysOut, LeadsSafe, LeadsStopped DEF ActivateStopped
<1>4. CASE RestoreStatus(p)
  BY <1>2, <1>4, WaysOut, LeadsSafe, LeadsStopped DEF RestoreStatus
<1>5. CASE RollbackStopped(p)
  BY <1>2, <1>5, LeadsStopped DEF RollbackStopped
<1>6. CASE RollbackCheck(p)
  BY <1>2, <1>6, WaysOut, LeadsSafe DEF RollbackCheck
<1>7. CASE ActivateStarted(p) \/ ActivateReady(p) \/ ActivateCheck(p)
  BY <1>7, WaysOut, LeadsSafe DEF ActivateStarted, ActivateReady, ActivateCheck
<1>8. CASE RestoreChecks(p) \/ RollbackChecks(p)
  BY <1>8, WaysOut, LeadsSafe DEF RestoreChecks, RollbackChecks
<1> QED
  BY <1>3, <1>4, <1>5, <1>6, <1>7, <1>8, ActivateBegins, ActivateVerbs, SwitchSafe, PhasesSafe,
     OutcomesSafe DEF ActivateNext

(***************************************************************************)
(* The rest of the machine: deaths, reboots, the manager and the service.  *)
(***************************************************************************)
LEMMA EnvironmentMoves ==
    ASSUME TypeOK, WorldInv, Environment
    PROVE  /\ WorldInv' /\ DrainPersists /\ UNCHANGED <<desc, unit, bins, enabled, lock, cmd>>
           /\ ~Runs => ~Runs'
           /\ LoadedFits => LoadedFits'
           /\ loaded = NoRelease /\ ~Runs => loaded' = NoRelease
<1> USE DEF fileVars, managerVars
<1>0. UNCHANGED <<desc, unit, bins, lock, cmd>>
  BY DEF Environment, ServiceWritesData
<1>1. CASE ServiceWritesData
  BY <1>0, <1>1, WorldStutters, SameService DEF ServiceWritesData, Runs, LoadedFits
<1>2. CASE ManagerUnloads
  <2>1. ~Runs /\ loaded' = NoRelease /\ UNCHANGED <<enabled, svc, excused>>
    BY <1>2 DEF ManagerUnloads, TerminalStopped, Runs
  <2>2. WorldInv'
    BY <1>0, <2>1 DEF WorldInv, SvcShape, RunsTheUnit, Runs, UninstalledIsQuiet, Quiet,
       SettledFits, LoadedFits, EnabledServiceCanBoot, SourceIsGone, Active, Installed,
       InTransition, UsesCurrentUnit
  <2> QED
    BY <1>0, <2>1, <2>2, SameService DEF Runs, LoadedFits
<1>3. CASE StopEffect
  BY <1>0, <1>3, StopEffectSafe DEF LoadedFits
<1>4. CASE ManagerFinishesStop \/ ManagerGivesUp
  BY <1>3, <1>4 DEF ManagerFinishesStop, ManagerGivesUp, StopEffect
<1>5. CASE ServiceCrashes
  <2>1. Active /\ svc' = Stopped("restarting") /\ UNCHANGED <<loaded, enabled>>
    BY <1>5 DEF ServiceCrashes, SvcBecomes
  <2>2. SvcShape' /\ Runs /\ ~Active' /\ svc'.rel = NoRelease /\ ~Drained'
    BY <2>1, Shapes DEF SvcShape, Runs, Active, Drained
  <2> QED
    BY <1>0, <2>1, <2>2, ServiceMoves DEF DrainPersists, LoadedFits
<1>6. CASE ManagerRestarts(FreshPids)
  <2>1. Runs /\ SpawnEffect(FreshPids)
    BY <1>6 DEF ManagerRestarts, Runs
  <2>2. Installed /\ LoadedFits
    BY <2>1 DEF WorldInv, UninstalledIsQuiet, Quiet, RunsTheUnit, LoadedFits
  <2> QED
    BY <1>0, <2>1, <2>2, SpawnSafe
<1>7. CASE ServiceBecomesReady
  <2>1. /\ Active /\ svc' = [svc EXCEPT !.health = "ready"] /\ UNCHANGED <<loaded, enabled>>
    BY <1>7 DEF ServiceBecomesReady, SvcBecomes
  <2>2. WorldInv' /\ ~Drained' /\ (Runs' <=> Runs)
    BY <1>0, <2>1, HealthSafe DEF Drained
  <2> QED
    BY <1>0, <2>1, <2>2 DEF DrainPersists, LoadedFits
<1> QED
  BY <1>1, <1>2, <1>4, <1>5, <1>6, <1>7 DEF Environment

LEMMA EnvironmentSafe == ASSUME UnitInv, SafeInv, Environment PROVE SafeInv'
<1>1. /\ WorldInv' /\ DrainPersists /\ UNCHANGED <<desc, unit, bins, enabled, lock, cmd>>
      /\ ~Runs => ~Runs'
      /\ LoadedFits => LoadedFits'
      /\ loaded = NoRelease /\ ~Runs => loaded' = NoRelease
  BY EnvironmentMoves DEF UnitInv, SafeInv
<1>2. Quiet => Quiet'
  BY <1>1 DEF Quiet
<1>3. \A c : Accounted(c) => Accounted(c)'
  BY <1>1 DEF Accounted, DrainPersists, InTransition
<1>4. ASSUME NEW p \in Procs, SafelyAt(cmd[p])
      PROVE  SafelyAt(cmd[p])'
  <2>1. cmd'[p] = cmd[p] /\ (cmd[p].step = "uninstall.descriptor" => ~Runs)
    BY <1>1, <1>4 DEF SafelyAt, StoppedSteps
  <2>2. (Whole => Whole') /\ (InTransition' <=> InTransition) /\ (Installed' <=> Installed)
    BY <1>1 DEF Whole, InTransition, Installed
  <2>3. Accounted(cmd[p])'
    BY <1>3, <1>4, <2>1 DEF SafelyAt, Accounted
  <2> QED
    BY <1>1, <1>2, <1>4, <2>1, <2>2, <2>3 DEF SafelyAt, OpFits
<1>5. DrainedWhenFree'
  BY <1>1 DEF SafeInv, DrainedWhenFree, LockFree, DrainPersists, InTransition
<1> QED
  BY <1>1, <1>4, <1>5 DEF SafeInv, At, OpFits

LEMMA CrashSafe == ASSUME UnitInv, SafeInv, NEW p \in Procs, KitCrash(p) PROVE SafeInv'
<1>1. /\ ~At(p, "idle") /\ Finish(p, "crashed")
      /\ UNCHANGED <<desc, unit, bins, loaded, enabled, svc>>
      /\ Drained' => excused'
  BY DEF KitCrash, fileVars, Drained
<1>2. WorldInv'
  BY <1>1, WorldStutters DEF SafeInv
<1> QED
  BY <1>1, <1>2, DoneKeeps

LEMMA RebootSafe == ASSUME UnitInv, SafeInv, Reboot PROVE SafeInv'
<1>0. TypeOK /\ WorldInv /\ UNCHANGED <<desc, unit, bins, enabled>> /\ Boot(FreshPids)
  BY DEF UnitInv, SafeInv, Reboot, fileVars, Boot
<1>1. \A q \in Procs : cmd'[q].step = "idle" /\ cmd'[q].op = "none"
  BY DEF Reboot, Idle
<1>2. CASE enabled /\ unit # NoRelease
  <2>1. loaded' = unit /\ bins[unit] = "file" /\ Installed
    BY <1>0, <1>2 DEF Boot, WorldInv, EnabledServiceCanBoot, UninstalledIsQuiet, Quiet
  <2>2. PICK pid \in FreshPids : svc' = Running(pid, unit)
    BY <1>0, <1>2, <2>1 DEF Boot
  <2>3. pid # NoPid /\ pid # desc.src
    BY PidsAssumption DEF FreshPids
  <2>4. SvcShape' /\ ~Drained' /\ svc'.pid # desc.src /\ svc'.rel = unit
    BY <1>2, <2>2, <2>3, Shapes DEF SvcShape, Drained
  <2>5. WorldInv'
    BY <1>0, <1>2, <2>1, <2>4 DEF WorldInv, RunsTheUnit, UninstalledIsQuiet, SettledFits,
       LoadedFits, EnabledServiceCanBoot, SourceIsGone, Installed
  <2> QED
    BY <1>1, <2>4, <2>5 DEF SafeInv, DrainedWhenFree, At, OpFits
<1>3. CASE ~(enabled /\ unit # NoRelease)
  <2>1. loaded' = NoRelease /\ svc' = Stopped("inactive") /\ ~enabled'
    BY <1>0, <1>3 DEF Boot, WorldInv, EnabledServiceCanBoot
  <2>2. SvcShape' /\ ~Drained' /\ ~Runs' /\ ~Active'
    BY <2>1, Shapes DEF SvcShape, Drained, Runs, Active
  <2>3. WorldInv'
    BY <2>1, <2>2 DEF WorldInv, RunsTheUnit, UninstalledIsQuiet, Quiet, SettledFits, LoadedFits,
       EnabledServiceCanBoot, SourceIsGone
  <2> QED
    BY <1>1, <2>2, <2>3 DEF SafeInv, DrainedWhenFree, At, OpFits
<1> QED
  BY <1>2, <1>3

LEMMA SafeInit == ASSUME LifecycleInit PROVE SafeInv
<1>1. \A q \in Procs : cmd[q].step = "idle" /\ cmd[q].op = "none"
  BY DEF LifecycleInit, Idle
<1>2. /\ loaded = NoRelease /\ enabled = FALSE /\ svc = Stopped("inactive")
      /\ desc = NoDescriptor /\ unit = NoRelease
  BY DEF LifecycleInit, ManagerInit
<1>3. SvcShape /\ ~Drained /\ ~Runs /\ ~Active
  BY <1>2, Shapes DEF SvcShape, Drained, Runs, Active
<1>4. WorldInv
  BY <1>2, <1>3 DEF WorldInv, RunsTheUnit, UninstalledIsQuiet, Quiet, SettledFits, LoadedFits,
     EnabledServiceCanBoot, SourceIsGone
<1> QED
  BY <1>1, <1>3, <1>4 DEF SafeInv, DrainedWhenFree, At, OpFits

LEMMA SafeStep == ASSUME UnitInv, SafeInv, [Next]_vars PROVE SafeInv'
<1>1. ASSUME NEW p \in Procs, CommandNext(p)
      PROVE  SafeInv'
  BY <1>1, InstallSafe, StageSafe, ControlSafe, UninstallSafe, PurgeSafe, ActivateSafe
     DEF CommandNext
<1>2. CASE UNCHANGED vars
  BY <1>2, SafeStutters DEF vars, fileVars, managerVars
<1> QED
  BY <1>1, <1>2, CrashSafe, EnvironmentSafe, RebootSafe DEF Next

\* The two invariants hold together.
LEMMA AlwaysSafe == Spec => [](UnitInv /\ SafeInv)
<1>1. LifecycleInit /\ TypeOK => UnitInv /\ SafeInv
  BY UnitInvInit, SafeInit
<1>2. UnitInv /\ SafeInv /\ TypeOK' /\ [Next]_vars => UnitInv' /\ SafeInv'
  BY UnitInvStep, SafeStep
<1> QED
  BY <1>1, <1>2, TypeCorrect, PTL DEF Spec

(***************************************************************************)
(* What follows from the invariants.                                       *)
(***************************************************************************)
\* The service record and the descriptor agree on what runs: pids tell the
\* releases apart as soon as the candidate's unit is on disk.
LEMMA SafelyKnown == ASSUME UnitInv, SafeInv PROVE RunningReleaseIsKnown
<1>1. WorldInv /\ UnitMatchesPhase
  BY DEF UnitInv, SafeInv
<1>2. svc.rel # NoRelease => Runs
  BY <1>1 DEF WorldInv, SvcShape, Runs
<1>3. Active => Runs /\ svc.rel # NoRelease
  BY <1>1 DEF WorldInv, SvcShape, Runs, Active
<1>4. svc.rel # NoRelease => svc.rel = unit /\ unit # NoRelease /\ Installed
  BY <1>1, <1>2 DEF WorldInv, RunsTheUnit, UninstalledIsQuiet, Quiet
<1>5. svc.rel # NoRelease => unit \in ExpectedUnits(desc)
  BY <1>1, <1>4 DEF UnitMatchesPhase
<1>6. RunningReleaseIsTracked
  BY <1>4, <1>5 DEF RunningReleaseIsTracked, ExpectedUnits, UsesCurrentUnit, InTransition
<1>7. RunningReleaseIsRecognised
  BY <1>1, <1>3, <1>4, <1>5 DEF RunningReleaseIsRecognised, RunningRelease, ExpectedUnits, Active,
     WorldInv, SourceIsGone, UsesCurrentUnit
<1> QED
  BY <1>6, <1>7 DEF RunningReleaseIsKnown

LEMMA SafelyDrained == ASSUME SafeInv PROVE DrainedIsAccountedFor
BY DEF SafeInv, DrainedWhenFree, LockFree, Drained, DrainedIsAccountedFor

\* The descriptor always names the release the service runs, and an active
\* service is taken by an Uninstall for the release it is: no crash, retry,
\* automatic restart or reboot lets a forgotten release run
\* (descriptorForRunningTransition).
THEOREM RunningReleaseIsAlwaysKnown == Spec => []RunningReleaseIsKnown
<1>1. UnitInv /\ SafeInv => RunningReleaseIsKnown
  BY SafelyKnown
<1> QED
  BY <1>1, AlwaysSafe, PTL

\* A unit that is wanted at boot exists, and so does its executable, whatever
\* command was interrupted wherever: Uninstall disables before it removes, and
\* ActivateUpgrade switches between two executables it has verified.
THEOREM EnabledAlwaysBoots == Spec => []EnabledServiceCanBoot
<1>1. SafeInv => EnabledServiceCanBoot
  BY DEF SafeInv, WorldInv
<1> QED
  BY <1>1, AlwaysSafe, PTL

\* Every drained service is resumed or replaced before its command returns,
\* unless the command died, its Resume was lost or the upgrade is marked
\* (drainActive, resumeAfterFailedMutation).
THEOREM DrainedIsAlwaysAccountedFor == Spec => []DrainedIsAccountedFor
<1>1. SafeInv => DrainedIsAccountedFor
  BY SafelyDrained
<1> QED
  BY <1>1, AlwaysSafe, PTL

(***************************************************************************)
(* Who acts: a process with a command under way holds the lock, and its    *)
(* step says which command it is.                                          *)
(***************************************************************************)
LEMMA StepsOf ==
    ASSUME NEW p \in Procs
    PROVE  /\ InstallNext(p) => cmd[p].step \in InstallSteps \cup {"idle"}
           /\ StageNext(p) => cmd[p].step \in StageSteps \cup {"idle"}
           /\ BeginControl(p) => cmd[p].step = "idle"
           /\ ControlNext(p) => cmd[p].step \in ControlSteps
           /\ UninstallNext(p) => cmd[p].step \in UninstallSteps \cup {"idle"}
           /\ PurgeNext(p) => cmd[p].step \in PurgeSteps \cup {"idle"}
           /\ ActivateNext(p) => cmd[p].step \in ActivateSteps \cup {"idle"}
<1> USE DEF At
<1>1. InstallNext(p) => cmd[p].step \in InstallSteps \cup {"idle"}
  BY DEF InstallNext, InstallPreparesDirectories, BeginInstall, BeginReinstall, Begin, InstallCopy,
     InstallWriteUnit, InstallWriteDescriptor, InstallWriteManifest, InstallStepFails,
     InstallReload, InstallUndo, UndoNext, InstallSteps
<1>2. StageNext(p) => cmd[p].step \in StageSteps \cup {"idle"}
  BY DEF StageNext, BeginStage, Begin, StageCopy, StagePublish, StageFails, StageSteps
<1>3. BeginControl(p) => cmd[p].step = "idle"
  BY DEF BeginControl, BeginCommand, Begin
<1>4. ControlNext(p) => cmd[p].step \in ControlSteps
  BY DEF ControlNext, StartStatus, StartCommand, AwaitReady, StartedStatus, EnableStatus,
     EnableCommand, EnableCheck, StopStatus, RestartStatus, Drain, ResumeAfterFailure, StopCommand,
     StopCheck, RestartCommand, RestartCheck, ControlSteps
<1>5. UninstallNext(p) => cmd[p].step \in UninstallSteps \cup {"idle"}
  BY DEF UninstallNext, BeginUninstall, Begin, UninstallStatus, UninstallDrain, UninstallDisable,
     UninstallStop, UninstallStopped, UninstallExecutable, UninstallBinaryDirectory, UninstallUnit,
     UninstallReload, UninstallAbsent, UninstallDescriptor, UninstallFails, UninstallSteps
<1>6. PurgeNext(p) => cmd[p].step \in PurgeSteps \cup {"idle"}
  BY DEF PurgeNext, BeginPurge, Begin, PurgeData, PurgeManifest, PurgeFails, PurgeSteps
<1>7. ActivateNext(p) => cmd[p].step \in ActivateSteps \cup {"idle"}
  BY DEF ActivateNext, BeginActivate, Begin, ActivateStatus, ActivateDrain, ActivatePublish,
     ActivateResume, ActivateStop, ActivateStopped, ActivatePhases, PublishPhase, ActivateUnit,
     ActivateReload, ActivateStart, ActivateStarted, ActivateReady, ActivateCheck, ActivateCommit,
     Abort, AbortResume, RestoreStatus, RestoreStart, RestoreChecks, RestoreClear, RollbackStop,
     RollbackStopped, RollbackCheck, RollbackPhases, RollbackUnit, RollbackReload, RollbackStart,
     RollbackChecks, RollbackCommit, FinalStop, MarkUpgradeRecovery, ActivateSteps,
     PreviousUnitSteps, SwitchingSteps, CandidateUnitSteps
<1> QED
  BY <1>1, <1>2, <1>3, <1>4, <1>5, <1>6, <1>7

LEMMA OneCommandEach ==
    /\ \A s \in ActivateSteps :
          s \notin {"idle"} \cup InstallSteps \cup StageSteps \cup ControlSteps
                     \cup UninstallSteps \cup PurgeSteps
    /\ \A s \in UninstallSteps \cup {"resume"} :
          s \notin {"idle"} \cup InstallSteps \cup StageSteps \cup (ControlSteps \ {"resume"})
                     \cup PurgeSteps \cup ActivateSteps
BY DEF ActivateSteps, PreviousUnitSteps, SwitchingSteps, CandidateUnitSteps, InstallSteps,
       StageSteps, ControlSteps, UninstallSteps, PurgeSteps

\* Begins, and the directories an Install prepares, change nothing a property
\* is about.
LEMMA IdleActs ==
    ASSUME UnitInv, NEW p \in Procs, At(p, "idle"), CommandNext(p)
    PROVE  /\ UNCHANGED <<desc, unit, bins, data, managerVars>>
           /\ UNCHANGED cmd \/ LockFree
           /\ UNCHANGED cmd \/ cmd'[p] # Idle
           /\ \A q \in Procs \ {p} : cmd'[q] = cmd[q]
<1> USE DEF At, fileVars
<1>1. CASE InstallPreparesDirectories(p)
  BY <1>1 DEF InstallPreparesDirectories
<1>2. ASSUME NEW o, NEW s, NEW t, Begin(p, o, s, t), s # "idle",
             UNCHANGED <<desc, unit, bins, data>>
      PROVE  /\ UNCHANGED <<desc, unit, bins, data, managerVars>>
             /\ UNCHANGED cmd \/ LockFree
             /\ UNCHANGED cmd \/ cmd'[p] # Idle
             /\ \A q \in Procs \ {p} : cmd'[q] = cmd[q]
  <2>1. cmd'[p].step = s /\ \A q \in Procs \ {p} : cmd'[q] = cmd[q]
    BY <1>2 DEF Begin, UnitInv, TypeOK, Idle
  <2>2. Idle.step = "idle"
    BY DEF Idle
  <2>3. UNCHANGED managerVars /\ LockFree
    BY <1>2 DEF Begin
  <2> QED
    BY <1>2, <2>1, <2>2, <2>3
<1>3. InstallNext(p) => InstallPreparesDirectories(p)
                        \/ \E r \in Releases : BeginInstall(p, r) \/ BeginReinstall(p, r)
  BY DEF InstallNext, InstallCopy, InstallWriteUnit, InstallWriteDescriptor,
     InstallWriteManifest, InstallStepFails, InstallReload, InstallUndo, UndoNext
<1>4. StageNext(p) => \E r \in Releases : BeginStage(p, r)
  BY DEF StageNext, StageCopy, StagePublish, StageFails
<1>5. ~ControlNext(p)
  BY StepsOf DEF ControlSteps
<1>6. UninstallNext(p) => BeginUninstall(p)
  BY DEF UninstallNext, UninstallStatus, UninstallDrain, UninstallDisable,
     UninstallStop, UninstallStopped, UninstallExecutable, UninstallBinaryDirectory, UninstallUnit,
     UninstallReload, UninstallAbsent, UninstallDescriptor, UninstallFails
<1>7. PurgeNext(p) => BeginPurge(p)
  BY DEF PurgeNext, PurgeData, PurgeManifest, PurgeFails
<1>8. ActivateNext(p) => BeginActivate(p)
  BY DEF ActivateNext, ActivateStatus, ActivateDrain, ActivatePublish,
     ActivateResume, ActivateStop, ActivateStopped, ActivatePhases, PublishPhase, ActivateUnit,
     ActivateReload, ActivateStart, ActivateStarted, ActivateReady, ActivateCheck, ActivateCommit,
     Abort, AbortResume, RestoreStatus, RestoreStart, RestoreChecks, RestoreClear, RollbackStop,
     RollbackStopped, RollbackCheck, RollbackPhases, RollbackUnit, RollbackReload, RollbackStart,
     RollbackChecks, RollbackCommit, FinalStop, MarkUpgradeRecovery
<1>9. CASE \E r \in Releases : BeginInstall(p, r) \/ BeginReinstall(p, r) \/ BeginStage(p, r)
  BY <1>2, <1>9 DEF BeginInstall, BeginReinstall, BeginStage
<1>10. CASE BeginControl(p)
  BY <1>2, <1>10 DEF BeginControl, BeginCommand
<1>11. CASE BeginUninstall(p) \/ BeginPurge(p) \/ BeginActivate(p)
  BY <1>2, <1>11 DEF BeginUninstall, BeginPurge, BeginActivate
<1> QED
  BY <1>1, <1>3, <1>4, <1>5, <1>6, <1>7, <1>8, <1>9, <1>10, <1>11 DEF CommandNext

\* While a command is under way no other process gets anywhere.
LEMMA OthersWait ==
    ASSUME UnitInv, NEW p \in Procs, ~At(p, "idle"), NEW q \in Procs \ {p}, CommandNext(q)
    PROVE  UNCHANGED <<desc, unit, bins, data, managerVars, cmd>>
<1>1. At(q, "idle") /\ ~LockFree
  BY ProcsAssumption DEF UnitInv, OneCommand, LockFree
<1> QED
  BY <1>1, IdleActs

\* A step of a command under way is a step of the command its step names.
LEMMA Acts ==
    ASSUME UnitInv, NEW p \in Procs, ~At(p, "idle"), [Next]_vars,
           ~UNCHANGED <<desc, unit, bins, cmd>> \/ (data /\ ~data'), result' # "crashed"
    PROVE  CommandNext(p)
<1>1. ASSUME NEW q \in Procs, CommandNext(q)
      PROVE  CommandNext(p)
  BY <1>1, OthersWait
<1>2. ~KitCrash(p) /\ \A q \in Procs : ~KitCrash(q)
  BY DEF KitCrash, Finish
<1>3. ~Environment
  BY DEF Environment, ServiceWritesData, fileVars
<1>4. ~Reboot
  BY DEF Reboot
<1>5. ~UNCHANGED vars
  BY DEF vars, fileVars
<1> QED
  BY <1>1, <1>2, <1>3, <1>4, <1>5 DEF Next

\* How an activation returns.
LEMMA ActivateReturns ==
    ASSUME UnitInv, NEW p \in Procs, cmd[p].step \in ActivateSteps, ActivateNext(p),
           cmd'[p] = Idle
    PROVE  \/ result' = "error" /\ desc' = desc /\ cmd[p].step \in BeforeSteps
           \/ result' = "recovery" /\ desc' = desc /\ cmd[p].step \in {"mark", "abort.resume"}
           \/ CommitDescriptor(p, Committed(desc), "ok")
           \/ \E r \in {"error", "rolled-back"} : CommitDescriptor(p, ClearTransition(desc), r)
           \/ /\ CommitDescriptor(p, [desc EXCEPT !.recovery = TRUE], "recovery")
              /\ cmd[p].step = "mark"
<1> USE DEF At, Mine
<1>0. /\ Idle.step = "idle" /\ cmd[p].mine = desc
      /\ cmd[p].step # "idle"
  BY ActivateStands DEF Idle
<1>1. ASSUME NEW s, NEW e, NEW d, s # "idle",
             \/ Goto(p, s) \/ Advance(p, s) \/ Observe(p, s) \/ DrainSucceeds(p, e, s)
             \/ DrainSkipped(p, s) \/ ReplaceDescriptor(p, d, s)
      PROVE  FALSE
  BY <1>0, <1>1 DEF Goto, Advance, Observe, DrainSucceeds, DrainSkipped, ReplaceDescriptor,
     UnitInv, TypeOK
<1>2. ASSUME NEW at, NEW ph, NEW s, s # "idle", PublishPhase(p, at, ph, s)
      PROVE  FALSE
  BY <1>1, <1>2 DEF PublishPhase
<1>3. ~BeginActivate(p)
  BY <1>0 DEF BeginActivate, Begin
<1>4. CASE ActivateStatus(p) \/ ActivateDrain(p) \/ ActivateResume(p)
  BY <1>1, <1>4 DEF ActivateStatus, ActivateDrain, ActivateResume, Fail, DrainFails,
     FailWithResume, Finish, BeforeSteps, fileVars
<1>5. ~ActivatePublish(p) /\ ~ActivateStop(p) /\ ~ActivateStopped(p)
  BY <1>1 DEF ActivatePublish, ActivateStop, ActivateStopped
<1>6. ~ActivatePhases(p) /\ ~RollbackPhases(p)
  BY <1>2 DEF ActivatePhases, RollbackPhases
<1>7. ~ActivateUnit(p) /\ ~RollbackUnit(p)
  BY <1>1 DEF ActivateUnit, RollbackUnit, ReplaceUnit
<1>8. ~ActivateReload(p) /\ ~ActivateStart(p) /\ ~ActivateStarted(p) /\ ~ActivateReady(p)
      /\ ~ActivateCheck(p)
  BY <1>1 DEF ActivateReload, ActivateStart, ActivateStarted, ActivateReady, ActivateCheck
<1>9. ~Abort(p) /\ ~RestoreStatus(p) /\ ~RestoreStart(p) /\ ~RestoreChecks(p)
  BY <1>1 DEF Abort, RestoreStatus, RestoreStart, RestoreChecks
<1>10. ~RollbackStop(p) /\ ~RollbackStopped(p) /\ ~RollbackCheck(p) /\ ~RollbackReload(p)
       /\ ~RollbackStart(p) /\ ~RollbackChecks(p) /\ ~FinalStop(p)
  BY <1>1 DEF RollbackStop, RollbackStopped, RollbackCheck, RollbackReload, RollbackStart,
     RollbackChecks, FinalStop
<1>11. CASE ActivateCommit(p) \/ RestoreClear(p) \/ RollbackCommit(p)
  BY <1>0, <1>1, <1>11 DEF ActivateCommit, RestoreClear, RollbackCommit
<1>12. CASE AbortResume(p) \/ MarkUpgradeRecovery(p)
  BY <1>0, <1>12 DEF AbortResume, MarkUpgradeRecovery, Fail, Finish, fileVars
<1> QED
  BY <1>3, <1>4, <1>5, <1>6, <1>7, <1>8, <1>9, <1>10, <1>11, <1>12 DEF ActivateNext

LEMMA ReportsExactly ==
    ASSUME UnitInv, SafeInv, [Next]_vars, NEW p \in Procs,
           cmd[p].op = "Activate", cmd'[p] = Idle, result' # "crashed"
    PROVE  result' = "recovery" <=> desc'.phase # "none"
<1>1. cmd[p].step \in ActivateSteps
  BY DEF SafeInv, OpFits
<1>2. /\ ~At(p, "idle") /\ Upgrading(cmd[p].step) /\ desc \in Descriptors
  BY <1>1, ActivateKnows DEF TypeOK
<1>3. cmd' # cmd
  BY DEF Idle
<1>4. CommandNext(p)
  BY <1>2, <1>3, Acts
<1>5. ActivateNext(p)
  BY <1>1, <1>4, StepsOf, OneCommandEach DEF CommandNext
<1>6. Committed(desc).phase = "none" /\ ClearTransition(desc).phase = "none"
      /\ [desc EXCEPT !.recovery = TRUE].phase = desc.phase
  BY <1>2 DEF Committed, NoDescriptor, ClearTransition, Descriptors
<1>7. CASE result' = "error" /\ desc' = desc /\ cmd[p].step \in BeforeSteps
  BY <1>2, <1>7 DEF Upgrading, InTransition
<1>8. CASE result' = "recovery" /\ desc' = desc /\ cmd[p].step \in {"mark", "abort.resume"}
  BY <1>2, <1>8 DEF Upgrading, InTransition, BeforeSteps
<1>9. CASE \/ CommitDescriptor(p, Committed(desc), "ok")
           \/ \E r \in {"error", "rolled-back"} : CommitDescriptor(p, ClearTransition(desc), r)
  BY <1>6, <1>9 DEF CommitDescriptor, Finish
<1>10. CASE /\ CommitDescriptor(p, [desc EXCEPT !.recovery = TRUE], "recovery")
            /\ cmd[p].step = "mark"
  BY <1>2, <1>6, <1>10 DEF CommitDescriptor, Finish, Upgrading, InTransition, BeforeSteps
<1> QED
  BY <1>1, <1>5, <1>7, <1>8, <1>9, <1>10, ActivateReturns

\* The descriptor's current release changes by an Install that finds none, by
\* what removes the descriptor, and by the commit of an activation.
LEMMA CurrentChanges ==
    ASSUME UnitInv, NEW p \in Procs, CommandNext(p), Installed,
           desc'.cur # desc.cur, desc'.cur # NoRelease
    PROVE  cmd[p].step = "activate.commit" /\ CommitDescriptor(p, Committed(desc), "ok")
<1> USE DEF At, fileVars
<1>0. ~At(p, "idle") /\ desc' # desc
  BY IdleActs
<1>1. desc \in Descriptors /\ NoDescriptor.cur = NoRelease
  BY DEF UnitInv, TypeOK, NoDescriptor
<1>2. ~InstallNext(p)
  BY <1>0, <1>1 DEF InstallNext, InstallPreparesDirectories, BeginInstall, BeginReinstall, Begin,
     InstallCopy, CopyExecutable, CopyFails, InstallWriteUnit, InstallWriteDescriptor,
     InstallWriteManifest, InstallStepFails, LinkedUnrecorded, InstallReload, InstallUndo, Fail
<1>3. ~StageNext(p)
  <2>1. ~StagePublish(p)
    <3>1. [desc EXCEPT !.pend = cmd[p].target].cur = desc.cur
      BY <1>1 DEF Descriptors
    <3> QED
      BY <3>1 DEF StagePublish, CommitDescriptor
  <2> QED
    BY <1>0, <2>1 DEF StageNext, BeginStage, Begin, StageCopy, CopyExecutable, CopyFails,
       StageFails
<1>4. ~BeginControl(p) /\ ~ControlNext(p)
  BY <1>0 DEF BeginControl, BeginCommand, Begin, ControlNext, StartStatus, StartCommand, AwaitReady,
     StartedStatus, EnableStatus, EnableCommand, EnableCheck, StopStatus, RestartStatus, Drain,
     ResumeAfterFailure, StopCommand, StopCheck, RestartCommand, RestartCheck, Fail, Observe,
     DrainSucceeds, DrainSkipped, DrainFails, FailWithResume
<1>5. ~UninstallNext(p) /\ ~PurgeNext(p)
  BY <1>0, <1>1 DEF UninstallNext, BeginUninstall, Begin, UninstallStatus, UninstallDrain,
     UninstallDisable, UninstallStop, UninstallStopped, UninstallExecutable,
     UninstallBinaryDirectory, UninstallUnit, UninstallReload, UninstallAbsent,
     UninstallDescriptor, UninstallFails, PurgeNext, BeginPurge, PurgeData, PurgeManifest,
     PurgeFails, Fail, Observe, DrainSucceeds, DrainSkipped, DrainFails
<1>6. ActivateNext(p) /\ cmd[p].mine = desc
  <2>1. ActivateNext(p)
    BY <1>2, <1>3, <1>4, <1>5 DEF CommandNext
  <2> QED
    BY <1>0, <2>1, StepsOf, ActivateStands
<1>7. ~ActivatePublish(p) /\ ~ActivatePhases(p) /\ ~RollbackPhases(p) /\ ~Abort(p)
  <2>1. \A ph : InPhase(desc, ph).cur = desc.cur
    BY <1>1 DEF InPhase, Descriptors
  <2>2. ClearTransition(desc).cur = desc.cur
    BY <1>1 DEF ClearTransition, Descriptors
  <2>3. [desc EXCEPT !.phase = "stopping-previous", !.src = cmd[p].before.pid].cur = desc.cur
    BY <1>1 DEF Descriptors
  <2> QED
    BY <1>0, <1>6, <2>1, <2>2, <2>3 DEF ActivatePublish, ActivatePhases, RollbackPhases, Abort,
       PublishPhase, ReplaceDescriptor, Advance, Mine
<1>8. ~RestoreClear(p) /\ ~RollbackCommit(p) /\ ~MarkUpgradeRecovery(p)
  <2>1. ClearTransition(desc).cur = desc.cur /\ [desc EXCEPT !.recovery = TRUE].cur = desc.cur
    BY <1>1 DEF ClearTransition, Descriptors
  <2> QED
    BY <1>0, <1>6, <2>1 DEF RestoreClear, RollbackCommit, MarkUpgradeRecovery, CommitDescriptor,
       Advance, Mine, Fail
<1>9. ActivateCommit(p)
  BY <1>0, <1>6, <1>7, <1>8 DEF ActivateNext, BeginActivate, Begin, ActivateStatus, ActivateDrain,
     ActivateResume, ActivateStop, ActivateStopped, ActivateUnit, ActivateReload, ActivateStart,
     ActivateStarted, ActivateReady, ActivateCheck, AbortResume, RestoreStatus, RestoreStart,
     RestoreChecks, RollbackStop, RollbackStopped, RollbackCheck, RollbackUnit, RollbackReload,
     RollbackStart, RollbackChecks, FinalStop, ReplaceUnit, Advance, Fail, Observe,
     DrainSucceeds, DrainSkipped, DrainFails, FailWithResume
<1> QED
  BY <1>0, <1>6, <1>9 DEF ActivateCommit, Advance, Mine

LEMMA CommitsExactly ==
    ASSUME UnitInv, SafeInv, [Next]_vars, desc.cur # NoRelease, desc'.cur # desc.cur,
           desc'.cur # NoRelease
    PROVE  /\ desc.phase = "candidate-started"
           /\ desc'.cur = desc.pend /\ desc'.prev = desc.cur
           /\ unit = desc'.cur /\ Resolved = desc'.cur
<1>1. PICK p \in Procs : CommandNext(p)
  BY DEF Next, vars, fileVars, KitCrash, Environment, ServiceWritesData, Reboot
<1>2. cmd[p].step = "activate.commit" /\ CommitDescriptor(p, Committed(desc), "ok")
  BY <1>1, CurrentChanges DEF Installed
<1>3. cmd[p].step \in ActivateSteps /\ cmd[p].step \in FittingSteps
  BY <1>2 DEF ActivateSteps, FittingSteps, CandidateUnitSteps
<1>4. /\ Upgrading("activate.commit") /\ LoadedFits /\ Whole
      /\ unit \in ExpectedUnits(desc)
  BY <1>2, <1>3, ActivateKnows DEF Upgrading, Whole
<1>5. desc'.cur = desc.pend /\ desc'.prev = desc.cur
  BY <1>2 DEF CommitDescriptor, Committed, NoDescriptor
<1> QED
  BY <1>4, <1>5 DEF Upgrading, ExpectedUnits, UsesCurrentUnit, LoadedFits, Whole, Resolved

\* An upgrade that returns says exactly whether a transition is left behind
\* (ErrUpgradeRecoveryRequired), and the installed release becomes the
\* candidate only with the candidate's unit on disk and in the manager.
THEOREM UpgradesAreExact == Spec => UpgradeIsExact
<1>1. UnitInv /\ SafeInv /\ [Next]_vars =>
         [\A p \in Procs :
            (cmd[p].op = "Activate" /\ cmd'[p] = Idle /\ result' # "crashed")
                => (result' = "recovery" <=> desc'.phase # "none")]_vars
  BY ReportsExactly
<1>2. UnitInv /\ SafeInv /\ [Next]_vars =>
         [desc.cur # NoRelease /\ desc'.cur # desc.cur /\ desc'.cur # NoRelease
            => /\ desc.phase = "candidate-started"
               /\ desc'.cur = desc.pend /\ desc'.prev = desc.cur
               /\ unit = desc'.cur /\ Resolved = desc'.cur]_vars
  BY CommitsExactly
<1> QED
  BY <1>1, <1>2, AlwaysSafe, PTL DEF UpgradeIsExact, RecoveryIsReported, CommitFollowsCandidate, Spec

\* What takes an executable away: only what made it, or an Uninstall.
LEMMA ExecutablesGo ==
    ASSUME UnitInv, SafeInv, NEW p \in Procs, CommandNext(p),
           NEW r \in Releases, bins[r] = "file", bins'[r] # "file"
    PROVE  \/ /\ cmd[p].step = "install.undo" /\ cmd[p].made # {}
           \/ /\ cmd[p].step = "stage.publish" /\ "bin" \in cmd[p].made /\ r = cmd[p].target
           \/ cmd[p].step = "uninstall.executables"
<1> USE DEF At, fileVars
<1>0. ~At(p, "idle") /\ bins' # bins /\ TypeOK
  BY IdleActs DEF UnitInv
<1>1. ~CopyExecutable(p, "install.unit") /\ ~CopyExecutable(p, "stage.publish") /\ ~CopyFails(p)
  BY <1>0 DEF CopyExecutable, CopyFails, TypeOK, ManagerTypeOK
<1>2. CASE InstallNext(p)
  BY <1>0, <1>1, <1>2 DEF InstallNext, InstallPreparesDirectories, BeginInstall, BeginReinstall,
     InstallCopy, InstallWriteUnit, InstallWriteDescriptor, InstallWriteManifest,
     InstallStepFails, InstallReload, InstallUndo, UndoNext, Fail
<1>3. CASE StageNext(p)
  BY <1>0, <1>1, <1>3 DEF StageNext, BeginStage, StageCopy, StagePublish, CommitDescriptor,
     StageFails, TypeOK, ManagerTypeOK
<1>4. ~BeginControl(p) /\ ~ControlNext(p)
  BY <1>0 DEF BeginControl, BeginCommand, ControlNext, StartStatus, StartCommand, AwaitReady,
     StartedStatus, EnableStatus, EnableCommand, EnableCheck, StopStatus, RestartStatus, Drain,
     ResumeAfterFailure, StopCommand, StopCheck, RestartCommand, RestartCheck, Fail, Observe,
     DrainSucceeds, DrainSkipped, DrainFails, FailWithResume
<1>5. CASE UninstallNext(p)
  BY <1>0, <1>5 DEF UninstallNext, BeginUninstall, UninstallStatus, UninstallDrain,
     UninstallDisable, UninstallStop, UninstallStopped, UninstallExecutable,
     UninstallBinaryDirectory, UninstallUnit, UninstallReload, UninstallAbsent,
     UninstallDescriptor, UninstallFails, Fail, Observe, DrainSucceeds, DrainSkipped, DrainFails
<1>6. ~PurgeNext(p)
  BY <1>0 DEF PurgeNext, BeginPurge, PurgeData, PurgeManifest, PurgeFails, Fail
<1>7. ~ActivateNext(p)
  BY <1>0 DEF ActivateNext, BeginActivate, ActivateStatus, ActivateDrain, ActivatePublish,
     ActivateResume, ActivateStop, ActivateStopped, ActivatePhases, PublishPhase, ActivateUnit,
     ActivateReload, ActivateStart, ActivateStarted, ActivateReady, ActivateCheck, ActivateCommit,
     Abort, AbortResume, RestoreStatus, RestoreStart, RestoreChecks, RestoreClear, RollbackStop,
     RollbackStopped, RollbackCheck, RollbackPhases, RollbackUnit, RollbackReload, RollbackStart,
     RollbackChecks, RollbackCommit, FinalStop, MarkUpgradeRecovery, ReplaceUnit,
     ReplaceDescriptor, CommitDescriptor, Advance, Fail, Observe, DrainSucceeds, DrainSkipped,
     DrainFails, FailWithResume
<1> QED
  BY <1>2, <1>3, <1>4, <1>5, <1>6, <1>7 DEF CommandNext

LEMMA QuietIsStopped == ASSUME WorldInv, ~Runs PROVE TerminalStopped
BY DEF WorldInv, SvcShape, Runs, TerminalStopped

LEMMA ExecutablesStay ==
    ASSUME UnitInv, SafeInv, [Next]_vars, NEW r \in Tracked(desc), bins[r] = "file",
           bins'[r] # "file"
    PROVE  TerminalStopped /\ ~enabled
<1>0. WorldInv /\ r \in Releases
  BY DEF SafeInv, UnitInv, TypeOK, Descriptors, Tracked, OptRelease
<1>1. PICK p \in Procs : CommandNext(p)
  BY DEF Next, vars, fileVars, KitCrash, Environment, ServiceWritesData, Reboot
<1>2. CASE cmd[p].step = "install.undo" /\ cmd[p].made # {}
  BY <1>0, <1>2, InstallKnows, QuietIsStopped DEF InstallSteps, Quiet
<1>3. CASE cmd[p].step = "stage.publish" /\ "bin" \in cmd[p].made /\ r = cmd[p].target
  BY <1>3, HolderIsSafe DEF SafelyAt, At
<1>4. CASE cmd[p].step = "uninstall.executables"
  <2>1. ~Runs /\ ~enabled
    BY <1>4, UninstallKnows DEF UninstallSteps, Taken, StoppedSteps, UnwantedSteps
  <2> QED
    BY <1>0, <2>1, QuietIsStopped
<1> QED
  BY <1>0, <1>1, <1>2, <1>3, <1>4, ExecutablesGo

LEMMA ForgetsLast ==
    ASSUME UnitInv, SafeInv, [Next]_vars, NEW p \in Procs, cmd[p].op = "Uninstall", Installed,
           desc' = NoDescriptor
    PROVE  /\ unit = NoRelease /\ loaded = NoRelease /\ ~enabled /\ TerminalStopped
           /\ \A r \in Releases : bins[r] = "absent"
<1> USE DEF At, fileVars
<1>1. cmd[p].step \in UninstallSteps \cup {"resume"} /\ WorldInv
  BY DEF SafeInv, OpFits
<1>2. ~At(p, "idle") /\ desc' # desc
  BY <1>1, OneCommandEach DEF Installed, NoDescriptor
<1>3. \E q \in Procs : CommandNext(q)
  BY <1>2 DEF Next, vars, KitCrash, Environment, ServiceWritesData, Reboot
<1>4. CommandNext(p)
  BY <1>2, <1>3, OthersWait
<1>5. ControlNext(p) \/ UninstallNext(p)
  BY <1>1, <1>4, StepsOf, OneCommandEach DEF CommandNext
<1>6. ~ControlNext(p)
  BY <1>2 DEF ControlNext, StartStatus, StartCommand, AwaitReady,
     StartedStatus, EnableStatus, EnableCommand, EnableCheck, StopStatus, RestartStatus, Drain,
     ResumeAfterFailure, StopCommand, StopCheck, RestartCommand, RestartCheck, Fail, Observe,
     DrainSucceeds, DrainSkipped, DrainFails, FailWithResume
<1>7. cmd[p].step = "uninstall.descriptor"
  BY <1>2, <1>5, <1>6 DEF UninstallNext, BeginUninstall, UninstallStatus, UninstallDrain,
     UninstallDisable, UninstallStop, UninstallStopped, UninstallExecutable,
     UninstallBinaryDirectory, UninstallUnit, UninstallReload, UninstallAbsent,
     UninstallDescriptor, UninstallFails, Fail, Observe, DrainSucceeds, DrainSkipped, DrainFails
<1>8. Taken("uninstall.descriptor")
  BY <1>7, UninstallKnows DEF UninstallSteps
<1>9. /\ unit = NoRelease /\ loaded = NoRelease /\ ~enabled /\ ~Runs
      /\ \A r \in Releases : bins[r] = "absent"
  BY <1>8 DEF Taken, StoppedSteps, UnwantedSteps, AbsentSteps, UnitlessSteps
<1> QED
  BY <1>1, <1>9, QuietIsStopped

LEMMA PurgesLast ==
    ASSUME UnitInv, SafeInv, [Next]_vars, data, ~data'
    PROVE  ~Installed /\ unit = NoRelease /\ ~enabled /\ TerminalStopped
<1> USE DEF At, fileVars
<1>1. PICK p \in Procs : CommandNext(p)
  BY DEF Next, vars, KitCrash, Environment, ServiceWritesData, Reboot
<1>2. ~At(p, "idle")
  BY <1>1, IdleActs
<1>3. cmd[p].step = "purge.data"
  <2>1. ~InstallNext(p) /\ ~StageNext(p)
    BY DEF InstallNext, InstallPreparesDirectories, BeginInstall, BeginReinstall,
     InstallCopy, InstallWriteUnit, InstallWriteDescriptor, InstallWriteManifest,
     InstallStepFails, InstallReload, InstallUndo, UndoNext, Fail, CopyExecutable, CopyFails,
     StageNext, BeginStage, StageCopy, StagePublish, CommitDescriptor, StageFails
  <2>2. ~BeginControl(p) /\ ~ControlNext(p)
    BY DEF BeginControl, BeginCommand, ControlNext, StartStatus, StartCommand, AwaitReady,
     StartedStatus, EnableStatus, EnableCommand, EnableCheck, StopStatus, RestartStatus, Drain,
     ResumeAfterFailure, StopCommand, StopCheck, RestartCommand, RestartCheck, Fail, Observe,
     DrainSucceeds, DrainSkipped, DrainFails, FailWithResume
  <2>3. ~UninstallNext(p)
    BY DEF UninstallNext, BeginUninstall, UninstallStatus, UninstallDrain,
     UninstallDisable, UninstallStop, UninstallStopped, UninstallExecutable,
     UninstallBinaryDirectory, UninstallUnit, UninstallReload, UninstallAbsent,
     UninstallDescriptor, UninstallFails, Fail, Observe, DrainSucceeds, DrainSkipped, DrainFails
  <2>4. ~ActivateNext(p)
    BY DEF ActivateNext, BeginActivate, ActivateStatus, ActivateDrain, ActivatePublish,
     ActivateResume, ActivateStop, ActivateStopped, ActivatePhases, PublishPhase, ActivateUnit,
     ActivateReload, ActivateStart, ActivateStarted, ActivateReady, ActivateCheck, ActivateCommit,
     Abort, AbortResume, RestoreStatus, RestoreStart, RestoreChecks, RestoreClear, RollbackStop,
     RollbackStopped, RollbackCheck, RollbackPhases, RollbackUnit, RollbackReload, RollbackStart,
     RollbackChecks, RollbackCommit, FinalStop, MarkUpgradeRecovery, ReplaceUnit,
     ReplaceDescriptor, CommitDescriptor, Advance, Fail, Observe, DrainSucceeds, DrainSkipped,
     DrainFails, FailWithResume
  <2>5. PurgeNext(p)
    BY <1>1, <2>1, <2>2, <2>3, <2>4 DEF CommandNext
  <2> QED
    BY <2>5 DEF PurgeNext, BeginPurge, PurgeData, PurgeManifest, PurgeFails, Fail
<1>4. ~Installed /\ unit = NoRelease /\ WorldInv
  BY <1>2, <1>3, HolderIsSafe DEF SafelyAt, PurgeSteps, UnitlessSteps, SafeInv
<1>5. ~enabled /\ ~Runs
  BY <1>4 DEF WorldInv, UninstalledIsQuiet, Quiet
<1> QED
  BY <1>4, <1>5, QuietIsStopped

\* Nothing is taken away before what needs it: an executable the descriptor
\* names only while nothing runs or will start it, the descriptor only when
\* nothing else of the installation is left, data only after that
\* (removeVerifiedExecutable, Uninstall, Purge).
THEOREM RemovalsAreSafe == Spec => RemovalIsSafe
<1>1. UnitInv /\ SafeInv /\ [Next]_vars =>
         [\A r \in Tracked(desc) :
             bins[r] = "file" /\ bins'[r] # "file" => TerminalStopped /\ ~enabled]_vars
  BY ExecutablesStay
<1>2. UnitInv /\ SafeInv /\ [Next]_vars =>
         [/\ \A p \in Procs :
               (cmd[p].op = "Uninstall" /\ Installed /\ desc' = NoDescriptor)
                   => /\ unit = NoRelease /\ loaded = NoRelease /\ ~enabled
                      /\ TerminalStopped
                      /\ \A r \in Releases : bins[r] = "absent"
          /\ data /\ ~data' =>
               ~Installed /\ unit = NoRelease /\ ~enabled /\ TerminalStopped]_vars
  BY ForgetsLast, PurgesLast
<1> QED
  BY <1>1, <1>2, AlwaysSafe, PTL DEF RemovalIsSafe, ExecutablesOutliveService, RemovalIsOrdered, Spec

=============================================================================
