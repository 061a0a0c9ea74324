-------------------------- MODULE CodexService_proofs --------------------------
(***************************************************************************)
(* Whatever is staged, interrupted and restarted, the shared Codex service *)
(* stays recognised, for any number of configurations, homes, processes    *)
(* and process identifiers.                                                *)
(***************************************************************************)
EXTENDS CodexService, TLAPS

-----------------------------------------------------------------------------
(***************************************************************************)
(* The inductive invariant.                                                *)
(***************************************************************************)
IsStopped == svc.state \in {"inactive", "failed"}

\* The manager's states and main process; a service without a unit is down; a
\* process that runs is known by what it was started with.
ServiceStands ==
    /\ Active => svc.pid # NoPid
    /\ svc.state \in {"inactive", "failed", "restarting"} => svc.pid = NoPid
    /\ unit = NoRelease => IsStopped
    /\ svc.pid # NoPid => ran[svc.pid] = svc.rel

\* A descriptor, written or about to be: it knows the process that runs, and its
\* receipt is one the next command accepts.
Knows(d) == Active /\ ~overtaken => OwnedProcess(d, svc.pid)
ReceiptIsTrue(d) == Pending(d) => d.prev = ran[d.pid] /\ d.prev # d.cfg

\* Which steps an operation takes.
StepsOf(op) ==
    CASE op = "none" -> {"idle"}
      [] op = "Install" -> InstallSteps
      [] op = "Uninstall" -> UninstallSteps
      [] op = "Inspect" -> {"read", "show", "probe", "ready"}
      [] OTHER -> ObserveSteps

Staged == {"install.unit", "install.verify", "install.descriptor"}

InstallStands(p) ==
    LET c == cmd[p] IN
    /\ c.mine.cfg # NoRelease
    /\ c.step \in {"install.read", "install.stage", "install.observe"} => ~Pending(c.mine)
    /\ c.step \in {"install.stage", "install.observe", "install.unit"} =>
          c.was = unit /\ FilesAreOwned
    /\ c.step # "install.read" /\ c.was = NoRelease => IsStopped
    /\ c.step = "install.observe" => Installed
    /\ c.step \in Staged => Knows(c.mine) /\ ReceiptIsTrue(c.mine)

UninstallStands(p) ==
    LET c == cmd[p] IN
    /\ c.step # "remove.read" => c.mine = desc /\ Installed
    /\ c.step \in {"remove.inventory", "remove.disable", "remove.stop", "remove.stopped",
                   "remove.unit"} => c.was = unit /\ unit # NoRelease
    /\ c.step = "remove.unit" => IsStopped
    /\ c.step \in {"remove.reload", "remove.gone", "remove.descriptor"} => unit = NoRelease
    /\ c.step = "remove.descriptor" => loaded = NoRelease /\ ~enabled

ObserverStands(p) ==
    LET c == cmd[p] IN
    /\ c.op # "Inspect" /\ c.step # "read" =>
          c.mine = desc /\ Installed /\ unit = desc.cfg
    /\ c.step = "verb" => Resolved = desc.cfg
    /\ c.step = "ready" => c.pid # NoPid /\ ran[c.pid] = c.mine.cfg
    /\ c.op # "Inspect" /\ c.step = "ready" /\ Active /\ ~overtaken => svc.rel = desc.cfg

Stands(p) ==
    /\ cmd[p].step \in StepsOf(cmd[p].op)
    /\ cmd[p].op = "none" => cmd[p] = Idle
    /\ cmd[p].op = "Install" => InstallStands(p)
    /\ cmd[p].op = "Uninstall" => UninstallStands(p)
    /\ cmd[p].op \in Observers => ObserverStands(p)

Inv == TypeOK /\ ServiceStands /\ SourceIsKnown /\ \A p \in Procs : Stands(p)

-----------------------------------------------------------------------------
(***************************************************************************)
(* What the manager does to the service.                                   *)
(***************************************************************************)
SvcType == [state : {"inactive", "failed", "active", "stopping", "restarting"},
            pid : OptPid, rel : OptRelease,
            health : {"none", "starting", "ready", "drained"}]

SvcShape ==
    /\ Active => svc.pid # NoPid
    /\ svc.state \in {"inactive", "failed", "restarting"} => svc.pid = NoPid

\* The process stays or goes.
Remains ==
    /\ svc'.pid \in {svc.pid, NoPid}
    /\ svc'.pid # NoPid => svc'.rel = svc.rel
    /\ svc'.state = "active" => svc.state = "active" /\ svc'.pid = svc.pid

\* A process is started.
Spawns(fresh) == svc'.pid \in fresh /\ svc'.state = "active"

LEMMA SvcTypes ==
    /\ \A pid \in Pids, r \in OptRelease : Running(pid, r) \in SvcType
    /\ \A s \in {"inactive", "failed", "restarting"} : Stopped(s) \in SvcType
    /\ ManagerTypeOK <=> /\ unit \in OptRelease /\ loaded \in OptRelease
                         /\ bins \in [Releases -> {"absent", "directory", "file"}]
                         /\ enabled \in BOOLEAN /\ excused \in BOOLEAN /\ svc \in SvcType
BY DEF Running, Stopped, SvcType, OptPid, OptRelease, ManagerTypeOK

LEMMA BecomesTypes ==
    ASSUME ManagerTypeOK, NEW next \in SvcType, SvcBecomes(next)
    PROVE  svc' = next /\ svc' \in SvcType /\ excused' \in BOOLEAN
BY DEF SvcBecomes, ManagerTypeOK

LEMMA TypesStay ==
    ASSUME ManagerTypeOK, UNCHANGED <<unit, bins>>, loaded' \in OptRelease,
           enabled' \in BOOLEAN, excused' \in BOOLEAN, svc' \in SvcType
    PROVE  ManagerTypeOK'
<1>1. UNCHANGED OptRelease
  BY DEF OptRelease
<1> QED BY <1>1 DEF ManagerTypeOK, SvcType

LEMMA ResolvedTypes ==
    ASSUME ManagerTypeOK
    PROVE  Resolved \in OptRelease /\ Reread \in OptRelease
BY DEF ManagerTypeOK, Resolved, Reread, OptRelease

LEMMA SpawnActs ==
    ASSUME ManagerTypeOK, NEW fresh \in SUBSET Pids, UNCHANGED <<unit, bins>>, SpawnEffect(fresh)
    PROVE  /\ ManagerTypeOK' /\ SvcShape' /\ enabled' = enabled /\ loaded' = Resolved
           /\ Resolved # NoRelease
           /\ Remains \/ (Spawns(fresh) /\ svc'.rel = Resolved)
<1>1. /\ Resolved \in OptRelease /\ Resolved # NoRelease /\ loaded' = Resolved /\ enabled' = enabled
      /\ enabled \in BOOLEAN
  BY ResolvedTypes DEF SpawnEffect, ManagerTypeOK
<1>2. CASE \E pid \in fresh : SvcBecomes(Running(pid, Resolved))
  <2>1. PICK pid \in fresh : SvcBecomes(Running(pid, Resolved))
    BY <1>2
  <2>2. svc' = Running(pid, Resolved) /\ svc' \in SvcType /\ excused' \in BOOLEAN
    BY <1>1, <2>1, SvcTypes, BecomesTypes
  <2>3. pid # NoPid
    BY PidsAssumption
  <2> QED
    BY <1>1, <2>2, <2>3, TypesStay DEF Running, SvcShape, Active, Spawns
<1>3. CASE SvcBecomes(Stopped("failed"))
  <2>1. svc' = Stopped("failed") /\ svc' \in SvcType /\ excused' \in BOOLEAN
    BY <1>3, SvcTypes, BecomesTypes
  <2> QED
    BY <1>1, <2>1, TypesStay DEF Stopped, SvcShape, Active, Remains
<1> QED BY <1>2, <1>3 DEF SpawnEffect

\* The end of the process, whatever asked for it.
LEMMA EndActs ==
    ASSUME ManagerTypeOK, UNCHANGED <<unit, bins, loaded, enabled>>,
           NEW s \in {"inactive", "failed", "restarting"}, SvcBecomes(Stopped(s))
    PROVE  ManagerTypeOK' /\ SvcShape' /\ Remains /\ svc'.state = s
<1>1. svc' = Stopped(s) /\ svc' \in SvcType /\ excused' \in BOOLEAN
  BY SvcTypes, BecomesTypes
<1>2. ManagerTypeOK'
  BY <1>1, TypesStay DEF ManagerTypeOK
<1> QED BY <1>1, <1>2 DEF Stopped, SvcShape, Active, Remains

\* A service that is being stopped keeps its process.
LEMMA PendingActs ==
    ASSUME ManagerTypeOK, UNCHANGED <<unit, bins>>, StopPending
    PROVE  /\ ManagerTypeOK' /\ SvcShape' /\ Remains /\ UNCHANGED <<loaded, enabled>>
           /\ ~IsStopped
<1> DEFINE next == [svc EXCEPT !.state = "stopping"]
<1>1. svc \in SvcType
  BY SvcTypes
<1>2. next \in SvcType /\ next.state = "stopping" /\ next.pid = svc.pid /\ next.rel = svc.rel
  BY <1>1 DEF SvcType
<1>3. SvcBecomes(next) /\ UNCHANGED <<loaded, enabled>> /\ svc.state \in {"active", "restarting"}
  BY DEF StopPending
<1> HIDE DEF next
<1>4. svc' = next /\ svc' \in SvcType /\ excused' \in BOOLEAN
  BY <1>2, <1>3, BecomesTypes
<1>5. ManagerTypeOK'
  BY <1>3, <1>4, TypesStay DEF ManagerTypeOK
<1> QED BY <1>2, <1>3, <1>4, <1>5 DEF SvcShape, Active, Remains, IsStopped

\* A start that is left to the manager: no process until it acts.
LEMMA PendingStartActs ==
    ASSUME ManagerTypeOK, UNCHANGED <<unit, bins>>, StartPending
    PROVE  /\ ManagerTypeOK' /\ SvcShape' /\ Remains /\ enabled' = enabled
           /\ loaded' = Resolved /\ Resolved # NoRelease
<1>1. /\ SvcBecomes(Stopped("restarting")) /\ loaded' = Resolved /\ Resolved # NoRelease
      /\ enabled' = enabled
  BY DEF StartPending
<1>2. svc' = Stopped("restarting") /\ svc' \in SvcType /\ excused' \in BOOLEAN
  BY <1>1, SvcTypes, BecomesTypes
<1>3. loaded' \in OptRelease /\ enabled' \in BOOLEAN
  BY <1>1, ResolvedTypes DEF ManagerTypeOK
<1>4. ManagerTypeOK'
  BY <1>2, <1>3, TypesStay
<1> QED BY <1>1, <1>2, <1>4 DEF Stopped, SvcShape, Active, Remains

LEMMA NothingActs ==
    ASSUME ManagerTypeOK, SvcShape, UNCHANGED <<unit, bins>>, UNCHANGED managerVars
    PROVE  ManagerTypeOK' /\ SvcShape' /\ Remains /\ UNCHANGED <<loaded, enabled, svc>>
BY DEF ManagerTypeOK, managerVars, SvcShape, Active, Remains, OptRelease

\* systemctl start and restart.
LEMMA VerbActs ==
    ASSUME ManagerTypeOK, SvcShape, NEW fresh \in SUBSET Pids, NEW ok \in BOOLEAN,
           UNCHANGED <<unit, bins>>, SystemctlStart(ok, fresh) \/ SystemctlRestart(ok, fresh)
    PROVE  /\ ManagerTypeOK' /\ SvcShape' /\ enabled' = enabled
           /\ loaded' = loaded \/ (loaded' = Resolved /\ Resolved # NoRelease)
           /\ Remains \/ (Spawns(fresh) /\ svc'.rel = Resolved)
<1>1. CASE SpawnEffect(fresh)
  BY <1>1, SpawnActs
<1>2. CASE UNCHANGED managerVars
  BY <1>2, NothingActs
<1>3. CASE StopPending
  BY <1>3, PendingActs
<1>4. CASE excused' = (excused \/ svc.health = "drained") /\ UNCHANGED <<loaded, enabled, svc>>
  <2>1. excused' \in BOOLEAN
    BY <1>4 DEF ManagerTypeOK
  <2> QED BY <1>4, <2>1, SvcTypes, TypesStay DEF SvcShape, Active, Remains
<1>5. CASE StartPending
  BY <1>5, PendingStartActs
<1> QED BY <1>1, <1>2, <1>3, <1>4, <1>5
  DEF SystemctlStart, SystemctlRestart, StartEffect, NoEffect

\* systemctl stop.
LEMMA StopActs ==
    ASSUME ManagerTypeOK, SvcShape, NEW ok \in BOOLEAN, UNCHANGED <<unit, bins>>, SystemctlStop(ok)
    PROVE  /\ ManagerTypeOK' /\ SvcShape' /\ UNCHANGED <<loaded, enabled>> /\ Remains
           /\ IsStopped => IsStopped'
<1>1. CASE StopEffect
  BY <1>1, EndActs DEF StopEffect, IsStopped
<1>2. CASE UNCHANGED managerVars
  BY <1>2, NothingActs DEF IsStopped
<1>3. CASE StopPending
  BY <1>3, PendingActs
<1> QED BY <1>1, <1>2, <1>3 DEF SystemctlStop, NoEffect

\* systemctl daemon-reload, enable and disable.
LEMMA FileActs ==
    ASSUME ManagerTypeOK, SvcShape, NEW ok \in BOOLEAN, NEW on \in BOOLEAN, UNCHANGED <<unit, bins>>,
           SystemctlReload(ok) \/ SystemctlEnable(ok, on)
    PROVE  /\ ManagerTypeOK' /\ SvcShape' /\ svc' = svc /\ Remains
           /\ loaded' \in {loaded, unit, NoRelease}
           /\ enabled' = enabled \/ enabled' = on
<1>1. /\ svc' = svc /\ excused' = excused /\ loaded' \in {loaded, unit, NoRelease}
      /\ enabled' = enabled \/ enabled' = on
  BY DEF SystemctlReload, SystemctlEnable, NoEffect, managerVars, ReloadEffect, EnableEffect, Reread
<1>2. loaded' \in OptRelease /\ enabled' \in BOOLEAN /\ excused' \in BOOLEAN /\ svc' \in SvcType
  BY <1>1, SvcTypes DEF OptRelease
<1>3. ManagerTypeOK'
  BY <1>2, TypesStay
<1> QED BY <1>1, <1>3 DEF SvcShape, Active, Remains

\* What the manager and the service do on their own.
LEMMA OwnActs ==
    ASSUME ManagerTypeOK, SvcShape, NEW fresh \in SUBSET Pids, UNCHANGED <<unit, bins>>,
           \/ ManagerUnloads \/ ManagerFinishesStop \/ ManagerRestarts(fresh) \/ ManagerGivesUp
           \/ ServiceCrashes \/ ServiceExits \/ ServiceListens
    PROVE  /\ ManagerTypeOK' /\ SvcShape' /\ enabled' = enabled
           /\ loaded' \in {loaded, NoRelease} \/ (loaded' = Resolved /\ Resolved # NoRelease)
           /\ IsStopped => IsStopped'
           /\ Remains \/ (Spawns(fresh) /\ svc.state = "restarting")
<1>1. CASE ManagerUnloads
  <2>1. svc' = svc /\ excused' = excused /\ enabled' = enabled /\ loaded' = NoRelease
    BY <1>1 DEF ManagerUnloads
  <2>2. ManagerTypeOK'
    BY <2>1, SvcTypes, TypesStay DEF OptRelease
  <2> QED BY <2>1, <2>2 DEF SvcShape, Active, Remains, IsStopped
<1>2. CASE ManagerFinishesStop
  BY <1>2, EndActs DEF ManagerFinishesStop, StopEffect, IsStopped
<1>3. CASE ManagerRestarts(fresh)
  BY <1>3, SpawnActs DEF ManagerRestarts, IsStopped
<1>4. CASE ManagerGivesUp
  BY <1>4, EndActs DEF ManagerGivesUp, IsStopped
<1>5. CASE ServiceCrashes
  BY <1>5, EndActs DEF ServiceCrashes, Active, IsStopped
<1>6. CASE ServiceExits
  BY <1>6, EndActs DEF ServiceExits, StopEffect, IsStopped
<1>7. CASE ServiceListens
  <2> DEFINE next == [svc EXCEPT !.health = "ready"]
  <2>1. svc \in SvcType
    BY SvcTypes
  <2>2. /\ next \in SvcType /\ next.state = svc.state /\ next.pid = svc.pid /\ next.rel = svc.rel
    BY <2>1 DEF SvcType
  <2>3. SvcBecomes(next) /\ UNCHANGED <<loaded, enabled>>
    BY <1>7 DEF ServiceListens, ServiceBecomesReady
  <2> HIDE DEF next
  <2>4. svc' = next /\ svc' \in SvcType /\ excused' \in BOOLEAN
    BY <2>2, <2>3, BecomesTypes
  <2>5. ManagerTypeOK'
    BY <2>3, <2>4, TypesStay DEF ManagerTypeOK
  <2> QED BY <2>2, <2>3, <2>4, <2>5 DEF SvcShape, Active, Remains, IsStopped
<1> QED BY <1>1, <1>2, <1>3, <1>4, <1>5, <1>6, <1>7

-----------------------------------------------------------------------------
(***************************************************************************)
(* What is remembered of the processes, and of the operations.             *)
(***************************************************************************)
Steps == InstallSteps \cup UninstallSteps \cup ObserveSteps \cup {"idle"}

CmdType == [op : Ops \cup {"none"}, step : Steps, mine : Descriptors, was : OptRelease,
            pid : OptPid]

LockIsHeld == \A p \in Procs : lock = p <=> cmd[p].op \notin {"none", "Inspect"}

LEMMA TypeParts ==
    /\ TypeOK <=> /\ ManagerTypeOK /\ desc \in Descriptors /\ native \subseteq Homes
                  /\ lock \in Procs \cup {NoProc} /\ cmd \in [Procs -> CmdType]
                  /\ ran \in [Pids -> OptRelease] /\ overtaken \in BOOLEAN /\ LockIsHeld
    /\ TypeOK' <=> /\ ManagerTypeOK' /\ desc' \in Descriptors /\ native' \subseteq Homes
                   /\ lock' \in Procs \cup {NoProc} /\ cmd' \in [Procs -> CmdType]
                   /\ ran' \in [Pids -> OptRelease] /\ overtaken' \in BOOLEAN /\ LockIsHeld'
BY DEF TypeOK, CmdType, Steps, LockIsHeld

LEMMA SmallTypes ==
    /\ NoRelease \in OptRelease /\ NoPid \in OptPid /\ Releases \subseteq OptRelease
    /\ NoDescriptor \in Descriptors /\ Idle \in CmdType
    /\ \A c \in OptRelease : Wanted(c) \in Descriptors
    /\ \A c \in OptRelease, prev \in OptRelease, pid \in OptPid :
          [cfg |-> c, prev |-> prev, pid |-> pid] \in Descriptors
    /\ \A d \in Descriptors : d.cfg \in OptRelease /\ d.prev \in OptRelease /\ d.pid \in OptPid
<1>1. NoRelease \in OptRelease /\ NoPid \in OptPid /\ Releases \subseteq OptRelease
  BY DEF OptRelease, OptPid
<1>2. NoDescriptor \in Descriptors
  BY <1>1 DEF NoDescriptor, Descriptors
<1>3. Idle \in CmdType
  BY <1>1, <1>2 DEF Idle, CmdType, Steps
<1> QED BY <1>1, <1>2, <1>3 DEF Descriptors, Wanted

LEMMA Names ==
    /\ svc.pid \in Named /\ desc.pid \in Named
    /\ \A p \in Procs : cmd[p].pid \in Named /\ cmd[p].mine.pid \in Named
    /\ svc'.pid \in Named' /\ desc'.pid \in Named'
    /\ \A p \in Procs : cmd'[p].pid \in Named' /\ cmd'[p].mine.pid \in Named'
    /\ Fresh \subseteq Pids /\ \A pid \in Fresh : pid \notin Named
BY DEF Named, Fresh

\* The configuration of a process is remembered while anybody names it.
LEMMA RanMoves ==
    ASSUME TypeOK, SvcShape, Recorded, Remains \/ Spawns(Fresh), svc'.pid \in OptPid,
           svc'.rel \in OptRelease, svc.pid # NoPid => ran[svc.pid] = svc.rel
    PROVE  /\ ran' \in [Pids -> OptRelease] /\ overtaken' \in BOOLEAN
           /\ svc'.pid # NoPid => ran'[svc'.pid] = svc'.rel
           /\ \A pid \in Pids : pid \in Named /\ pid \in Named' => ran'[pid] = ran[pid]
           /\ Remains /\ Active' /\ ~overtaken' => Active /\ ~overtaken /\ svc'.pid = svc.pid
                                                   /\ svc'.rel = svc.rel
           /\ ~Remains => /\ ~overtaken' => ~Staging /\ svc'.rel = desc.cfg
                          /\ Spawns(Fresh)
<1> DEFINE started == svc'.pid \notin {svc.pid, NoPid}
<1>1. /\ ran \in [Pids -> OptRelease] /\ overtaken \in BOOLEAN
  BY TypeParts
<1>2. /\ ran' = [pid \in Pids |-> IF started /\ pid = svc'.pid THEN svc'.rel
                                  ELSE IF pid \in Named' THEN ran[pid] ELSE NoRelease]
      /\ overtaken' = IF started THEN Staging \/ svc'.rel # desc.cfg
                      ELSE overtaken /\ svc'.pid # NoPid
  BY DEF Recorded
<1>3. Spawns(Fresh) => started /\ svc'.pid \notin Named /\ svc'.pid \in Pids
  BY Names, PidsAssumption DEF Spawns
<1>4. Remains => ~started
  BY DEF Remains
<1>5. ran' \in [Pids -> OptRelease]
  BY <1>1, <1>2, SmallTypes
<1>6. overtaken' \in BOOLEAN
  BY <1>1, <1>2 DEF Staging
<1>7. \A pid \in Pids : pid \in Named /\ pid \in Named' => ran'[pid] = ran[pid]
  BY <1>2, <1>3, <1>4
<1>8. svc'.pid # NoPid => ran'[svc'.pid] = svc'.rel
  <2> SUFFICES ASSUME svc'.pid # NoPid PROVE ran'[svc'.pid] = svc'.rel
    OBVIOUS
  <2>1. svc'.pid \in Pids
    BY DEF OptPid
  <2>2. CASE started
    BY <1>2, <2>1, <2>2
  <2>3. CASE ~started
    <3>1. Remains /\ svc'.pid = svc.pid
      BY <1>3, <2>3
    <3>2. svc'.pid \in Named /\ svc'.pid \in Named'
      BY <3>1, Names
    <3> QED BY <1>7, <2>1, <3>1, <3>2 DEF Remains
  <2> QED BY <2>2, <2>3
<1>9. Remains /\ Active' /\ ~overtaken' => Active /\ ~overtaken /\ svc'.pid = svc.pid
                                           /\ svc'.rel = svc.rel
  BY <1>2, <1>4 DEF Remains, Active, SvcShape
<1>10. ~Remains => Spawns(Fresh) /\ (~overtaken' => ~Staging /\ svc'.rel = desc.cfg)
  BY <1>2, <1>3
<1> QED BY <1>5, <1>6, <1>7, <1>8, <1>9, <1>10

\* The same of a step, as the invariant has it.
LEMMA ServiceMoves ==
    ASSUME Inv, Recorded, ManagerTypeOK', Remains \/ Spawns(Fresh)
    PROVE  /\ ran' \in [Pids -> OptRelease] /\ overtaken' \in BOOLEAN
           /\ svc'.pid # NoPid => ran'[svc'.pid] = svc'.rel
           /\ \A pid \in Pids : pid \in Named /\ pid \in Named' => ran'[pid] = ran[pid]
           /\ Remains /\ Active' /\ ~overtaken' => Active /\ ~overtaken /\ svc'.pid = svc.pid
                                                   /\ svc'.rel = svc.rel
           /\ ~Remains => /\ ~overtaken' => ~Staging /\ svc'.rel = desc.cfg
                          /\ Spawns(Fresh)
           /\ TypeOK /\ SvcShape
<1>1. TypeOK /\ SvcShape /\ (svc.pid # NoPid => ran[svc.pid] = svc.rel)
  BY DEF Inv, ServiceStands, SvcShape
<1>2. svc'.pid \in OptPid /\ svc'.rel \in OptRelease
  BY DEF ManagerTypeOK, OptPid, OptRelease
<1> QED BY <1>1, <1>2, RanMoves

\* What a descriptor says of the process stays true of it.
LEMMA KnowsMoves ==
    ASSUME Inv, Recorded, ManagerTypeOK', Remains, NEW d \in Descriptors, Knows(d)
    PROVE  Active' /\ ~overtaken' => OwnedProcess(d, svc.pid)'
<1>1. Active' /\ ~overtaken' => /\ Active /\ ~overtaken /\ svc'.pid = svc.pid
                                /\ svc'.rel = svc.rel
  BY ServiceMoves
<1> QED BY <1>1 DEF Knows, OwnedProcess, ProcessRuns, Pending

LEMMA ReceiptMoves ==
    ASSUME Inv, Recorded, ManagerTypeOK', Remains \/ Spawns(Fresh),
           NEW d \in Descriptors, ReceiptIsTrue(d), d.pid \in Named, d.pid \in Named'
    PROVE  Pending(d) => d.prev = ran'[d.pid] /\ d.prev # d.cfg
<1>1. Pending(d) => d.pid \in Pids
  BY SmallTypes DEF Pending, OptPid
<1> QED BY <1>1, ServiceMoves DEF ReceiptIsTrue

-----------------------------------------------------------------------------
(***************************************************************************)
(* The operations that a step is not of.                                   *)
(***************************************************************************)
\* The manager acts, or nothing happens outside.
Outside ==
    /\ UNCHANGED <<unit, bins, desc>> /\ ManagerTypeOK' /\ SvcShape' /\ enabled' = enabled
    /\ loaded' \in {loaded, NoRelease} \/ (loaded' = Resolved /\ Resolved # NoRelease)
    /\ IsStopped => IsStopped'
    /\ Remains \/ Spawns(Fresh)

LEMMA OutsideStands ==
    ASSUME Inv, Recorded, Outside, NEW g \in Procs, cmd'[g] = cmd[g]
    PROVE  Stands(g)'
<1> DEFINE c == cmd[g]
<1>1. /\ UNCHANGED <<unit, bins, desc>> /\ ManagerTypeOK' /\ SvcShape' /\ enabled' = enabled
      /\ loaded' \in {loaded, NoRelease} \/ (loaded' = Resolved /\ Resolved # NoRelease)
      /\ IsStopped => IsStopped'
      /\ Remains \/ Spawns(Fresh)
  BY DEF Outside
<1>2. TypeOK /\ c \in CmdType /\ Stands(g) /\ SvcShape
  BY TypeParts, ServiceMoves, <1>1 DEF Inv
<1>3. Installed' = Installed /\ FilesAreOwned' = FilesAreOwned
  BY <1>1 DEF Installed, FilesAreOwned
<1>4. CASE c.op = "Install"
  <2>1. InstallStands(g)
    BY <1>2, <1>4 DEF Stands
  <2>2. c.step \in Staged /\ Active' /\ ~overtaken' => OwnedProcess(c.mine, svc.pid)'
    <3> SUFFICES ASSUME c.step \in Staged, Active', ~overtaken'
                 PROVE  OwnedProcess(c.mine, svc.pid)'
      OBVIOUS
    <3>1. Staging
      BY DEF Staged, Staging
    <3>2. Remains
      BY <1>1, <3>1, ServiceMoves
    <3>3. c.mine \in Descriptors /\ Knows(c.mine)
      BY <1>2, <2>1 DEF InstallStands, CmdType
    <3>4. Active' /\ ~overtaken' => /\ Active /\ ~overtaken /\ svc'.pid = svc.pid
                                    /\ svc'.rel = svc.rel
      BY <1>1, <3>2, ServiceMoves
    <3> QED BY <3>3, <3>4 DEF Knows, OwnedProcess, ProcessRuns, Pending
  <2>3. c.step \in Staged => (Pending(c.mine) => c.mine.prev = ran'[c.mine.pid]
                                                 /\ c.mine.prev # c.mine.cfg)
    <3>1. c.mine \in Descriptors /\ c.mine.pid \in Named /\ c.mine.pid \in Named'
      BY <1>2, Names DEF CmdType
    <3> HIDE DEF c
    <3> QED BY <1>1, <2>1, <3>1, ReceiptMoves DEF InstallStands, c
  <2>4. InstallStands(g)'
    BY <1>1, <1>3, <2>1, <2>2, <2>3 DEF InstallStands, Knows, ReceiptIsTrue, OwnedProcess,
                                        ProcessRuns, Pending
  <2> QED BY <1>2, <1>4, <2>4 DEF Stands, Observers
<1>5. CASE c.op = "Uninstall"
  <2>1. UninstallStands(g)
    BY <1>2, <1>5 DEF Stands
  <2>2. UninstallStands(g)'
    BY <1>1, <1>3, <2>1 DEF UninstallStands, Resolved
  <2> QED BY <1>2, <1>5, <2>2 DEF Stands, Observers
<1>6. CASE c.op \in Observers
  <2>1. ObserverStands(g)
    BY <1>2, <1>6 DEF Stands
  <2>2. c.step = "ready" => c.pid # NoPid /\ ran'[c.pid] = c.mine.cfg
    <3>1. c.pid \in Named /\ c.pid \in Named' /\ c.pid \in OptPid
      BY <1>2, Names DEF CmdType
    <3> QED BY <1>1, <2>1, <3>1, ServiceMoves DEF ObserverStands, OptPid
  <2>3. c.op # "Inspect" /\ c.step = "ready" /\ Active' /\ ~overtaken' => svc'.rel = desc.cfg
    <3>1. CASE Remains
      <4>1. Active' /\ ~overtaken' => Active /\ ~overtaken /\ svc'.rel = svc.rel
        BY <1>1, <3>1, ServiceMoves
      <4> QED BY <2>1, <4>1 DEF ObserverStands
    <3>2. CASE ~Remains
      BY <1>1, <3>2, ServiceMoves
    <3> QED BY <3>1, <3>2
  <2>4. /\ (c.step = "verb" => Resolved = desc.cfg) /\ c.op = "Inspect" => c.step # "verb"
    BY <1>2, <2>1 DEF ObserverStands, Stands, StepsOf
  <2>5. c.step = "verb" => Resolved' = desc.cfg
    <3> SUFFICES ASSUME c.step = "verb" PROVE Resolved' = desc.cfg
      OBVIOUS
    <3>1. unit = desc.cfg /\ Resolved = desc.cfg
      BY <1>2, <1>6, <2>1, <2>4 DEF ObserverStands, Stands, StepsOf
    <3> QED BY <1>1, <3>1 DEF Resolved
  <2>6. ObserverStands(g)'
    BY <1>1, <1>3, <2>1, <2>2, <2>3, <2>5 DEF ObserverStands
  <2> QED BY <1>2, <1>6, <2>6 DEF Stands, Observers
<1>7. CASE c.op = "none"
  BY <1>2, <1>7 DEF Stands, Observers
<1> QED BY <1>2, <1>4, <1>5, <1>6, <1>7 DEF CmdType, Ops, Observers

\* A call without the lock is not touched by what those that have it do.
LEMMA UnlockedStands ==
    ASSUME Inv, Recorded, ManagerTypeOK', Remains \/ Spawns(Fresh), NEW g \in Procs,
           cmd'[g] = cmd[g], cmd[g].op \in {"none", "Inspect"}
    PROVE  Stands(g)'
<1> DEFINE c == cmd[g]
<1>1. TypeOK /\ c \in CmdType /\ Stands(g)
  BY TypeParts DEF Inv
<1>2. c.op = "Inspect" /\ c.step = "ready" => c.pid # NoPid /\ ran'[c.pid] = c.mine.cfg
  <2>1. c.pid \in Named /\ c.pid \in Named' /\ c.pid \in OptPid
    BY <1>1, Names DEF CmdType
  <2> QED BY <1>1, <2>1, ServiceMoves DEF Stands, ObserverStands, Observers, OptPid
<1>3. c.op = "Inspect" => c.step # "verb"
  BY <1>1 DEF Stands, StepsOf
<1> QED BY <1>1, <1>2, <1>3 DEF Stands, ObserverStands, Observers

\* What is left to show of a step of p.
LEMMA ProcMoves ==
    ASSUME Inv, Recorded, NEW p \in Procs, NEW c \in CmdType, cmd' = [cmd EXCEPT ![p] = c],
           lock \in {p, NoProc} \/ Outside,
           lock' = IF c.op \in {"none", "Inspect"} THEN IF lock = p THEN NoProc ELSE lock ELSE p,
           c.op \notin {"none", "Inspect"} => lock \in {p, NoProc},
           ManagerTypeOK', SvcShape', Remains \/ Spawns(Fresh),
           desc' \in Descriptors, native' \subseteq Homes,
           unit' = NoRelease => IsStopped',
           Installed' => Knows(desc)', ReceiptIsTrue(desc)', Stands(p)'
    PROVE  Inv'
<1>1. /\ ran' \in [Pids -> OptRelease] /\ overtaken' \in BOOLEAN
      /\ svc'.pid # NoPid => ran'[svc'.pid] = svc'.rel
  BY ServiceMoves
<1>2. TypeOK
  BY DEF Inv
<1>3. cmd' \in [Procs -> CmdType] /\ cmd'[p] = c /\ \A g \in Procs \ {p} : cmd'[g] = cmd[g]
  BY <1>2, TypeParts
<1>4. ASSUME NEW g \in Procs \ {p}
      PROVE  /\ lock = g <=> cmd[g].op \notin {"none", "Inspect"}
             /\ g # NoProc
  BY <1>2, TypeParts, ProcsAssumption DEF LockIsHeld
<1>5. LockIsHeld'
  <2>1. lock' = p <=> c.op \notin {"none", "Inspect"}
    BY ProcsAssumption
  <2>2. ASSUME NEW g \in Procs \ {p} PROVE lock' = g <=> lock = g
    BY <1>4
  <2> QED BY <1>3, <1>4, <2>1, <2>2 DEF LockIsHeld
<1>6. TypeOK'
  <2>1. lock' \in Procs \cup {NoProc}
    BY <1>2, TypeParts
  <2> QED BY <1>1, <1>3, <1>5, <2>1, TypeParts
<1>7. ASSUME NEW g \in Procs \ {p} PROVE Stands(g)'
  <2>1. CASE Outside
    BY <1>3, <2>1, OutsideStands
  <2>2. CASE lock \in {p, NoProc}
    <3>1. cmd[g].op \in {"none", "Inspect"}
      BY <1>4, <2>2
    <3> QED BY <1>3, <3>1, UnlockedStands
  <2> QED BY <2>1, <2>2
<1>8. ServiceStands'
  BY <1>1 DEF ServiceStands, SvcShape
<1>9. SourceIsKnown'
  BY DEF SourceIsKnown, Knows, ReceiptIsTrue
<1> QED BY <1>6, <1>7, <1>8, <1>9 DEF Inv

-----------------------------------------------------------------------------
(***************************************************************************)
(* The environment.                                                        *)
(***************************************************************************)
LEMMA InvParts ==
    ASSUME Inv
    PROVE  /\ TypeOK /\ SvcShape /\ ManagerTypeOK /\ desc \in Descriptors /\ native \subseteq Homes
           /\ unit = NoRelease => IsStopped
           /\ Installed => Knows(desc)
           /\ ReceiptIsTrue(desc)
           /\ \A p \in Procs : Stands(p) /\ cmd[p] \in CmdType
BY TypeParts DEF Inv, ServiceStands, SvcShape, SourceIsKnown, Knows, ReceiptIsTrue

LEMMA DescriptorStays ==
    ASSUME Inv, Recorded, ManagerTypeOK', SvcShape', Remains \/ Spawns(Fresh), desc' = desc
    PROVE  (Installed' => Knows(desc)') /\ ReceiptIsTrue(desc)'
<1>1. ASSUME Remains PROVE Installed' => Knows(desc)'
  <2>1. Installed' => Installed
    BY DEF Installed
  <2> QED
    BY <1>1, <2>1, InvParts, KnowsMoves DEF Knows, OwnedProcess, ProcessRuns, Pending
<1>2. ASSUME ~Remains PROVE Installed' => Knows(desc)'
  <2>1. ~overtaken' => svc'.rel = desc.cfg
    BY <1>2, ServiceMoves
  <2> QED BY <2>1 DEF Knows, OwnedProcess, ProcessRuns, SvcShape
<1>3. ReceiptIsTrue(desc)'
  <2>1. desc \in Descriptors /\ ReceiptIsTrue(desc) /\ desc.pid \in Named /\ desc'.pid \in Named'
    BY InvParts, Names
  <2> QED BY <2>1, ReceiptMoves DEF ReceiptIsTrue, Pending
<1> QED BY <1>1, <1>2, <1>3

LEMMA OutsideKeeps ==
    ASSUME Inv, Recorded, Outside, UNCHANGED <<lock, cmd>>, native' \subseteq Homes
    PROVE  Inv'
<1>1. /\ UNCHANGED <<unit, desc>> /\ ManagerTypeOK' /\ SvcShape' /\ (IsStopped => IsStopped')
      /\ Remains \/ Spawns(Fresh)
  BY DEF Outside
<1>2. /\ ran' \in [Pids -> OptRelease] /\ overtaken' \in BOOLEAN
      /\ svc'.pid # NoPid => ran'[svc'.pid] = svc'.rel
  BY <1>1, ServiceMoves
<1>3. (Installed' => Knows(desc)') /\ ReceiptIsTrue(desc)'
  BY <1>1, DescriptorStays
<1>4. TypeOK'
  BY <1>1, <1>2, InvParts, TypeParts DEF LockIsHeld
<1>5. \A g \in Procs : Stands(g)'
  BY OutsideStands
<1>6. ServiceStands'
  BY <1>1, <1>2, InvParts DEF ServiceStands, SvcShape
<1>7. SourceIsKnown'
  BY <1>3 DEF SourceIsKnown, Knows, ReceiptIsTrue
<1> QED BY <1>4, <1>5, <1>6, <1>7 DEF Inv

LEMMA EnvironmentKeeps ==
    ASSUME Inv, Recorded, ManagerActs \/ NativeDaemon
    PROVE  Inv'
<1>1. CASE ManagerActs
  <2>1. Outside
    <3>1. UNCHANGED <<unit, bins, desc>>
      BY <1>1 DEF ManagerActs
    <3> QED BY <1>1, <3>1, InvParts, OwnActs, Names DEF ManagerActs, Outside
  <2> QED BY <1>1, <2>1, InvParts, OutsideKeeps DEF ManagerActs
<1>2. CASE NativeDaemon
  <2>1. UNCHANGED <<unit, bins, desc, lock, cmd>> /\ UNCHANGED managerVars /\ native' \subseteq Homes
    BY <1>2, InvParts DEF NativeDaemon
  <2>2. Outside
    BY <2>1, InvParts, NothingActs DEF Outside, IsStopped
  <2> QED BY <2>1, <2>2, OutsideKeeps
<1> QED BY <1>1, <1>2

LEMMA RebootKeeps ==
    ASSUME Inv, Recorded, Reboot
    PROVE  Inv'
<1>1. /\ UNCHANGED <<unit, bins, desc>> /\ native' = {} /\ lock' = NoProc
      /\ cmd' = [p \in Procs |-> Idle] /\ Boot(Fresh)
  BY DEF Reboot
<1>2. /\ ManagerTypeOK' /\ SvcShape' /\ (Remains \/ Spawns(Fresh))
      /\ unit = NoRelease => IsStopped'
  <2>1. /\ enabled' \in BOOLEAN /\ excused' \in BOOLEAN /\ loaded' \in OptRelease
    BY <1>1, InvParts, SmallTypes DEF Boot, ManagerTypeOK
  <2>2. CASE \E pid \in Fresh : svc' = Running(pid, unit) /\ unit # NoRelease
    <3>1. PICK pid \in Fresh : svc' = Running(pid, unit)
      BY <2>2
    <3>2. pid \in Pids /\ pid # NoPid
      BY Names, PidsAssumption
    <3>3. svc' \in SvcType
      BY <3>1, <3>2, InvParts, SvcTypes
    <3>4. ManagerTypeOK'
      BY <1>1, <2>1, <3>3, InvParts, TypesStay
    <3> QED BY <2>2, <3>1, <3>2, <3>4 DEF Running, SvcShape, Active, Spawns
  <2>3. CASE \E s \in {"failed", "inactive"} : svc' = Stopped(s)
    <3>1. PICK s \in {"failed", "inactive"} : svc' = Stopped(s)
      BY <2>3
    <3>2. ManagerTypeOK'
      BY <1>1, <2>1, <3>1, InvParts, SvcTypes, TypesStay
    <3> QED BY <3>1, <3>2 DEF Stopped, SvcShape, Active, Remains, IsStopped
  <2> QED BY <1>1, <2>2, <2>3 DEF Boot
<1>3. /\ ran' \in [Pids -> OptRelease] /\ overtaken' \in BOOLEAN
      /\ svc'.pid # NoPid => ran'[svc'.pid] = svc'.rel
  BY <1>2, ServiceMoves
<1>4. (Installed' => Knows(desc)') /\ ReceiptIsTrue(desc)'
  BY <1>1, <1>2, DescriptorStays
<1>5. \A p \in Procs : cmd'[p] = Idle
  BY <1>1
<1>6. Idle.op = "none" /\ Idle.step = "idle"
  BY DEF Idle
<1>7. TypeOK'
  <2>1. cmd' \in [Procs -> CmdType]
    BY <1>1, SmallTypes
  <2>2. LockIsHeld'
    BY <1>1, <1>5, <1>6, ProcsAssumption DEF LockIsHeld
  <2> QED BY <1>1, <1>2, <1>3, <2>1, <2>2, InvParts, TypeParts
<1>8. \A p \in Procs : Stands(p)'
  BY <1>5, <1>6 DEF Stands, StepsOf, Observers
<1>9. ServiceStands'
  BY <1>1, <1>2, <1>3 DEF ServiceStands, SvcShape
<1>10. SourceIsKnown'
  BY <1>4 DEF SourceIsKnown, Knows, ReceiptIsTrue
<1> QED BY <1>7, <1>8, <1>9, <1>10 DEF Inv

-----------------------------------------------------------------------------
(***************************************************************************)
(* The steps of a call.                                                    *)
(***************************************************************************)
LEMMA WhoseStep ==
    ASSUME Inv, NEW p \in Procs
    PROVE  /\ cmd[p].step \in InstallSteps =>
                 cmd[p].op = "Install" /\ lock = p /\ InstallStands(p)
           /\ cmd[p].step \in UninstallSteps =>
                 cmd[p].op = "Uninstall" /\ lock = p /\ UninstallStands(p)
           /\ cmd[p].step \in ObserveSteps =>
                 /\ cmd[p].op \in Observers /\ ObserverStands(p)
                 /\ cmd[p].op # "Inspect" => lock = p
           /\ cmd[p].step \in {"inventory", "enable", "verb", "await.show", "await.probe"} =>
                 cmd[p].op # "Inspect"
<1>1. Stands(p) /\ cmd[p] \in CmdType /\ (lock = p <=> cmd[p].op \notin {"none", "Inspect"})
  BY InvParts, TypeParts DEF LockIsHeld
<1>2. cmd[p].op \in {"none", "Install", "Uninstall", "Inspect", "Ensure", "Start", "Restart"}
  BY <1>1 DEF CmdType, Ops, Observers
<1>3. cmd[p].step \in StepsOf(cmd[p].op)
  BY <1>1 DEF Stands
<1>4. CASE cmd[p].op = "none"
  BY <1>1, <1>3, <1>4 DEF StepsOf, InstallSteps, UninstallSteps, ObserveSteps
<1>5. CASE cmd[p].op = "Install"
  BY <1>1, <1>3, <1>5 DEF StepsOf, InstallSteps, UninstallSteps, ObserveSteps, Stands
<1>6. CASE cmd[p].op = "Uninstall"
  BY <1>1, <1>3, <1>6 DEF StepsOf, InstallSteps, UninstallSteps, ObserveSteps, Stands
<1>7. CASE cmd[p].op \in Observers
  BY <1>1, <1>3, <1>7 DEF StepsOf, InstallSteps, UninstallSteps, ObserveSteps, Stands, Observers
<1> QED BY <1>2, <1>4, <1>5, <1>6, <1>7 DEF Observers

\* Only files change.
LEMMA FilesMove ==
    ASSUME Inv, Recorded, UNCHANGED managerVars, UNCHANGED bins, unit' \in OptRelease
    PROVE  /\ ManagerTypeOK' /\ SvcShape' /\ Remains /\ UNCHANGED <<loaded, enabled, svc>>
           /\ IsStopped' = IsStopped
           /\ Active' /\ ~overtaken' => Active /\ ~overtaken
<1>1. UNCHANGED <<loaded, enabled, svc, excused>>
  BY DEF managerVars
<1>2. SvcShape' /\ Remains /\ IsStopped' = IsStopped
  BY <1>1, InvParts DEF SvcShape, Active, Remains, IsStopped
<1>3. ManagerTypeOK'
  BY <1>1, InvParts DEF ManagerTypeOK, OptRelease
<1> QED BY <1>1, <1>2, <1>3, ServiceMoves

\* Nothing changes but the call.
LEMMA LookKeeps ==
    ASSUME Inv, Recorded, UNCHANGED world, NEW p \in Procs, NEW c \in CmdType,
           cmd' = [cmd EXCEPT ![p] = c],
           lock' = IF c.op \in {"none", "Inspect"} THEN IF lock = p THEN NoProc ELSE lock ELSE p,
           c.op \notin {"none", "Inspect"} => lock \in {p, NoProc},
           Stands(p)'
    PROVE  Inv'
<1>1. UNCHANGED <<unit, bins, desc, native>> /\ UNCHANGED managerVars /\ unit' \in OptRelease
  BY InvParts DEF world, ManagerTypeOK
<1>2. ManagerTypeOK' /\ SvcShape' /\ Remains /\ UNCHANGED <<loaded, enabled, svc>>
  BY <1>1, FilesMove
<1>3. Outside
  BY <1>1, <1>2 DEF Outside, IsStopped
<1>4. (Installed' => Knows(desc)') /\ ReceiptIsTrue(desc)'
  BY <1>1, <1>2, DescriptorStays
<1>5. unit' = NoRelease => IsStopped'
  BY <1>1, <1>2, InvParts DEF IsStopped
<1> QED BY <1>1, <1>2, <1>3, <1>4, <1>5, InvParts, ProcMoves

\* What is to be shown of a call, by its operation.
LEMMA StandsBy ==
    ASSUME NEW p \in Procs
    PROVE  /\ cmd'[p].op = "Install" /\ cmd'[p].step \in InstallSteps /\ InstallStands(p)'
                 => Stands(p)'
           /\ cmd'[p].op = "Uninstall" /\ cmd'[p].step \in UninstallSteps /\ UninstallStands(p)'
                 => Stands(p)'
           /\ cmd'[p].op \in Observers /\ ObserverStands(p)'
              /\ cmd'[p].step \in ObserveSteps
              /\ (cmd'[p].op = "Inspect" => cmd'[p].step \in {"read", "show", "probe", "ready"})
                 => Stands(p)'
<1>1. cmd'[p].op = "Install" /\ cmd'[p].step \in InstallSteps /\ InstallStands(p)' => Stands(p)'
  BY DEF Stands, StepsOf, Observers
<1>2. cmd'[p].op = "Uninstall" /\ cmd'[p].step \in UninstallSteps /\ UninstallStands(p)'
         => Stands(p)'
  BY DEF Stands, StepsOf, Observers
<1>3. cmd'[p].op \in Observers /\ ObserverStands(p)' /\ cmd'[p].step \in ObserveSteps
      /\ (cmd'[p].op = "Inspect" => cmd'[p].step \in {"read", "show", "probe", "ready"})
         => Stands(p)'
  BY DEF Stands, StepsOf, Observers
<1> QED BY <1>1, <1>2, <1>3

LEMMA IdleStands ==
    ASSUME NEW p \in Procs, cmd'[p] = Idle
    PROVE  Stands(p)'
BY DEF Stands, StepsOf, Idle, Observers

\* A call that is over.
LEMMA FinishKeeps ==
    ASSUME Inv, Recorded, NEW p \in Procs, Finish(p), lock = p \/ Outside,
           ManagerTypeOK', SvcShape', Remains \/ Spawns(Fresh),
           desc' \in Descriptors, native' \subseteq Homes,
           unit' = NoRelease => IsStopped',
           Installed' => Knows(desc)', ReceiptIsTrue(desc)'
    PROVE  Inv'
<1>1. /\ cmd' = [cmd EXCEPT ![p] = Idle] /\ lock' = IF lock = p THEN NoProc ELSE lock
      /\ Idle \in CmdType /\ Idle.op = "none"
  BY SmallTypes DEF Finish, Idle
<1>2. cmd'[p] = Idle
  BY <1>1, InvParts, TypeParts
<1> QED BY <1>1, <1>2, IdleStands, ProcMoves

LEMMA BeginKeeps ==
    ASSUME Inv, Recorded, NEW p \in Procs,
           BeginInstall(p) \/ BeginLocked(p) \/ BeginInspect(p) \/ Ends(p)
    PROVE  Inv'
<1>1. cmd \in [Procs -> CmdType] /\ lock \in Procs \cup {NoProc} /\ UNCHANGED world
  BY InvParts, TypeParts DEF BeginInstall, BeginLocked, BeginInspect, Ends
<1>3. CASE BeginInstall(p)
  <2>1. PICK c \in Releases \ Legacy :
           cmd' = [cmd EXCEPT ![p] = [Idle EXCEPT !.op = "Install", !.step = "install.read",
                                                  !.mine = Wanted(c)]]
    BY <1>3 DEF BeginInstall
  <2> DEFINE n == [Idle EXCEPT !.op = "Install", !.step = "install.read", !.mine = Wanted(c)]
  <2>0. Wanted(c) \in Descriptors
    BY SmallTypes
  <2>2. /\ n \in CmdType /\ n.op = "Install" /\ n.step = "install.read" /\ n.mine = Wanted(c)
    BY <2>0, SmallTypes DEF CmdType, Ops, Steps, InstallSteps
  <2>3. c # NoRelease /\ Wanted(c).cfg = c /\ ~Pending(Wanted(c))
    BY ReleasesAssumption DEF Wanted, Pending
  <2>4. cmd' = [cmd EXCEPT ![p] = n] /\ lock = NoProc /\ lock' = p
    BY <1>3, <2>1 DEF BeginInstall
  <2> HIDE DEF n
  <2>5. cmd'[p] = n
    BY <1>1, <2>4
  <2>6. InstallStands(p)'
    BY <2>2, <2>3, <2>5 DEF InstallStands, Staged
  <2>7. Stands(p)'
    BY <2>2, <2>5, <2>6 DEF Stands, StepsOf, InstallSteps, Observers
  <2> QED BY <1>1, <2>2, <2>4, <2>7, LookKeeps
<1>4. CASE BeginLocked(p)
  <2>1. PICK op \in {"Uninstall", "Ensure", "Start", "Restart"},
             s \in {"remove.read", "read"} :
           /\ cmd' = [cmd EXCEPT ![p] = [Idle EXCEPT !.op = op, !.step = s]]
           /\ s = "remove.read" <=> op = "Uninstall"
    BY <1>4 DEF BeginLocked
  <2> DEFINE n == [Idle EXCEPT !.op = op, !.step = s]
  <2>2. n \in CmdType /\ n.op = op /\ n.step = s
    BY SmallTypes DEF CmdType, Ops, Observers, Steps, UninstallSteps, ObserveSteps
  <2>3. cmd' = [cmd EXCEPT ![p] = n] /\ lock = NoProc /\ lock' = p
    BY <1>4, <2>1 DEF BeginLocked
  <2> HIDE DEF n
  <2>4. cmd'[p] = n
    BY <1>1, <2>3
  <2>5. Stands(p)'
    BY <2>1, <2>2, <2>4 DEF Stands, StepsOf, UninstallSteps, ObserveSteps, Observers,
                            UninstallStands, ObserverStands
  <2> QED BY <1>1, <2>2, <2>3, <2>5, LookKeeps
<1>5. CASE BeginInspect(p)
  <2> DEFINE n == [Idle EXCEPT !.op = "Inspect", !.step = "read"]
  <2>1. n \in CmdType /\ n.op = "Inspect" /\ n.step = "read"
    BY SmallTypes DEF CmdType, Ops, Observers, Steps, ObserveSteps
  <2>2. cmd' = [cmd EXCEPT ![p] = n] /\ lock' = lock /\ lock # p
    BY <1>5, InvParts, TypeParts DEF BeginInspect, LockIsHeld, Idle
  <2> HIDE DEF n
  <2>3. cmd'[p] = n
    BY <1>1, <2>2
  <2>4. Stands(p)'
    BY <2>1, <2>3 DEF Stands, StepsOf, Observers, ObserverStands
  <2> QED BY <1>1, <2>1, <2>2, <2>4, LookKeeps
<1>6. CASE Ends(p)
  <2>1. cmd' = [cmd EXCEPT ![p] = Idle] /\ cmd'[p] = Idle /\ Idle.op = "none"
    BY <1>1, <1>6 DEF Ends, Finish, Idle
  <2>2. lock' = IF lock = p THEN NoProc ELSE lock
    BY <1>6 DEF Ends, Finish
  <2> QED BY <1>1, <2>1, <2>2, IdleStands, SmallTypes, LookKeeps
<1> QED BY <1>3, <1>4, <1>5, <1>6

LEMMA InstallReadKeeps ==
    ASSUME Inv, Recorded, NEW p \in Procs, InstallRead(p)
    PROVE  Inv'
<1> DEFINE c == cmd[p]
           n == [c EXCEPT !.step = "install.stage", !.was = unit]
<1>1. /\ c \in CmdType /\ c.op = "Install" /\ lock = p /\ InstallStands(p) /\ c.step = "install.read"
      /\ FilesAreOwned /\ UNCHANGED world /\ lock' = lock /\ unit \in OptRelease
      /\ cmd \in [Procs -> CmdType]
  BY WhoseStep, InvParts, TypeParts DEF InstallRead, At, InstallSteps, ManagerTypeOK
<1>2. cmd' = [cmd EXCEPT ![p] = n]
  BY <1>1 DEF InstallRead
<1>3. /\ n \in CmdType /\ n.op = "Install" /\ n.step = "install.stage" /\ n.mine = c.mine
      /\ n.was = unit
  BY <1>1 DEF CmdType, Steps, InstallSteps
<1> HIDE DEF n
<1>4. cmd'[p] = n
  BY <1>1, <1>2
<1>5. /\ UNCHANGED <<unit, desc, svc>>
  BY <1>1 DEF world, managerVars
<1>6. InstallStands(p)'
  BY <1>1, <1>3, <1>4, <1>5, InvParts DEF InstallStands, Staged, FilesAreOwned, IsStopped, Pending
<1>7. Stands(p)'
  BY <1>3, <1>4, <1>6, StandsBy DEF InstallSteps
<1> QED BY <1>1, <1>2, <1>3, <1>7, LookKeeps

\* The staged descriptor is one that knows the process.
LEMMA StageKeeps ==
    ASSUME Inv, Recorded, NEW p \in Procs, cmd[p].step \in {"install.stage", "install.observe"},
           UNCHANGED <<world, lock>>,
           NEW d \in Descriptors, NEW pid \in OptPid, Knows(d), ReceiptIsTrue(d), d.cfg # NoRelease,
           d.pid = NoPid \/ d.pid \in Named,
           cmd' = [cmd EXCEPT ![p] = [cmd[p] EXCEPT !.step = "install.unit", !.mine = d, !.pid = pid]]
    PROVE  Inv'
<1> DEFINE c == cmd[p]
           n == [c EXCEPT !.step = "install.unit", !.mine = d, !.pid = pid]
<1>1. /\ c \in CmdType /\ c.op = "Install" /\ lock = p /\ InstallStands(p)
      /\ UNCHANGED world /\ lock' = lock /\ cmd \in [Procs -> CmdType]
  BY WhoseStep, InvParts, TypeParts DEF InstallSteps
<1>2. cmd' = [cmd EXCEPT ![p] = n]
  OBVIOUS
<1>3. /\ n \in CmdType /\ n.op = "Install" /\ n.step = "install.unit" /\ n.mine = d
      /\ n.was = c.was
  BY <1>1 DEF CmdType, Steps, InstallSteps
<1> HIDE DEF n
<1>4. cmd'[p] = n
  BY <1>1, <1>2
<1>5. /\ UNCHANGED <<unit, desc, svc, bins>> /\ UNCHANGED managerVars /\ unit' \in OptRelease
  BY <1>1, InvParts DEF world, managerVars, ManagerTypeOK
<1>6. ManagerTypeOK' /\ Remains
  BY <1>5, FilesMove
<1>7. Knows(d)'
  BY <1>6, KnowsMoves DEF Knows
<1>8. Pending(d) => d.prev = ran'[d.pid] /\ d.prev # d.cfg
  <2>1. d.pid \in Named'
    BY <1>3, <1>4, Names
  <2>2. CASE d.pid \in Named
    BY <1>6, <2>1, <2>2, ReceiptMoves
  <2> QED BY <2>2 DEF Pending
<1>9. InstallStands(p)'
  <2>1. c.was = unit /\ FilesAreOwned /\ (c.was = NoRelease => IsStopped)
    BY <1>1 DEF InstallStands
  <2> QED
    BY <1>3, <1>4, <1>5, <1>7, <1>8, <2>1
    DEF InstallStands, Staged, FilesAreOwned, IsStopped, Knows, ReceiptIsTrue
<1>10. Stands(p)'
  BY <1>3, <1>4, <1>9, StandsBy DEF InstallSteps
<1> QED BY <1>1, <1>2, <1>3, <1>10, LookKeeps

\* A receipt that is carried over, and a new configuration beside it.
LEMMA RetainedIs ==
    ASSUME Inv, NEW want \in OptRelease
    PROVE  /\ Retained(want) \in Descriptors /\ Retained(want).cfg = want
           /\ ReceiptIsTrue(Retained(want))
           /\ Retained(want).pid \in {NoPid, desc.pid}
           /\ \A pid : Pending(desc) /\ pid = desc.pid /\ ProcessRuns(desc.prev, pid)
                  => OwnedProcess(Retained(want), pid)
<1>1. desc \in Descriptors /\ ReceiptIsTrue(desc)
  BY InvParts
<1>2. CASE ~Pending(desc) \/ desc.prev = want
  <2>1. Retained(want) = Wanted(want)
    BY <1>2 DEF Retained
  <2>2. /\ Wanted(want) \in Descriptors /\ Wanted(want).cfg = want /\ Wanted(want).pid = NoPid
        /\ ~Pending(Wanted(want))
    BY SmallTypes DEF Wanted, Pending
  <2> QED BY <1>2, <2>1, <2>2 DEF ReceiptIsTrue, OwnedProcess
<1>3. CASE ~(~Pending(desc) \/ desc.prev = want)
  <2>1. Retained(want) = [desc EXCEPT !.cfg = want]
    BY <1>3 DEF Retained
  <2> DEFINE d == [desc EXCEPT !.cfg = want]
  <2>2. d \in Descriptors /\ d.cfg = want /\ d.prev = desc.prev /\ d.pid = desc.pid
    BY <1>1 DEF Descriptors
  <2> HIDE DEF d
  <2>3. Retained(want) = d
    BY <2>1 DEF d
  <2> QED BY <1>1, <1>3, <2>2, <2>3 DEF ReceiptIsTrue, OwnedProcess, Pending
<1> QED BY <1>2, <1>3

LEMMA InstallStageKeeps ==
    ASSUME Inv, Recorded, NEW p \in Procs, InstallStage(p)
    PROVE  Inv'
<1> DEFINE c == cmd[p]
           want == c.mine.cfg
<1>1. /\ c \in CmdType /\ c.op = "Install" /\ lock = p /\ InstallStands(p) /\ c.step = "install.stage"
      /\ UNCHANGED world /\ lock' = lock /\ cmd \in [Procs -> CmdType] /\ ManagerTypeOK
      /\ SvcShape
  BY WhoseStep, InvParts, TypeParts DEF InstallStage, At, InstallSteps
<1>2. /\ c.mine \in Descriptors /\ want \in OptRelease /\ want # NoRelease /\ c.pid \in OptPid
      /\ c.was = unit /\ FilesAreOwned /\ ~Pending(c.mine)
  BY <1>1, SmallTypes DEF InstallStands, CmdType
<1>3. unit = NoRelease => ~Active
  BY InvParts DEF IsStopped, Active
<1>4. CASE ~Installed /\ Goto(p, "install.unit")
  <2>1. ~Active
    BY <1>2, <1>3, <1>4 DEF FilesAreOwned, Installed
  <2>2. Knows(c.mine) /\ ReceiptIsTrue(c.mine)
    BY <1>2, <2>1 DEF Knows, ReceiptIsTrue
  <2>3. cmd' = [cmd EXCEPT ![p] = [c EXCEPT !.step = "install.unit", !.mine = c.mine, !.pid = c.pid]]
    <3>1. [c EXCEPT !.step = "install.unit"]
             = [c EXCEPT !.step = "install.unit", !.mine = c.mine, !.pid = c.pid]
      BY <1>1 DEF CmdType
    <3>2. cmd' = [cmd EXCEPT ![p] = [c EXCEPT !.step = "install.unit"]]
      BY <1>1, <1>4 DEF Goto
    <3> QED BY <3>1, <3>2
  <2>4. c.mine.pid \in Named
    BY Names
  <2> HIDE DEF c
  <2> QED BY <1>1, <1>2, <2>2, <2>3, <2>4, StageKeeps DEF c
<1>5. CASE /\ Installed /\ (~Loaded \/ (LoadedMatches(desc) /\ ~Active))
           /\ cmd' = [cmd EXCEPT ![p].step = "install.unit", ![p].mine = Retained(want)]
  <2> DEFINE d == Retained(want)
  <2>1. ~Active
    BY <1>3, <1>5 DEF Loaded, Resolved
  <2>2. /\ d \in Descriptors /\ d.cfg = want /\ ReceiptIsTrue(d) /\ d.pid \in {NoPid, desc.pid}
    BY <1>2, RetainedIs
  <2>3. Knows(d)
    BY <2>1 DEF Knows
  <2>4. cmd' = [cmd EXCEPT ![p] = [c EXCEPT !.step = "install.unit", !.mine = d, !.pid = c.pid]]
    <3> HIDE DEF d
    <3>1. [c EXCEPT !.step = "install.unit", !.mine = d]
             = [c EXCEPT !.step = "install.unit", !.mine = d, !.pid = c.pid]
      BY <1>1 DEF CmdType
    <3>2. cmd' = [cmd EXCEPT ![p] = [c EXCEPT !.step = "install.unit", !.mine = d]]
      BY <1>1, <1>5 DEF d
    <3> QED BY <3>1, <3>2
  <2>5. d.pid = NoPid \/ d.pid \in Named
    BY <2>2, Names
  <2> HIDE DEF c, d, want
  <2> QED BY <1>1, <1>2, <2>2, <2>3, <2>4, <2>5, StageKeeps DEF c
<1>6. CASE /\ Installed /\ LoadedMatches(desc) /\ Active
           /\ cmd' = [cmd EXCEPT ![p].step = "install.observe", ![p].pid = svc.pid]
  <2> DEFINE n == [c EXCEPT !.step = "install.observe", !.pid = svc.pid]
  <2>1. svc.pid \in OptPid
    BY <1>1 DEF ManagerTypeOK
  <2>2. /\ n \in CmdType /\ n.op = "Install" /\ n.step = "install.observe" /\ n.mine = c.mine
        /\ n.was = c.was
    BY <1>1, <2>1 DEF CmdType, Steps, InstallSteps
  <2>3. cmd' = [cmd EXCEPT ![p] = n]
    BY <1>1, <1>6
  <2> HIDE DEF n
  <2>4. cmd'[p] = n
    BY <1>1, <2>3
  <2>5. /\ UNCHANGED <<unit, desc, svc>>
    BY <1>1 DEF world, managerVars
  <2>6. InstallStands(p)'
    BY <1>1, <1>2, <1>6, <2>2, <2>4, <2>5
    DEF InstallStands, Staged, FilesAreOwned, IsStopped, Pending, Installed
  <2>7. Stands(p)'
    BY <2>2, <2>4, <2>6, StandsBy DEF InstallSteps
  <2> QED BY <1>1, <2>2, <2>3, <2>7, LookKeeps
<1> QED BY <1>4, <1>5, <1>6 DEF InstallStage

LEMMA InstallObserveKeeps ==
    ASSUME Inv, Recorded, NEW p \in Procs, InstallObserve(p)
    PROVE  Inv'
<1> DEFINE c == cmd[p]
           want == c.mine.cfg
           pid == c.pid
<1>1. /\ c \in CmdType /\ InstallStands(p) /\ c.step = "install.observe" /\ UNCHANGED <<world, lock>>
      /\ cmd \in [Procs -> CmdType] /\ c.pid \in OptPid /\ ManagerTypeOK
  BY WhoseStep, InvParts, TypeParts DEF InstallObserve, At, InstallSteps, CmdType
<1>2. want \in OptRelease /\ want # NoRelease /\ desc \in Descriptors /\ desc.cfg \in OptRelease
  BY <1>1, SmallTypes, InvParts DEF InstallStands, CmdType
<1>3. ASSUME NEW d \in Descriptors, Knows(d), ReceiptIsTrue(d), d.cfg = want,
             d.pid = NoPid \/ d.pid \in Named,
             cmd' = [cmd EXCEPT ![p].step = "install.unit", ![p].mine = d, ![p].pid = NoPid]
      PROVE  Inv'
  <2>1. cmd' = [cmd EXCEPT ![p] = [c EXCEPT !.step = "install.unit", !.mine = d, !.pid = NoPid]]
    BY <1>1, <1>3
  <2> HIDE DEF c
  <2> QED BY <1>1, <1>2, <1>3, <2>1, SmallTypes, StageKeeps DEF c
<1>4. CASE /\ RunsReady(desc.cfg, pid)
           /\ cmd' = [cmd EXCEPT ![p].step = "install.unit", ![p].pid = NoPid,
                                 ![p].mine = IF desc.cfg = want THEN Wanted(want)
                                             ELSE [cfg |-> want, prev |-> desc.cfg, pid |-> pid]]
  <2> DEFINE d == IF desc.cfg = want THEN Wanted(want)
                  ELSE [cfg |-> want, prev |-> desc.cfg, pid |-> pid]
  <2>1. pid # NoPid /\ svc.pid = pid /\ svc.rel = desc.cfg
    BY <1>4 DEF RunsReady, ProcessRuns
  <2>2. ran[pid] = desc.cfg
    BY <2>1 DEF Inv, ServiceStands
  <2>3. d \in Descriptors /\ d.cfg = want
    BY <1>1, <1>2, SmallTypes DEF Wanted
  <2>4. Knows(d)
    BY <2>1 DEF Knows, OwnedProcess, ProcessRuns, Pending, Wanted
  <2>5. ReceiptIsTrue(d)
    BY <2>2 DEF ReceiptIsTrue, Pending, Wanted
  <2>6. d.pid = NoPid \/ d.pid \in Named
    BY Names DEF Wanted
  <2>7. cmd' = [cmd EXCEPT ![p].step = "install.unit", ![p].mine = d, ![p].pid = NoPid]
    <3> HIDE DEF d
    <3> QED BY <1>1, <1>4 DEF d
  <2> HIDE DEF d
  <2> QED BY <1>3, <2>3, <2>4, <2>5, <2>6, <2>7
<1>5. CASE /\ Pending(desc) /\ pid = desc.pid /\ RunsReady(desc.prev, pid)
           /\ cmd' = [cmd EXCEPT ![p].step = "install.unit", ![p].mine = Retained(want),
                                 ![p].pid = NoPid]
  <2> DEFINE d == Retained(want)
  <2>1. ProcessRuns(desc.prev, pid) /\ svc.pid = pid
    BY <1>5 DEF RunsReady, ProcessRuns
  <2>2. /\ d \in Descriptors /\ d.cfg = want /\ ReceiptIsTrue(d) /\ d.pid \in {NoPid, desc.pid}
        /\ OwnedProcess(d, pid)
    BY <1>2, <1>5, <2>1, RetainedIs
  <2>3. Knows(d) /\ (d.pid = NoPid \/ d.pid \in Named)
    BY <2>1, <2>2, Names DEF Knows
  <2>4. cmd' = [cmd EXCEPT ![p].step = "install.unit", ![p].mine = d, ![p].pid = NoPid]
    BY <1>5
  <2> HIDE DEF d
  <2> QED BY <1>3, <2>2, <2>3, <2>4
<1> QED BY <1>4, <1>5 DEF InstallObserve

LEMMA GotoIs ==
    ASSUME Inv, NEW p \in Procs, NEW s \in Steps, Goto(p, s)
    PROVE  /\ cmd \in [Procs -> CmdType] /\ cmd[p] \in CmdType
           /\ \E n \in CmdType : cmd' = [cmd EXCEPT ![p] = n] /\ n.op = cmd[p].op
           /\ cmd'[p].op = cmd[p].op /\ cmd'[p].step = s /\ cmd'[p].mine = cmd[p].mine
           /\ cmd'[p].was = cmd[p].was /\ cmd'[p].pid = cmd[p].pid
<1> DEFINE n == [cmd[p] EXCEPT !.step = s]
<1>1. cmd \in [Procs -> CmdType] /\ cmd[p] \in CmdType
  BY InvParts, TypeParts
<1>2. /\ n \in CmdType /\ n.op = cmd[p].op /\ n.step = s /\ n.mine = cmd[p].mine
      /\ n.was = cmd[p].was /\ n.pid = cmd[p].pid
  BY <1>1 DEF CmdType
<1>3. cmd' = [cmd EXCEPT ![p] = n]
  BY <1>1 DEF Goto
<1> HIDE DEF n
<1> QED BY <1>1, <1>2, <1>3

\* A call that looks on.
LEMMA LookOnKeeps ==
    ASSUME Inv, Recorded, NEW p \in Procs, NEW s \in Steps, Goto(p, s), UNCHANGED <<world, lock>>,
           cmd[p].op # "none", Stands(p)'
    PROVE  Inv'
<1>1. PICK n \in CmdType : cmd' = [cmd EXCEPT ![p] = n] /\ n.op = cmd[p].op
  BY GotoIs
<1>2. lock = p <=> cmd[p].op \notin {"none", "Inspect"}
  BY InvParts, TypeParts DEF LockIsHeld
<1> QED BY <1>1, <1>2, LookKeeps

\* A call that has the lock and acts.
LEMMA ActKeeps ==
    ASSUME Inv, Recorded, NEW p \in Procs, NEW s \in Steps, Goto(p, s), lock = p, lock' = lock,
           cmd[p].op \notin {"none", "Inspect"},
           ManagerTypeOK', SvcShape', Remains \/ Spawns(Fresh),
           desc' \in Descriptors, native' \subseteq Homes,
           unit' = NoRelease => IsStopped',
           Installed' => Knows(desc)', ReceiptIsTrue(desc)', Stands(p)'
    PROVE  Inv'
<1>1. PICK n \in CmdType : cmd' = [cmd EXCEPT ![p] = n] /\ n.op = cmd[p].op
  BY GotoIs
<1> QED BY <1>1, ProcMoves

\* What has been staged stays true of the process.
LEMMA StagedMoves ==
    ASSUME Inv, Recorded, NEW p \in Procs, cmd[p] \in CmdType, InstallStands(p),
           cmd[p].step \in Staged, ManagerTypeOK', Remains
    PROVE  LET d == cmd[p].mine IN
           /\ d \in Descriptors /\ d.cfg \in OptRelease /\ d.cfg # NoRelease
           /\ Active' /\ ~overtaken' => /\ svc'.pid # NoPid
                                        /\ \/ svc'.rel = d.cfg
                                           \/ Pending(d) /\ svc'.pid = d.pid /\ svc'.rel = d.prev
           /\ d.pid \in Named' => (Pending(d) => d.prev = ran'[d.pid] /\ d.prev # d.cfg)
<1> DEFINE d == cmd[p].mine
<1>1. d \in Descriptors /\ d.cfg \in OptRelease /\ d.cfg # NoRelease
  BY SmallTypes DEF InstallStands, CmdType
<1>2. Knows(d) /\ ReceiptIsTrue(d)
  BY DEF InstallStands
<1>3. Active' /\ ~overtaken' => Active /\ ~overtaken /\ svc'.pid = svc.pid /\ svc'.rel = svc.rel
  BY ServiceMoves
<1>4. d.pid \in Named
  BY Names
<1>5. Active' /\ ~overtaken' => /\ svc'.pid # NoPid
                                /\ \/ svc'.rel = d.cfg
                                   \/ Pending(d) /\ svc'.pid = d.pid /\ svc'.rel = d.prev
  BY <1>2, <1>3 DEF Knows, OwnedProcess, ProcessRuns
<1> HIDE DEF d
<1>6. d.pid \in Named' => (Pending(d) => d.prev = ran'[d.pid] /\ d.prev # d.cfg)
  BY <1>1, <1>2, <1>4, ReceiptMoves
<1> QED BY <1>1, <1>5, <1>6 DEF d

\* The files of an installation.
LEMMA InstallUnitKeeps ==
    ASSUME Inv, Recorded, NEW p \in Procs, InstallUnit(p)
    PROVE  Inv'
<1> DEFINE c == cmd[p]
<1>1. /\ c \in CmdType /\ c.op = "Install" /\ lock = p /\ InstallStands(p) /\ c.step = "install.unit"
      /\ UNCHANGED <<bins, desc, native, lock>> /\ UNCHANGED managerVars
      /\ desc \in Descriptors /\ native \subseteq Homes /\ c.step \in Staged
  BY WhoseStep, InvParts DEF InstallUnit, At, InstallSteps, Staged
<1>2. /\ c.mine.cfg \in OptRelease /\ c.mine.cfg # NoRelease
      /\ c.was = unit /\ (c.was = NoRelease => IsStopped)
  BY <1>1, SmallTypes DEF InstallStands, CmdType
<1>3. unit' \in OptRelease /\ unit' # NoRelease
  BY <1>1, <1>2, InvParts DEF InstallUnit, ManagerTypeOK
<1>4. /\ ManagerTypeOK' /\ SvcShape' /\ Remains /\ IsStopped' = IsStopped
  BY <1>1, <1>3, FilesMove
<1>5. PICK s \in {"install.verify", "install.reload"} : Goto(p, s)
  BY DEF InstallUnit
<1>6. s \in Steps /\ s \in InstallSteps
  BY DEF Steps, InstallSteps
<1>7. /\ cmd'[p].op = "Install" /\ cmd'[p].step = s /\ cmd'[p].mine = c.mine
      /\ cmd'[p].was = c.was
  BY <1>1, <1>5, <1>6, GotoIs
<1>8. Knows(cmd[p].mine)' /\ ReceiptIsTrue(cmd[p].mine)'
  BY <1>1, <1>4, <1>7, StagedMoves, Names
  DEF Knows, OwnedProcess, ProcessRuns, ReceiptIsTrue, Pending
<1>9. InstallStands(p)'
  BY <1>2, <1>4, <1>7, <1>8 DEF InstallStands
<1>10. Stands(p)'
  BY <1>6, <1>7, <1>9, StandsBy
<1>11. (Installed' => Knows(desc)') /\ ReceiptIsTrue(desc)'
  BY <1>1, <1>4, DescriptorStays
<1> QED BY <1>1, <1>3, <1>4, <1>5, <1>6, <1>10, <1>11, ActKeeps

LEMMA InstallVerifyKeeps ==
    ASSUME Inv, Recorded, NEW p \in Procs, InstallVerify(p)
    PROVE  Inv'
<1> DEFINE c == cmd[p]
<1>1. /\ c \in CmdType /\ c.op = "Install" /\ lock = p /\ InstallStands(p)
      /\ c.step = "install.verify" /\ c.step \in Staged
      /\ UNCHANGED <<world, lock>> /\ UNCHANGED <<unit, bins, desc>> /\ UNCHANGED managerVars
      /\ unit' \in OptRelease
  BY WhoseStep, InvParts DEF InstallVerify, At, InstallSteps, Staged, world, ManagerTypeOK
<1>2. ManagerTypeOK' /\ Remains /\ IsStopped' = IsStopped
  BY <1>1, FilesMove
<1>3. PICK s \in {"install.descriptor", "install.undo"} : Goto(p, s)
  BY DEF InstallVerify
<1>4. s \in Steps /\ s \in InstallSteps
  BY DEF Steps, InstallSteps
<1>5. /\ cmd'[p].op = "Install" /\ cmd'[p].step = s /\ cmd'[p].mine = c.mine
      /\ cmd'[p].was = c.was
  BY <1>1, <1>3, <1>4, GotoIs
<1>6. Knows(cmd[p].mine)' /\ ReceiptIsTrue(cmd[p].mine)'
  BY <1>1, <1>2, <1>5, StagedMoves, Names
  DEF Knows, OwnedProcess, ProcessRuns, ReceiptIsTrue, Pending
<1>7. InstallStands(p)'
  BY <1>1, <1>2, <1>5, <1>6 DEF InstallStands
<1>8. Stands(p)'
  BY <1>4, <1>5, <1>7, StandsBy
<1> QED BY <1>1, <1>3, <1>4, <1>8, LookOnKeeps

LEMMA InstallDescriptorKeeps ==
    ASSUME Inv, Recorded, NEW p \in Procs, InstallDescriptor(p)
    PROVE  Inv'
<1> DEFINE c == cmd[p]
<1>1. /\ c \in CmdType /\ c.op = "Install" /\ lock = p /\ InstallStands(p)
      /\ c.step = "install.descriptor" /\ c.step \in Staged
      /\ UNCHANGED <<unit, bins, native, lock>> /\ UNCHANGED managerVars /\ unit' \in OptRelease
      /\ desc \in Descriptors /\ native \subseteq Homes /\ (unit = NoRelease => IsStopped)
  BY WhoseStep, InvParts DEF InstallDescriptor, At, InstallSteps, Staged, ManagerTypeOK
<1>2. ManagerTypeOK' /\ SvcShape' /\ Remains /\ IsStopped' = IsStopped
  BY <1>1, FilesMove
<1>3. PICK s \in {"install.reload", "install.undo"} :
         Goto(p, s) /\ (desc' = c.mine \/ desc' = desc)
  BY DEF InstallDescriptor
<1>4. s \in Steps /\ s \in InstallSteps
  BY DEF Steps, InstallSteps
<1>5. /\ cmd'[p].op = "Install" /\ cmd'[p].step = s /\ cmd'[p].mine = c.mine
      /\ cmd'[p].was = c.was
  BY <1>1, <1>3, <1>4, GotoIs
<1>6. InstallStands(p)'
  BY <1>1, <1>2, <1>5 DEF InstallStands, Staged
<1>7. Stands(p)'
  BY <1>4, <1>5, <1>6, StandsBy
<1>8. desc' \in Descriptors /\ (Installed' => Knows(desc)') /\ ReceiptIsTrue(desc)'
  <2>1. CASE desc' = desc
    BY <1>1, <1>2, <2>1, DescriptorStays
  <2>2. CASE desc' = c.mine
    BY <1>1, <1>2, <2>2, StagedMoves, Names
    DEF Knows, OwnedProcess, ProcessRuns, ReceiptIsTrue, Pending
  <2> QED BY <1>3, <2>1, <2>2
<1> QED BY <1>1, <1>2, <1>3, <1>4, <1>7, <1>8, ActKeeps

LEMMA InstallEndsKeeps ==
    ASSUME Inv, Recorded, NEW p \in Procs, InstallUndo(p) \/ InstallReload(p)
    PROVE  Inv'
<1> DEFINE c == cmd[p]
<1>1. /\ c \in CmdType /\ lock = p /\ InstallStands(p) /\ Finish(p)
      /\ UNCHANGED <<bins, desc, native>> /\ desc \in Descriptors /\ native \subseteq Homes
      /\ (unit = NoRelease => IsStopped) /\ c.was \in OptRelease /\ ManagerTypeOK /\ SvcShape
  BY WhoseStep, InvParts DEF InstallUndo, InstallReload, At, InstallSteps, CmdType
<1>2. /\ ManagerTypeOK' /\ SvcShape' /\ Remains /\ (unit' = NoRelease => IsStopped')
  <2>1. CASE InstallUndo(p)
    <3>1. unit' = c.was /\ UNCHANGED managerVars /\ (c.was = NoRelease => IsStopped)
      BY <1>1, <2>1 DEF InstallUndo, InstallStands, At
    <3> QED BY <1>1, <3>1, FilesMove
  <2>2. CASE InstallReload(p)
    <3>1. PICK ok \in BOOLEAN : SystemctlReload(ok)
      BY <2>2 DEF InstallReload
    <3>2. unit' = unit
      BY <2>2 DEF InstallReload
    <3> QED BY <1>1, <3>1, <3>2, FileActs DEF IsStopped
  <2> QED BY <2>1, <2>2
<1>3. (Installed' => Knows(desc)') /\ ReceiptIsTrue(desc)'
  BY <1>1, <1>2, DescriptorStays
<1> QED BY <1>1, <1>2, <1>3, FinishKeeps

-----------------------------------------------------------------------------
(***************************************************************************)
(* Uninstall.                                                              *)
(***************************************************************************)
LEMMA RemoveReadKeeps ==
    ASSUME Inv, Recorded, NEW p \in Procs, RemoveRead(p)
    PROVE  Inv'
<1> DEFINE c == cmd[p]
           s == IF unit = NoRelease THEN "remove.reload" ELSE "remove.inventory"
           n == [c EXCEPT !.step = s, !.mine = desc, !.was = unit]
<1>1. /\ c \in CmdType /\ c.op = "Uninstall" /\ lock = p /\ UNCHANGED world /\ lock' = lock
      /\ Installed /\ desc \in Descriptors /\ unit \in OptRelease /\ cmd \in [Procs -> CmdType]
      /\ UNCHANGED <<unit, desc>>
  BY WhoseStep, InvParts, TypeParts DEF RemoveRead, At, UninstallSteps, ManagerTypeOK, world
<1>2. cmd' = [cmd EXCEPT ![p] = n]
  BY <1>1 DEF RemoveRead
<1>3. /\ n \in CmdType /\ n.op = "Uninstall" /\ n.step = s /\ n.mine = desc /\ n.was = unit
      /\ s \in UninstallSteps
  BY <1>1 DEF CmdType, Steps, UninstallSteps
<1>4. /\ unit = NoRelease => s = "remove.reload"
      /\ unit # NoRelease => s = "remove.inventory"
  OBVIOUS
<1> HIDE DEF n, s
<1>5. cmd'[p] = n
  BY <1>1, <1>2
<1>6. UninstallStands(p)'
  BY <1>1, <1>3, <1>4, <1>5 DEF UninstallStands, Installed
<1>7. Stands(p)'
  BY <1>3, <1>5, <1>6, StandsBy
<1> QED BY <1>1, <1>2, <1>3, <1>7, LookKeeps

LEMMA RemoveLooksKeeps ==
    ASSUME Inv, Recorded, NEW p \in Procs,
           RemoveInventory(p) \/ RemoveStopped(p) \/ RemoveGone(p)
    PROVE  Inv'
<1> DEFINE c == cmd[p]
<1>1. /\ c \in CmdType /\ c.op = "Uninstall" /\ lock = p /\ UninstallStands(p)
      /\ c.step \in {"remove.inventory", "remove.stopped", "remove.gone"}
      /\ UNCHANGED <<world, lock>> /\ UNCHANGED <<unit, desc, loaded, enabled, svc>>
  BY WhoseStep, InvParts
  DEF RemoveInventory, RemoveStopped, RemoveGone, At, UninstallSteps, world, managerVars
<1>2. PICK s \in {"remove.disable", "remove.unit", "remove.descriptor"} :
         /\ Goto(p, s)
         /\ s = "remove.disable" => c.step = "remove.inventory"
         /\ s = "remove.unit" => c.step = "remove.stopped" /\ (~Loaded \/ svc.state = "inactive")
         /\ s = "remove.descriptor" => c.step = "remove.gone" /\ ~Loaded /\ ~enabled
  BY DEF RemoveInventory, RemoveStopped, RemoveGone, At
<1>3. s \in Steps /\ s \in UninstallSteps
  BY DEF Steps, UninstallSteps
<1>4. /\ cmd'[p].op = "Uninstall" /\ cmd'[p].step = s /\ cmd'[p].mine = c.mine
      /\ cmd'[p].was = c.was
  BY <1>1, <1>2, <1>3, GotoIs
<1>5. /\ c.mine = desc /\ Installed
      /\ c.step \in {"remove.inventory", "remove.stopped"} => c.was = unit /\ unit # NoRelease
      /\ c.step = "remove.gone" => unit = NoRelease
  BY <1>1 DEF UninstallStands
<1>6. s = "remove.unit" => IsStopped
  BY <1>2, <1>5 DEF Loaded, Resolved, IsStopped
<1>7. s = "remove.descriptor" => loaded = NoRelease
  BY <1>2 DEF Loaded, Resolved
<1>8. UninstallStands(p)'
  BY <1>1, <1>2, <1>4, <1>5, <1>6, <1>7 DEF UninstallStands, Installed, IsStopped
<1>9. Stands(p)'
  BY <1>3, <1>4, <1>8, StandsBy
<1> QED BY <1>1, <1>2, <1>3, <1>9, LookOnKeeps

LEMMA RemoveActsKeeps ==
    ASSUME Inv, Recorded, NEW p \in Procs,
           RemoveDisable(p) \/ RemoveStop(p) \/ RemoveUnit(p) \/ RemoveReload(p)
    PROVE  Inv'
<1> DEFINE c == cmd[p]
<1>1. /\ c \in CmdType /\ c.op = "Uninstall" /\ lock = p /\ UninstallStands(p)
      /\ UNCHANGED <<bins, desc, native>> /\ desc \in Descriptors /\ native \subseteq Homes
      /\ c.step \in {"remove.disable", "remove.stop", "remove.unit", "remove.reload"}
      /\ ManagerTypeOK /\ SvcShape /\ (unit = NoRelease => IsStopped) /\ unit \in OptRelease
  BY WhoseStep, InvParts
  DEF RemoveDisable, RemoveStop, RemoveUnit, RemoveReload, At, UninstallSteps, ManagerTypeOK
<1>2. /\ c.mine = desc /\ Installed
      /\ c.step \in {"remove.disable", "remove.stop", "remove.unit"} => c.was = unit /\ unit # NoRelease
      /\ c.step = "remove.unit" => IsStopped
      /\ c.step = "remove.reload" => unit = NoRelease
  BY <1>1 DEF UninstallStands
<1>3. /\ ManagerTypeOK' /\ SvcShape' /\ Remains /\ (unit' = NoRelease => IsStopped')
      /\ unit' = unit \/ (unit' = NoRelease /\ c.step = "remove.unit")
  <2>1. CASE RemoveDisable(p) \/ RemoveReload(p)
    <3>1. /\ unit' = unit
          /\ \E ok \in BOOLEAN : SystemctlReload(ok) \/ SystemctlEnable(ok, FALSE)
      BY <2>1 DEF RemoveDisable, RemoveReload
    <3> QED BY <1>1, <3>1, FileActs DEF IsStopped
  <2>2. CASE RemoveStop(p)
    <3>1. unit' = unit /\ \E ok \in BOOLEAN : SystemctlStop(ok)
      BY <2>2 DEF RemoveStop
    <3> QED BY <1>1, <3>1, StopActs
  <2>3. CASE RemoveUnit(p)
    <3>1. unit' = NoRelease /\ UNCHANGED managerVars /\ c.step = "remove.unit"
      BY <2>3 DEF RemoveUnit, At
    <3> QED BY <1>1, <1>2, <3>1, FilesMove, SmallTypes
  <2> QED BY <2>1, <2>2, <2>3
<1>4. (Installed' => Knows(desc)') /\ ReceiptIsTrue(desc)'
  BY <1>1, <1>3, DescriptorStays
<1>5. CASE Finish(p)
  BY <1>1, <1>3, <1>4, <1>5, FinishKeeps
<1>6. ASSUME NEW s \in {"remove.stop", "remove.stopped", "remove.reload", "remove.gone"},
             Goto(p, s), lock' = lock,
             s \in {"remove.stop", "remove.stopped"} =>
                unit' = unit /\ c.step \in {"remove.disable", "remove.stop"},
             s \in {"remove.reload", "remove.gone"} => unit' = NoRelease
      PROVE  Inv'
  <2>1. s \in Steps /\ s \in UninstallSteps
    BY DEF Steps, UninstallSteps
  <2>2. /\ cmd'[p].op = "Uninstall" /\ cmd'[p].step = s /\ cmd'[p].mine = c.mine
        /\ cmd'[p].was = c.was
    BY <1>1, <1>6, <2>1, GotoIs
  <2>3. UninstallStands(p)'
    BY <1>1, <1>2, <1>6, <2>2 DEF UninstallStands, Installed
  <2>4. Stands(p)'
    BY <2>1, <2>2, <2>3, StandsBy
  <2> QED BY <1>1, <1>3, <1>4, <1>6, <2>1, <2>4, ActKeeps
<1>7. CASE RemoveDisable(p) /\ ~Finish(p)
  <2>1. c.step = "remove.disable" /\ unit' = unit /\ Goto(p, "remove.stop") /\ lock' = lock
    BY <1>7 DEF RemoveDisable, After, At
  <2> QED BY <1>6, <2>1
<1>8. CASE RemoveStop(p) /\ ~Finish(p)
  <2>1. c.step = "remove.stop" /\ unit' = unit /\ Goto(p, "remove.stopped") /\ lock' = lock
    BY <1>8 DEF RemoveStop, After, At
  <2> QED BY <1>6, <2>1
<1>9. CASE RemoveUnit(p)
  <2>1. unit' = NoRelease /\ Goto(p, "remove.reload") /\ lock' = lock
    BY <1>9 DEF RemoveUnit
  <2> QED BY <1>6, <2>1
<1>10. CASE RemoveReload(p) /\ ~Finish(p)
  <2>1. c.step = "remove.reload" /\ unit' = unit /\ Goto(p, "remove.gone") /\ lock' = lock
    BY <1>10 DEF RemoveReload, After, At
  <2> QED BY <1>2, <1>6, <2>1
<1> QED BY <1>5, <1>7, <1>8, <1>9, <1>10

LEMMA RemoveDescriptorKeeps ==
    ASSUME Inv, Recorded, NEW p \in Procs, RemoveDescriptor(p)
    PROVE  Inv'
<1>1. /\ lock = p /\ Finish(p) /\ UNCHANGED <<unit, bins, native>> /\ UNCHANGED managerVars
      /\ desc' = NoDescriptor /\ native \subseteq Homes /\ unit' \in OptRelease
      /\ (unit = NoRelease => IsStopped)
  BY WhoseStep, InvParts DEF RemoveDescriptor, At, UninstallSteps, ManagerTypeOK
<1>2. ManagerTypeOK' /\ SvcShape' /\ Remains /\ IsStopped' = IsStopped
  BY <1>1, FilesMove
<1>3. ~Installed' /\ ReceiptIsTrue(desc)' /\ desc' \in Descriptors
  BY <1>1, SmallTypes DEF Installed, NoDescriptor, ReceiptIsTrue, Pending
<1> QED BY <1>1, <1>2, <1>3, FinishKeeps

-----------------------------------------------------------------------------
(***************************************************************************)
(* Inspect, Ensure, Start and Restart.                                     *)
(***************************************************************************)
LEMMA ReadKeeps ==
    ASSUME Inv, Recorded, NEW p \in Procs, Read(p)
    PROVE  Inv'
<1> DEFINE c == cmd[p]
           s == IF c.op \in {"Start", "Restart"} THEN "inventory" ELSE "show"
           n == [c EXCEPT !.step = s, !.mine = desc]
<1>1. /\ c \in CmdType /\ c.op \in Observers /\ (c.op # "Inspect" => lock = p) /\ UNCHANGED world
      /\ lock' = lock /\ Installed /\ desc \in Descriptors /\ unit = desc.cfg
      /\ cmd \in [Procs -> CmdType] /\ UNCHANGED <<unit, desc>>
      /\ (lock = p <=> cmd[p].op \notin {"none", "Inspect"})
  BY WhoseStep, InvParts, TypeParts DEF Read, At, ObserveSteps, FilesAreOwned, world, LockIsHeld
<1>2. cmd' = [cmd EXCEPT ![p] = n]
  BY <1>1 DEF Read
<1>3. /\ n \in CmdType /\ n.op = c.op /\ n.step = s /\ n.mine = desc
      /\ s \in {"inventory", "show"} /\ (c.op = "Inspect" => s = "show")
  BY <1>1 DEF CmdType, Steps, ObserveSteps
<1> HIDE DEF n, s
<1>4. cmd'[p] = n
  BY <1>1, <1>2
<1>5. ObserverStands(p)'
  BY <1>1, <1>3, <1>4 DEF ObserverStands, Installed
<1>6. Stands(p)'
  BY <1>1, <1>3, <1>4, <1>5, StandsBy DEF ObserveSteps
<1>7. c.op # "none"
  BY <1>1 DEF Observers
<1> QED BY <1>1, <1>2, <1>3, <1>6, <1>7, LookKeeps

\* A call that looks at the service or at its process.
LEMMA WatchKeeps ==
    ASSUME Inv, Recorded, NEW p \in Procs,
           Inventory(p) \/ Show(p) \/ Probe(p) \/ AwaitShow(p) \/ AwaitProbe(p)
    PROVE  Inv'
<1> DEFINE c == cmd[p]
<1>1. /\ c \in CmdType /\ c.op \in Observers /\ ObserverStands(p) /\ UNCHANGED <<world, lock>>
      /\ UNCHANGED <<unit, bins, desc, loaded, svc>> /\ UNCHANGED managerVars
      /\ unit' \in OptRelease /\ cmd \in [Procs -> CmdType] /\ ManagerTypeOK
      /\ c.step \in {"inventory", "show", "probe", "await.show", "await.probe"}
      /\ (c.step \in {"inventory", "await.show", "await.probe"} => c.op # "Inspect")
  BY WhoseStep, InvParts, TypeParts
  DEF Inventory, Show, Probe, AwaitShow, AwaitProbe, At, ObserveSteps, world, managerVars,
      ManagerTypeOK
<1>2. PICK s \in {"enable", "verb", "probe", "ready", "await.show", "await.probe"}, pid \in OptPid :
         /\ cmd' = [cmd EXCEPT ![p] = [c EXCEPT !.step = s, !.pid = pid]]
         /\ s = "probe" => c.step = "show"
         /\ s \in {"enable", "verb", "await.show", "await.probe"} => c.op # "Inspect"
         /\ s = "verb" => LoadedMatches(c.mine)
         /\ s = "ready" => RunsReady(c.mine.cfg, pid)
  <2>1. c.pid \in OptPid /\ svc.pid \in OptPid /\ NoPid \in OptPid
    BY <1>1, SmallTypes DEF CmdType, ManagerTypeOK
  <2>2. ASSUME NEW s, Goto(p, s)
        PROVE  cmd' = [cmd EXCEPT ![p] = [c EXCEPT !.step = s, !.pid = c.pid]]
    <3>1. [c EXCEPT !.step = s] = [c EXCEPT !.step = s, !.pid = c.pid]
      BY <1>1 DEF CmdType
    <3>2. cmd' = [cmd EXCEPT ![p] = [c EXCEPT !.step = s]]
      BY <1>1, <2>2 DEF Goto
    <3> QED BY <3>1, <3>2
  <2>3. ASSUME NEW s, NEW pid, cmd' = [cmd EXCEPT ![p].step = s, ![p].pid = pid]
        PROVE  cmd' = [cmd EXCEPT ![p] = [c EXCEPT !.step = s, !.pid = pid]]
    BY <1>1, <2>3
  <2>4. CASE Inventory(p)
    <3>1. /\ c.step = "inventory" /\ c.op # "Inspect" /\ LoadedMatches(c.mine)
          /\ Goto(p, "enable") \/ Goto(p, "verb")
      BY <1>1, <2>4 DEF Inventory, InventoryOwned, At
    <3>2. CASE Goto(p, "enable")
      BY <1>1, <2>1, <2>2, <3>1, <3>2
    <3>3. CASE Goto(p, "verb")
      BY <1>1, <2>1, <2>2, <3>1, <3>3
    <3> QED BY <3>1, <3>2, <3>3
  <2>5. CASE Show(p)
    BY <1>1, <2>1, <2>2, <2>3, <2>5 DEF Show, At
  <2>6. CASE Probe(p)
    BY <1>1, <2>1, <2>2, <2>6 DEF Probe, At
  <2>7. CASE AwaitShow(p)
    BY <1>1, <2>1, <2>3, <2>7 DEF AwaitShow, At
  <2>8. CASE AwaitProbe(p)
    BY <1>1, <2>1, <2>2, <2>3, <2>8 DEF AwaitProbe, At
  <2> QED BY <2>4, <2>5, <2>6, <2>7, <2>8
<1> DEFINE n == [c EXCEPT !.step = s, !.pid = pid]
<1>3. n \in CmdType /\ n.op = c.op /\ n.step = s /\ n.mine = c.mine /\ n.pid = pid
  BY <1>1 DEF CmdType, Steps, ObserveSteps
<1>4. cmd' = [cmd EXCEPT ![p] = n]
  BY <1>2
<1> HIDE DEF n
<1>5. cmd'[p] = n
  BY <1>1, <1>4
<1>6. c.op # "Inspect" => c.mine = desc /\ Installed /\ unit = desc.cfg
  BY <1>1 DEF ObserverStands
<1>7. s = "ready" => pid # NoPid /\ ran'[pid] = c.mine.cfg /\ svc'.rel = c.mine.cfg
  <2>1. ManagerTypeOK' /\ Remains
    BY <1>1, FilesMove
  <2>2. svc'.pid # NoPid => ran'[svc'.pid] = svc'.rel
    BY <2>1, ServiceMoves
  <2>3. s = "ready" => pid # NoPid /\ svc.pid = pid /\ svc.rel = c.mine.cfg
    BY <1>2 DEF RunsReady, ProcessRuns
  <2> QED BY <1>1, <2>2, <2>3
<1>8. s = "verb" => Resolved' = desc.cfg
  BY <1>1, <1>2, <1>6 DEF LoadedMatches, Resolved
<1>9. ObserverStands(p)'
  BY <1>1, <1>3, <1>5, <1>6, <1>7, <1>8 DEF ObserverStands, Installed
<1>10. Stands(p)'
  BY <1>1, <1>2, <1>3, <1>5, <1>9, StandsBy DEF ObserveSteps
<1>11. c.op # "none" /\ (lock = p <=> c.op \notin {"none", "Inspect"})
  BY <1>1, InvParts, TypeParts DEF Observers, LockIsHeld
<1> QED BY <1>1, <1>3, <1>4, <1>10, <1>11, LookKeeps

\* Enable, and the verb that starts a process.
LEMMA VerbKeeps ==
    ASSUME Inv, Recorded, NEW p \in Procs, Enable(p) \/ Verb(p)
    PROVE  Inv'
<1> DEFINE c == cmd[p]
<1>1. /\ c \in CmdType /\ c.op \in Observers /\ ObserverStands(p) /\ UNCHANGED <<unit, bins, desc, native>>
      /\ c.op # "Inspect" /\ lock = p /\ ManagerTypeOK /\ SvcShape /\ (unit = NoRelease => IsStopped)
      /\ desc \in Descriptors /\ native \subseteq Homes /\ c.step \in {"enable", "verb"}
  BY WhoseStep, InvParts DEF Enable, Verb, At, ObserveSteps
<1>2. c.mine = desc /\ Installed /\ unit = desc.cfg /\ unit' # NoRelease
  BY <1>1 DEF ObserverStands, Installed
<1>3. ManagerTypeOK' /\ SvcShape' /\ (Remains \/ Spawns(Fresh))
  <2>1. CASE Enable(p)
    <3>1. PICK ok \in BOOLEAN : SystemctlEnable(ok, TRUE)
      BY <2>1 DEF Enable
    <3> QED BY <1>1, <3>1, FileActs
  <2>2. CASE Verb(p)
    <3>1. PICK ok \in BOOLEAN : SystemctlRestart(ok, Fresh) \/ SystemctlStart(ok, Fresh)
      BY <2>2 DEF Verb
    <3> QED BY <1>1, <3>1, Names, VerbActs
  <2> QED BY <2>1, <2>2
<1>4. (Installed' => Knows(desc)') /\ ReceiptIsTrue(desc)'
  BY <1>1, <1>3, DescriptorStays
<1>5. CASE Finish(p)
  BY <1>1, <1>2, <1>3, <1>4, <1>5, FinishKeeps
<1>6. ASSUME NEW s \in {"show", "await.show"}, Goto(p, s), lock' = lock
      PROVE  Inv'
  <2>1. s \in Steps /\ s \in ObserveSteps
    BY DEF Steps, ObserveSteps
  <2>2. cmd'[p].op = c.op /\ cmd'[p].step = s /\ cmd'[p].mine = c.mine
    BY <1>6, <2>1, GotoIs
  <2>3. ObserverStands(p)'
    BY <1>1, <1>2, <2>2 DEF ObserverStands, Installed
  <2>4. Stands(p)'
    BY <1>1, <2>1, <2>2, <2>3, StandsBy
  <2>5. c.op \notin {"none", "Inspect"}
    BY <1>1 DEF Observers
  <2> QED BY <1>1, <1>2, <1>3, <1>4, <1>6, <2>1, <2>4, <2>5, ActKeeps
<1>7. Finish(p) \/ (lock' = lock /\ (Goto(p, "show") \/ Goto(p, "await.show")))
  BY DEF Enable, Verb, After
<1> QED BY <1>5, <1>6, <1>7

LEMMA ReadyKeeps ==
    ASSUME Inv, Recorded, NEW p \in Procs, Ready(p)
    PROVE  Inv'
<1> DEFINE c == cmd[p]
<1>1. /\ c \in CmdType /\ ObserverStands(p) /\ c.step = "ready" /\ Finish(p)
      /\ UNCHANGED <<unit, bins, native>> /\ UNCHANGED managerVars /\ (c.op # "Inspect" => lock = p)
      /\ desc \in Descriptors /\ native \subseteq Homes /\ (unit = NoRelease => IsStopped)
      /\ unit' \in OptRelease
  BY WhoseStep, InvParts DEF Ready, At, ObserveSteps, ManagerTypeOK
<1>2. /\ ManagerTypeOK' /\ SvcShape' /\ Remains /\ UNCHANGED <<loaded, enabled, svc>>
      /\ IsStopped' = IsStopped /\ (Active' /\ ~overtaken' => Active /\ ~overtaken)
  BY <1>1, FilesMove
<1>3. CASE desc' = desc
  <2>1. (Installed' => Knows(desc)') /\ ReceiptIsTrue(desc)'
    BY <1>1, <1>2, <1>3, DescriptorStays
  <2>2. Outside
    BY <1>1, <1>2, <1>3 DEF Outside, IsStopped
  <2> QED BY <1>1, <1>2, <1>3, <2>1, <2>2, FinishKeeps
<1>4. CASE desc' # desc
  <2>1. c.op # "Inspect" /\ desc = c.mine /\ desc' = Cleared(desc)
    BY <1>1, <1>4 DEF Ready
  <2>2. desc' \in Descriptors /\ desc'.cfg = desc.cfg /\ desc'.pid = NoPid
    BY <1>1, <2>1, SmallTypes DEF Cleared, Wanted
  <2>3. Active /\ ~overtaken => svc.rel = desc.cfg
    BY <1>1, <2>1 DEF ObserverStands
  <2>4. Knows(desc)' /\ ReceiptIsTrue(desc)'
    BY <1>2, <2>2, <2>3 DEF Knows, OwnedProcess, ProcessRuns, ReceiptIsTrue, Pending, SvcShape
  <2> QED BY <1>1, <1>2, <2>1, <2>2, <2>4, FinishKeeps
<1> QED BY <1>3, <1>4

-----------------------------------------------------------------------------
LEMMA InitHolds == Init => Inv
<1> SUFFICES ASSUME Init PROVE Inv
  OBVIOUS
<1>1. /\ svc = Stopped("inactive") /\ enabled \in BOOLEAN /\ excused \in BOOLEAN
      /\ loaded \in OptRelease /\ unit = loaded /\ desc = Wanted(loaded)
      /\ bins = [c \in Releases |-> "file"] /\ native = {} /\ lock = NoProc
      /\ cmd = [p \in Procs |-> Idle] /\ ran = [pid \in Pids |-> NoRelease] /\ overtaken = FALSE
  BY SmallTypes, LegacyAssumption DEF Init, ManagerInit
<1>2. Idle.op = "none" /\ Idle.step = "idle"
  BY DEF Idle
<1>3. svc \in SvcType /\ svc.state = "inactive" /\ svc.pid = NoPid
  BY <1>1, SvcTypes DEF Stopped
<1>4. ManagerTypeOK
  BY <1>1, <1>3, SvcTypes
<1>5. desc \in Descriptors /\ ~Pending(desc)
  BY <1>1, SmallTypes DEF Wanted, Pending
<1>6. TypeOK
  <2>1. LockIsHeld
    BY <1>1, <1>2, ProcsAssumption DEF LockIsHeld
  <2>2. cmd \in [Procs -> CmdType] /\ ran \in [Pids -> OptRelease]
    BY <1>1, SmallTypes
  <2> QED BY <1>1, <1>4, <1>5, <2>1, <2>2, TypeParts
<1>7. ServiceStands /\ SourceIsKnown
  BY <1>3, <1>5 DEF ServiceStands, SourceIsKnown, Active, IsStopped
<1>8. \A p \in Procs : Stands(p)
  BY <1>1, <1>2 DEF Stands, StepsOf, Observers
<1> QED BY <1>6, <1>7, <1>8 DEF Inv

LEMMA StutterKeeps ==
    ASSUME Inv, UNCHANGED vars
    PROVE  Inv'
<1>1. UNCHANGED <<unit, bins, loaded, enabled, svc, excused, desc, native, lock, cmd, ran, overtaken>>
  BY DEF vars, managerVars
<1>2. TypeOK'
  BY <1>1 DEF Inv, TypeOK, ManagerTypeOK, OptRelease, OptPid, Descriptors
<1>3. ServiceStands' /\ SourceIsKnown'
  BY <1>1 DEF Inv, ServiceStands, SourceIsKnown, Active, IsStopped, Installed, OwnedProcess,
              ProcessRuns, Pending
<1>4. ASSUME NEW p \in Procs PROVE Stands(p)'
  <2>1. Stands(p)
    BY DEF Inv
  <2> QED
    BY <1>1, <2>1
    DEF Stands, InstallStands, UninstallStands, ObserverStands, Knows, ReceiptIsTrue, Active,
        IsStopped, Installed, OwnedProcess, ProcessRuns, Pending, FilesAreOwned, Resolved
<1> QED BY <1>2, <1>3, <1>4 DEF Inv

LEMMA ProcKeeps ==
    ASSUME Inv, Recorded, NEW p \in Procs, ProcNext(p)
    PROVE  Inv'
BY BeginKeeps, InstallReadKeeps, InstallStageKeeps, InstallObserveKeeps, InstallUnitKeeps,
   InstallVerifyKeeps, InstallDescriptorKeeps, InstallEndsKeeps, RemoveReadKeeps,
   RemoveLooksKeeps, RemoveActsKeeps, RemoveDescriptorKeeps, ReadKeeps, WatchKeeps, VerbKeeps,
   ReadyKeeps DEF ProcNext

LEMMA InvHolds == Spec => []Inv
<1>1. Inv /\ [Next]_vars => Inv'
  BY ProcKeeps, EnvironmentKeeps, RebootKeeps, StutterKeeps DEF Next
<1> QED BY <1>1, InitHolds, PTL DEF Spec

\* However often a configuration is staged over another, and whatever dies in
\* between, the process that runs is the wanted one or the one that the receipt
\* names, unless the manager started it in the meantime
\* (codexServicePendingTransition, descriptorForInstallStage).
THEOREM SourceIsAlwaysKnown == Spec => []RunningSourceIsKnown
<1>1. Inv => RunningSourceIsKnown
  BY DEF Inv, RunningSourceIsKnown
<1> QED BY <1>1, InvHolds, PTL

-----------------------------------------------------------------------------
(***************************************************************************)
(* What a step may do.                                                     *)
(***************************************************************************)
\* A step of one call leaves the others' variables alone.
LEMMA OwnCall ==
    ASSUME Inv, NEW q \in Procs, ProcNext(q), NEW p \in Procs \ {q}
    PROVE  cmd'[p] = cmd[p]
<1>1. cmd \in [Procs -> CmdType]
  BY InvParts, TypeParts
<1>2. CASE BeginInstall(q) \/ BeginLocked(q) \/ BeginInspect(q) \/ Ends(q)
  BY <1>1, <1>2 DEF BeginInstall, BeginLocked, BeginInspect, Ends, Finish
<1>3. CASE InstallRead(q) \/ InstallStage(q) \/ InstallObserve(q) \/ InstallUnit(q)
  BY <1>1, <1>3 DEF InstallRead, InstallStage, InstallObserve, InstallUnit, Goto
<1>4. CASE InstallVerify(q) \/ InstallDescriptor(q) \/ InstallUndo(q) \/ InstallReload(q)
  BY <1>1, <1>4 DEF InstallVerify, InstallDescriptor, InstallUndo, InstallReload, Goto, Finish
<1>5. CASE RemoveRead(q) \/ RemoveInventory(q) \/ RemoveDisable(q) \/ RemoveStop(q)
           \/ RemoveStopped(q)
  BY <1>1, <1>5 DEF RemoveRead, RemoveInventory, RemoveDisable, RemoveStop, RemoveStopped, After,
                    Goto, Finish
<1>6. CASE RemoveUnit(q) \/ RemoveReload(q) \/ RemoveGone(q) \/ RemoveDescriptor(q)
  BY <1>1, <1>6 DEF RemoveUnit, RemoveReload, RemoveGone, RemoveDescriptor, After, Goto, Finish
<1>7. CASE Read(q) \/ Inventory(q) \/ Enable(q) \/ Show(q) \/ Probe(q)
  BY <1>1, <1>7 DEF Read, Inventory, Enable, Show, Probe, After, Goto, Finish
<1>8. CASE Verb(q) \/ AwaitShow(q) \/ AwaitProbe(q) \/ Ready(q)
  BY <1>1, <1>8 DEF Verb, AwaitShow, AwaitProbe, Ready, After, Goto, Finish
<1> QED BY <1>2, <1>3, <1>4, <1>5, <1>6, <1>7, <1>8 DEF ProcNext

\* A command starts no process, and reports none as ready, that runs another
\* configuration than the one it read (validateProcess, awaitReady).
THEOREM OnlyTheDesiredStarts == Spec => OnlyTheDesired
<1> DEFINE Desired(p) ==
       /\ At(p, "verb") /\ cmd'[p] # cmd[p] /\ svc'.pid \notin {svc.pid, NoPid} =>
             svc'.rel = desc.cfg
       /\ At(p, "ready") =>
             /\ ran[cmd[p].pid] = cmd[p].mine.cfg
             /\ cmd[p].op # "Inspect" => cmd[p].mine = desc /\ unit = desc.cfg
<1>1. Inv /\ [Next]_vars => [\A p \in Procs : Desired(p)]_vars
  <2> SUFFICES ASSUME Inv, Next, NEW p \in Procs PROVE Desired(p)
    BY DEF vars
  <2>1. At(p, "ready") =>
             /\ ran[cmd[p].pid] = cmd[p].mine.cfg
             /\ cmd[p].op # "Inspect" => cmd[p].mine = desc /\ unit = desc.cfg
    BY WhoseStep DEF At, ObserveSteps, ObserverStands
  <2>2. ASSUME At(p, "verb"), cmd'[p] # cmd[p], svc'.pid \notin {svc.pid, NoPid}
        PROVE  svc'.rel = desc.cfg
    <3>1. cmd[p].step = "verb" /\ cmd[p].op # "Inspect" /\ unit = desc.cfg /\ Resolved = desc.cfg
      BY <2>2, WhoseStep DEF At, ObserveSteps, ObserverStands
    <3>2. cmd[p] # Idle
      BY <3>1 DEF Idle
    <3>3. CASE ProcNext(p)
      <4>1. Verb(p) \/ Ends(p)
        BY <3>1, <3>2, <3>3
        DEF ProcNext, At, BeginInstall, BeginLocked, BeginInspect, InstallRead, InstallStage,
            InstallObserve, InstallUnit, InstallVerify, InstallDescriptor, InstallUndo,
            InstallReload, RemoveRead, RemoveInventory, RemoveDisable, RemoveStop, RemoveStopped,
            RemoveUnit, RemoveReload, RemoveGone, RemoveDescriptor, Read, Inventory, Enable, Show,
            Probe, AwaitShow, AwaitProbe, Ready
      <4>2. CASE Ends(p)
        BY <2>2, <4>2 DEF Ends, world, managerVars
      <4>3. CASE Verb(p)
        <5>1. /\ UNCHANGED <<unit, bins>>
              /\ \E ok \in BOOLEAN : SystemctlRestart(ok, Fresh) \/ SystemctlStart(ok, Fresh)
          BY <4>3 DEF Verb
        <5>2. Remains \/ svc'.rel = Resolved
          BY <5>1, InvParts, Names, VerbActs
        <5> QED BY <2>2, <3>1, <5>2 DEF Remains
      <4> QED BY <4>1, <4>2, <4>3
    <3>4. CASE \E q \in Procs \ {p} : ProcNext(q)
      BY <2>2, <3>4, OwnCall
    <3>5. CASE ManagerActs \/ NativeDaemon
      BY <2>2, <3>5 DEF ManagerActs, NativeDaemon
    <3>6. CASE Reboot
      <4>1. svc' = Stopped("inactive") \/ svc' = Stopped("failed")
            \/ \E pid \in Fresh : svc' = Running(pid, unit)
        BY <3>6 DEF Reboot, Boot
      <4> QED BY <2>2, <3>1, <4>1 DEF Stopped, Running
    <3> QED BY <3>3, <3>4, <3>5, <3>6 DEF Next
  <2> QED BY <2>1, <2>2
<1> QED BY <1>1, InvHolds, PTL DEF Spec, OnlyTheDesired

\* The descriptor goes last: whatever an uninstallation leaves behind when it
\* fails or dies is recognised by the next one (verifyUninstalled, Uninstall).
THEOREM DescriptorAlwaysGoesLast == Spec => DescriptorGoesLast
<1> DEFINE Last == Installed /\ desc'.cfg = NoRelease =>
                      unit = NoRelease /\ ~Loaded /\ ~enabled /\ svc.pid = NoPid
<1>1. Inv /\ [Next]_vars => [Last]_vars
  <2> SUFFICES ASSUME Inv, Next, Installed, desc'.cfg = NoRelease
               PROVE  unit = NoRelease /\ ~Loaded /\ ~enabled /\ svc.pid = NoPid
    BY DEF vars
  <2>1. desc' # desc
    BY DEF Installed
  <2>2. PICK p \in Procs : ProcNext(p)
    BY <2>1 DEF Next, ManagerActs, NativeDaemon, Reboot
  <2>3. InstallDescriptor(p) \/ RemoveDescriptor(p) \/ Ready(p)
    BY <2>1, <2>2
    DEF ProcNext, BeginInstall, BeginLocked, BeginInspect, Ends, InstallRead, InstallStage,
        InstallObserve, InstallUnit, InstallVerify, InstallUndo, InstallReload, RemoveRead,
        RemoveInventory, RemoveDisable, RemoveStop, RemoveStopped, RemoveUnit, RemoveReload,
        RemoveGone, Read, Inventory, Enable, Show, Probe, Verb, AwaitShow, AwaitProbe, world
  <2>4. ~InstallDescriptor(p)
    <3> SUFFICES ASSUME InstallDescriptor(p) PROVE FALSE
      OBVIOUS
    <3>1. cmd[p].mine.cfg # NoRelease /\ desc' = cmd[p].mine
      BY <2>1, WhoseStep DEF InstallDescriptor, At, InstallSteps, InstallStands
    <3> QED BY <3>1
  <2>5. ~Ready(p)
    <3> SUFFICES ASSUME Ready(p) PROVE FALSE
      OBVIOUS
    <3>1. desc' = Cleared(desc)
      BY <2>1 DEF Ready
    <3> QED BY <3>1 DEF Cleared, Wanted, Installed
  <2>6. CASE RemoveDescriptor(p)
    <3>1. unit = NoRelease /\ loaded = NoRelease /\ ~enabled
      BY <2>6, WhoseStep DEF RemoveDescriptor, At, UninstallSteps, UninstallStands
    <3>2. svc.pid = NoPid
      BY <3>1, InvParts DEF IsStopped, SvcShape
    <3> QED BY <3>1, <3>2 DEF Loaded, Resolved
  <2> QED BY <2>3, <2>4, <2>5, <2>6
<1> QED BY <1>1, InvHolds, PTL DEF Spec, DescriptorGoesLast
=============================================================================
