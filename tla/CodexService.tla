----------------------------- MODULE CodexService -----------------------------
(***************************************************************************)
(* The shared Codex App Server (runtime/agenthost): one systemd user       *)
(* service that kit processes install, start, restart, observe and         *)
(* uninstall.  A new configuration is staged beside the running process:   *)
(* the descriptor names the configuration wanted and, in a receipt, the    *)
(* process that still runs another one, until a confirmed restart.         *)
(*                                                                         *)
(* A release of ServiceManager is here a launch configuration: executable, *)
(* CODEX_HOME and socket.  A pid stands for MainPID and InvocationID.      *)
(***************************************************************************)
EXTENDS ServiceManager, FiniteSets

CONSTANTS Homes,    \* Codex homes
          HomeOf,   \* the home of each configuration
          Legacy,   \* configurations of older kits, on a socket of their own
          Procs,    \* kit processes
          NoProc    \* the lock is free

ASSUME HomesAssumption == HomeOf \in [Releases -> Homes]
ASSUME LegacyAssumption == Legacy \subseteq Releases
ASSUME ProcsAssumption == NoProc \notin Procs

VARIABLES
    desc,       \* the descriptor: configuration and pending transition
    native,     \* homes on whose canonical socket an unmanaged daemon listens
    lock,       \* the holder of the lifecycle flock
    cmd,        \* per process: its operation and local variables
    ran,        \* history: the configuration each process that is still named
                \* anywhere was started with
    overtaken   \* history: the manager started the running process while an
                \* installation was being staged, or from a definition that
                \* is not the descriptor's

vars == <<unit, bins, managerVars, desc, native, lock, cmd, ran, overtaken>>

\* cfg = NoRelease: no descriptor; prev, pid: the receipt, or none.
Descriptors == [cfg : OptRelease, prev : OptRelease, pid : OptPid]
NoDescriptor == [cfg |-> NoRelease, prev |-> NoRelease, pid |-> NoPid]
Wanted(c) == [cfg |-> c, prev |-> NoRelease, pid |-> NoPid]

Installed == desc.cfg # NoRelease
Pending(d) == d.pid # NoPid
Cleared(d) == Wanted(d.cfg)

Idle == [op |-> "none", step |-> "idle", mine |-> NoDescriptor,
         was |-> NoRelease, pid |-> NoPid]

Observers == {"Inspect", "Ensure", "Start", "Restart"}
Ops == Observers \cup {"Install", "Uninstall"}
InstallSteps == {"install.read", "install.stage", "install.observe", "install.unit",
                 "install.verify", "install.descriptor", "install.undo", "install.reload"}
UninstallSteps == {"remove.read", "remove.inventory", "remove.disable", "remove.stop",
                   "remove.stopped", "remove.unit", "remove.reload", "remove.gone",
                   "remove.descriptor"}
ObserveSteps == {"read", "inventory", "enable", "show", "probe", "verb",
                 "await.show", "await.probe", "ready"}

\* Every variable holds a value of its type, and the lock is held by the process
\* whose operation needs it, also after every error return.
TypeOK ==
    /\ ManagerTypeOK
    /\ desc \in Descriptors
    /\ native \subseteq Homes
    /\ lock \in Procs \cup {NoProc}
    /\ cmd \in [Procs -> [op : Ops \cup {"none"},
                          step : InstallSteps \cup UninstallSteps \cup ObserveSteps \cup {"idle"},
                          mine : Descriptors, was : OptRelease, pid : OptPid]]
    /\ ran \in [Pids -> OptRelease]
    /\ overtaken \in BOOLEAN
    /\ \A p \in Procs : lock = p <=> cmd[p].op \notin {"none", "Inspect"}

\* Nothing is installed, or an older kit's service is, running or not.
Init ==
    /\ ManagerInit \/ \E c \in Legacy : /\ loaded = c /\ enabled = TRUE /\ excused = FALSE
                                        /\ svc = Stopped("inactive")
    /\ unit = loaded /\ desc = Wanted(loaded)
    /\ bins = [c \in Releases |-> "file"]
    /\ native = {}
    /\ lock = NoProc /\ cmd = [p \in Procs |-> Idle]
    /\ ran = [pid \in Pids |-> NoRelease] /\ overtaken = FALSE

At(p, step) == cmd[p].step = step
Goto(p, step) == cmd' = [cmd EXCEPT ![p].step = step]

Finish(p) ==
    /\ cmd' = [cmd EXCEPT ![p] = Idle]
    /\ lock' = IF lock = p THEN NoProc ELSE lock

\* The identities the state names.  Any other may be that of a new process: the
\* manager never gives one twice, and which one is of no consequence.
Named == {svc.pid, desc.pid} \cup UNION {{cmd[p].pid, cmd[p].mine.pid} : p \in Procs}
Fresh == Pids \ Named

(***************************************************************************)
(* What the operations observe.                                            *)
(***************************************************************************)
Canonical(c) == c \notin Legacy

\* The same socket: canonical sockets belong to a home, the older kits' socket
\* to the runtime directory.
SameSocket(c, d) == IF Canonical(c) THEN Canonical(d) /\ HomeOf[c] = HomeOf[d] ELSE ~Canonical(d)

\* inspectCodexServiceInstallation: a unit needs a descriptor and its contents.
FilesAreOwned == unit # NoRelease => unit = desc.cfg

\* loadedCodexServiceUnitMatches.
LoadedMatches(d) == Resolved = d.cfg

\* validateProcess of a pid a query returned: it must still be there.
ProcessRuns(c, pid) == pid # NoPid /\ svc.pid = pid /\ svc.rel = c

\* Somebody answers the handshake on the socket of c as a server of its home.
Answers(c) ==
    \/ svc.health = "ready" /\ SameSocket(svc.rel, c) /\ HomeOf[svc.rel] = HomeOf[c]
    \/ Canonical(c) /\ HomeOf[c] \in native

\* A mistake: a process that answers is taken for one of the configuration.
AnswersReady(c, pid) == pid # NoPid /\ svc.pid = pid /\ Answers(c)

\* inspectRunningConfiguration.
RunsReady(c, pid) == ProcessRuns(c, pid) /\ Answers(c)

\* The desired process, or exactly the one of the receipt.
OwnedProcess(d, pid) ==
    \/ ProcessRuns(d.cfg, pid)
    \/ Pending(d) /\ pid = d.pid /\ ProcessRuns(d.prev, pid)

\* nativeDaemonActive: the canonical socket of the home accepts connections.
Listening(home) ==
    \/ home \in native
    \/ svc.health = "ready" /\ Canonical(svc.rel) /\ HomeOf[svc.rel] = home

\* canonicalListenerOwnedByInstalledService.
OwnsListener(d, home) ==
    /\ d.cfg # NoRelease /\ Canonical(d.cfg) /\ HomeOf[d.cfg] = home
    /\ LoadedMatches(d) /\ Active
    /\ \/ ProcessRuns(d.cfg, svc.pid)
       \/ /\ Pending(d) /\ svc.pid = d.pid /\ ProcessRuns(d.prev, svc.pid)
          /\ Canonical(d.prev) /\ HomeOf[d.prev] = home

\* The canonical socket of the home is free or ours.
SocketIsOurs(d, home) == Listening(home) => OwnsListener(d, home)

\* verifyOwnedUnitInventory.
InventoryOwned(d) == LoadedMatches(d) /\ (Active => OwnedProcess(d, svc.pid))

-----------------------------------------------------------------------------
(***************************************************************************)
(* Starting and ending an operation.  The lock is taken before anything    *)
(* else; every operation but Install gives up when there is no descriptor. *)
(***************************************************************************)
world == <<unit, bins, managerVars, desc, native>>

BeginInstall(p) ==
    /\ cmd[p] = Idle /\ lock = NoProc
    /\ \E c \in Releases \ Legacy :
           cmd' = [cmd EXCEPT ![p] = [Idle EXCEPT !.op = "Install", !.step = "install.read",
                                                  !.mine = Wanted(c)]]
    /\ lock' = p
    /\ UNCHANGED world

BeginLocked(p) ==
    /\ cmd[p] = Idle /\ lock = NoProc /\ Installed
    /\ \/ cmd' = [cmd EXCEPT ![p] = [Idle EXCEPT !.op = "Uninstall", !.step = "remove.read"]]
       \/ \E op \in {"Ensure", "Start", "Restart"} :
              cmd' = [cmd EXCEPT ![p] = [Idle EXCEPT !.op = op, !.step = "read"]]
    /\ lock' = p
    /\ UNCHANGED world

\* Inspect takes no lock.
BeginInspect(p) ==
    /\ cmd[p] = Idle
    /\ cmd' = [cmd EXCEPT ![p] = [Idle EXCEPT !.op = "Inspect", !.step = "read"]]
    /\ UNCHANGED <<world, lock>>

\* An operation returns an error, a check it makes refuses, or its process dies.
\* Where a failed Install has something to undo, only its process can die.
Ends(p) ==
    /\ cmd[p] # Idle
    /\ Finish(p)
    /\ UNCHANGED world

(***************************************************************************)
(* Install.                                                                *)
(***************************************************************************)
InstallRead(p) ==
    /\ At(p, "install.read")
    /\ FilesAreOwned
    /\ LET home == HomeOf[cmd[p].mine.cfg] IN
       Listening(home) => unit # NoRelease /\ OwnsListener(desc, home)
    /\ cmd' = [cmd EXCEPT ![p].step = "install.stage", ![p].was = unit]
    /\ UNCHANGED <<world, lock>>

\* A mistake: a new configuration drops the receipt of an earlier one.
NotRetained(want) == Wanted(want)

\* retainedCodexServicePendingTransition.
Retained(want) ==
    IF ~Pending(desc) \/ desc.prev = want THEN Wanted(want) ELSE [desc EXCEPT !.cfg = want]

\* descriptorForInstallStage, its query of the manager.
InstallStage(p) ==
    /\ At(p, "install.stage")
    /\ \/ /\ ~Installed
          /\ Goto(p, "install.unit")
       \/ /\ Installed
          /\ ~Loaded \/ (LoadedMatches(desc) /\ ~Active)
          /\ cmd' = [cmd EXCEPT ![p].step = "install.unit",
                                ![p].mine = Retained(cmd[p].mine.cfg)]
       \/ /\ Installed /\ LoadedMatches(desc) /\ Active
          /\ cmd' = [cmd EXCEPT ![p].step = "install.observe", ![p].pid = svc.pid]
    /\ UNCHANGED <<world, lock>>

\* ... and of the process it named: the desired one, or the receipt's.
InstallObserve(p) ==
    LET want == cmd[p].mine.cfg
        pid  == cmd[p].pid
        Stage(d) == cmd' = [cmd EXCEPT ![p].step = "install.unit", ![p].mine = d,
                                       ![p].pid = NoPid]
    IN
    /\ At(p, "install.observe")
    /\ \/ /\ RunsReady(desc.cfg, pid)
          /\ Stage(IF desc.cfg = want THEN Wanted(want)
                   ELSE [cfg |-> want, prev |-> desc.cfg, pid |-> pid])
       \/ /\ ~RunsReady(desc.cfg, pid)
          /\ Pending(desc) /\ pid = desc.pid /\ RunsReady(desc.prev, pid)
          /\ Stage(Retained(want))
    /\ UNCHANGED <<world, lock>>

InstallUnit(p) ==
    LET changed == cmd[p].was # cmd[p].mine.cfg \/ desc # cmd[p].mine IN
    /\ At(p, "install.unit")
    /\ unit' = IF changed THEN cmd[p].mine.cfg ELSE unit
    /\ Goto(p, IF changed THEN "install.verify" ELSE "install.reload")
    /\ UNCHANGED <<bins, managerVars, desc, native, lock>>

InstallVerify(p) ==
    /\ At(p, "install.verify")
    /\ Goto(p, "install.descriptor") \/ Goto(p, "install.undo")
    /\ UNCHANGED <<world, lock>>

InstallDescriptor(p) ==
    /\ At(p, "install.descriptor")
    /\ \/ desc' = cmd[p].mine /\ Goto(p, "install.reload")
       \/ Goto(p, "install.undo") /\ UNCHANGED desc
    /\ UNCHANGED <<unit, bins, managerVars, native, lock>>

\* restoreOwnedUnit.
InstallUndo(p) ==
    /\ At(p, "install.undo")
    /\ unit = cmd[p].mine.cfg
    /\ unit' = cmd[p].was
    /\ Finish(p)
    /\ UNCHANGED <<bins, managerVars, desc, native>>

InstallReload(p) ==
    /\ At(p, "install.reload")
    /\ \E ok \in BOOLEAN : SystemctlReload(ok)
    /\ Finish(p)
    /\ UNCHANGED <<unit, bins, desc, native>>

(***************************************************************************)
(* Uninstall.                                                              *)
(***************************************************************************)
\* A verb that succeeds leads to the next step; an error ends the operation.
After(p, ok, step) ==
    \/ ok /\ Goto(p, step) /\ UNCHANGED lock
    \/ ~ok /\ Finish(p)

RemoveRead(p) ==
    /\ At(p, "remove.read")
    /\ Installed /\ FilesAreOwned
    /\ cmd' = [cmd EXCEPT ![p].mine = desc, ![p].was = unit,
                          ![p].step = IF unit = NoRelease THEN "remove.reload"
                                      ELSE "remove.inventory"]
    /\ UNCHANGED <<world, lock>>

RemoveInventory(p) ==
    /\ At(p, "remove.inventory")
    /\ InventoryOwned(cmd[p].mine)
    /\ Goto(p, "remove.disable")
    /\ UNCHANGED <<world, lock>>

RemoveDisable(p) ==
    /\ At(p, "remove.disable")
    /\ \E ok \in BOOLEAN : SystemctlEnable(ok, FALSE) /\ After(p, ok, "remove.stop")
    /\ UNCHANGED <<unit, bins, desc, native>>

RemoveStop(p) ==
    /\ At(p, "remove.stop")
    /\ \E ok \in BOOLEAN : SystemctlStop(ok) /\ After(p, ok, "remove.stopped")
    /\ UNCHANGED <<unit, bins, desc, native>>

\* A mistake: the verb's success is taken for the end of the service.
RemoveUnstopped(p) ==
    /\ At(p, "remove.stopped")
    /\ Goto(p, "remove.unit")
    /\ UNCHANGED <<world, lock>>

\* verifyStopped; a failed service does not pass.
RemoveStopped(p) ==
    /\ At(p, "remove.stopped")
    /\ ~Loaded \/ svc.state = "inactive"
    /\ Goto(p, "remove.unit")
    /\ UNCHANGED <<world, lock>>

RemoveUnit(p) ==
    /\ At(p, "remove.unit")
    /\ unit = cmd[p].was
    /\ unit' = NoRelease
    /\ Goto(p, "remove.reload")
    /\ UNCHANGED <<bins, managerVars, desc, native, lock>>

RemoveReload(p) ==
    /\ At(p, "remove.reload")
    /\ \E ok \in BOOLEAN : SystemctlReload(ok) /\ After(p, ok, "remove.gone")
    /\ UNCHANGED <<unit, bins, desc, native>>

\* verifyUninstalled.
RemoveGone(p) ==
    /\ At(p, "remove.gone")
    /\ ~Loaded /\ ~enabled
    /\ Goto(p, "remove.descriptor")
    /\ UNCHANGED <<world, lock>>

RemoveDescriptor(p) ==
    /\ At(p, "remove.descriptor")
    /\ desc = cmd[p].mine
    /\ desc' = NoDescriptor
    /\ Finish(p)
    /\ UNCHANGED <<unit, bins, managerVars, native>>

(***************************************************************************)
(* Inspect, Ensure, Start and Restart.                                     *)
(***************************************************************************)
\* runtimeConfiguration; another CODEX_HOME than the descriptor's is refused.
Read(p) ==
    /\ At(p, "read")
    /\ Installed /\ unit # NoRelease /\ FilesAreOwned
    /\ cmd' = [cmd EXCEPT ![p].mine = desc,
                          ![p].step = IF cmd[p].op \in {"Start", "Restart"} THEN "inventory"
                                      ELSE "show"]
    /\ UNCHANGED <<world, lock>>

Inventory(p) ==
    LET mine == cmd[p].mine IN
    /\ At(p, "inventory")
    /\ InventoryOwned(mine) /\ SocketIsOurs(mine, HomeOf[mine.cfg])
    /\ Goto(p, IF cmd[p].op = "Start" THEN "enable" ELSE "verb")
    /\ UNCHANGED <<world, lock>>

Enable(p) ==
    /\ At(p, "enable")
    /\ \E ok \in BOOLEAN : SystemctlEnable(ok, TRUE) /\ After(p, ok, "show")
    /\ UNCHANGED <<unit, bins, desc, native>>

\* inspectConfigured, its query of the manager.  A service that is neither
\* active nor startable is refused.
Show(p) ==
    LET mine == cmd[p].mine IN
    /\ At(p, "show")
    /\ LoadedMatches(mine)
    /\ \/ Active /\ cmd' = [cmd EXCEPT ![p].step = "probe", ![p].pid = svc.pid]
       \/ /\ cmd[p].op # "Inspect"
          /\ svc.state \in {"inactive", "failed"}
          /\ cmd[p].op = "Ensure" => SocketIsOurs(mine, HomeOf[mine.cfg])
          /\ Goto(p, "verb")
    /\ UNCHANGED <<world, lock>>

Probe(p) ==
    /\ At(p, "probe")
    /\ RunsReady(cmd[p].mine.cfg, cmd[p].pid)
    /\ Goto(p, "ready")
    /\ UNCHANGED <<world, lock>>

Verb(p) ==
    /\ At(p, "verb")
    /\ \E ok \in BOOLEAN :
          /\ IF cmd[p].op = "Restart" THEN SystemctlRestart(ok, Fresh)
             ELSE SystemctlStart(ok, Fresh)
          /\ After(p, ok, "await.show")
    /\ UNCHANGED <<unit, bins, desc, native>>

\* awaitReady: what is only unavailable is polled again.
AwaitShow(p) ==
    /\ At(p, "await.show")
    /\ LoadedMatches(cmd[p].mine) /\ Active
    /\ cmd' = [cmd EXCEPT ![p].step = "await.probe", ![p].pid = svc.pid]
    /\ UNCHANGED <<world, lock>>

AwaitProbe(p) ==
    LET cfg == cmd[p].mine.cfg
        pid == cmd[p].pid
    IN
    /\ At(p, "await.probe")
    /\ \/ RunsReady(cfg, pid) /\ Goto(p, "ready")
       \/ /\ ~RunsReady(cfg, pid) /\ (svc.pid = pid => svc.rel = cfg)
          /\ cmd' = [cmd EXCEPT ![p].step = "await.show", ![p].pid = NoPid]
    /\ UNCHANGED <<world, lock>>

\* finalizeReadyTransition: the receipt goes once the desired process is ready.
Ready(p) ==
    LET mine == cmd[p].mine IN
    /\ At(p, "ready")
    /\ IF cmd[p].op # "Inspect" /\ Pending(mine)
       THEN desc = mine /\ desc' = Cleared(mine)
       ELSE UNCHANGED desc
    /\ Finish(p)
    /\ UNCHANGED <<unit, bins, managerVars, native>>

(***************************************************************************)
(* The manager, the service, unmanaged daemons, reboots.                   *)
(***************************************************************************)
\* Restart=on-failure: a service that exits cleanly, or that its user stops,
\* stays stopped.
ServiceExits == svc.state = "active" /\ StopEffect

\* The server listens, unless somebody else has the canonical socket.
ServiceListens ==
    /\ ServiceBecomesReady
    /\ ~(Canonical(svc.rel) /\ HomeOf[svc.rel] \in native)

ManagerActs ==
    /\ \/ ManagerUnloads \/ ManagerFinishesStop \/ ManagerRestarts(Fresh) \/ ManagerGivesUp
       \/ ServiceCrashes \/ ServiceExits \/ ServiceListens
    /\ UNCHANGED <<unit, bins, desc, native, lock, cmd>>

NativeDaemon ==
    /\ \E home \in Homes :
          \/ ~Listening(home) /\ native' = native \cup {home}
          \/ home \in native /\ native' = native \ {home}
    /\ UNCHANGED <<unit, bins, managerVars, desc, lock, cmd>>

Reboot ==
    /\ Boot(Fresh)
    /\ native' = {}
    /\ lock' = NoProc /\ cmd' = [p \in Procs |-> Idle]
    /\ UNCHANGED <<unit, bins, desc>>

ProcNext(p) ==
    \/ BeginInstall(p) \/ BeginLocked(p) \/ BeginInspect(p) \/ Ends(p)
    \/ InstallRead(p) \/ InstallStage(p) \/ InstallObserve(p) \/ InstallUnit(p)
    \/ InstallVerify(p) \/ InstallDescriptor(p) \/ InstallUndo(p) \/ InstallReload(p)
    \/ RemoveRead(p) \/ RemoveInventory(p) \/ RemoveDisable(p) \/ RemoveStop(p)
    \/ RemoveStopped(p) \/ RemoveUnit(p) \/ RemoveReload(p) \/ RemoveGone(p)
    \/ RemoveDescriptor(p)
    \/ Read(p) \/ Inventory(p) \/ Enable(p) \/ Show(p) \/ Probe(p) \/ Verb(p)
    \/ AwaitShow(p) \/ AwaitProbe(p) \/ Ready(p)

\* Somebody stages a configuration: it looked at the service, and the manager
\* has not read the new unit yet.
Staging == \E p \in Procs :
    cmd[p].step \in {"install.observe", "install.unit", "install.verify",
                     "install.descriptor", "install.undo", "install.reload"}

Recorded ==
    LET started == svc'.pid \notin {svc.pid, NoPid} IN
    /\ ran' = [pid \in Pids |-> IF started /\ pid = svc'.pid THEN svc'.rel
                               ELSE IF pid \in Named' THEN ran[pid] ELSE NoRelease]
    /\ overtaken' = IF started THEN Staging \/ svc'.rel # desc.cfg
                    ELSE overtaken /\ svc'.pid # NoPid

Next ==
    /\ (\E p \in Procs : ProcNext(p)) \/ ManagerActs \/ NativeDaemon \/ Reboot
    /\ Recorded

Spec == Init /\ [][Next]_vars

(***************************************************************************)
(* Properties.                                                             *)
(***************************************************************************)
\* However often a configuration is staged over another, the process that runs
\* is the wanted one or the one the receipt names, so that Restart and
\* Uninstall recognise it; and the receipt is one the next command accepts.
\* A process the manager started in the meantime is not known.
SourceIsKnown ==
    /\ Installed /\ Active /\ ~overtaken => OwnedProcess(desc, svc.pid)
    /\ Pending(desc) => desc.prev = ran[desc.pid] /\ desc.prev # desc.cfg

\* No sequence of stagings, crashes and restarts loses the process that runs
\* (codexServicePendingTransition).
RunningSourceIsKnown == TypeOK /\ SourceIsKnown

\* A command starts no process, and reports none as ready, that runs another
\* configuration than the one it read: for a command that holds the lock, the
\* descriptor's.  Not after a failed reload, and not for a process that has
\* been replaced since it was looked at.
OnlyTheDesired ==
    [][\A p \in Procs :
          /\ At(p, "verb") /\ cmd'[p] # cmd[p] /\ svc'.pid \notin {svc.pid, NoPid} =>
                svc'.rel = desc.cfg
          /\ At(p, "ready") =>
                /\ ran[cmd[p].pid] = cmd[p].mine.cfg
                /\ cmd[p].op # "Inspect" => cmd[p].mine = desc /\ unit = desc.cfg]_vars

\* The descriptor, without which nothing of the installation is recognised, goes
\* last: the service does not run and will not start.
DescriptorGoesLast ==
    [][Installed /\ desc'.cfg = NoRelease =>
          unit = NoRelease /\ ~Loaded /\ ~enabled /\ svc.pid = NoPid]_vars

\* Between commands what is installed is recognised as the kit's own by the next
\* command, so that a failed migration is retryable (docs/codex-service.md).
MigrationIsRetryable == lock = NoProc /\ Installed => FilesAreOwned
=============================================================================
