# Specifications of herdr-plugin-kit

This directory holds TLA+ models of the parts of herdr-plugin-kit that keep
state across processes, crashes and failures, the TLC configurations that check
them on small instances, and TLAPS proofs about them. `PROJECT.json` maps every
definition to the lines it stands for. Source paths below are relative to `src/`.

## The system

herdr-plugin-kit is a Go library and a command line for plugins of the Herdr
terminal multiplexer. Plugins run as separate processes; what they share are
files, one systemd user manager, one Unix socket per service, and the Herdr
session itself. Most of the difficulty is there: commands die between two
writes, answers are lost after the effect took place, and two processes act on
the same installation.

| Component | State it keeps | Operations | What is hard, and what makes it correct | Status |
|---|---|---|---|---|
| Service lifecycle (`runtime/servicehost/lifecycle.go`) | descriptor, unit, executables per version, purge manifest, `flock` | Install, StageUpgrade, ActivateUpgrade, Start, StartEnabled, Enable, Disable, Stop, Restart, Uninstall, Purge | Several files and a manager change one after another, and a kit process may die in between. Files, manager and process must stay explicable, nothing may be removed while it is in use, a drained service must not be forgotten. | modelled |
| Control server (`server.go`, `status.go`, `client.go`) | published status, maintenance state, watchers | Drain, Resume, GetStatus, Health, WatchStatus, UpdateStatus, Serve | Deadlines pass during the application's handler, watchers fall behind, shutdown races with handlers. Drain must mean drained; no status may be skipped silently. | modelled |
| Private socket (`socket.go`, `socket_lock_linux.go`) | the socket path, its lock | listen, stale recovery, close, removal at uninstall | Stale recovery and removal are check-then-act on a path. A live socket must stay reachable. | modelled |
| Document store (`documentstore`) | one file, its lock file, handles | Read, Write*, RemoveBounded, Open, Close | Checked replacement between uncoordinated processes, torn or lost files after a crash. | modelled |
| Keybinding host (`runtime/keybindinghost`) | the Herdr config file, the loaded keymap, transaction lock | Read, Apply, Activate, absence compensation | Write, reload and rollback may each fail or be late; editors change the file meanwhile. | modelled |
| Command runner (`runtime/command`) | a child process, its group, its output pipes | Run, RunSpec | Completion, cancellation, two deadlines and processes that escape or linger. What a result says is gone must be gone, and the call must end. | modelled |
| Diagnostics (`diagnostics`) | segment files, active segment, published records, legacy log | Open, record (rotate, retain), Cleanup, Close; snapshot, preview, report | Every storage call may fail or be the last one. Durable events survive, readers find what is published, the next Open reconciles what is left. | recorder modelled |
| Interop (`runtime/interop`) | one request to a provider's process, the provider's catalogue | Invoke, Catalog, ServeRoute | The provider performs an action while the deadline passes and the caller gives up. No effect may come after the answer. | Invoke modelled |
| Action host (`runtime/actionhost`) | none beside a deadline | Invoke | A thin client that polls Herdr's log. | not modelled |
| Session host (`runtime/sessionhost`) | panes and tabs of a launch | Launch, RunInShell, Cleanup, Focus, checks of a foreground process | A shell that is not ready, a command that starts late, undo of a partly finished launch. | as used by the agent host |
| Codex service (`runtime/agenthost/codex_service*.go`) | descriptor with a receipt, unit, lifecycle `flock`; the shared App Server under systemd | Install, Start, Restart, Ensure, Inspect, Uninstall | A new configuration is staged beside the process of an older one. The running process must stay recognised, and nothing else may be started, reported or removed. | modelled |
| Managed Codex (`managed_codex*.go`, `codex_convert.go`, `codex_lifecycle.go`) | a conversion or launch with its lease, target, thread and prompt; panes and the App Server outside | Convert, Launch (new, fork, resume), Cleanup | A source is stopped, changed and started again as another program, while a person uses the panes, other clients use the thread, and every answer may be lost. One writer per conversation, nothing left running unreported. | modelled |
| Prompts, starts, forks (`prompt*.go`, `native_start.go`, `fork.go`, `ordinary_codex.go`, `opencode_*.go`) | one request with its created pane, session and server | Start, Deliver, New, Fork | The agent that answers may not be the one launched; a prompt must not reach a person's draft, and must not be sent twice. | modelled |
| Rest of the agent host | | capability probes, assessment of a switch | Read-only. | not modelled |
| Shell, debug UI, keymap editor (`ui/...`) | event loop, recording queue, drafts | Update, Record, Close, Save | Messages of finished commands arrive after the state they belong to. | not modelled |
| Forms, pickers, views, themes, snapshots | sequential UI state | | Rendering; candidates are the picker's and the form's state. | not modelled |
| Scaffold, catalogue, mutation gate, commands | none at run time | | Build-time tools. | not modelled |
| Manifest, config, wire helpers | none | | Stateless parsing and validation. | not modelled |

The components meet as follows. The lifecycle commands drive systemd through
`systemctl --user`, and drain, resume and question the running service through
the control client (`Client.Drain`, `Resume`, `Status`), which dials the private
socket; `ServiceControl` proves to `DrainContract` what `LifecycleState` assumes
of these calls (a service is open, drained, or stuck; an unanswered Drain may
have taken effect). `Uninstall` removes the socket with the same lock the server
takes. The keybinding host keeps its file in a document store, whose promise is
the module `CheckedDocument`; it splits the store's write at the revision check,
because an editor takes no lock. The Codex service is driven through the same
user manager as the services of `servicehost`, with a descriptor and a lock of its
own; clients of both the kit and Codex itself meet it on the socket of its
`CODEX_HOME`, where an unmanaged daemon of Codex may listen instead. Managed Codex
sessions meet that App Server through its threads, and Herdr through its panes, in
which people type too. Every command of the kit, Herdr's included, runs under the
command runner; a route's provider is such a command.

## Modules

Each component has a module whose variables are its state and whose actions are
the steps between which another actor may come; an action includes every change
of state the code makes in that step. A call that refuses before it changed
anything is a stuttering step and is left out unless its answer matters.

- `ServiceManager`: the systemd user manager with one service. External; a
  `systemctl` call takes effect, or fails, or fails and takes effect all the same,
  since every call runs under a timeout. `start`, `stop` and `restart` queue a job that
  the manager may end after the client gave up (`StartPending`, `StopPending`; what is
  left of a restart is its stop half or its start half). `daemon-reload`, `enable` and
  `disable` are one request each, which the manager has carried out or not before it
  answers the next one: nobody can see them take effect late.
- `LifecycleState`: descriptor, unit, executables, manifest, lock; the local
  variables of a running command (`cmd[p]`), and the helpers every command uses
  (`Verified` is `verifyInstallation`, `Observe` is `managerStatus`, `Drain...` is
  `drainActive`, `FailWithResume` is `resumeAfterFailedMutation`).
- `LifecycleCommands`, `LifecycleUpgrade`: the commands; `cmd[p].step` names the
  place in the function. Go's `defer` and error paths are steps of their own
  (`InstallUndo`, `Abort`, `Restore...`, `Rollback...`, `MarkUpgradeRecovery`).
- `ServiceLifecycle`: all of them for any number of kit processes, with the
  manager, the service, deaths of kit processes and reboots; the properties.
- `ServiceLifecycle_proofs`, `ServiceControl_proofs` (with its socket, `PrivateSocket`),
  `DocumentStore_proofs`, `SegmentLog_proofs`, `Answers_proofs` (of `KeybindingHost`, and
  of `RouteCall` over `CommandRunner`), `CodexService_proofs`, `CodexConversion_proofs`,
  `NativeStart_proofs`: the proofs.
- `StatusHub`: `statusHub` and the `WatchStatus` streams. `ServiceControl`
  extends it with Drain, Resume, admission, shutdown and restart. `DrainContract`
  is the abstract specification of maintenance that it implements.
- `PrivateSocket`: servers and removers of one socket path, sockets told apart by
  inode. `foreign` are the sockets of programs that ignore the lock.
- `CheckedDocument`: the abstract document; `DocumentStore`: the store with its
  lock file, temporaries, fsyncs, handles and crashes, which implements it.
- `KeybindingHost`: transactions on the config and the session that loads it.
- `SegmentFiles`: the directories and files below a diagnostics recorder and what
  a power failure may leave of them: any state a directory had since it was last
  synchronized, any extension of the synchronized part of a file, with a last line
  that lacks its delimiter (`"bare"`) or does not decode (`"partial"`).
- `SegmentLog`: the recorder. An operation runs under `Recorder.mu` from its first to its
  last storage call. `step` names the call that is next, `at` the segment it is about,
  `todo` the events a file being filled is still to get, `staged` and `cut` what retention
  was decided for. A `StorageCall` is the call's effect on the disk (`Effect`), on
  `Recorder.file` (`Descriptor`), and on where the operation goes next (`Advance`: one
  definition for each place in `openSegments`, `publishSegments`, `appendSegment`,
  `replaceSegment` and `trimSegments`). Each call may fail before or after its effect, or
  half way through a write, and the process or the machine may stop between any two.

- `CodexService`: the shared Codex App Server. A release of `ServiceManager` is a
  launch configuration here. `desc` is the descriptor with its receipt
  (`PendingTransition`), `unit` the unit it renders to; `cmd[p].mine` is the
  descriptor a command works with, `cmd[p].was` the unit `Install` would restore.
  Every query of the manager and every later look at what it named are two steps,
  since the service may be replaced between them (`Show` and `Probe`,
  `InstallStage` and `InstallObserve`). A pid stands for `MainPID` with
  `InvocationID`; one that nothing names any more may be given again, under which
  it is a new one (`Named`, `Fresh`, and `ran` forgets it).

- `HerdrPanes`: panes with their foreground program, the command typed and not yet
  started (`queued`), the draft, the conversation Herdr has reported, and a touch
  counter that bounds what people do. Programs are told apart by who launched them:
  `"managed"` is a process with the literal arguments the kit launched.
- `CodexAppServer`: the threads, their stored and loaded settings, the server's
  instances, other clients and the constraints of its configuration. External.
- `ManagedCodex`: `ManagedCodexLauncher.Launch` with discovery through a guarded
  `/status`, binding, the audit of the policy, prompt, focus and cleanup.
- `CodexConversion`: composes the three with `CodexConverter`: resolve, observe, stop,
  lease the shell, normalize, launch, and the fallback that resumes the ordinary TUI.
- `PromptDelivery`: `PromptHost.Deliver`. `NativeStart` composes it with the panes and
  adds prompted starts, `New` and `Fork` of the three harnesses.
- `CommandRunner`: `ExecRunner.RunSpec`. `RouteCall` extends it with the caller of a
  route and, in the child process, `ServeRoute`, for both interface versions.
  `performed` counts how often the action took place, `operation` is what the provider
  has handed over to a service of its own, which neither the end of the process nor the
  deadline stops (`OperationRuns`, external; `docs/action-route.md`).

### What the models abstract

A release stands for its version, digest and arguments; a document's content for
its revision; a config for the keys bound natively and per owner. File modes,
ownership checks, path validation, size limits and diagnostics text decide
whether a call is refused and nothing else; they are part of the failures a step
may meet. An I/O error, a cancelled context and an expired deadline have the same
effect at a step and are one failure, except where the code tells them apart.
An event is an identity and a size: sequence numbers follow the order of identities
and redaction does not change what is counted. The byte window in which `Open` reads
a legacy log is part of what retention drops from it, since both keep the newest.
A new process gets a pid that nobody still remembers (`FreshPids`), a descriptor's
`SourcePID` included, with which `runningReleaseIsCurrent` tells the releases of an
interrupted upgrade apart: that the pid comes round again meanwhile is not modelled. A
transition's previous and candidate releases are the descriptor's own, since
`validDescriptor` refuses any other.
The checks of a Codex process and the handshake on its socket are one step; a command
for another `CODEX_HOME` than the descriptor's is refused like any other failing
check (`Ends`). The Codex executable is never absent, and what was written to the
Codex service's files survives a reboot.

Managed Codex. Two looks that must agree are one step, at the second look. The causes
of an error are kept as the code joins them (`retry`, `stale`, `cleanup`, `unknown`; an
exit that could not be verified is `unknown`). A request to the App Server is handled
before a later one is answered. `ShellSettled` takes the 25 ms that `reconcilePending`
waits for the time a shell needs to start what was typed. That the undo inside
`sessionhost.Launch` failed is told in the error's text only, and a thread created
before the target is recorded may remain; both are exempt in `LeftoversAreReported`.

Prompts, starts and forks. The guarded `/status` is one step here and step by step in
`ManagedCodex`. A pane or an OpenCode session whose creating call lost its answer is
unknown to the kit, so no property speaks of it (`docs/plugin-recipes.md:321` says as
much). A person may switch the conversation of a TUI, and Herdr notices later. The ghost
`looked` is the number of interferences at the last look: a draft typed after it cannot
be seen. Reserving an endpoint and deriving an OMP address are part of the failures
of a step. That the source is the one of the request means what the code compares: the
agent Herdr reports (`SourceIsSame`, `sameForkSource`), and where a binding was begun for
a fork also its process (`SourceRechecked`, `recheckForkSource`). A Codex child that is busy is handed back with `ErrForkOutcomeUncertain`.

After an answer that hands out nothing to look after, these two models stop following
the world (`Over`, `Rest`).

Command runner and routes. Processes fork, leave the group, close their output and exit
when they like; one that exits is reaped at once and its group id is not given again.
Timers fire at any moment. TERM may be ignored; after KILL a process is `"doomed"` and
can only exit. A completion that is not cancelled does not stop what is left of the
group. Discovery finds the provider or fails, in one step. The provider's `Invoke` is
external: a provider of version 1 acts before it replies, which is what the interface asks
of it; one of version 2 may instead hand the operation over (`accepted`) or open its own
UI (`ui_handoff`), and only what was handed over may take effect later. An error of it may
come with or without either. The caller holds the catalogue of revision 0, and caller and
provider read one clock, at which the provider looks again when it validates the request
(`route.go:251`).

## Runs

| Run | Instance | Question |
|---|---|---|
| `service_lifecycle` | 3 releases, 4 pids, 2 kit processes | Do files, manager and process stay consistent under every command, failure, death and reboot? |
| `service_control` | 2 callers, 6 revisions, 2 epochs | Is a drain's answer true, is what was drained remembered, and is the maintenance contract implemented? |
| `service_watch` | 1 caller, 2 clients for 1 watcher slot, 3 revisions, 2 epochs, 1 status of the application, fairness | Does a watcher miss anything without being told, does each status reach it, and does shutdown end? |
| `private_socket` | 3 processes, 4 inodes | Does a live server stay reachable, and does whatever fails leave nothing that refuses the next start? |
| `document_store` | 2 handles, 2 callers, 2 contents | Is a checked write atomic and durable as answered? |
| `keybinding_host` | 2 hosts, 2 owners, 1 key | Does a result tell where file and session are, and are the keys of others left alone? |
| `segment_log` | 3 events of 2 sizes, 4 segments, with and without a legacy log, 1 storage failure, 2 crashes | Are durable events kept, published ones readable, and is every leftover accepted by the next Open? |
| `codex_service` | 3 configurations: an older kit's, two new ones for two homes; 2 kit processes, 3 pids | Is the running process recognised whatever is staged over it, and is only the wanted one started, reported, removed? |
| `codex_retry` (violation) | the same, 1 kit process | Is a migration that failed always retryable? |
| `codex_conversion` | 2 panes, 2 threads, 2 interferences, 2 instances of the App Server | Is nothing left running unreported, has a conversation one writer, and is a managed session what was promised? |
| `native_start` | 2 panes, 2 threads, 3 harnesses, 3 interferences | Is what a request says of its prompt, its identity and its leftovers true, and does a prompt go only where nobody interfered? |
| `route_call` | 3 processes, 2 revisions of the catalogue, both interface versions, fairness | Does no effect come after the answer but of what was handed over, is nothing left behind unreported, and is there always an answer? |

Why the bounds are enough. Lifecycle: three releases give the previous, current
and pending one, and the untracked one that remains after two upgrades; two
processes, because a third waits for the same lock; four pids, because at most
three are named at once (the descriptor's, the command's, the running one) and a
start needs a fresh one. Control: six revisions hold two drains with their undo,
and publishing by the application between; an action that would pass the bound is
disabled, which is why these runs do not check for deadlock. Watch: two clients
for one slot; three revisions, as the channel holds one update and a handler a
second; one status of the application, since which one it is makes no difference to a
stream. `WatchersCatchUp` speaks of each revision, not of the last, so the bound does not
make an application silent that would go on publishing. Socket: three processes are a holder, a waiter and a remover; the bound on
inodes is the number of sockets ever bound. Document store: the inode of a lock
file is its creator, so there are as many as callers; both handles may be of one
process. Keybindings: the file takes every value the keys allow; the second owner is the other
whose key must stay. Segments: two events
of size 2 fill a segment each and a third makes retention drop one, so three events
rotate, trim and remove; one failure and two crashes are what it takes to bring a
removed legacy log back beside a live directory; of the seven files, four are segments,
one is a temporary and two are named only by a directory a power failure may bring back.
Codex service: two new configurations
beside an older one give the running, the staged and the newly wanted one; one process
holds the lock and only `Inspect` needs none, so two processes show every overlap of
two commands; of three pids one runs, one is the receipt's and one is fresh. Conversion: the source's
and the created pane, the source's and the created thread are all a request knows;
`MaxTouches` bounds people, other clients and restarts together, and two suffice to
invalidate a look and then what the recovery relies on; with two instances of the App
Server a connection can belong to the earlier one. Native start: three interferences are
one between two looks, one before the prompt and one during the cleanup. Routes: one
descendant stays in the group while the other leaves it with the output open; the
catalogue differs from the caller's after one change. Symmetry is used
only where no liveness is checked and no constant is compared by order.

Deadlock is checked in `service_lifecycle`, `codex_service`, `document_store`,
`keybinding_host`, `codex_conversion`, `native_start` and `route_call`; in the others a
bound on revisions, inodes or events stops the system.

Fairness (`FairSpec` of `ServiceControl`): handlers run in goroutines and the
maintenance handler is given a context with a deadline, so each handler's next
step is weakly fair; an open stream's handler and its client move; the shutdown
timer fires (`Server.Serve`). Nothing is assumed of new calls, of the application (which
may publish without end or never again: each status it published reaches a connected
watcher, alone or passed by a Reset, or the watch ends), of a client that stopped reading
(`EndBroken` is not fair) or of restarts.

Fairness (`FairSpec` of `RouteCall`): the caller's goroutine takes its next step and its
timers fire (`RunSpec`, `Discover`, `Decode`), and the deadline of the request passes.
Nothing is asked of the provider's processes: they may run, ignore TERM and hold the
output open for ever.

### Properties that combine others

A run's property may be a conjunction of parts that are read better apart:
`RunningReleaseIsKnown` (`RunningReleaseIsTracked`, `RunningReleaseIsRecognised`),
`UpgradeIsExact` (`RecoveryIsReported`, `CommitFollowsCandidate`), `RemovalIsSafe`
(`ExecutablesOutliveService`, `RemovalIsOrdered`), `MaintenanceIsRecorded`
(`DrainedIsRecorded`, `StatusIsExplained`), `WatchersAreServed`
(`WatchersAreOwedTheCurrentStatus`, `CursorIdentifiesStatus`), `AnswersAreTrue` of
`KeybindingHost` (`ResultDescribesConfig`, `AcceptedReloadIsEffective`,
`OnlyRollbackIsIncomplete`), `RunningSourceIsKnown`, `NothingIsForgotten`,
`OpenNeverRefuses`, `NothingIsLeft` and `AnswersAreTrue` of `NativeStart` (each with the
module's type invariant). `TypeOK` of the lifecycle is proved and not among its run's
properties; `CommandsHoldTheDescriptor` says instead that what a command holds in memory
is what it will find on disk.

### Exceptions the properties spell out

Some properties hold only up to a case the code accepts; it is part of the
property, with a history variable that records it.

- `DrainedIsAccountedFor`: a command that died, or whose Resume was lost, leaves
  a drained service (`excused`). Nothing is claimed while a transition is recorded: what
  an upgrade that was given up or died left running is for Uninstall.
- `StatusIsExplained`: a status the application publishes during maintenance is
  overwritten by Resume (`spoke`).
- `DrainAnswerIsTrue`: after a Resume that failed half way, a repeated Drain is
  answered from `drainCompleted` without asking the application (`doubtful`).
- `ServerIsReachable`, `LiveSocketsStay`: not against a program that ignores the
  lock (`foreign`). Such a program comes in (`Replace`) while nobody is between a look at
  the path and what the look is for, that is, neither from the probe to the removal nor
  from `net.Listen` to the `Lstat` that takes the new socket's identity (`socket.go:69-79`).
- `OthersAreKept`: not against an editor between the revision check and the
  rename (`raced`).
- `SourceIsKnown`: not of a process the manager started by itself while an
  installation was being staged, or from a unit that is not the descriptor's
  (`overtaken`). Such a process is in no receipt, and a confirmed `Restart` refuses it.
- `OnlyTheDesired`: `Inspect` holds no lock and reports on the configuration it read.
- `RunningReleaseIsRecognised`: not after a reboot in the middle of a unit switch.
- `PromptIsSafe`: not of what happens between the last look and `agent.prompt`.
- `AnswersAreTrue` (`NativeStart`): a Start takes the first conversation it finds in its
  pane for the new one and has nothing to compare it with. If a person switches the
  conversation before that, the answer names the one switched to, an older one included.
  That it is the new one, and that the prompt is in it, holds while nobody interferes
  (`touches`, `Undisturbed`). Of New and Fork the comparison with what was listed before
  and with the source holds whoever interferes.
- `EffectsPrecedeTheAnswer`: not of an operation that was handed over, which is what
  `accepted` says, and not of a provider of version 1 that goes on acting after its reply.
- `LeftoversAreReported` (`ManagedCodex`): not of a target whose prompt may have been
  sent, which is kept on purpose.

### Divergences

`docs/diagnostics.md` says that retention removes the oldest events first.
`trimSegments` rewrites the boundary segment before it unlinks the expired segments
in front of it, which is what keeps surviving events safe (`DurableEventsSurvive`),
but a process that dies in between leaves the oldest segment with events younger
than its own gone. When the rest fits the limits, as it may when a small old event
precedes a large one, the next `Open` serves that history with its hole. No run is
kept of it.

`docs/codex-conversion.md:17-18` and `:104` say that a source that is already bound is
sent no discovery input. `observeCustomizationDefaults` (`codex_convert.go:742-770`)
sends the guarded `/status` to a bound source too, when the App Server has no effort
for its thread; `Defaulted` is this step. No run is kept of it.

`docs/codex-service.md` says that a failed migration is retryable. `Install` writes
the unit and then the descriptor; when its process ends in between, the unit is not
the one the descriptor renders to, and every later command of the service refuses the
installation, `Install` and `Uninstall` included (`codex_retry`,
`MigrationIsRetryable`). The operator has to restore or remove the unit by hand. Three
more states from which the commands do not recover were met while modelling and have
no run: a `daemon-reload` that fails after both writes leaves the manager with a
definition that is not the descriptor's, which `Install`, `Start`, `Restart` and
`Uninstall` refuse; an automatic restart while `Install` stages (`overtaken`); and a
failed service, which `verifyStopped` does not take for a stopped one.

## Proofs

`ServiceLifecycle_proofs`, for any number of releases, pids and processes, from the
assumptions that `NoRelease`, `NoPid` and `NoProc` are not members of their sets:

- `TypeCorrect`: `Spec => []TypeOK`. One lemma per family of commands; the
  helpers every command shares (`Goto`, `Finish`, `ReplaceDescriptor`, ...) have
  a typing lemma each, cited by name.
- `UnitAlwaysExplained`: `Spec => []UnitMatchesPhase`, and `CommandsAreCurrent`: `Spec =>
  []CommandsHoldTheDescriptor`. The phase alone is not
  inductive. `UnitInv` adds that only the holder of the lock is inside a command
  (`OneCommand`), that a transition belongs to an installed descriptor, and, per
  step (`StandsAt`), that the command's copy of the descriptor is the one on disk
  where it will be written back, and in which half of the switch the unit is.
  Each step of a command is then one of a few kinds (writes neither file, writes
  the descriptor, writes the unit, finishes), with a lemma per kind.
- `RunningReleaseIsAlwaysKnown` (`Spec => []RunningReleaseIsKnown`), `EnabledAlwaysBoots`
  (`Spec => []EnabledServiceCanBoot`), `DrainedIsAlwaysAccountedFor` (`Spec =>
  []DrainedIsAccountedFor`), `UpgradesAreExact` (`Spec => UpgradeIsExact`),
  `RemovalsAreSafe` (`Spec => RemovalIsSafe`). `UnitInv` speaks of files; what runs is the
  manager's, which acts by itself, late, and from its own copy of the unit. `SafeInv` says
  what connects the two in every state (`WorldInv`): a service that is not down was started
  from the unit on disk (`RunsTheUnit`: a reload of another unit is issued only when it is
  down); without an installation nothing is loaded, enabled or running
  (`UninstalledIsQuiet`, so `Purge` needs no look at the process); without a transition the
  manager holds no other unit than the one on disk (`SettledFits`, so that `Start` starts
  what the descriptor names); and once the new unit is written no process of before the
  switch is left (`SourceIsGone`, so that `drainActive` tells the two apart by pid). Per
  step of a command (`SafelyAt`) it says what the earlier steps established and nobody else
  may undo: stopped, unwanted, absent, unitless, fitting, whole, or drained with a Resume
  to come. Nobody else means the manager, which may still restart what it was told to stop
  until it was seen inactive, and a death of the process, after which the next command
  knows nothing.

`ServiceControl_proofs`, for any number of clients, callers, watches, epochs and
revisions, from the assumptions that the bounds are positive and that what the
application publishes are statuses:

- `WatchesServe` (`Spec => []WatchersAreServed`), `WatchesHaveNoGap` (`Spec =>
  NoSilentGap`). `HubInv` says that the updates under way to a client form a chain from
  its cursor, each the successor of the one before unless it is a Reset, which ends at
  the hub's status while the watch is subscribed, and that every cursor is of an earlier
  epoch or revision or is the hub's own status (`Reaches`): without the latter, the
  revisions of two processes could be taken for each other. The hub's part is proved of
  its own steps (`HubNext`), of which each step of the server is one, or none.
- `MaintenanceRecords` (`Spec => []MaintenanceIsRecorded`), `DrainAnswers` (`Spec =>
  DrainAnswerIsTrue`). The records are allowed to be wrong inside a handler, so
  `ControlInv` says that at most one handler is past `TryLock` (`OneMaintainer`), what
  each may count on where it stands (`CallInv`: `beforeDrain` is nil, the snapshot is a
  status, the application still admits), and where the published status comes from there
  (`ExplainedIn`). A step of a handler then has only its own caller to show
  (`OneCallMoves`).
- `ControlImplementsContract`: `Spec => ImplementsDrainContract`. Under `DrainMode` the
  contract sees a drain begin when the handler has read the status and end with its last
  step. An undone drain is open again only because the application admits work at
  `drain.restore`, also when the hub is closed, which `CallInv` has.

`DocumentStore_proofs`, for any number of handles, callers and contents, from the
assumptions that `Absent`, `Torn` and `NoInode` are no contents and no callers:

- `TypeCorrect` (`Spec => []StoreTypeOK`), `ChecksStayCurrent` (`Spec => []CheckedIsCurrent`), `CloseIsSafe`
  (`Spec => []CloseWaits`). A revision check is stable only because two callers that
  hold the lock both read (`Exclusion`), and that needs everyone who waits for the
  lock or holds it to have the same lock file (`LocksAgree`), which a race of first
  users could break. `Stages` says what kind of request stands where and that a
  published document is the one its caller wrote. `Inv` is their conjunction; it is
  stated per caller (`Sound`, `Alone`), so that a step of one caller has only that
  caller and its pairs to show.
- `StoreImplementsCheckedDocument`: `Spec => ImplementsCheckedDocument`. Under the
  mapping `Progress` the rename or the unlink is the instant of a mutation, the
  steps before it are invisible, and each answer is a refusal, a read or a
  confirmation of the abstract document. Publication needs `CheckedIsCurrent`,
  confirmation needs `Stages`.

Of `PrivateSocket`, at the end of `ServiceControl_proofs`, for any number of processes and
sockets, from the assumptions that `NoProc` is no process and `MaxInode` is a natural number:

- `NothingIsEverLeft` (`SocketSpec => []NothingIsLeft`), `ServerStaysReachable` (`SocketSpec
  => []ServerIsReachable`), `LiveSocketsAreKept` (`SocketSpec => LiveSocketsStay`). That the
  path leads to the
  server's listener says nothing of the steps that may take it away, so
  `StandsRight(p)` says per place what the holder of the lock may count on: the
  socket it bound, whether somebody listens on it, and that what it is about to
  remove has no listener. A process outside the protocol (`Outsiders`) counts on
  nothing, so that the steps of the one holder disturb nobody (`OthersStandRight`);
  the two steps that wait for the lock change nothing others count on
  (`OthersUntouched`). That nothing is left needs to know besides whose every listener is
  (`Owned`): one of a process that listens and has still to close it, or a foreign one.

`SegmentLog_proofs`, for any number of files, segments, events, failing calls, process deaths
and power failures, and for any limits of retention, from the assumptions that there is room
for a segment, that 0 is no file (`FilesAssumption`), that limits and sizes are positive and
that the bounds are numbers (`RetentionAssumption`):

- `SegmentsAgree`: `Spec => []IInv`. A power failure may choose among every directory and
  every root since the last synchronization, and of each file a part, so nothing that is said
  of the current directory alone is inductive. `IInv` quantifies over all that may be left.
  `RootInv` says from which call on no root comes back without the live directory, and from
  which on none with the legacy log (`Rooted`, `Unlinked`); `DirInv` that every directory
  that may be left has a segment, in order, and is what was imported as long as the legacy
  log may come back beside it (`AsImported`); `Durable` that what was reported durable is
  synchronized in each of them; `Promise` that what a recorder shows would be, if the open
  file were synchronized now (`SecuredIn`), which is why Close may report it. Five more parts
  say how far an operation is (`ImportInv`, `OpenInv`, `TrimInv`, `AppendInv`, `RestInv`):
  which segments are synchronized, how the recorder's segments stand to the files (`Mapped`),
  and that they have all that retention keeps of the records it was decided for (`Covers`,
  `GaveUp`).
  The effects on the disk are proved once, without regard to the operation that makes them
  (`SyncFileKeeps`, `CreateKeeps`, `WriteKeeps`, `RenameKeeps`, `UnlinkKeeps`, ...): each is
  `Lossless`, that is, every directory that may be left after it has what one had that might
  have been left before. A rename is, because the copy is synchronized first, and an unlink,
  because what it takes is given up. So a call that fails after its effect, or that never
  returns, needs no argument of its own (`FailureKeepsDisk`). After a power failure a file is
  at least what was synchronized (`SurvivorIs`), which is all `Durable` speaks of.
- `RecorderKeepsDurable` (`Spec => []DurableEventsSurvive`), `RecorderIsReadable` (`Spec =>
  []PublishedIsReadable`) follow from `Durable` and `RootInv`, and from `Promise` and `RestInv`.
- `RecorderReopens` (`Spec => []OpenNeverRefuses`). `Open` compares what retention keeps of the
  live and of the legacy log at the present time, not at that of the import; the live one is a
  suffix of the legacy one, and retention keeps the same of a suffix as of the whole unless it
  keeps all of the suffix (`SuffixCut`), so the two are reconciled at any later time.

TLC, given the parts of `IInv` as invariants of the instance of `segment_log`, finds no state
that breaks them.

Of `KeybindingHost`, in `Answers_proofs`, for any number of hosts, owners and keys, from the
assumption that `Absent` is no config and `NoHost` no host:

- `AnswersAreAlwaysTrue` (`Spec => []AnswersAreTrue`), `OthersAreAlwaysKept` (`Spec =>
  OthersAreKept`). An answer sums up what happened at up to nine steps, so `Stands(h)` says
  what the result has recorded so far (`ResultSoFar`), where the file is as long as nobody
  edits it (`FileIs`), which kinds of operation come to which step (`KindAllows`), and what
  a settled answer means (`AnswerIsTrue`). Only the holder of the lock is in a transaction,
  so that a step of one host leaves the others' part of the invariant alone; an editor
  needs no lock, which the ghosts `edited` and `raced` record.

Of `RouteCall` and its command runner, in `Answers_proofs`, for any number of processes and of
catalogue changes, from the assumptions that `Leader` is a process and `MaxRevisions` a
natural number:

- `ReturnsAreClean`: `RouteSpec => []ReturnIsClean`. What a result may claim depends on what
  was observed at several steps, so `RunnerInv` says that only running processes are in
  the group or hold the output (`MembersRun`), what the end of `cmd.Wait` proves
  (`WaitIsTrue`), and what is known at each step of `RunSpec` (`StepsAreTrue`) and after
  it (`ReturnIsTrue`). That an empty group stays empty is the key: only a member's child
  enters it. Every step of the call is a step of the runner or leaves it alone
  (`CallRunsRunner`).
- `EffectsPrecede`: `RouteSpec => EffectsPrecedeTheAnswer`. Of what was not handed over, the
  answer of `RunSpec` can only exclude a later effect if the provider cannot outlive it: the leader lives only in its
  own group and is the first of the processes, and `RunSpec` goes on to a completion, a
  teardown or a result only when it is gone (`LeaderInv`). `ProviderInv` says what the provider has done
  and handed over at each of its steps, `CallerInv` what the caller may have been told.
- `RouteTypeCorrect`: `RouteSpec => []RouteTypeOK`; the run does not check it again.

`CodexService_proofs`, for any number of configurations, homes, kit processes and process
identifiers, from the assumptions that `NoRelease`, `NoPid` and `NoProc` are not members of
their sets, that `HomeOf` gives every configuration a home, and that a legacy
configuration is a configuration:

- `SourceIsAlwaysKnown` (`Spec => []RunningSourceIsKnown`), `OnlyTheDesiredStarts` (`Spec =>
  OnlyTheDesired`), `DescriptorAlwaysGoesLast` (`Spec => DescriptorGoesLast`). The
  descriptor of a staged configuration must know the process of another one through its
  receipt, written from two observations between which that process may be replaced.
  `InstallStands` says that a descriptor about to be written knows what runs unless the
  manager overtook it (`Knows`) and that its receipt names what the process was started with
  (`ReceiptIsTrue`); a stale receipt is harmless because `ServiceStands` keeps, with every
  live pid, what it was started with. `UninstallStands` and `ObserverStands` say what the
  other commands know at each step.

`CodexConversion_proofs`, for any number of panes, threads, restarts of the App Server and
touches by people, from the assumptions that the source and target panes differ, as do the
old and the new thread (`NamesAssumption`), that `NoThread` is none (`ThreadsAssumption`),
and that the two bounds are numbers (`TouchesAssumption`, `InstancesAssumption`):

- `NothingIsEverForgotten` (`Spec => []NothingIsForgotten`), `OnlyOneWriter` (`Spec =>
  OneWriter`). What a failed launch may have left behind depends on where it failed, and a
  typed command is not yet a process when the launch gives up. `CommandInv` says at which
  steps the source pane holds no command of the kit's, typed or running: whenever the launch
  does not own one and has not reported a failed cleanup, but for the ordinary TUI the
  fallback has just typed. A program that quits or is closed gives the pane back without
  anything queued, because only a shell queues (`OnlyShellsQueue`); so no person and no
  restart breaks it. `CreatedInv` and `ChildInv` say the same of the pane that was opened
  and of the thread its TUI made. `FlowInv` tells which steps each operation comes to and
  what its local variables are there; `Inv` is the conjunction, and TLC, given `Inv` as an
  invariant of the instance of `codex_conversion`, finds no state that breaks it.
- `OrdinaryIsAlwaysUnchanged` (`Spec => OrdinaryIsResumedUnchanged`). `EffortInv`: from the
  capture to the fallback the thread has the effort last read or another client's, but
  between a settings update and its readback, which a fallback comes to only when the
  update was not sent.
- `PromptedTargetIsAlwaysKept` (`Spec => PromptedTargetIsKept`). A prompt that may have been
  sent leaves a launch only the steps that focus and return (`RequestFits`), none of which
  closes a pane or deletes a thread.
- `ManagedIsAsPromised` (`Spec => ManagedMeansPromised`). `PolicyInv`: from the audit on the
  target has the promised policy or another client's; a step that ends a launch without an
  error comes from there or from the conversion's own audit (`LaunchingEnds`, `FailedEnds`,
  `CleaningEnds`, `ConvertingEnds`).

`NativeStart_proofs`, for any number of panes, conversions and touches by people, from the
assumptions that the two panes differ, as do the two conversions (`NamesAssumption`), that
`NoThread` is none (`ThreadsAssumption`), and that the bound is a number
(`TouchesAssumption`):

- `LeftoversAreAlwaysReported` (`Spec => []LeftoversAreReported`). `ReportInv` says for each
  of the three ways out which leftovers its step has already closed, deleted, stopped or put
  in the error. A conversation OpenCode forked is never deleted, so it must be in the
  request's record from the moment it exists, for the error of any later step to name it
  (`ForkReported`).
- `AnswersAreAlwaysTrue` (`Spec => []AnswersAreTrue`). `FlowInv` says which kinds of request
  come to a step and which conversation they have found there (`IdentityFits`,
  `SessionFits`), so that every way to a good end has one (`SuccessFits`). `TruthInv` adds
  what an undisturbed request knows besides: the conversation it found is the one the
  launched program made, and the prompt is where it was sent. That a prompt that
  was acknowledged arrived once, in a conversation, needs the pane as well: once a
  conversation was seen there, no TUI without one can take its place (`Attaching`), because
  the launched command is started once and no shell comes back from it (`Fits`), whoever
  quits it, closes the pane or starts something else (`WorldMoves`).
- `PromptIsAlwaysSafe` (`Spec => PromptIsSafe`). `LookHolds`: from the last look to the
  prompt nothing changes at an idle pane without a touch, but Herdr's own binding; the one
  TUI that moves by itself is that of a fork which still shows its source. After a prompt that
  may have arrived only seven steps are left (`ErrorFits`), none of which closes or deletes.

Every safety property of a run has a theorem. Only model-checked is what is liveness
(`ShutdownCompletes`, `WatchersCatchUp`, `CallReturns`), which under fairness is out of the
prover's reach, as is `ENABLED`.

## Not modelled

- The snapshots of a running diagnostics recorder, reports and redaction, the debug UI's
  recording queue, the shell's event loop and the keymap editor keep state that a model
  would reach; they are next.
- Capability probes, `Assess` of a switch, the guard's own focusing, `ActionClient` and
  the action host observe and do not keep state of their own.
- Forms, pickers, views, themes, snapshots: sequential state of one terminal.
- Scaffold, catalogue, mutation gate, manifest, configuration and wire helpers:
  build-time tools and stateless parsing.
- Of the lifecycle files: `replaceLifecycleFile` renames without a directory fsync
  (`lifecycle.go:2503`); a reboot in the model keeps every rename. An `Install` that dies
  after the unit and before the descriptor (`lifecycle.go:337`) leaves a unit that every
  later command refuses, as the code intends; no property speaks of it. Nor of a file that
  was linked and could not be inspected (`inspectCreatedFile`), which rollback does not
  know of (`LinkedUnrecorded`, and `CopyFails`): the safety properties hold with it, and a
  later `Install` refuses it.
- A pane or an OpenCode session whose creating call lost its answer
  (`opencode_session.go:64`) is left to its user.

## Plan

1. Done: lifecycle, control, socket, document store, keybinding host, segment log, Codex
   service, managed Codex and its conversion, prompts, starts and forks, command runner,
   routes. Proved: types and all safety properties of the lifecycle, of the control server
   with its refinement, of the socket, of the document store with its refinement, of the
   recorder's segment log, of the keybinding host, of the Codex service, of the managed
   Codex sessions and their conversion, of prompts, starts and forks, of the command runner
   and of a route call.
2. Next modules: the debug UI's recording queue, the recorder's snapshots, the keymap
   editor.
3. Next proofs: the safety properties of those.
