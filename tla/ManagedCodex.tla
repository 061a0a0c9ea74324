----------------------------- MODULE ManagedCodex -----------------------------
(***************************************************************************)
(* ManagedCodexLauncher.Launch: New and Fork open a pane of their own,     *)
(* Resume types its command into the shell of an existing one.  Whatever   *)
(* was started is identified, bound, audited and, when anything fails,     *)
(* stopped again.  Reading a pane's identity with a guarded /status is a   *)
(* procedure of its own, which CodexConversion shares.                     *)
(*                                                                         *)
(* A wait for something is a step that is not enabled before it; giving    *)
(* up, or any failing call, is Fails, at every step.                       *)
(***************************************************************************)
EXTENDS CodexAppServer

CONSTANTS Src, Tgt,        \* the pane named in the request; the one a launch creates
          Old, Child       \* the conversation in Src; the one a launch creates

ASSUME NamesAssumption == Src # Tgt /\ {Src, Tgt} \subseteq Panes
                          /\ Old # Child /\ {Old, Child} \subseteq Threads

VARIABLE kit     \* the request being served, and its local variables

serverVars == <<thread, instance, constraints>>
worldVars == <<pane, procs, touches, thread, instance, constraints>>

LaunchOps == {"new", "fork", "resume"}

\* The steps of the guarded /status, of a launch, and of its failure.
StatusSteps == {"guard", "text", "drafted", "enter", "status"}
BindSteps == {"bind", "bound"}
LaunchSteps == {"ensure", "source", "preflight", "run", "launchShell", "launchExec",
                "launchOrigin", "guarded", "shell", "type", "typed", "process", "confirm",
                "sourceAfter", "audit", "reconcile", "reconciled", "final", "prompt",
                "focus", "focused"}
FailSteps == {"undo", "stop", "stopped", "stopLate", "settle", "delete"}

\* What an error says.  "retry": none of the errors a conversion may not retry.
Causes == {"retry", "stale", "cleanup", "unknown"}

NoIdentity == [id |-> Old, effort |-> "unset", parent |-> NoThread]
SourceSettings == [effort |-> "observed", policy |-> "source"]

Resting == [op |-> "none", pc |-> "idle", back |-> "idle", ret |-> "done", pane |-> Src,
            made |-> 1, pid |-> 0, leader |-> 0, created |-> FALSE, owned |-> FALSE, child |-> FALSE,
            from |-> SourceSettings, want |-> SourceSettings, inherits |-> FALSE,
            reconciles |-> FALSE, who |-> NoThread, seen |-> "unset", found |-> NoIdentity,
            source |-> NoIdentity, prompt |-> "none", focus |-> FALSE, err |-> {}]

\* back: where discovery and binding return to; ret: where the launch does.
\* made: the instance the verifier is connected to.  leader: the source's process, pid
\* the target's.  from, want: the settings the
\* source must have, and those of the target; reconciles: one update may restore
\* them.  who, seen: what discovery found, "unset" if not from a fresh status.
KitRecords(ops, steps) ==
    [op : LaunchOps \cup {"none", "release"} \cup ops,
     pc : StatusSteps \cup BindSteps \cup LaunchSteps \cup FailSteps \cup {"idle", "done"} \cup steps,
     back : LaunchSteps \cup {"idle"} \cup steps, ret : {"done"} \cup steps,
     pane : {Src, Tgt}, made : 1..MaxInstances, pid : Nat, leader : Nat,
     created : BOOLEAN, owned : BOOLEAN, child : BOOLEAN,
     from : Settings, want : Settings, inherits : BOOLEAN, reconciles : BOOLEAN,
     who : OptThread, seen : Efforts, found : Identities, source : Identities,
     prompt : {"none", "wanted", "unknown", "acknowledged"}, focus : BOOLEAN,
     err : SUBSET Causes]

At(step) == kit.pc = step
Goto(step) == kit' = [kit EXCEPT !.pc = step]

p0 == kit.pane
target == IF kit.op = "resume" THEN Old ELSE Child

-----------------------------------------------------------------------------
(***************************************************************************)
(* Failing: a call fails, a wait gives up, a check refuses, at any step.   *)
(***************************************************************************)
\* A mistake: a target that holds the prompt is cleaned up when its focus fails.
AlwaysCleansUp == TRUE

\* After an acknowledged prompt a failure keeps the target and its handle.
CleansUp == kit.prompt # "acknowledged"

\* cleanupAfterFailure closes a pane that Launch opened before the caller knows it.
AfterFailure ==
    IF kit.op \notin LaunchOps THEN "done"
    ELSE IF kit.pc \in {"launchShell", "launchExec", "launchOrigin"} THEN "undo"
    ELSE IF CleansUp THEN "stop" ELSE "done"

\* Which errors the step may return; only a conversion tells them apart.
MayRetry == {"ensure", "guarded", "shell", "type", "typed", "process", "confirm", "final"}
                \cup StatusSteps \cup BindSteps
CausesAt(step) ==
    CASE step = "reconcile" -> {"unknown"}
      [] step = "reconciled" -> {"unknown", "stale"}
      [] kit.ret # "done" /\ step \in MayRetry -> {"retry", "stale"}
      [] OTHER -> {"stale"}

\* What cleaning up uses is kept; the other local variables are dropped.
Abandoned(cause) ==
    [kit EXCEPT !.pc = AfterFailure, !.err = {cause}, !.back = "idle", !.who = NoThread,
                !.seen = "unset", !.found = NoIdentity, !.source = NoIdentity, !.leader = 0]

Failing == \E cause \in CausesAt(kit.pc) : kit' = Abandoned(cause)

\* The call that was made is answered, or its answer is lost.
Then(step) == Goto(step) \/ Failing

LaunchFails ==
    /\ kit.op \in LaunchOps
    /\ kit.pc \in StatusSteps \cup BindSteps \cup LaunchSteps
    /\ Failing
    /\ UNCHANGED worldVars

-----------------------------------------------------------------------------
(***************************************************************************)
(* discoverManagedIdentityObservationExpected on kit.pane: a quiet,        *)
(* unfocused TUI with an empty composer.  A bound one names its            *)
(* conversation; of another, or of any when the caller needs a fresh       *)
(* status, the kit asks once with /status.                                 *)
(***************************************************************************)
NeedsStatus == kit.back = "defaulted"

\* A launch looks for its argv; a conversion for the very process it inspected.
ExpectedProcess ==
    IF kit.op \in LaunchOps THEN Verified(p0, "managed") ELSE SameProcess(p0, kit.pid)

Guard ==
    /\ At("guard")
    /\ Untouched(p0) /\ ExpectedProcess
    /\ kit' = IF pane[p0].bound # NoThread /\ ~NeedsStatus
                THEN [kit EXCEPT !.pc = kit.back, !.who = pane[p0].bound]
                ELSE [kit EXCEPT !.pc = "text"]
    /\ UNCHANGED worldVars

Text ==
    /\ At("text") /\ pane[p0].open
    /\ TypeText(p0)
    /\ Then("drafted")
    /\ UNCHANGED <<procs, touches, serverVars>>

\* awaitStatusDraft: the draft is exactly ours.
Drafted ==
    /\ At("drafted")
    /\ Quiet(p0) /\ ExpectedProcess /\ pane[p0].draft = "status"
    /\ Goto("enter")
    /\ UNCHANGED worldVars

\* Enter submits whatever is in the composer by now.
Enter ==
    /\ At("enter") /\ pane[p0].open
    /\ Update(p0, IF pane[p0].draft = "status"
                    THEN [pane[p0] EXCEPT !.draft = "empty", !.shows = pane[p0].thread]
                    ELSE [pane[p0] EXCEPT !.draft = "empty"])
    /\ Then("status")
    /\ UNCHANGED <<procs, touches, serverVars>>

\* awaitFreshStatusObservationMode: one fresh, complete status.
FreshStatus == pane[p0].open /\ pane[p0].shows # NoThread /\ pane[p0].draft = "empty"

\* It shows an effective effort also for a thread that stores none.
ShownEffort(t) == IF thread[t].effort = "unset" THEN "observed" ELSE thread[t].effort

Status ==
    /\ At("status") /\ FreshStatus
    /\ kit' = [kit EXCEPT !.pc = kit.back, !.who = pane[p0].shows,
                          !.seen = ShownEffort(pane[p0].shows)]
    /\ UNCHANGED worldVars

Discovery == Guard \/ Text \/ Drafted \/ Enter \/ Status

\* bindManagedIdentity: report the session if the pane had none, and read it back.
Bind ==
    /\ At("bind") /\ pane[p0].open
    /\ IF kit.seen = "unset" THEN UNCHANGED pane ELSE ReportSession(p0, kit.who)
    /\ Then("bound")
    /\ UNCHANGED <<procs, touches, serverVars>>

Bound ==
    /\ At("bound")
    /\ BoundTo(p0, kit.who) /\ ~pane[p0].focused
    /\ Goto(kit.back)
    /\ UNCHANGED worldVars

-----------------------------------------------------------------------------
(***************************************************************************)
(* Before anything is started.                                             *)
(***************************************************************************)
\* Ensure and Connect.
Ensure ==
    /\ At("ensure")
    /\ kit' = [kit EXCEPT !.made = instance,
                          !.pc = IF kit.op = "fork" THEN "source" ELSE "preflight"]
    /\ UNCHANGED worldVars

\* awaitSafeSessionChange: two equal looks, of which the second decides.
Source ==
    /\ At("source")
    /\ Untouched(Src) /\ BoundTo(Src, Old)
    /\ kit' = [kit EXCEPT !.pc = "preflight", !.leader = pane[Src].pid]
    /\ UNCHANGED worldVars

\* The preflight, ReadThread and ReadEffective of the source.  A Fork may take the
\* source's own settings; otherwise the policy must be the one asked for, and a
\* Resume's effort as well.
Preflight ==
    /\ At("preflight") /\ Connected(kit.made)
    /\ IF kit.op = "new" THEN Goto("run") /\ UNCHANGED worldVars
       ELSE
       /\ CanRead(kit.made, Old) /\ CanAudit(Old)
       /\ \E policy \in LoadedPolicies(Old) :
              LET effective == [effort |-> thread[Old].effort, policy |-> policy]
              IN /\ Loaded(Old, policy)
                 /\ kit.inherits \/ "policy" \notin Drift(effective, kit.from)
                 /\ kit.op = "resume" => Drift(effective, kit.from) = {}
                 /\ kit' = [kit EXCEPT !.source = Identity(Old),
                                       !.want = IF kit.inherits THEN effective ELSE @,
                                       !.pc = IF kit.op = "fork" THEN "run" ELSE "guarded"]
       /\ UNCHANGED <<pane, procs, touches, instance, constraints>>

-----------------------------------------------------------------------------
(***************************************************************************)
(* Starting: sessionhost.Launch, or RunInShell.                            *)
(***************************************************************************)
\* layout.apply starts the argv in a tab of its own; pane split opens a shell.
Run ==
    /\ At("run") /\ ~pane[Tgt].open
    /\ \/ OpenRunning(Tgt, "managed") /\ Goto("launchOrigin")
       \/ OpenShell(Tgt) /\ Goto("launchShell")
    /\ UNCHANGED <<touches, serverVars>>

LaunchShell ==
    /\ At("launchShell")
    /\ ShellReady(Tgt)
    /\ Goto("launchExec")
    /\ UNCHANGED worldVars

LaunchExec ==
    /\ At("launchExec") /\ pane[Tgt].open
    /\ TypeCommand(Tgt, "exec")
    /\ Then("launchOrigin")
    /\ UNCHANGED <<procs, touches, serverVars>>

\* The origin is still there: the caller records what it must clean up.
LaunchOrigin ==
    /\ At("launchOrigin")
    /\ pane[Src].open
    /\ kit' = [kit EXCEPT !.pc = "process", !.created = TRUE, !.pane = Tgt]
    /\ UNCHANGED worldVars

\* resumeShellGuard; a conversion's is ResumeGuard of CodexConversion.
Unguarded ==
    /\ At("guarded") /\ ~kit.reconciles
    /\ Goto("shell")
    /\ UNCHANGED worldVars

RunShell ==
    /\ At("shell")
    /\ ShellReady(Src)
    /\ Goto("type")
    /\ UNCHANGED worldVars

\* A mistake: a command whose typing was reported as failed is not owned.
OwnedIfAnswered(answered) == answered

\* cleanup.launchOwned = attempted: also when pane run answers with an error.
Owned(answered) == TRUE

RunType ==
    /\ At("type")
    /\ \E answered \in BOOLEAN :
           /\ \/ pane[Src].open /\ TypeCommand(Src, "managed")
              \/ ~answered /\ UNCHANGED pane
           /\ IF answered THEN kit' = [kit EXCEPT !.owned = Owned(TRUE), !.pc = "typed"]
              ELSE \E cause \in CausesAt("type") :
                       kit' = [Abandoned(cause) EXCEPT !.owned = Owned(FALSE)]
    /\ UNCHANGED <<procs, touches, serverVars>>

RunTyped ==
    /\ At("typed")
    /\ pane[Src].open
    /\ Goto("process")
    /\ UNCHANGED worldVars

-----------------------------------------------------------------------------
(***************************************************************************)
(* Identifying, binding and auditing what was started.                     *)
(***************************************************************************)
\* waitForProcess.
Process ==
    /\ At("process")
    /\ Verified(p0, "managed")
    /\ kit' = [kit EXCEPT !.pc = "guard", !.back = "confirm", !.pid = pane[p0].pid]
    /\ UNCHANGED worldVars

\* ConfirmIdentity: thread/started was observed for a child, and its parent is right.
Confirm ==
    /\ At("confirm")
    /\ kit.who = target /\ CanRead(kit.made, target)
    /\ kit.op # "resume" =>
           thread[Child].parent = IF kit.op = "fork" THEN Old ELSE NoThread
    /\ kit' = [kit EXCEPT !.pc = "bind", !.found = Identity(target), !.child = kit.op # "resume",
                          !.back = CASE kit.op = "fork" -> "sourceAfter"
                                     [] kit.op = "new" -> "final"
                                     [] OTHER -> "audit"]
    /\ UNCHANGED worldVars

\* Fork: the source thread, its pane and its process are what they were.
SourceAfter ==
    /\ At("sourceAfter")
    /\ CanRead(kit.made, Old) /\ Identity(Old) = kit.source
    /\ SameProcess(Src, kit.leader) /\ BoundTo(Src, Old)
    /\ Goto("audit")
    /\ UNCHANGED worldVars

\* ReadEffective of the target.  A drift may be undone once by a Fork, and by a
\* Resume with a target policy.
Audit ==
    /\ At("audit") /\ CanAudit(target)
    /\ \E policy \in LoadedPolicies(target) :
           /\ Loaded(target, policy)
           /\ IF Drift([effort |-> thread[target].effort, policy |-> policy], kit.want) = {}
                THEN Goto("final")
                ELSE (kit.op = "fork" \/ kit.reconciles) /\ Goto("reconcile")
    /\ UNCHANGED <<pane, procs, touches, instance, constraints>>

\* thread/settings/update, which the server may accept and clamp.
Reconcile ==
    /\ At("reconcile") /\ Connected(kit.made)
    /\ SetEffective(target, kit.want) \/ UNCHANGED thread
    /\ Then("reconciled")
    /\ UNCHANGED <<pane, procs, touches, instance, constraints>>

\* A mistake: the answer to the update is taken for its effect.
UpdateAccepted == TRUE

\* ReconcileEffective's own readback.
UpdateReadBack == CanAudit(target) /\ Drift(Effective(target), kit.want) = {}

Reconciled ==
    /\ At("reconciled") /\ UpdateReadBack
    /\ kit' = [kit EXCEPT !.pc = "final",
                          !.found.effort = IF kit.op = "resume" THEN kit.want.effort ELSE @]
    /\ UNCHANGED worldVars

\* The same process, identity and binding once more.
StillOurs ==
    /\ Verified(p0, "managed") /\ SameProcess(p0, kit.pid)
    /\ CanRead(kit.made, target) /\ Identity(target) = kit.found
    /\ BoundTo(p0, target)

Final ==
    /\ At("final")
    /\ StillOurs /\ ~pane[p0].focused
    /\ Goto(IF kit.prompt = "wanted" THEN "prompt" ELSE IF kit.focus THEN "focus" ELSE kit.ret)
    /\ UNCHANGED worldVars

\* PromptHost.Deliver of PromptStart, seen from here: acknowledged, or not known.
DeliverPrompt ==
    /\ At("prompt")
    /\ \E outcome \in {"acknowledged", "unknown"} :
           /\ \/ /\ pane[p0].open
                 /\ Update(p0, [pane[p0] EXCEPT !.busy = TRUE])
                 /\ thread' = [thread EXCEPT ![target].turns = @ + 1]
              \/ outcome = "unknown" /\ UNCHANGED <<pane, thread>>
           /\ kit' = IF outcome = "acknowledged"
                       THEN [kit EXCEPT !.prompt = outcome, !.pc = IF kit.focus THEN "focus" ELSE "done"]
                       ELSE [kit EXCEPT !.prompt = outcome, !.pc = "done", !.err = {"stale"}]
    /\ UNCHANGED <<procs, touches, instance, constraints>>

Focus ==
    /\ At("focus") /\ pane[p0].open
    /\ TakeFocus(p0)
    /\ Then("focused")
    /\ UNCHANGED <<procs, touches, serverVars>>

Focused ==
    /\ At("focused")
    /\ StillOurs /\ pane[p0].focused
    /\ Goto("done")
    /\ UNCHANGED worldVars

-----------------------------------------------------------------------------
(***************************************************************************)
(* Cleaning up, with a deadline of its own.  Each call may fail, which the *)
(* error then says.                                                        *)
(***************************************************************************)
CleanupFails(step) == kit' = [kit EXCEPT !.pc = step, !.err = @ \cup {"cleanup"}]

\* Launch closes its own pane; a failure is in its error, not in the caller's record.
Undo ==
    /\ At("undo")
    /\ \/ pane[Tgt].open /\ ClosePane(Tgt) /\ Goto("stop")
       \/ UNCHANGED pane /\ kit' = [kit EXCEPT !.pc = "stop", !.err = @ \cup {"cleanup"}]
    /\ UNCHANGED <<procs, touches, serverVars>>

\* stopTarget: a created pane is closed.
StopCreated ==
    /\ At("stop") /\ kit.created
    /\ \/ /\ pane[Tgt].open /\ ClosePane(Tgt)
          /\ \/ kit' = [kit EXCEPT !.pc = "delete", !.created = FALSE]
             \/ CleanupFails("delete")
       \/ UNCHANGED pane /\ CleanupFails("delete")
    /\ UNCHANGED <<procs, touches, serverVars>>

StopNothing ==
    /\ At("stop") /\ ~kit.created /\ ~kit.owned
    /\ Goto("delete")
    /\ UNCHANGED worldVars

\* Once a pid was captured, no later process with the same argv is substituted.
Launched == Verified(Src, "managed") /\ (kit.pid = 0 \/ SameProcess(Src, kit.pid))

StopOwned ==
    /\ At("stop") /\ kit.owned
    /\ \/ Launched /\ Signal(Src) /\ (Goto("stopped") \/ CleanupFails("delete"))
       \/ UNCHANGED pane /\ IF kit.pid = 0 /\ ~Verified(Src, "managed")
                              THEN Goto("stopLate") ELSE CleanupFails("delete")
    /\ UNCHANGED <<procs, touches, serverVars>>

\* WaitForShell.
Stopped ==
    /\ At("stopped")
    /\ \/ ShellReady(Src) /\ kit' = [kit EXCEPT !.pc = "delete", !.owned = FALSE]
       \/ CleanupFails("delete")
    /\ UNCHANGED worldVars

\* reconcilePending: the command may have been typed and not started yet, so the
\* shell is looked at again 25 ms after it was found idle, until the deadline.
StopLate ==
    /\ At("stopLate")
    /\ \/ Verified(Src, "managed") /\ Signal(Src) /\ (Goto("settle") \/ CleanupFails("delete"))
       \/ ShellReady(Src) /\ Goto("settle") /\ UNCHANGED pane
       \/ CleanupFails("delete") /\ UNCHANGED pane
    /\ UNCHANGED <<procs, touches, serverVars>>

\* Assumed of the shell: within those 25 ms it starts a command it was given.
ShellSettled == pane[Src].queued = "none"

\* A mistake: an idle shell is believed without the wait and the second look.
SettleAtOnce ==
    /\ At("settle")
    /\ kit' = [kit EXCEPT !.pc = "delete", !.owned = FALSE]
    /\ UNCHANGED worldVars

Settle ==
    /\ At("settle") /\ ShellSettled
    /\ kit' = IF ShellReady(Src) THEN [kit EXCEPT !.pc = "delete", !.owned = FALSE]
              ELSE [kit EXCEPT !.pc = "stopLate"]
    /\ UNCHANGED worldVars

\* DeleteThread of the child, if it is known.
KnownChild == kit.op # "release" /\ kit.child

\* A launch whose child it never learned of says so as well.
UnknownChild == kit.op \in {"new", "fork"} /\ ~kit.child /\ p0 = Tgt

CleanedUp(failed) ==
    kit' = [kit EXCEPT !.pc = kit.ret,
                       !.err = IF failed \/ UnknownChild THEN @ \cup {"cleanup"} ELSE @]

Delete ==
    /\ At("delete")
    /\ \/ ~KnownChild /\ CleanedUp(FALSE) /\ UNCHANGED thread
       \/ KnownChild /\ Connected(kit.made) /\ DeleteThread(Child) /\ CleanedUp(FALSE)
       \/ KnownChild /\ (DeleteThread(Child) \/ UNCHANGED thread) /\ CleanedUp(TRUE)
    /\ UNCHANGED <<pane, procs, touches, instance, constraints>>

\* The caller holds a handle, with or without an error.
Returned == kit.pc = "done"
HasHandle == Returned /\ kit.op \in LaunchOps
             /\ (kit.err = {} \/ kit.prompt \in {"unknown", "acknowledged"})

\* ManagedCodex.Cleanup, once: the thread stays.
Release ==
    /\ HasHandle
    /\ kit' = [kit EXCEPT !.op = "release", !.pc = "stop", !.ret = "done", !.err = {}]
    /\ UNCHANGED worldVars

-----------------------------------------------------------------------------
\* The argv of a New carries its settings; a Fork's carries the model and effort,
\* and the permissions are the source's or, from a remote fork, the defaults.
ChildStarts ==
    IF kit.op = "new" THEN TuiCreates(Tgt, Child, NoThread, kit.want)
    ELSE \E policy \in {thread[Old].policy, "default"} :
             TuiCreates(Tgt, Child, Old, [effort |-> kit.want.effort, policy |-> policy])

CommandStarts == \E p \in Panes : TuiStarts(p, IF p = Src THEN Old ELSE NoThread)

ServerNext == Restarts \/ ConstraintsChange
                \/ \E t \in Threads : OtherClientUpdates(t) \/ Unloads(t)

PersonNext ==
    \E p \in Panes : \/ PersonTypes(p) \/ PersonFocuses(p) \/ ProgramEnds(p) \/ PersonStarts(p)
                     \/ PersonCloses(p) \/ HookReports(p) \/ TurnEnds(p)

World ==
    \/ ServerNext \/ ChildStarts \/ CommandStarts
    \/ \E p \in Panes : PersonSubmits(p)
    \/ PersonNext /\ UNCHANGED serverVars

Launching ==
    \/ LaunchFails \/ Discovery \/ Bind \/ Bound \/ Ensure \/ Source \/ Preflight
    \/ Run \/ LaunchShell \/ LaunchExec \/ LaunchOrigin \/ Unguarded
    \/ RunShell \/ RunType \/ RunTyped \/ Process \/ Confirm \/ SourceAfter
    \/ Audit \/ Reconcile \/ Reconciled \/ Final \/ DeliverPrompt \/ Focus \/ Focused

CleaningUp == Undo \/ StopCreated \/ StopNothing \/ StopOwned \/ Stopped \/ StopLate
                \/ Settle \/ Delete \/ Release
=============================================================================
