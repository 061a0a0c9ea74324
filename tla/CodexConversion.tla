--------------------------- MODULE CodexConversion ---------------------------
(***************************************************************************)
(* CodexConverter: the ordinary TUI of one pane is left with a native      *)
(* exit, its thread's settings are captured, and the same conversation is  *)
(* resumed in the same pane as a managed TUI, or else as an ordinary one.  *)
(* StopForSessionChange is the same guard with a signal in place of the    *)
(* exit.  Direct launches are served too: both share the panes, the App    *)
(* Server and the steps of ManagedCodex.                                   *)
(***************************************************************************)
EXTENDS ManagedCodex

VARIABLE conv      \* the conversion: local variables, and what it typed

vars == <<pane, procs, touches, thread, instance, constraints, kit, conv>>

ConversionOps == {"prepare", "convert", "custom", "leave"}
Converting == kit.op \in {"prepare", "convert", "custom"}

ConversionSteps ==
    {"service", "resolve", "resolved", "recheck", "connect", "capture", "defaulted", "history",
     "safe", "signal", "signalled", "verify", "exit", "exited", "lease", "after", "apply",
     "readback", "policy", "launch", "launched", "recovery", "releaseLease", "fallback",
     "fallbackLease", "fallbackVerify", "fallbackShell", "fallbackType",
     "fallbackTyped", "fallbackProcess", "fallbackIdentity", "fallbackReadback",
     "result", "confirmed"}

\* Drafts and focus make the lease; its pane revision and screen follow them.
NoLease == [pid |-> 0, draft |-> "empty"]
NoToken == [id |-> NoThread, effort |-> "unset", parent |-> NoThread]

Unconverted ==
    [session |-> NoThread, service |-> 1, made |-> 1, constraints |-> "first",
     before |-> NoIdentity, history |-> 0, token |-> NoToken, lease |-> NoLease,
     policy |-> SourceSettings, update |-> "none", attempts |-> 0, outcome |-> "none",
     desired |-> "wanted", readable |-> TRUE, fresh |-> FALSE]

\* session: the binding in the caller's Agent.  service, made: the instance of the
\* snapshot, and of the verifier's connection.  policy: the captured settings.
\* update: how ApplyObservedReasoning ended.  desired: the effort a customisation
\* asks for.  readable: the fallback can compare
\* with the server; fresh: it needs a lease of its own.
ConversionRecords ==
    [session : OptThread, service : 1..MaxInstances, made : 1..MaxInstances,
     constraints : {"first", "changed"}, before : Identities, history : Nat,
     token : Identities \cup {NoToken},
     lease : [pid : Nat, draft : {"empty", "status", "typed"}],
     policy : Settings, update : {"none", "unsent", "refused", "lost", "answered"},
     attempts : 0..2, outcome : {"none", "managed", "fallback"},
     desired : Efforts, readable : BOOLEAN, fresh : BOOLEAN]

ConversionTypeOK == conv \in ConversionRecords
ConversionKits == KitRecords(ConversionOps, ConversionSteps)

Set(k, c) == kit' = k /\ conv' = c
Step(step) == Goto(step) /\ UNCHANGED conv
Stops(cause) == kit' = [kit EXCEPT !.pc = "done", !.err = @ \cup {cause}] /\ UNCHANGED conv

\* Every guard of a conversion may refuse, every call fail, every wait give up.
ConversionFails ==
    /\ \/ kit.pc \in ConversionSteps \ {"apply", "launch", "launched", "confirmed"}
       \/ kit.op \notin LaunchOps /\ kit.pc \in StatusSteps \cup BindSteps
    /\ Stops(IF At("exited") THEN "unknown" ELSE "stale")
    /\ UNCHANGED worldVars

-----------------------------------------------------------------------------
(***************************************************************************)
(* The pane names its conversation, or is asked.                           *)
(***************************************************************************)
Service ==
    /\ At("service")
    /\ Set([kit EXCEPT !.pc = IF kit.op = "leave" THEN "safe" ELSE "resolve"],
           [conv EXCEPT !.service = instance])
    /\ UNCHANGED worldVars

OrdinaryTui == pane[Src].open /\ pane[Src].prog \in {"codex", "ordinary"}

\* resolveSource: a bound Agent is taken as it is.
Resolve ==
    /\ At("resolve")
    /\ IF conv.session # NoThread
         THEN kit' = [kit EXCEPT !.pc = "connect", !.who = conv.session]
         ELSE OrdinaryTui /\ kit' = [kit EXCEPT !.pc = "guard", !.back = "resolved",
                                                !.pid = pane[Src].pid]
    /\ UNCHANGED <<conv, worldVars>>

\* validateObservedConversionIdentity of a thread as read.
Observed(id) ==
    IF kit.seen = "unset" THEN id.effort # "unset"
    ELSE id.effort \in {"unset", kit.seen}

Resolved ==
    /\ At("resolved")
    /\ thread[kit.who].exists /\ Observed(Identity(kit.who))
    /\ Step("recheck")
    /\ UNCHANGED worldVars

\* recheckSourceBeforeBinding: two equal looks, and still no binding if there was none.
SourceUnchanged ==
    /\ Untouched(Src) /\ SameProcess(Src, kit.pid)
    /\ conv.session = NoThread => pane[Src].bound = NoThread

Recheck ==
    /\ At("recheck") /\ SourceUnchanged
    /\ kit' = [kit EXCEPT !.pc = "bind", !.back = "connect"]
    /\ UNCHANGED <<conv, worldVars>>

-----------------------------------------------------------------------------
(***************************************************************************)
(* What must hold before the TUI is left.                                  *)
(***************************************************************************)
Connect ==
    /\ At("connect")
    /\ Set([kit EXCEPT !.pc = "capture"], [conv EXCEPT !.made = instance])
    /\ UNCHANGED worldVars

\* ReadConstraints and ReadLoadedThread: only a thread the server has loaded.
LoadedThread(t) == CanReadLive(conv.made, t)

Capture ==
    /\ At("capture") /\ LoadedThread(kit.who)
    /\ LET id == Identity(kit.who)
       IN /\ conv' = [conv EXCEPT !.constraints = constraints, !.before = id]
          /\ IF id.effort = "unset" /\ kit.seen = "unset"
               THEN OrdinaryTui /\ kit' = [kit EXCEPT !.pc = "guard", !.back = "defaulted",
                                                      !.pid = pane[Src].pid]
               ELSE Observed(id) /\ Goto("history")
    /\ UNCHANGED worldVars

\* observeCustomizationDefaults: /status also on a bound pane.
Defaulted ==
    /\ At("defaulted")
    /\ LoadedThread(kit.who) /\ Identity(kit.who) = conv.before
    /\ kit.who = conv.before.id /\ Observed(conv.before) /\ SourceUnchanged
    /\ Step("history")
    /\ UNCHANGED worldVars

\* ReadStableHistory; then what PrepareCustomization returns is confirmed by a
\* person, and a customised conversion compares its token.
History ==
    /\ At("history") /\ CanReadHistory(conv.made, kit.who)
    /\ CASE kit.op = "prepare" ->
              Set([kit EXCEPT !.pc = "confirmed"],
                  [conv EXCEPT !.token = conv.before, !.session = kit.who])
         [] kit.op = "custom" ->
              /\ conv.token = conv.before
              /\ Set([kit EXCEPT !.pc = "safe"], [conv EXCEPT !.history = thread[kit.who].turns])
         [] OTHER ->
              Set([kit EXCEPT !.pc = "safe"], [conv EXCEPT !.history = thread[kit.who].turns])
    /\ UNCHANGED worldVars

\* awaitSafeSessionChangeWithFocus, which refuses a composer that is not empty.
Safe ==
    /\ At("safe")
    /\ kit.op # "leave" => instance = conv.service
    /\ Untouched(Src) /\ BoundTo(Src, Old)
    /\ kit' = [kit EXCEPT !.pc = IF kit.op = "leave" THEN "signal" ELSE "verify",
                          !.pid = pane[Src].pid]
    /\ UNCHANGED <<conv, worldVars>>

-----------------------------------------------------------------------------
(***************************************************************************)
(* Leaving.                                                                *)
(***************************************************************************)
\* StopForSessionChange.
SignalSource ==
    /\ At("signal") /\ SameProcess(Src, kit.pid)
    /\ Signal(Src)
    /\ Step("signalled") \/ Stops("stale")
    /\ UNCHANGED <<procs, touches, serverVars>>

Signalled ==
    /\ At("signalled") /\ ShellReady(Src)
    /\ Step("done")
    /\ UNCHANGED worldVars

Verify ==
    /\ At("verify") /\ SameProcess(Src, kit.pid)
    /\ Step("exit")
    /\ UNCHANGED worldVars

Exit ==
    /\ At("exit")
    /\ \/ pane[Src].open /\ PressCtrlD(Src) /\ Step("exited")
       \/ (PressCtrlD(Src) \/ UNCHANGED pane) /\ Stops("unknown")
    /\ UNCHANGED <<procs, touches, serverVars>>

Exited ==
    /\ At("exited") /\ ShellReady(Src)
    /\ Step("lease")
    /\ UNCHANGED worldVars

\* captureConversionShell: two equal looks at an idle, unfocused shell.
Lease == [pid |-> pane[Src].pid, draft |-> pane[Src].draft]
Leasable == ShellReady(Src) /\ ~pane[Src].focused

TakeLease ==
    /\ At("lease") /\ Leasable
    /\ Set([kit EXCEPT !.pc = "after"], [conv EXCEPT !.lease = Lease])
    /\ UNCHANGED worldVars

\* verifyConversionShell.
LeaseHolds == Leasable /\ Lease = conv.lease

-----------------------------------------------------------------------------
(***************************************************************************)
(* The captured settings.  A refusal from here on restores the ordinary    *)
(* TUI, unless an update's effect is not known.                            *)
(***************************************************************************)
FallBack == Step("fallback")

ReadsBack(id) == CanReadHistory(conv.made, Old) /\ Identity(Old) = id
                 /\ thread[Old].turns = conv.history

After ==
    /\ At("after")
    /\ IF ReadsBack(conv.before)
         THEN Step(IF conv.before.effort = "unset" THEN "apply" ELSE "policy") \/ FallBack
         ELSE FallBack
    /\ UNCHANGED worldVars

\* A mistake: a lost answer is reported as a request that was never sent.
LostIsUnsent == "unsent"

\* ApplyObservedReasoning: thread/resume, then one thread/settings/update.
\* safeNoDispatch only when the connection or the resume failed.
LostAnswer == "lost"

Apply ==
    /\ At("apply")
    /\ \E policy \in LoadedPolicies(Old), update \in {"unsent", "refused", LostAnswer, "answered"} :
           /\ update = "refused" => Identity(Old) # conv.before
           /\ update \in {LostAnswer, "answered"} => CanRead(instance, Old) /\ Identity(Old) = conv.before
           /\ \/ update \notin {LostAnswer, "answered"} /\ UNCHANGED thread
              \/ update = LostAnswer /\ Loaded(Old, policy)
              \/ /\ update \in {LostAnswer, "answered"}
                 /\ thread' = [thread EXCEPT ![Old].live = TRUE, ![Old].policy = policy,
                                             ![Old].effort = kit.seen]
           /\ Set([kit EXCEPT !.pc = "readback"], [conv EXCEPT !.update = update])
    /\ UNCHANGED <<pane, procs, touches, instance, constraints>>

Normalized == [conv.before EXCEPT !.effort = kit.seen]

\* ReadThread and ReadStableHistory, each of which may fail.
Readback ==
    /\ At("readback")
    /\ \E threadRead, historyRead \in BOOLEAN :
           /\ threadRead => CanRead(conv.made, Old)
           /\ historyRead => CanReadHistory(conv.made, Old)
           /\ LET id == Identity(Old)
                  same == thread[Old].turns = conv.history
                  known == threadRead /\ historyRead /\ same /\ id \in {conv.before, Normalized}
                  nothingDiffers == (threadRead => id = conv.before) /\ (historyRead => same)
              IN CASE known /\ conv.update = "answered" /\ id = Normalized ->
                          Set([kit EXCEPT !.pc = "policy"], [conv EXCEPT !.before = id])
                   [] known /\ ~(conv.update = "answered" /\ id = Normalized) ->
                          Set([kit EXCEPT !.pc = "fallback"], [conv EXCEPT !.before = id])
                   [] ~known /\ conv.update = "unsent" /\ ~(threadRead /\ historyRead) /\ nothingDiffers ->
                          Set([kit EXCEPT !.pc = "fallback"], [conv EXCEPT !.readable = FALSE])
                   [] OTHER -> Stops("unknown")
    /\ UNCHANGED worldVars

\* ReadEffective and ReadConstraints; the settings a customisation replaces.
Policy ==
    /\ At("policy")
    /\ \/ /\ CanAudit(Old) /\ ReadConstraints(conv.made, conv.constraints)
          /\ \E policy \in LoadedPolicies(Old) :
                 LET captured == [effort |-> thread[Old].effort, policy |-> policy]
                 IN /\ Loaded(Old, policy)
                    /\ IF captured.effort = conv.before.effort
                         THEN Set([kit EXCEPT !.pc = "launch"], [conv EXCEPT !.policy = captured])
                         ELSE FallBack
       \/ FallBack /\ UNCHANGED thread
    /\ UNCHANGED <<pane, procs, touches, instance, constraints>>

Target == IF conv.token = NoToken THEN conv.policy
          ELSE [effort |-> conv.desired, policy |-> "wanted"]

-----------------------------------------------------------------------------
(***************************************************************************)
(* The managed TUI, at most twice.                                         *)
(***************************************************************************)
StartLaunch ==
    /\ At("launch")
    /\ Set([Resting EXCEPT !.op = "resume", !.pc = "ensure", !.ret = "launched",
                           !.seen = "unset", !.from = conv.policy, !.want = Target,
                           !.reconciles = TRUE],
           [conv EXCEPT !.attempts = @ + 1])
    /\ UNCHANGED worldVars

\* verifyConversionShell, as the launch's resumeShellGuard.
GuardsShell == LeaseHolds

ResumeGuard ==
    /\ At("guarded") /\ kit.reconciles
    /\ GuardsShell
    /\ Step("shell")
    /\ UNCHANGED worldVars

\* eligibleConversionRetry.
Eligible(err) == err = {"retry"}

Launch ==
    /\ At("launched")
    /\ CASE kit.err = {} -> Set([kit EXCEPT !.pc = "result"], [conv EXCEPT !.outcome = "managed"])
         [] Eligible(kit.err) /\ conv.attempts < 2 -> Step("recovery")
         [] Eligible(kit.err) /\ conv.attempts = 2 ->
                Set([kit EXCEPT !.pc = "fallback"], [conv EXCEPT !.fresh = TRUE])
         [] OTHER -> Step("done")
    /\ UNCHANGED worldVars

\* recheckRecovery: the same service instance, identity and history.
Recovers == instance = conv.service /\ ReadsBack(conv.before)

Recovery ==
    /\ At("recovery") /\ Recovers
    /\ Step("releaseLease")
    /\ UNCHANGED worldVars

\* A new lease of the same shell.
ReLease(next) ==
    /\ Leasable /\ pane[Src].pid = conv.lease.pid
    /\ Set([kit EXCEPT !.pc = next, !.err = {}], [conv EXCEPT !.lease = Lease])
    /\ UNCHANGED worldVars

LeaseAgain == At("releaseLease") /\ ReLease("launch")

\* Same thread, history and settings once more.
Result ==
    /\ At("result")
    /\ CanReadHistory(conv.made, Old) /\ CanAudit(Old) /\ thread[Old].turns = conv.history
    /\ thread[Old].parent = conv.before.parent /\ Drift(Effective(Old), Target) = {}
    /\ Step("done")
    /\ UNCHANGED worldVars

-----------------------------------------------------------------------------
(***************************************************************************)
(* fallbackResume: the ordinary TUI again.                                 *)
(***************************************************************************)
Fallback ==
    /\ At("fallback")
    /\ conv.readable => Recovers
    /\ Step(IF conv.fresh THEN "fallbackLease" ELSE "fallbackVerify")
    /\ UNCHANGED worldVars

FallbackLease == At("fallbackLease") /\ ReLease("fallbackVerify")

FallbackVerify ==
    /\ At("fallbackVerify") /\ LeaseHolds
    /\ Step("fallbackShell")
    /\ UNCHANGED worldVars

FallbackShell ==
    /\ At("fallbackShell") /\ ShellReady(Src)
    /\ Step("fallbackType")
    /\ UNCHANGED worldVars

FallbackType ==
    /\ At("fallbackType") /\ pane[Src].open
    /\ TypeCommand(Src, "ordinary")
    /\ Step("fallbackTyped") \/ Stops("stale")
    /\ UNCHANGED <<procs, touches, serverVars>>

FallbackTyped ==
    /\ At("fallbackTyped") /\ pane[Src].open
    /\ Step("fallbackProcess")
    /\ UNCHANGED worldVars

FallbackProcess ==
    /\ At("fallbackProcess") /\ Verified(Src, "ordinary")
    /\ kit' = [kit EXCEPT !.pc = "fallbackIdentity", !.pid = pane[Src].pid]
    /\ UNCHANGED <<conv, worldVars>>

\* awaitFallbackIdentity.
FallbackIdentity ==
    /\ At("fallbackIdentity")
    /\ Verified(Src, "ordinary") /\ SameProcess(Src, kit.pid)
    /\ BoundTo(Src, Old) /\ ~pane[Src].focused
    /\ Step("fallbackReadback")
    /\ UNCHANGED worldVars

FallbackReadback ==
    /\ At("fallbackReadback")
    /\ conv.readable => ReadsBack(conv.before)
    /\ Set([kit EXCEPT !.pc = "done", !.err = @ \cup {"stale"}], [conv EXCEPT !.outcome = "fallback"])
    /\ UNCHANGED worldVars

-----------------------------------------------------------------------------
(***************************************************************************)
(* The requests, and the whole.                                            *)
(***************************************************************************)
NewRequest ==
    \E prompt \in {"none", "wanted"}, focus \in BOOLEAN :
        /\ kit' = [Resting EXCEPT !.op = "new", !.pc = "ensure", !.prompt = prompt, !.focus = focus,
                                  !.want = [effort |-> "wanted", policy |-> "wanted"]]
        /\ UNCHANGED conv

ForkRequest ==
    \E prompt \in {"none", "wanted"}, focus, inherits \in BOOLEAN :
        /\ pane[Src].bound = Old
        /\ kit' = [Resting EXCEPT !.op = "fork", !.pc = "ensure", !.prompt = prompt, !.focus = focus,
                                  !.inherits = inherits, !.want.effort = "wanted"]
        /\ UNCHANGED conv

ResumeRequest == kit' = [Resting EXCEPT !.op = "resume", !.pc = "ensure"] /\ UNCHANGED conv

\* The Agent was listed before: its binding is as of then.
ConversionRequest ==
    \E op \in {"prepare", "convert", "leave"}, desired \in {"observed", "wanted"} :
        /\ pane[Src].open /\ pane[Src].prog = "codex"
        /\ op = "leave" => pane[Src].bound # NoThread
        /\ op # "prepare" => desired = "wanted"
        /\ Set([Resting EXCEPT !.op = op, !.pc = "service"],
               [conv EXCEPT !.session = pane[Src].bound, !.desired = desired])

Request ==
    /\ At("idle")
    /\ NewRequest \/ ForkRequest \/ ResumeRequest \/ ConversionRequest
    /\ UNCHANGED worldVars

\* The person confirms what PrepareCustomization disclosed.
Confirmed ==
    /\ At("confirmed")
    /\ Set([Resting EXCEPT !.op = "custom", !.pc = "service"], conv)
    /\ UNCHANGED worldVars

Init ==
    /\ \E bound \in {NoThread, Old}, prog \in {"codex", "shell"} :
           pane = [p \in Panes |->
                      IF p # Src THEN Absent
                      ELSE IF prog = "shell" THEN Shell(1)
                      ELSE [Runs(Shell(1), "codex", 2, Old) EXCEPT !.bound = bound]]
    /\ procs = 2 /\ touches = 0
    /\ \E effort \in {"unset", "observed"}, live \in BOOLEAN :
           thread = [t \in Threads |->
                        IF t # Old THEN NoSuchThread
                        ELSE [exists |-> TRUE, live |-> live, effort |-> effort, policy |-> "source",
                              turns |-> 1, parent |-> NoThread]]
    /\ instance = 1 /\ constraints = "first"
    /\ kit = Resting /\ conv = Unconverted

Converts ==
    \/ ConversionFails \/ Service \/ Resolve \/ Resolved \/ Recheck \/ Connect \/ Capture
    \/ Defaulted \/ History \/ Safe \/ SignalSource \/ Signalled \/ Verify \/ Exit \/ Exited
    \/ TakeLease \/ After \/ Apply \/ Readback \/ Policy \/ StartLaunch \/ ResumeGuard \/ Launch
    \/ Recovery \/ LeaseAgain \/ Result \/ Fallback \/ FallbackLease \/ FallbackVerify
    \/ FallbackShell \/ FallbackType \/ FallbackTyped \/ FallbackProcess \/ FallbackIdentity
    \/ FallbackReadback

\* Without a handle nothing more is done, and the world is not followed further.
Over == Returned /\ ~HasHandle
Rest == Over /\ UNCHANGED vars

Next ==
    \/ ~Over /\ World /\ UNCHANGED <<kit, conv>>
    \/ (Launching \/ CleaningUp) /\ UNCHANGED conv
    \/ Converts \/ Request \/ Confirmed \/ Rest

Spec == Init /\ [][Next]_vars

-----------------------------------------------------------------------------
TypeOK ==
    /\ PanesTypeOK /\ ServerTypeOK /\ ConversionTypeOK
    /\ kit \in ConversionKits

\* An error without ErrManagedCleanup and without a handle: no managed TUI runs or
\* is about to, the created pane is closed, and the created thread is deleted
\* unless the pane was not yet recorded.
LeftoversAreReported ==
    Returned /\ kit.op \in LaunchOps /\ kit.err # {} /\ "cleanup" \notin kit.err
        /\ kit.prompt \notin {"unknown", "acknowledged"} /\ conv.outcome # "managed" =>
        /\ pane[Src].prog # "managed" /\ pane[Src].queued # "managed"
        /\ ~pane[Tgt].open
        /\ kit.pane = Tgt => ~thread[Child].exists

\* Whatever fails, and whoever interferes, the caller knows what it has to look after.
NothingIsForgotten == TypeOK /\ LeftoversAreReported

\* From the moment a prompt may have been sent, a launch neither closes its target
\* nor deletes its thread.
PromptedTargetIsKept ==
    [][kit.prompt \in {"unknown", "acknowledged"} /\ kit.op # "release" /\ kit' # kit =>
           pane'[Tgt].open = pane[Tgt].open /\ thread'[Child].exists = thread[Child].exists]_vars

Types == (At("type") \/ At("fallbackType")) /\ kit' # kit /\ pane' # pane

\* A resume command is typed only when no earlier one of the kit's is pending or
\* running in the pane: the conversation never has two writers.
OneWriter == [][Types => pane[Src].queued = "none" /\ pane[Src].prog \notin Kit]_vars

\* The ordinary TUI is restored only for a thread whose settings are the ones the
\* conversion last read: no update of its own is in doubt.
OrdinaryIsResumedUnchanged ==
    [][Types /\ At("fallbackType") => thread[Old].effort \in {conv.before.effort, "foreign"}]_vars

\* A launch that succeeds left its conversation with the settings it promised, or
\* with another client's.
ManagedMeansPromised ==
    [][kit.pc # "done" /\ kit'.pc = "done" /\ kit'.err = {} /\ kit.op \in LaunchOps =>
           thread[target].policy \in {kit.want.policy, "foreign"}]_vars
=============================================================================
