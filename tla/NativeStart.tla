----------------------------- MODULE NativeStart -----------------------------
(***************************************************************************)
(* PromptStarter.Start, NativeStarter.Start and Forker.Fork: a harness's   *)
(* own TUI in a new background pane, with a new conversation or a fork of  *)
(* the one in Src, and a first prompt of PromptDelivery if there is one.   *)
(*                                                                         *)
(* The launch is the one ManagedCodex takes step by step; so is the        *)
(* guarded /status by which an ordinary Codex is identified.               *)
(***************************************************************************)
EXTENDS PromptDelivery

vars == <<paneVars, req, promptVars>>

StartSteps == {"baseline", "source", "safe", "spawn", "proof", "create", "native", "sourceAfter",
               "launch", "exec", "origin", "identity", "fresh", "child", "discover", "resolve",
               "bind", "bound", "sourceAgain", "focus", "focused", "undo", "close", "delete",
               "stop", "done"}

TypeOK ==
    /\ PanesTypeOK
    /\ req \in [op : Ops, kind : Kinds, prompted : BOOLEAN, focus : BOOLEAN, own : BOOLEAN,
                pc : DeliverySteps \cup StartSteps, created : BOOLEAN, kept : BOOLEAN,
                who : OptThread, prefix : OptThread, session : OptThread, prior : SUBSET Threads, pid : Nat, leader : Nat,
                looked : 0..MaxTouches, state : States, err : SUBSET Errors]
    /\ server \in {"none", "running", "gone"}
    /\ sessions \subseteq Threads
    /\ received \in [OptThread -> Nat]

\* sameForkSource: Herdr's agent is the one of the request.
SourceIsSame == BoundTo(Src, Old)

\* recheckForkSource: a binding begun for a fork looks at the process, too.
SourceRechecked == req.op = "fork" => SourceIsSame /\ SameProcess(Src, req.leader)

Keeps == UNCHANGED <<paneVars, promptVars>>

-----------------------------------------------------------------------------
(***************************************************************************)
(* Before the launch.                                                      *)
(***************************************************************************)
\* prepareOpenCodeStart comes first for an OpenCode; a fork has a server.
Prepare == IF req.kind = "opencode" THEN IF req.own THEN "spawn" ELSE "create" ELSE "launch"

\* NativeStarter: the conversations Herdr lists already.
Baseline ==
    /\ At("baseline")
    /\ req' = [req EXCEPT !.pc = Prepare, !.prior = {pane[p].bound : p \in Panes} \ {NoThread}]
    /\ Keeps

ForkSource ==
    /\ At("source")
    /\ BoundTo(Src, Old)
    /\ Goto(IF req.kind = "opencode" THEN "native"
            ELSE IF req.kind = "codex" /\ req.prompted THEN "safe" ELSE "launch")
    /\ Keeps

\* beginOrdinaryCodexBinding of a fork: awaitSafeSessionChange, before the launch
\* with a prompt and after it without.
Safe ==
    /\ At("safe")
    /\ Untouched(Src) /\ BoundTo(Src, Old)
    /\ req' = [req EXCEPT !.pc = IF req.created THEN "discover" ELSE "launch",
                          !.leader = pane[Src].pid]
    /\ Keeps

\* The short-lived server runs in a goroutine of its own.
Spawn ==
    /\ At("spawn")
    /\ server' = "running" /\ Goto("proof")
    /\ UNCHANGED <<paneVars, sessions, received>>

\* Its ownership line and its health are awaited together with its exit, which
\* leaves nothing to stop.
Proof ==
    /\ At("proof")
    /\ IF server = "gone" THEN req' = Failed("done") ELSE Goto("create")
    /\ Keeps

\* Create; the session of a lost answer is unknown.
Create ==
    /\ At("create") /\ ServerUp
    /\ sessions' = {Child}
    /\ \/ req' = [req EXCEPT !.session = Child, !.pc = "launch"]
       \/ Failing
    /\ UNCHANGED <<paneVars, server, received>>

\* forkOpenCodeSession, once; from the dispatch on there may be a child without a
\* clear answer.
NativeFork ==
    /\ At("native")
    /\ \/ UNCHANGED sessions /\ Failing
       \/ sessions' = {Child} /\ req' = [req EXCEPT !.session = Child, !.pc = "sourceAfter"]
       \/ /\ sessions' \in {sessions, {Child}}
          /\ req' = [Failed(Finish) EXCEPT !.err = @ \cup {"uncertain"}]
    /\ UNCHANGED <<paneVars, server, received>>

SourceAfter ==
    /\ At("sourceAfter")
    /\ SourceIsSame
    /\ Goto("launch")
    /\ Keeps

-----------------------------------------------------------------------------
(***************************************************************************)
(* sessionhost.Launch, which closes its own pane when it fails.            *)
(***************************************************************************)
\* The pane of a lost answer is unknown, to Launch as well.
Launch ==
    /\ At("launch") /\ ~pane[Tgt].open
    /\ \/ /\ OpenRunning(Tgt, "managed")
          /\ req' = [req EXCEPT !.pc = "origin", !.created = TRUE]
       \/ /\ OpenShell(Tgt)
          /\ req' = [req EXCEPT !.pc = "exec", !.created = TRUE]
       \/ OpenShell(Tgt) /\ Failing
    /\ UNCHANGED <<touches, promptVars>>

Exec ==
    /\ At("exec")
    /\ ShellReady(Tgt) /\ TypeCommand(Tgt, "exec")
    /\ Goto("origin") \/ req' = Failed("undo")
    /\ UNCHANGED <<procs, touches, promptVars>>

\* How the new TUI is identified.
Identify ==
    IF req.kind = "codex" /\ req.prompted THEN "discover"
    ELSE CASE req.op = "start" -> "identity" [] req.op = "new" -> "fresh" [] OTHER -> "child"

Origin ==
    /\ At("origin")
    /\ pane[Src].open
    /\ Goto(Identify)
    /\ Keeps

\* cleanupAfterFailure; the caller then deletes its session.
Undo ==
    /\ At("undo")
    /\ \E closed \in BOOLEAN :
          /\ \/ pane[Tgt].open /\ ClosePane(Tgt)
             \/ ~closed /\ UNCHANGED pane
          /\ req' = [req EXCEPT !.pc = IF req.session # NoThread /\ req.op # "fork" THEN "delete" ELSE Finish,
                                !.err = IF closed THEN @ ELSE @ \cup {"cleanup"}]
    /\ UNCHANGED <<procs, touches, promptVars>>

-----------------------------------------------------------------------------
(***************************************************************************)
(* Identifying an OMP or an OpenCode: Herdr binds the conversation.        *)
(***************************************************************************)
\* find: Herdr's agent of the kind that was launched.
Listed == pane[Tgt].open /\ pane[Tgt].prog \in Tui

InBackground == Listed /\ ~pane[Tgt].focused /\ ~pane[Tgt].busy

Expected(t) == req.kind = "opencode" => t = req.session

\* waitForAgent: one look.
WaitForAgent ==
    /\ At("identity") /\ InBackground
    /\ pane[Tgt].bound # NoThread /\ Expected(pane[Tgt].bound)
    /\ req' = [req EXCEPT !.pc = "observe", !.who = pane[Tgt].bound]
    /\ Keeps

\* A mistake: any conversation of the new pane will do.
FreshIfBound(t) == Expected(t)

\* classifyNativeNew: not one that was listed before the launch.
Fresh(t) == Expected(t) /\ t \notin req.prior

\* waitForFresh: two equal looks.
WaitForFresh ==
    /\ At("fresh") /\ InBackground
    /\ pane[Tgt].bound # NoThread /\ Fresh(pane[Tgt].bound)
    /\ req.who \in {NoThread, pane[Tgt].bound}
    /\ req' = IF req.who = NoThread THEN [req EXCEPT !.who = pane[Tgt].bound]
              ELSE [req EXCEPT !.pc = Finish]
    /\ Keeps

\* waitForChild: while Herdr still shows the source's conversation, the fork is
\* pending; a Codex without one is asked.
WaitForChild ==
    /\ At("child") /\ Listed
    /\ \/ /\ pane[Tgt].bound \notin {NoThread, Old}
          /\ req' = [req EXCEPT !.pc = "sourceAgain", !.who = pane[Tgt].bound]
       \/ pane[Tgt].bound = NoThread /\ req.kind = "codex" /\ Goto("safe")
    /\ Keeps

\* The child OpenCode was asked for, and the source once more, after Prepare's own
\* recheck where that ended with no more than a prefix.
SourceAgain ==
    /\ At("sourceAgain")
    /\ req.session # NoThread => req.who = req.session
    /\ SourceIsSame /\ (req.prefix # NoThread => SourceRechecked)
    /\ Goto(IF req.prompted THEN "observe" ELSE IF req.focus THEN "focus" ELSE Finish)
    /\ Keeps

-----------------------------------------------------------------------------
(***************************************************************************)
(* Identifying an ordinary Codex: ordinaryCodexBinding.                    *)
(***************************************************************************)
\* Herdr's binding, or what the guarded /status shows.
Shown == IF pane[Tgt].bound # NoThread THEN pane[Tgt].bound ELSE pane[Tgt].thread

\* A status may show no more than a prefix, which has to do until a first turn has
\* persisted the conversation.
Identified(full) ==
    CASE full /\ req.op = "start" -> "bind"
      [] req.op # "start" /\ (full \/ ~req.prompted) -> "resolve"
      [] ~full /\ req.op = "fork" /\ req.prompted -> "sourceAgain"
      [] OTHER -> "observe"

Discover ==
    /\ At("discover")
    /\ Untouched(Tgt) /\ Verified(Tgt, "managed") /\ Shown # NoThread
    /\ req.op = "fork" => Shown # Old
    /\ \E full \in BOOLEAN :
          /\ pane[Tgt].bound # NoThread => full
          /\ req' = [req EXCEPT !.prefix = Shown, !.pc = Identified(full)]
    /\ Keeps

\* validOrdinaryBindingObservation.
MayBind == Verified(Tgt, "managed") /\ ~pane[Tgt].focused
             /\ pane[Tgt].bound \in {NoThread, req.prefix}

\* resolvePersistedIdentity: exactly one persisted conversation has the prefix.
Persisted == req.op = "fork" \/ received[req.prefix] > 0

Resolve ==
    /\ At("resolve")
    /\ MayBind /\ Persisted
    /\ Goto("bind")
    /\ Keeps

\* bindManagedIdentity.
Bind ==
    /\ At("bind") /\ MayBind
    /\ ReportSession(Tgt, req.prefix)
    /\ Then("bound")
    /\ UNCHANGED <<procs, touches, promptVars>>

Bound ==
    /\ At("bound")
    /\ BoundTo(Tgt, req.prefix)
    /\ SourceRechecked
    /\ req' = [req EXCEPT !.who = req.prefix, !.prefix = NoThread,
                          !.pc = IF req.state = "acknowledged"
                                   THEN IF req.focus THEN "focus" ELSE Finish
                                 ELSE IF req.op = "fork" THEN "sourceAgain" ELSE "observe"]
    /\ Keeps

-----------------------------------------------------------------------------
(***************************************************************************)
(* Focus, and the ways out.                                                *)
(***************************************************************************)
Focus ==
    /\ At("focus") /\ pane[Tgt].open
    /\ TakeFocus(Tgt)
    /\ \/ BoundTo(Tgt, req.who) /\ Goto(IF req.op = "fork" THEN "focused" ELSE Finish)
       \/ Failing
    /\ UNCHANGED <<procs, touches, promptVars>>

Focused ==
    /\ At("focused")
    /\ BoundTo(Tgt, req.who) /\ SourceIsSame
    /\ Goto(Finish)
    /\ Keeps

\* A failing call, a refusal or a deadline, at any step before the ways out.
Fails ==
    /\ req.pc \in (StartSteps \cup DeliverySteps) \ {"exec", "origin", "send", "native", "undo",
                                                    "close", "delete", "stop", "done"}
    /\ Failing
    /\ Keeps

LaunchFails ==
    /\ req.pc \in {"exec", "origin"}
    /\ req' = Failed("undo")
    /\ Keeps

\* A fork without a prompt whose Codex stays busy, or moved, is handed back as it is.
ChildIsKept ==
    /\ req.op = "fork" /\ ~req.prompted /\ req.created
    /\ req.pc \in {"safe", "discover", "resolve", "bind", "bound"}
    /\ req' = [Failed(Finish) EXCEPT !.kept = TRUE, !.err = @ \cup {"uncertain"}]
    /\ Keeps

\* A mistake: the conversation is deleted only once its pane is closed.
DeletesAfterClose(closed) == closed /\ req.session # NoThread /\ req.op # "fork"

DeletesToo(closed) == req.session # NoThread /\ req.op # "fork"

\* Cleanup; the session is deleted whether or not the pane could be closed.
Close ==
    /\ At("close")
    /\ \E closed \in BOOLEAN :
          /\ \/ pane[Tgt].open /\ ClosePane(Tgt)
             \/ ~closed /\ UNCHANGED pane
          /\ req' = [req EXCEPT !.pc = IF DeletesToo(closed) THEN "delete" ELSE Finish,
                                !.err = IF closed THEN @ ELSE @ \cup {"cleanup"}]
    /\ UNCHANGED <<procs, touches, promptVars>>

Delete ==
    /\ At("delete")
    /\ \E deleted \in BOOLEAN :
          /\ deleted => ServerUp
          /\ sessions' \in IF deleted THEN {{}} ELSE {{}, sessions}
          /\ req' = [req EXCEPT !.pc = Finish, !.err = IF deleted THEN @ ELSE @ \cup {"session"}]
    /\ UNCHANGED <<paneVars, server, received>>

\* stop, once: the group is killed, or five seconds pass.
Stop ==
    /\ At("stop")
    /\ \E stopped \in BOOLEAN :
          /\ server' = IF stopped THEN "gone" ELSE server
          /\ req' = [req EXCEPT !.pc = "done",
                                !.err = IF stopped THEN @ ELSE @ \cup {"server"}]
    /\ UNCHANGED <<paneVars, sessions, received>>

-----------------------------------------------------------------------------
(***************************************************************************)
(* The world.                                                              *)
(***************************************************************************)
CommandStarts == Starts(Tgt, NoThread) /\ UNCHANGED touches

Shows(p, t) ==
    /\ Update(p, [pane[p] EXCEPT !.thread = t])
    /\ UNCHANGED procs

\* A TUI opens its conversation: the one of its argv, or a new one.  A fork may
\* show the source's first.
Attaches ==
    /\ pane[Tgt].open /\ pane[Tgt].prog = "managed" /\ pane[Tgt].thread = NoThread
    /\ \/ Shows(Tgt, Child)
       \/ req.op = "fork" /\ req.kind # "opencode" /\ Shows(Tgt, Old)
    /\ UNCHANGED touches

Forks ==
    /\ pane[Tgt].prog = "managed" /\ pane[Tgt].thread = Old /\ req.op = "fork"
    /\ Shows(Tgt, Child) /\ UNCHANGED touches

\* Somebody opens another conversation in a TUI.
PersonSwitches(p) ==
    /\ pane[p].open /\ pane[p].prog \in Tui /\ pane[p].thread # NoThread /\ Touch
    /\ \E t \in Threads \ {pane[p].thread} : Shows(p, t)

\* Herdr learns what a TUI shows.
Notices(p) ==
    /\ pane[p].open /\ pane[p].prog \in Tui /\ pane[p].thread \notin {NoThread, pane[p].bound}
    /\ ReportSession(p, pane[p].thread)
    /\ UNCHANGED <<procs, touches>>

ServerExits == server = "running" /\ Touch /\ server' = "gone"

World ==
    \/ /\ \/ CommandStarts \/ Attaches \/ Forks
          \/ \E p \in Panes : \/ PersonTypes(p) \/ PersonFocuses(p) \/ ProgramEnds(p)
                              \/ PersonStarts(p) \/ PersonCloses(p) \/ PersonSwitches(p)
                              \/ Notices(p) \/ TurnEnds(p)
       /\ UNCHANGED promptVars
    \/ ServerExits /\ UNCHANGED <<pane, procs, sessions, received>>

-----------------------------------------------------------------------------
\* validatePromptStart, validateNativeStart, composeForkArgv: an ordinary Codex is
\* not started without a prompt, and only an OpenCode may need a server.
Requests ==
    {r \in [op : Ops, kind : Kinds, prompted : BOOLEAN, focus : BOOLEAN, own : BOOLEAN] :
        /\ r.op = "start" => r.prompted
        /\ r.op = "new" => ~r.prompted /\ ~r.focus /\ r.kind # "codex"
        /\ r.own => r.kind = "opencode" /\ r.op # "fork"}

First(r) ==
    CASE r.op = "new" -> "baseline" [] r.op = "fork" -> "source"
      [] r.op = "start" -> IF r.kind # "opencode" THEN "launch"
                           ELSE IF r.own THEN "spawn" ELSE "create"

Init ==
    /\ pane = [p \in Panes |-> IF p = Src THEN [Runs(Shell(1), "codex", 2, Old) EXCEPT !.bound = Old]
                               ELSE Absent]
    /\ procs = 2 /\ touches = 0
    /\ \E r \in Requests :
           req = [op |-> r.op, kind |-> r.kind, prompted |-> r.prompted, focus |-> r.focus,
                  own |-> r.own, pc |-> First(r), created |-> FALSE, kept |-> FALSE,
                  who |-> NoThread, prefix |-> NoThread, session |-> NoThread, prior |-> {}, pid |-> 0, leader |-> 0, looked |-> 0,
                  state |-> "notAttempted", err |-> {}]
    /\ server = "none" /\ sessions = {}
    /\ received = [t \in OptThread |-> 0]

\* The world is not followed once the caller has its answer.
Answered == At("done")
Rest == Answered /\ UNCHANGED vars

Next ==
    \/ ~Answered /\ World /\ UNCHANGED req
    \/ Baseline \/ ForkSource \/ Safe \/ Spawn \/ Proof \/ Create \/ NativeFork \/ SourceAfter
    \/ Launch \/ Exec \/ Origin \/ Undo
    \/ WaitForAgent \/ WaitForFresh \/ WaitForChild \/ SourceAgain
    \/ Discover \/ Resolve \/ Bind \/ Bound \/ Deliver \/ Focus \/ Focused
    \/ Fails \/ LaunchFails \/ ChildIsKept \/ Close \/ Delete \/ Stop
    \/ Rest

Spec == Init /\ [][Next]_vars

-----------------------------------------------------------------------------
\* What the caller was given to look after: the target, with or without an error.
Kept == req.err \subseteq {"server"} \/ ~NotAttempted \/ req.kept

\* docs/plugin-recipes.md:287 and 321: at whatever step it fails, a pane, an OpenCode
\* conversation and a server of the kit's are gone, or handed back, or named by the
\* error; a conversation OpenCode may have forked makes it uncertain.  A pane or a
\* conversation whose only trace is an answer that was lost is not among them.
LeftoversAreReported ==
    /\ Answered /\ ~Kept /\ req.created /\ pane[Tgt].open => "cleanup" \in req.err
    /\ Answered /\ ~Kept /\ req.session \in sessions /\ req.op # "fork" => "session" \in req.err
    /\ Answered /\ req.err # {} /\ req.op = "fork" /\ sessions # {} => "uncertain" \in req.err
    /\ Answered /\ req.own /\ server = "running" => "server" \in req.err

Arrived(n) == \E t \in Threads : received = [u \in OptThread |-> IF u = t THEN n ELSE 0]

\* Nobody has interfered: from the last look on with an OMP, whose socket names the
\* conversation its TUI is on, and at all with the others.
Undisturbed == IF req.kind = "omp" THEN req.looked ELSE 0

\* The state of the prompt says what became of it.  A good end names a conversation:
\* never the source's for a fork, never one that was listed before for New.  The first
\* one found in a started pane is taken for the new one, with nothing to compare it
\* with; that it is, and that the prompt is in it, holds while nobody interferes.
AnswersAreTrue ==
    /\ TypeOK
    /\ req.state \in {"notAttempted", "notSent"} => Arrived(0)
    /\ req.state = "acknowledged" => Arrived(1)
    /\ Answered /\ req.err = {} =>
          /\ req.prompted => req.state = "acknowledged"
          /\ req.who # NoThread
          /\ req.op = "fork" => req.who # Old
          /\ req.op = "new" => req.who \notin req.prior
          /\ touches = 0 => req.who = Child
          /\ req.prompted /\ touches = Undisturbed => received[req.who] = 1
          /\ req.kind = "opencode" => req.who = req.session

\* A prompt goes where nobody has interfered since the last look: nothing is
\* drafted there, nobody looks at it, and no turn is running.  From then on the kit
\* neither closes the target nor deletes its conversation.
PromptIsSafe ==
    [][/\ received' # received /\ touches = req.looked =>
              Untouched(Tgt) /\ (req.kind = "omp" => pane[Tgt].thread = req.who)
       /\ ~Arrived(0) /\ req' # req => pane'[Tgt].open = pane[Tgt].open /\ sessions' = sessions]_vars
=============================================================================
