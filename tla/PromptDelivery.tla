---------------------------- MODULE PromptDelivery ----------------------------
(***************************************************************************)
(* PromptHost.Deliver: the one prompt of a freshly launched TUI.  The      *)
(* target is looked at three times, which must agree, and then one         *)
(* agent.prompt is written, which is never repeated.  What it returns      *)
(* decides whether the caller may still clean the target up.               *)
(*                                                                         *)
(* The kinds of TUI differ in how they tell that they are idle: a Codex by *)
(* its composer, an OMP by its status socket, an OpenCode by a server, for *)
(* which the kit may start a short-lived one.                              *)
(*                                                                         *)
(* A wait for something is a step that is not enabled before it; giving    *)
(* up, or any failing call, is Fails.                                      *)
(***************************************************************************)
EXTENDS HerdrPanes

CONSTANTS Src, Tgt,        \* the pane of the request, and the one a launch creates
          Old, Child       \* the conversation in Src, and the one to be created

ASSUME NamesAssumption == Src # Tgt /\ {Src, Tgt} \subseteq Panes
                          /\ Old # Child /\ {Old, Child} \subseteq Threads

VARIABLES
    req,         \* the request being served, and its local variables
    server,      \* the short-lived OpenCode server
    sessions,    \* the OpenCode conversations created for the request
    received     \* per conversation: how many prompts of the kit arrived

promptVars == <<server, sessions, received>>
paneVars == <<pane, procs, touches>>

Ops == {"start", "new", "fork"}
Kinds == {"codex", "omp", "opencode"}
States == {"notAttempted", "notSent", "unknown", "acknowledged"}
Errors == {"failed", "cleanup", "session", "server", "uncertain"}

DeliverySteps == {"observe", "settled", "last", "send"}

At(step) == req.pc = step
Goto(step) == req' = [req EXCEPT !.pc = step]

-----------------------------------------------------------------------------
(***************************************************************************)
(* The end of a request.  A launched target is closed and a created        *)
(* OpenCode conversation deleted only while the prompt was certainly not   *)
(* sent; the short-lived server is stopped in every case.                  *)
(***************************************************************************)
Finish == IF req.own /\ server # "none" THEN "stop" ELSE "done"

\* Deliver calls them not attempted; everything later may have reached the TUI.
NotAttempted == req.state = "notAttempted"

\* failBeforeSend, fail: Cleanup and Delete.  With nothing launched, Delete alone.
AfterFailure ==
    IF ~NotAttempted THEN Finish
    ELSE IF req.created THEN "close"
    ELSE IF req.session # NoThread /\ req.op # "fork" THEN "delete"
    ELSE Finish

\* A conversation OpenCode forked is never deleted: the error names it.
Uncertain == IF req.op = "fork" /\ req.session # NoThread THEN {"uncertain"} ELSE {}

\* What cleaning up uses is kept; the other local variables are dropped.
Failed(after) ==
    [req EXCEPT !.pc = after, !.err = @ \cup {"failed"} \cup Uncertain, !.pid = 0, !.leader = 0,
                !.prior = {}, !.prefix = NoThread, !.looked = 0]

Failing == req' = Failed(AfterFailure)

Then(step) == Goto(step) \/ Failing

-----------------------------------------------------------------------------
(***************************************************************************)
(* One look at the target.                                                 *)
(***************************************************************************)
\* The server the caller gave is up, or the caller's to answer for.
ServerUp == req.own => server = "running"

\* What the pane shows of the composer, of all three harnesses.
ComposerEmpty == pane[Tgt].draft = "empty"

\* The status socket of an OMP names the conversation its TUI is on.
OmpIdle == pane[Tgt].thread = req.who

\* A server knows the conversation, not whether a TUI shows it.
OpenCodeIdle == ServerUp /\ req.who \in sessions

NativeReady ==
    /\ ComposerEmpty
    /\ req.kind = "omp" => OmpIdle
    /\ req.kind = "opencode" => OpenCodeIdle

\* A mistake: what the harness itself says is not asked.
HerdrSaysReady ==
    /\ BoundTo(Tgt, req.who) /\ ~pane[Tgt].focused /\ ~pane[Tgt].busy
    /\ Verified(Tgt, "managed")

\* observe: Herdr's agent is the one identified, in the background and ready, and
\* the literal argv is its foreground process.
Observed ==
    /\ BoundTo(Tgt, req.who) /\ ~pane[Tgt].focused /\ ~pane[Tgt].busy
    /\ Verified(Tgt, "managed")
    /\ NativeReady

Observe ==
    /\ At("observe") /\ Observed
    /\ req' = [req EXCEPT !.pc = "settled", !.pid = pane[Tgt].pid]
    /\ UNCHANGED <<paneVars, promptVars>>

\* After the settle time, and once more when Herdr's socket is known.
Settled ==
    /\ At("settled")
    /\ Observed /\ SameProcess(Tgt, req.pid)
    /\ Goto("last")
    /\ UNCHANGED <<paneVars, promptVars>>

Last ==
    /\ At("last")
    /\ Observed /\ SameProcess(Tgt, req.pid)
    /\ req' = [req EXCEPT !.pc = "send", !.looked = touches]
    /\ UNCHANGED <<paneVars, promptVars>>

-----------------------------------------------------------------------------
(***************************************************************************)
(* agent.prompt.                                                           *)
(***************************************************************************)
\* samePromptAcknowledgement: a conversation known by its prefix may be bound by now.
SameAgent ==
    /\ \/ BoundTo(Tgt, req.who)
       \/ req.prefix # NoThread /\ BoundTo(Tgt, req.prefix)
    /\ ~pane[Tgt].focused

\* Herdr types the prompt into whatever TUI is in the pane.
Arrives ==
    /\ pane[Tgt].open /\ pane[Tgt].prog \in Tui
    /\ Update(Tgt, [pane[Tgt] EXCEPT !.busy = TRUE, !.draft = "empty"])
    /\ received' = [received EXCEPT ![pane[Tgt].thread] = @ + 1]

Delivered == IF req.prefix # NoThread THEN "resolve"
             ELSE IF req.focus THEN "focus" ELSE Finish

Sent(state) ==
    IF state = "acknowledged" THEN [req EXCEPT !.state = state, !.pc = Delivered]
    ELSE [Failed(Finish) EXCEPT !.state = state]

\* CallWithReceipt: not written, or written with any fate and any answer.
Send ==
    /\ At("send")
    /\ \/ UNCHANGED <<pane, received>> /\ \E state \in {"notSent", "unknown"} : req' = Sent(state)
       \/ Arrives /\ req' = Sent("unknown")
       \/ SameAgent /\ Arrives /\ req' = Sent("acknowledged")
    /\ UNCHANGED <<procs, touches, server, sessions>>

Deliver == Observe \/ Settled \/ Last \/ Send
=============================================================================
