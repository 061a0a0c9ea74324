------------------------------ MODULE HerdrPanes ------------------------------
(***************************************************************************)
(* Herdr's panes as runtime/sessionhost observes and changes them: one     *)
(* foreground process per pane, the line typed into it, its focus, and the *)
(* conversation Herdr has bound to it.  A person shares the panes.         *)
(*                                                                         *)
(* Every operation is one herdr call; sessionhost brackets each with reads *)
(* of the pane's location, which here is whether the pane is still open.   *)
(***************************************************************************)
EXTENDS Naturals, FiniteSets

CONSTANTS Panes, Threads, NoThread,
          MaxTouches       \* bound: how often somebody else interferes

ASSUME ThreadsAssumption == NoThread \notin Threads
ASSUME TouchesAssumption == MaxTouches \in Nat

VARIABLES
    pane,      \* per pane: its foreground process and what is typed into it
    procs,     \* the processes started so far; a pid is its number
    touches    \* how often somebody has interfered

OptThread == Threads \cup {NoThread}

\* "codex": an ordinary TUI.  "managed", "ordinary": a process with the literal
\* argv of the kit's managed launch, or of its ordinary resume.
Kit == {"managed", "ordinary"}
Tui == Kit \cup {"codex"}
Programs == Tui \cup {"shell", "other"}

\* shell: the pid of the pane's shell, 0 once it was replaced.  queued: a command
\* the terminal took and the shell has not started.  draft: the composer of a
\* TUI, or the editor of a shell.  bound: agent_session.  shows: the conversation
\* of the /status output the kit asked for.
PaneType == [open : BOOLEAN, shell : Nat, prog : Programs, pid : Nat, thread : OptThread,
             queued : Kit \cup {"exec", "none"}, draft : {"empty", "status", "typed"},
             focused : BOOLEAN, busy : BOOLEAN, bound : OptThread, shows : OptThread]

Shell(pid) == [open |-> TRUE, shell |-> pid, prog |-> "shell", pid |-> pid,
               thread |-> NoThread, queued |-> "none", draft |-> "empty",
               focused |-> FALSE, busy |-> FALSE, bound |-> NoThread, shows |-> NoThread]
Absent == [Shell(0) EXCEPT !.open = FALSE]

\* The process in the foreground of x changes.
Runs(x, prog, pid, t) ==
    [x EXCEPT !.prog = prog, !.pid = pid, !.thread = t, !.queued = "none",
              !.draft = "empty", !.busy = FALSE, !.bound = NoThread, !.shows = NoThread]

PanesTypeOK ==
    /\ pane \in [Panes -> PaneType]
    /\ procs \in Nat
    /\ touches \in 0..MaxTouches

-----------------------------------------------------------------------------
(***************************************************************************)
(* What the kit reads.                                                     *)
(***************************************************************************)
\* InspectForegroundProcess and VerifyForegroundProcess, literal argv.
Verified(p, prog) == pane[p].open /\ pane[p].prog = prog

SameProcess(p, pid) == pane[p].open /\ pane[p].pid = pid

\* readManagedAgent, find: Herdr's agent of the pane, and the session it has.
BoundTo(p, t) == pane[p].open /\ pane[p].bound = t

\* waitForShell: the shell is its own foreground; a typed command that it has
\* not started does not show.
ShellReady(p) == Verified(p, "shell")

\* managedPaneQuiescent with emptyCodexComposer: idle, unfocused, nothing drafted.
Quiet(p) == pane[p].open /\ pane[p].prog \in Tui /\ ~pane[p].busy /\ ~pane[p].focused
Untouched(p) == Quiet(p) /\ pane[p].draft = "empty"

-----------------------------------------------------------------------------
(***************************************************************************)
(* What the kit does to a pane, one herdr call each.                       *)
(***************************************************************************)
Update(p, x) == pane' = [pane EXCEPT ![p] = x]

\* pane run: the command and Enter are typed.  A shell queues it behind what is
\* in its editor; a program takes it as input of its own.
TypeCommand(p, prog) ==
    Update(p, CASE pane[p].prog = "shell" /\ pane[p].draft = "empty" ->
                       [pane[p] EXCEPT !.queued = prog]
                [] pane[p].prog \in Tui -> [pane[p] EXCEPT !.draft = "empty", !.busy = TRUE]
                [] OTHER -> [pane[p] EXCEPT !.draft = "empty"])

\* pane send-text.
TypeText(p) ==
    Update(p, [pane[p] EXCEPT !.draft = IF @ = "empty" THEN "status" ELSE "typed"])

\* pane split, and layout.apply, whose root runs its argv at once.
OpenShell(p) == Update(p, Shell(procs + 1)) /\ procs' = procs + 1
OpenRunning(p, prog) ==
    Update(p, Runs(Shell(0), prog, procs + 1, NoThread)) /\ procs' = procs + 1

ClosePane(p) == Update(p, Absent)

\* The foreground process ends: the shell comes back, or the pane goes with it.
Ended(x) == IF x.shell = 0 THEN Absent ELSE Runs(x, "shell", x.shell, NoThread)

\* StopForegroundProcess's SIGTERM to the group.
Signal(p) == Update(p, Ended(pane[p]))

\* send-keys ctrl+d: an idle TUI quits, an idle shell exits and takes its pane
\* along; a draft keeps either.  Another program may end or not.
PressCtrlD(p) ==
    Update(p, IF pane[p].draft # "empty" THEN pane[p]
              ELSE IF pane[p].prog = "shell" THEN Absent ELSE Ended(pane[p]))

\* pane report-agent-session.
ReportSession(p, t) == Update(p, [pane[p] EXCEPT !.bound = t])

\* pane.focus takes the focus from every other pane.
TakeFocus(p) == pane' = [q \in Panes |-> [pane[q] EXCEPT !.focused = q = p]]

-----------------------------------------------------------------------------
(***************************************************************************)
(* The panes on their own, and the person at them.                         *)
(***************************************************************************)
Touch == touches < MaxTouches /\ touches' = touches + 1

\* The shell starts the command it was given, on the conversation t.
Starts(p, t) ==
    /\ pane[p].open /\ pane[p].prog = "shell" /\ pane[p].queued # "none"
    /\ Update(p, IF pane[p].queued = "exec"
                   THEN [Runs(pane[p], "managed", procs + 1, t) EXCEPT !.shell = 0]
                   ELSE Runs(pane[p], pane[p].queued, procs + 1, t))
    /\ procs' = procs + 1

\* The SessionStart hook tells Herdr the conversation of a TUI.
HookReports(p) ==
    /\ pane[p].open /\ pane[p].prog \in Tui
    /\ pane[p].thread # NoThread /\ pane[p].bound = NoThread
    /\ ReportSession(p, pane[p].thread)
    /\ UNCHANGED <<procs, touches>>

TurnEnds(p) ==
    /\ pane[p].busy
    /\ Update(p, [pane[p] EXCEPT !.busy = FALSE])
    /\ UNCHANGED <<procs, touches>>

PersonTypes(p) ==
    /\ pane[p].open /\ Touch
    /\ Update(p, [pane[p] EXCEPT !.draft = "typed"])
    /\ UNCHANGED procs

PersonFocuses(p) ==
    /\ pane[p].open /\ Touch
    /\ TakeFocus(p)
    /\ UNCHANGED procs

\* A program ends: it is quit, or fails.
ProgramEnds(p) ==
    /\ pane[p].open /\ pane[p].prog # "shell" /\ Touch
    /\ Update(p, Ended(pane[p]))
    /\ UNCHANGED procs

\* Something else is started at an idle shell.
PersonStarts(p) ==
    /\ ShellReady(p) /\ pane[p].queued = "none" /\ Touch
    /\ Update(p, Runs(pane[p], "other", procs + 1, NoThread))
    /\ procs' = procs + 1

PersonCloses(p) ==
    /\ pane[p].open /\ Touch
    /\ ClosePane(p)
    /\ UNCHANGED procs
=============================================================================
