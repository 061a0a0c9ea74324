---------------------------- MODULE CommandRunner ----------------------------
(***************************************************************************)
(* ExecRunner.RunSpec: one bounded child process, its process group and    *)
(* its output pipes, until the result is handed out.                       *)
(*                                                                         *)
(* The child and its descendants fork, leave the group, close the pipes    *)
(* and exit as they like.  A process that exits is reaped at once; process *)
(* group ids are not reused.  A timer may fire at any moment.              *)
(***************************************************************************)
EXTENDS Naturals

CONSTANTS Procs, Leader

ASSUME LeaderAssumption == Leader \in Procs

VARIABLES
    proc,        \* per process: whether it runs; "doomed": KILL is pending
    group,       \* the members of the leader's process group
    holds,       \* the processes that have an output pipe open
    status,      \* the leader's exit status
    ctx,         \* the caller's context
    wait,        \* the goroutine in cmd.Wait, and its answer in the channel
    pc,
    reaped,      \* leaderReaped, leaderDone: the answer was taken
    canceled, incomplete,     \* fields of Result
    kind         \* kind of the error returned

worldVars == <<proc, group, holds, status>>
resultVars == <<canceled, incomplete, kind>>
runnerVars == <<proc, group, holds, status, ctx, wait, pc, reaped, canceled, incomplete, kind>>

Steps == {"begin", "start", "running", "completed", "canceled", "stop", "grace", "teardown",
          "result", "returned"}

RunnerTypeOK ==
    /\ proc \in [Procs -> {"unborn", "alive", "doomed", "dead"}]
    /\ group \subseteq Procs
    /\ holds \subseteq Procs
    /\ status \in {"none", "zero", "nonzero"}
    /\ ctx \in {"live", "done"}
    /\ wait \in {"none", "ready", "taken"}
    /\ pc \in Steps
    /\ reaped \in BOOLEAN
    /\ canceled \in BOOLEAN
    /\ incomplete \in BOOLEAN
    /\ kind \in {"none", "start", "exit", "canceled", "truncated", "cleanup"}

RunnerInit ==
    /\ proc = [p \in Procs |-> "unborn"]
    /\ group = {} /\ holds = {}
    /\ status = "none" /\ ctx = "live" /\ wait = "none"
    /\ pc = "begin" /\ reaped = FALSE
    /\ canceled = FALSE /\ incomplete = FALSE /\ kind = "none"

At(step) == pc = step
Continue(step) == pc' = step

-----------------------------------------------------------------------------
(***************************************************************************)
(* Starting the child.                                                     *)
(***************************************************************************)
Returns(k) == Continue("returned") /\ kind' = k

Begins ==
    /\ At("begin")
    /\ \/ ctx = "done" /\ Returns("canceled") /\ canceled' = TRUE
       \/ ctx = "live" /\ Continue("start") /\ UNCHANGED <<kind, canceled>>
    /\ UNCHANGED <<worldVars, ctx, wait, reaped, incomplete>>

\* Setpgid: the leader has a group of its own.
Start ==
    /\ At("start")
    /\ proc' = [proc EXCEPT ![Leader] = "alive"]
    /\ group' = {Leader} /\ holds' = {Leader}
    /\ Continue("running")
    /\ UNCHANGED <<status, ctx, wait, reaped, resultVars>>

StartFails ==
    /\ At("start") /\ Returns("start")
    /\ UNCHANGED <<worldVars, ctx, wait, reaped, canceled, incomplete>>

-----------------------------------------------------------------------------
(***************************************************************************)
(* Completion against cancellation.                                        *)
(***************************************************************************)
\* processGroupExists: signal 0 reaches somebody.
GroupExists == group # {}

\* The answer of cmd.Wait is received; there is one.
TakeDone == wait = "ready" /\ wait' = "taken" /\ reaped' = TRUE
NotDone == wait # "ready" /\ UNCHANGED <<wait, reaped>>

Completes ==
    /\ At("running") /\ TakeDone
    /\ Continue("completed")
    /\ UNCHANGED <<worldVars, ctx, resultVars>>

CancelSeen ==
    /\ At("running") /\ ctx = "done"
    /\ canceled' = TRUE /\ Continue("canceled")
    /\ UNCHANGED <<worldVars, ctx, wait, reaped, incomplete, kind>>

AfterDone == IF GroupExists THEN "stop" ELSE "result"

\* Completion wins only when the cancellation was not observable yet.
Completed ==
    /\ At("completed")
    /\ canceled' = (ctx = "done")
    /\ Continue(IF ctx = "done" THEN AfterDone ELSE "result")
    /\ UNCHANGED <<worldVars, ctx, wait, reaped, incomplete, kind>>

Canceled ==
    /\ At("canceled")
    /\ \/ TakeDone /\ Continue(AfterDone)
       \/ NotDone /\ Continue("stop")
    /\ UNCHANGED <<worldVars, ctx, resultVars>>

-----------------------------------------------------------------------------
(***************************************************************************)
(* stopProcessGroup, waitForTeardown and finishAtDeadline.                 *)
(***************************************************************************)
\* A mistake: the signal is sent and the result handed out.
StopSignalsOnly ==
    /\ At("stop") /\ Continue("result")
    /\ UNCHANGED <<worldVars, ctx, wait, reaped, resultVars>>

\* TERM to the group, which may ignore it.
Stop ==
    /\ At("stop") /\ Continue("grace")
    /\ UNCHANGED <<worldVars, ctx, wait, reaped, resultVars>>

\* A mistake: the leader is all that counts.
GraceForLeader ==
    /\ At("grace") /\ TakeDone
    /\ Continue("result")
    /\ UNCHANGED <<worldVars, ctx, resultVars>>

\* A member that outlives the leader has the rest of the grace period.
GraceDone ==
    /\ At("grace") /\ TakeDone
    /\ Continue(IF GroupExists THEN "grace" ELSE "result")
    /\ UNCHANGED <<worldVars, ctx, resultVars>>

\* KILL to the group, if there is one.
GraceEnds ==
    /\ At("grace")
    /\ proc' = [p \in Procs |-> IF p \in group THEN "doomed" ELSE proc[p]]
    /\ Continue("teardown")
    /\ UNCHANGED <<group, holds, status, ctx, wait, reaped, resultVars>>

TeardownDone ==
    /\ At("teardown") /\ TakeDone
    /\ UNCHANGED <<worldVars, ctx, pc, resultVars>>

\* The millisecond ticker.
TornDown ==
    /\ At("teardown") /\ reaped /\ ~GroupExists
    /\ Continue("result")
    /\ UNCHANGED <<worldVars, ctx, wait, reaped, resultVars>>

\* A mistake: the end of cmd.Wait is awaited without a limit.
TeardownAwaitsDone ==
    /\ At("teardown") /\ TakeDone
    /\ incomplete' = GroupExists
    /\ Continue("result")
    /\ UNCHANGED <<worldVars, ctx, canceled, kind>>

TeardownEnds ==
    /\ At("teardown")
    /\ TakeDone \/ NotDone
    /\ incomplete' = (~reaped' \/ GroupExists)
    /\ Continue("result")
    /\ UNCHANGED <<worldVars, ctx, canceled, kind>>

\* The error: cleanup before cancellation before exit before truncation.
Result ==
    /\ At("result")
    /\ \E truncated \in BOOLEAN :
          Returns(IF incomplete THEN "cleanup" ELSE IF canceled THEN "canceled"
                 ELSE IF status # "zero" THEN "exit" ELSE IF truncated THEN "truncated" ELSE "none")
    /\ UNCHANGED <<worldVars, ctx, wait, reaped, canceled, incomplete>>

RunnerStep ==
    \/ Begins \/ Start \/ StartFails \/ Completes \/ CancelSeen \/ Completed \/ Canceled
    \/ Stop \/ GraceDone \/ GraceEnds \/ TeardownDone \/ TornDown \/ TeardownEnds \/ Result

-----------------------------------------------------------------------------
(***************************************************************************)
(* The processes, the kernel, and the caller's context.                    *)
(***************************************************************************)
\* cmd.Wait: the leader is reaped and every pipe has reached its end.
WaitReturns ==
    /\ wait = "none" /\ proc[Leader] = "dead" /\ holds = {}
    /\ wait' = "ready"
    /\ UNCHANGED <<worldVars, ctx, pc, reaped, resultVars>>

Forks(p, q) ==
    /\ proc[p] = "alive" /\ proc[q] = "unborn"
    /\ proc' = [proc EXCEPT ![q] = "alive"]
    /\ group' = IF p \in group THEN group \cup {q} ELSE group
    /\ holds' = IF p \in holds THEN holds \cup {q} ELSE holds
    /\ UNCHANGED status

\* setsid; the leader of a group cannot.
Leaves(p) ==
    /\ proc[p] = "alive" /\ p \in group \ {Leader}
    /\ group' = group \ {p}
    /\ UNCHANGED <<proc, holds, status>>

Closes(p) ==
    /\ proc[p] = "alive" /\ p \in holds
    /\ holds' = holds \ {p}
    /\ UNCHANGED <<proc, group, status>>

Exits(p) ==
    /\ proc[p] \in {"alive", "doomed"}
    /\ proc' = [proc EXCEPT ![p] = "dead"]
    /\ group' = group \ {p} /\ holds' = holds \ {p}
    /\ IF p = Leader THEN status' \in {"nonzero"} \cup (IF proc[p] = "alive" THEN {"zero"} ELSE {})
       ELSE UNCHANGED status

ProcessStep ==
    /\ \E p \in Procs : Leaves(p) \/ Closes(p) \/ Exits(p) \/ \E q \in Procs : Forks(p, q)
    /\ UNCHANGED <<ctx, wait, pc, reaped, resultVars>>

CtxEnds ==
    /\ ctx = "live" /\ ctx' = "done"
    /\ UNCHANGED <<worldVars, wait, pc, reaped, resultVars>>

RunnerNext == RunnerStep \/ WaitReturns \/ ProcessStep \/ CtxEnds

RunnerSpec == RunnerInit /\ [][RunnerNext]_runnerVars

-----------------------------------------------------------------------------
\* docs/test-strategy.md:459, HYP-PROCESS-02: once RunSpec has returned without a
\* cleanup error, the leader is dead and reaped and nobody, not even a process
\* that left the group, can write to its output any more; and after a
\* cancellation nothing is left of its group.
ReturnIsClean ==
    At("returned") =>
        /\ kind # "cleanup" => proc[Leader] \in {"unborn", "dead"} /\ holds = {}
        /\ kind = "canceled" => group = {}
        /\ kind \in {"none", "exit", "truncated"} => reaped
=============================================================================
