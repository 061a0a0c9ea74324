------------------------ MODULE CodexConversion_proofs ------------------------
(***************************************************************************)
(* Whatever fails in a launch or a conversion, and whoever interferes, the *)
(* conversation has one writer and nothing is forgotten, for any number of *)
(* panes, threads, restarts and interferences.                             *)
(***************************************************************************)
EXTENDS CodexConversion, TLAPS

-----------------------------------------------------------------------------
(***************************************************************************)
(* The inductive invariant.  First which steps an operation comes to, and  *)
(* what its local variables are there.                                     *)
(***************************************************************************)
\* Before the first launch of a conversion, and after one.
EarlySteps ==
    {"service", "resolve", "resolved", "recheck", "connect", "capture", "defaulted", "history",
     "safe", "signal", "signalled", "verify", "exit", "exited", "lease", "after", "apply",
     "readback", "policy", "confirmed"}
AgainSteps == {"launched", "recovery", "releaseLease", "result"}
FallbackSteps ==
    {"fallback", "fallbackLease", "fallbackVerify", "fallbackShell", "fallbackType",
     "fallbackTyped", "fallbackProcess", "fallbackIdentity", "fallbackReadback"}
RestoredSteps == {"fallbackTyped", "fallbackProcess", "fallbackIdentity", "fallbackReadback"}

StartSteps == {"ensure", "source", "preflight", "run", "launchShell", "launchExec",
               "launchOrigin", "guarded", "shell", "type"}
OpeningSteps == {"launchShell", "launchExec", "launchOrigin"}
CheckedSteps == {"sourceAfter", "audit", "reconcile", "reconciled"}
PromisedSteps == {"final", "prompt", "focus", "focused"}
CleanupSteps == FailSteps \ {"undo"}

Sent == kit.prompt \in {"unknown", "acknowledged"}
Unclean == "cleanup" \in kit.err

StepsOf(op) ==
    CASE op = "none" -> {"idle"}
      [] op \in {"new", "fork"} ->
            (StatusSteps \cup BindSteps \cup LaunchSteps \cup FailSteps \cup {"done"})
                \ {"guarded", "shell", "type", "typed"}
      [] op = "resume" ->
            (StatusSteps \cup BindSteps \cup LaunchSteps \cup CleanupSteps \cup AgainSteps
                \cup FallbackSteps \cup {"launch", "done"})
                \ ({"source", "run", "sourceAfter", "prompt", "focus", "focused"} \cup OpeningSteps)
      [] op = "release" -> CleanupSteps \cup {"done"}
      [] OTHER -> EarlySteps \cup FallbackSteps \cup StatusSteps \cup BindSteps \cup {"launch", "done"}

\* Where discovery and binding go on.
BackFits ==
    /\ kit.pc \in StatusSteps =>
          kit.back \in IF kit.op \in LaunchOps THEN {"confirm"} ELSE {"resolved", "defaulted"}
    /\ kit.pc \in BindSteps =>
          kit.back = CASE kit.op = "fork" -> "sourceAfter" [] kit.op = "new" -> "final"
                       [] kit.op = "resume" -> "audit" [] OTHER -> "connect"
    /\ kit.pc \in BindSteps \cup {"resolved", "recheck", "connect", "capture", "defaulted",
                                  "history"} => kit.who # NoThread

\* A launch within a conversion returns to it; nothing else is prompted, creates a
\* pane or owns a command but the launches that may.
RequestFits ==
    /\ kit.ret \in {"done", "launched"}
    /\ kit.ret = "launched" => kit.op = "resume" /\ kit.want = Target /\ kit.reconciles
    /\ kit.pc \in AgainSteps \cup FallbackSteps \cup {"launch"} /\ kit.op = "resume" => kit.ret = "launched"
    /\ kit.reconciles /\ kit.op # "release" => kit.ret = "launched"
    /\ kit.op \in {"new", "fork", "none"} \cup ConversionOps => ~kit.owned
    /\ kit.op \notin {"new", "fork", "release"} => ~kit.created /\ ~kit.child /\ kit.pane = Src
    /\ kit.created => ~kit.owned /\ kit.pane = Tgt
    /\ kit.op = "resume" => ~kit.inherits /\ ~kit.focus /\ kit.prompt = "none"
    /\ kit.op = "new" => ~kit.inherits
    /\ Sent => kit.pc \in {"focus", "focused", "done"} \/ kit.op = "release"
    /\ kit.pc \in {"focus", "focused"} => kit.prompt # "unknown"
    /\ kit.pc = "result" => conv.outcome = "managed"
    /\ conv.outcome = "managed" => kit.pc \in {"result", "done"} \/ kit.op = "release"
    /\ ~conv.readable => kit.op \in ConversionOps /\ kit.pc \in FallbackSteps \cup {"done"}
    /\ kit.op \in ConversionOps \cup {"none"} => conv.attempts = 0
    /\ kit.pc \in {"launch", "recovery", "releaseLease"} => conv.attempts < 2

\* An error is known from the moment something is cleaned up, and no earlier.
ErrorFits ==
    /\ kit.pc \in FailSteps /\ kit.op \in LaunchOps => kit.err # {}
    /\ kit.pc \in StatusSteps \cup BindSteps \cup LaunchSteps \cup EarlySteps => kit.err = {}
    /\ kit.pc \in {"recovery", "releaseLease"} \cup FallbackSteps \cup {"launch"} => ~Unclean
    /\ kit.pc = "result" => kit.err = {}
    /\ Sent /\ kit.op # "release" => ~Unclean

FlowInv ==
    /\ kit.pc \in StepsOf(kit.op)
    /\ kit.pc = "idle" => kit = Resting
    /\ BackFits /\ RequestFits /\ ErrorFits

-----------------------------------------------------------------------------
(***************************************************************************)
(* What may be left in the panes and at the server.                        *)
(***************************************************************************)
\* A command of the kit's, typed or running, and a managed one.
NoWriter == pane[Src].queued = "none" /\ pane[Src].prog \notin Kit
NoManaged == pane[Src].queued \in {"none", "ordinary"} /\ pane[Src].prog # "managed"

\* Only a shell holds a command back.
OnlyShellsQueue == \A p \in Panes : pane[p].prog # "shell" => pane[p].queued = "none"

\* What the launch does not own, and reported no failed cleanup of, is not there.
CommandInv ==
    /\ ~kit.owned /\ ~Unclean => NoManaged
    /\ ~kit.owned /\ ~Unclean /\ kit.pc \notin RestoredSteps /\ (kit.pc = "done" => HasHandle) =>
          NoWriter
    /\ kit.pc = "stopped" => pane[Src].queued = "none"
    /\ kit.op = "resume" /\ kit.pc \in StatusSteps \cup BindSteps \cup CheckedSteps \cup {"final", "confirm"}
          => pane[Src].queued = "none"
    /\ kit.pc \in StartSteps \cup FallbackSteps \cup {"launch", "recovery", "releaseLease"} =>
          ~kit.owned
    /\ kit.pc \in {"stopped", "stopLate", "settle"} => kit.owned
    /\ kit.pc = "delete" => ~kit.owned \/ Unclean
    /\ kit.pc = "launched" /\ kit.err # {} => ~kit.owned \/ Unclean
    /\ kit.pc = "done" /\ kit.op \in LaunchOps /\ kit.err # {} =>
          ~kit.owned \/ Unclean \/ Sent \/ conv.outcome = "managed"

\* The same of the pane a launch opened, ...
CreatedInv ==
    /\ pane[Tgt].open => kit.created \/ Unclean \/ kit.pc \in OpeningSteps \cup {"undo"}
    /\ kit.pc \in {"ensure", "source", "preflight", "run", "undo"} \cup OpeningSteps => ~kit.created
    /\ kit.pc = "delete" => ~kit.created \/ Unclean
    /\ kit.pc = "done" /\ kit.op \in LaunchOps /\ kit.err # {} =>
          ~kit.created \/ Unclean \/ Sent

\* ... and of the thread its TUI created.
ChildInv ==
    /\ kit.pc = "idle" => ~thread[Child].exists
    /\ kit.op \in {"new", "fork"} /\ kit.pc \in BindSteps \cup CheckedSteps \cup PromisedSteps =>
          thread[Child].exists
    /\ kit.pc = "done" /\ kit.op \in {"new", "fork"} /\ kit.err # {} /\ kit.pane = Tgt =>
          ~thread[Child].exists \/ Unclean \/ Sent

-----------------------------------------------------------------------------
(***************************************************************************)
(* What the settings of a thread are known to be.                          *)
(***************************************************************************)
SameEffort == thread[Old].effort \in {conv.before.effort, "foreign"}

EffortInv ==
    /\ kit.pc \in {"apply", "fallbackLease", "fallbackVerify", "fallbackShell",
                   "fallbackType"} => SameEffort
    /\ kit.pc = "readback" /\ conv.update = "unsent" => SameEffort
    /\ kit.pc = "fallback" /\ ~conv.readable => SameEffort

Promised == thread[target].policy \in {kit.want.policy, "foreign"}

PolicyInv ==
    /\ kit.op \in LaunchOps /\ kit.pc \in PromisedSteps => Promised
    /\ kit.op = "new" /\ thread[Child].exists => Promised

Inv == /\ TypeOK /\ FlowInv /\ OnlyShellsQueue
       /\ CommandInv /\ CreatedInv /\ ChildInv /\ EffortInv /\ PolicyInv

-----------------------------------------------------------------------------
(***************************************************************************)
(* Types.                                                                  *)
(***************************************************************************)
AllSteps == StatusSteps \cup BindSteps \cup LaunchSteps \cup FailSteps \cup {"idle", "done"}
               \cup ConversionSteps

LEMMA Names ==
    /\ Src \in Panes /\ Tgt \in Panes /\ Src # Tgt
    /\ Old \in Threads /\ Child \in Threads /\ Old # Child
    /\ NoThread \notin Threads /\ Threads \subseteq OptThread /\ NoThread \in OptThread
BY NamesAssumption, ThreadsAssumption DEF OptThread

LEMMA ShellTypes ==
    ASSUME NEW pid \in Nat
    PROVE  Shell(pid) \in PaneType /\ Absent \in PaneType
BY Names DEF Shell, Absent, PaneType, Programs, Tui, Kit

LEMMA RunsTypes ==
    ASSUME NEW x \in PaneType, NEW prog \in Programs, NEW pid \in Nat, NEW t \in OptThread
    PROVE  Runs(x, prog, pid, t) \in PaneType
BY Names DEF Runs, PaneType

LEMMA EndedTypes ==
    ASSUME NEW x \in PaneType
    PROVE  Ended(x) \in PaneType
<1>1. x.shell \in Nat
  BY DEF PaneType
<1>2. Runs(x, "shell", x.shell, NoThread) \in PaneType
  BY <1>1, RunsTypes, Names DEF Programs
<1>3. Absent \in PaneType
  BY ShellTypes
<1> QED
  BY <1>2, <1>3 DEF Ended

\* One pane changes.
LEMMA OnePane ==
    ASSUME pane \in [Panes -> PaneType], NEW p \in Panes, NEW x \in PaneType, Update(p, x)
    PROVE  /\ pane' \in [Panes -> PaneType]
           /\ pane'[p] = x
           /\ \A q \in Panes \ {p} : pane'[q] = pane[q]
BY DEF Update

\* What the kit does to a pane, one call each.
LEMMA TypedInto ==
    ASSUME pane \in [Panes -> PaneType], NEW p \in Panes,
           NEW prog \in Kit \cup {"exec"}, TypeCommand(p, prog)
    PROVE  /\ pane' \in [Panes -> PaneType]
           /\ \A q \in Panes \ {p} : pane'[q] = pane[q]
           /\ pane'[p].open = pane[p].open /\ pane'[p].prog = pane[p].prog
           /\ pane'[p].queued \in {pane[p].queued, prog}
           /\ pane[p].prog # "shell" => pane'[p].queued = pane[p].queued
<1> DEFINE x == CASE pane[p].prog = "shell" /\ pane[p].draft = "empty" ->
                       [pane[p] EXCEPT !.queued = prog]
                  [] pane[p].prog \in Tui -> [pane[p] EXCEPT !.draft = "empty", !.busy = TRUE]
                  [] OTHER -> [pane[p] EXCEPT !.draft = "empty"]
<1>1. /\ x \in PaneType
      /\ x.open = pane[p].open /\ x.prog = pane[p].prog
      /\ x.queued \in {pane[p].queued, prog}
      /\ pane[p].prog # "shell" => x.queued = pane[p].queued
  BY DEF PaneType, Kit, Tui
<1>2. Update(p, x)
  BY DEF TypeCommand
<1> HIDE DEF x
<1> QED
  BY <1>1, <1>2, OnePane

\* A pane keeps its program and the command it holds back.
Alike(x, y) == x.open = y.open /\ x.prog = y.prog /\ x.queued = y.queued
SameShape == \A q \in Panes : Alike(pane'[q], pane[q])

LEMMA AlikePane ==
    ASSUME pane \in [Panes -> PaneType], NEW p \in Panes, NEW x \in PaneType,
           Alike(x, pane[p]), Update(p, x)
    PROVE  pane' \in [Panes -> PaneType] /\ SameShape
BY OnePane DEF SameShape, Alike

LEMMA Redrawn ==
    ASSUME NEW x \in PaneType, NEW d \in {"empty", "status", "typed"}, NEW b \in BOOLEAN,
           NEW t \in OptThread
    PROVE  /\ [x EXCEPT !.draft = d] \in PaneType /\ Alike([x EXCEPT !.draft = d], x)
           /\ [x EXCEPT !.busy = b] \in PaneType /\ Alike([x EXCEPT !.busy = b], x)
           /\ [x EXCEPT !.draft = d, !.busy = b] \in PaneType
           /\ Alike([x EXCEPT !.draft = d, !.busy = b], x)
           /\ [x EXCEPT !.draft = d, !.shows = t] \in PaneType
           /\ Alike([x EXCEPT !.draft = d, !.shows = t], x)
           /\ [x EXCEPT !.bound = t] \in PaneType /\ Alike([x EXCEPT !.bound = t], x)
           /\ [x EXCEPT !.thread = t] \in PaneType /\ Alike([x EXCEPT !.thread = t], x)
BY DEF PaneType, Alike

LEMMA FocusTaken ==
    ASSUME pane \in [Panes -> PaneType], NEW p \in Panes, TakeFocus(p)
    PROVE  /\ pane' \in [Panes -> PaneType]
           /\ SameShape
BY ZenonT(60) DEF TakeFocus, PaneType, SameShape, Alike

\* A program ends, a pane is closed, or a shell is alone in it again.
Emptied(x) == x.queued = "none" /\ x.prog = "shell"

LEMMA EndedIsEmpty ==
    ASSUME NEW x \in PaneType
    PROVE  Emptied(Ended(x)) /\ Emptied(Absent) /\ Absent.open = FALSE
BY DEF Ended, Emptied, Runs, Absent, Shell, PaneType

LEMMA FieldTypes ==
    ASSUME pane \in [Panes -> PaneType], NEW p \in Panes
    PROVE  /\ pane[p] \in PaneType
           /\ pane[p].draft \in {"empty", "status", "typed"} /\ pane[p].busy \in BOOLEAN
           /\ pane[p].bound \in OptThread /\ pane[p].shows \in OptThread
           /\ pane[p].thread \in OptThread /\ pane[p].pid \in Nat /\ pane[p].open \in BOOLEAN
           /\ pane[p].prog \in Programs /\ pane[p].shell \in Nat
           /\ pane[p].queued \in Kit \cup {"exec", "none"} /\ pane[p].focused \in BOOLEAN
BY DEF PaneType

\* A waiting command becomes the pane's program.
LEMMA Started ==
    ASSUME PanesTypeOK, NEW p \in Panes, NEW t \in OptThread, Starts(p, t)
    PROVE  /\ pane' \in [Panes -> PaneType] /\ procs' \in Nat
           /\ pane[p].queued # "none"
           /\ pane'[p].queued = "none" /\ pane'[p].open = pane[p].open
           /\ \A q \in Panes \ {p} : pane'[q] = pane[q]
<1> DEFINE x == IF pane[p].queued = "exec"
                   THEN [Runs(pane[p], "managed", procs + 1, t) EXCEPT !.shell = 0]
                   ELSE Runs(pane[p], pane[p].queued, procs + 1, t)
<1>1. pane[p] \in PaneType /\ procs + 1 \in Nat /\ procs' = procs + 1
  BY FieldTypes DEF PanesTypeOK, Starts
<1>2. pane[p].queued \in Kit \cup {"exec"}
  BY FieldTypes DEF PanesTypeOK, Starts
<1>3. x \in PaneType /\ x.queued = "none" /\ x.open = pane[p].open
  <2>1. CASE pane[p].queued = "exec"
    <3>1. Runs(pane[p], "managed", procs + 1, t) \in PaneType
      BY <1>1, RunsTypes DEF Programs, Tui, Kit
    <3> QED
      BY <3>1, <2>1, <1>1 DEF PaneType, Runs
  <2>2. CASE pane[p].queued # "exec"
    <3>1. Runs(pane[p], pane[p].queued, procs + 1, t) \in PaneType
      BY <1>1, <1>2, <2>2, RunsTypes DEF Programs, Tui
    <3> QED
      BY <3>1, <2>2, <1>1 DEF PaneType, Runs
  <2> QED
    BY <2>1, <2>2
<1>4. Update(p, x) /\ pane[p].queued # "none"
  BY DEF Starts
<1> HIDE DEF x
<1> QED
  BY <1>1, <1>3, <1>4, OnePane DEF PanesTypeOK

-----------------------------------------------------------------------------
(***************************************************************************)
(* What the panes, the server and the people may do in between.            *)
(***************************************************************************)
\* A pane is closed, empties, or starts what it held back; it is given nothing.
PaneMoves(x, y) ==
    /\ y.open => x.open
    /\ y.queued \in {x.queued, "none"}
    /\ y.prog # "shell" => y.queued = "none"
    /\ \/ y.prog \in {x.prog, "shell", "other"}
       \/ y.prog = x.queued \/ (x.queued = "exec" /\ y.prog = "managed")

\* A thread changes only to what another client wants; only the child is created,
\* and only a waiting command loads the source's thread again.
ThreadMoves ==
    /\ \A t \in Threads : thread[t].exists => thread'[t].exists
    /\ thread[Child].exists => thread'[Child].policy \in {thread[Child].policy, "foreign"}
    /\ thread'[Child].exists /\ ~thread[Child].exists =>
          pane[Tgt].open /\ (kit.op = "new" => thread'[Child].policy = kit.want.policy)
    /\ thread'[Old].effort \in {thread[Old].effort, "foreign"}
    /\ pane[Src].queued = "none" => thread'[Old].policy \in {thread[Old].policy, "foreign"}

Moves ==
    /\ PanesTypeOK' /\ ServerTypeOK'
    /\ \A p \in Panes : PaneMoves(pane[p], pane'[p])
    /\ ThreadMoves

LEMMA MovesAlike ==
    ASSUME OnlyShellsQueue, SameShape
    PROVE  \A p \in Panes : PaneMoves(pane[p], pane'[p])
BY DEF OnlyShellsQueue, SameShape, Alike, PaneMoves

LEMMA Same ==
    ASSUME UNCHANGED thread PROVE ThreadMoves
BY DEF ThreadMoves

\* A pane that is empty afterwards, or runs something else.
LEMMA MovesOne ==
    ASSUME PanesTypeOK, OnlyShellsQueue, NEW p \in Panes, NEW x \in PaneType, Update(p, x),
           PaneMoves(pane[p], x)
    PROVE  /\ pane' \in [Panes -> PaneType]
           /\ \A q \in Panes : PaneMoves(pane[q], pane'[q])
<1>1. \A q \in Panes : PaneMoves(pane[q], pane[q])
  BY DEF PaneMoves, OnlyShellsQueue
<1>2. \A q \in Panes : pane'[q] = x \/ pane'[q] = pane[q]
  BY OnePane DEF PanesTypeOK
<1>3. pane'[p] = x /\ pane' \in [Panes -> PaneType]
  BY OnePane DEF PanesTypeOK
<1>4. \A q \in Panes \ {p} : pane'[q] = pane[q]
  BY OnePane DEF PanesTypeOK
<1> QED
  BY <1>1, <1>3, <1>4

LEMMA EmptiedMoves ==
    ASSUME PanesTypeOK, NEW p \in Panes
    PROVE  /\ Absent \in PaneType /\ PaneMoves(pane[p], Absent)
           /\ Ended(pane[p]) \in PaneType /\ (pane[p].open => PaneMoves(pane[p], Ended(pane[p])))
           /\ pane[p].open => PaneMoves(pane[p], Runs(pane[p], "other", procs + 1, NoThread))
           /\ Runs(pane[p], "other", procs + 1, NoThread) \in PaneType
<1>1. pane[p] \in PaneType /\ procs + 1 \in Nat
  BY FieldTypes DEF PanesTypeOK
<1>2. Absent \in PaneType /\ Ended(pane[p]) \in PaneType
      /\ Runs(pane[p], "other", procs + 1, NoThread) \in PaneType
  BY <1>1, EndedTypes, ShellTypes, RunsTypes, Names DEF Programs
<1>3. Emptied(Absent) /\ Emptied(Ended(pane[p])) /\ Absent.open = FALSE
  BY <1>1, EndedIsEmpty
<1> QED
  BY <1>1, <1>2, <1>3 DEF PaneMoves, Emptied, Runs, PaneType

LEMMA PersonMoves ==
    ASSUME TypeOK, OnlyShellsQueue, PersonNext, UNCHANGED serverVars
    PROVE  Moves
<1> USE Names DEF TypeOK, PanesTypeOK, Touch
<1>0. PICK p \in Panes : \/ PersonTypes(p) \/ PersonFocuses(p) \/ ProgramEnds(p)
                         \/ PersonStarts(p) \/ PersonCloses(p) \/ HookReports(p) \/ TurnEnds(p)
  BY DEF PersonNext
<1>1. pane[p] \in PaneType /\ pane[p].thread \in OptThread
  BY FieldTypes
<1>2. procs' \in Nat /\ touches' \in 0..MaxTouches
  BY <1>0, TouchesAssumption DEF PersonTypes, PersonFocuses, ProgramEnds, PersonStarts,
     PersonCloses, HookReports, TurnEnds
<1>3. ServerTypeOK' /\ ThreadMoves
  BY Same DEF serverVars, ServerTypeOK
<1>4. pane' \in [Panes -> PaneType] /\ \A q \in Panes : PaneMoves(pane[q], pane'[q])
  <2>1. CASE PersonTypes(p)
    BY <2>1, <1>1, Redrawn, AlikePane, MovesAlike DEF PersonTypes
  <2>2. CASE PersonFocuses(p)
    BY <2>2, FocusTaken, MovesAlike DEF PersonFocuses
  <2>3. CASE ProgramEnds(p)
    BY <2>3, MovesOne, EmptiedMoves DEF ProgramEnds
  <2>4. CASE PersonStarts(p)
    BY <2>4, MovesOne, EmptiedMoves DEF PersonStarts, ShellReady, Verified
  <2>5. CASE PersonCloses(p)
    BY <2>5, MovesOne, EmptiedMoves DEF PersonCloses, ClosePane
  <2>6. CASE HookReports(p)
    BY <2>6, <1>1, Redrawn, AlikePane, MovesAlike DEF HookReports, ReportSession
  <2>7. CASE TurnEnds(p)
    BY <2>7, <1>1, Redrawn, AlikePane, MovesAlike DEF TurnEnds
  <2> QED
    BY <1>0, <2>1, <2>2, <2>3, <2>4, <2>5, <2>6, <2>7
<1> QED
  BY <1>2, <1>3, <1>4 DEF Moves

LEMMA ThreadTypes ==
    ASSUME ServerTypeOK, NEW t \in Threads
    PROVE  /\ thread[t] \in ThreadType /\ thread[t].exists \in BOOLEAN /\ thread[t].live \in BOOLEAN
           /\ thread[t].effort \in Efforts /\ thread[t].policy \in Policies
           /\ thread[t].turns \in Nat /\ thread[t].parent \in OptThread
           /\ Identity(t) \in Identities
BY DEF ServerTypeOK, ThreadType, Identity, Identities

LEMMA ServerMoves ==
    ASSUME TypeOK, OnlyShellsQueue, ServerNext
    PROVE  Moves
<1> USE Names DEF TypeOK
<1>1. CASE Restarts
  <2>1. /\ thread' = [t \in Threads |-> [thread[t] EXCEPT !.live = FALSE]]
        /\ UNCHANGED <<pane, procs, constraints>>
        /\ instance < MaxInstances /\ instance' = instance + 1
        /\ touches < MaxTouches /\ touches' = touches + 1
    BY <1>1 DEF Restarts, Touch
  <2>2. \A t \in Threads : /\ thread'[t] \in ThreadType /\ thread'[t].exists = thread[t].exists
                           /\ thread'[t].effort = thread[t].effort
                           /\ thread'[t].policy = thread[t].policy
    BY <2>1, ThreadTypes DEF ThreadType
  <2>3. ServerTypeOK'
    BY <2>1, <2>2, InstancesAssumption DEF ServerTypeOK
  <2>4. PanesTypeOK'
    BY <2>1, TouchesAssumption DEF PanesTypeOK
  <2>5. ThreadMoves
    BY <2>2 DEF ThreadMoves
  <2>6. SameShape
    BY <2>1 DEF SameShape, Alike
  <2> QED
    BY <2>3, <2>4, <2>5, <2>6, MovesAlike DEF Moves
<1>2. CASE ConstraintsChange
  BY <1>2, MovesAlike, TouchesAssumption, Same
     DEF ConstraintsChange, Touch, Moves, PanesTypeOK, ServerTypeOK, SameShape, Alike
<1>3. CASE \E t \in Threads : OtherClientUpdates(t) \/ Unloads(t)
  <2>1. PICK t \in Threads : OtherClientUpdates(t) \/ Unloads(t)
    BY <1>3
  <2>2. /\ UNCHANGED <<pane, procs, instance, constraints>> /\ touches' \in 0..MaxTouches
        /\ \/ thread' = [thread EXCEPT ![t].effort = "foreign", ![t].policy = "foreign"]
           \/ thread' = [thread EXCEPT ![t].live = FALSE]
    <3>1. CASE OtherClientUpdates(t)
      BY <3>1, TouchesAssumption DEF OtherClientUpdates, Touch, SetEffective, PanesTypeOK
    <3>2. CASE Unloads(t)
      BY <3>2 DEF Unloads, PanesTypeOK
    <3> QED
      BY <2>1, <3>1, <3>2
  <2>3. /\ thread' \in [Threads -> ThreadType]
        /\ \A u \in Threads : /\ thread'[u].exists = thread[u].exists
                              /\ thread'[u].effort \in {thread[u].effort, "foreign"}
                              /\ thread'[u].policy \in {thread[u].policy, "foreign"}
    <3> USE DEF ServerTypeOK
    <3>1. thread \in [Threads -> ThreadType]
      OBVIOUS
    <3>2. CASE thread' = [thread EXCEPT ![t].effort = "foreign", ![t].policy = "foreign"]
      BY <3>1, <3>2, ZenonT(60) DEF ThreadType, Efforts, Policies
    <3>3. CASE thread' = [thread EXCEPT ![t].live = FALSE]
      BY <3>1, <3>3 DEF ThreadType
    <3> QED
      BY <2>2, <3>2, <3>3
  <2> QED
    BY <2>2, <2>3, MovesAlike
       DEF Moves, ThreadMoves, PanesTypeOK, ServerTypeOK, SameShape, Alike
<1> QED
  BY <1>1, <1>2, <1>3 DEF ServerNext

LEMMA SubmitMoves ==
    ASSUME TypeOK, OnlyShellsQueue, NEW p \in Panes, PersonSubmits(p)
    PROVE  Moves
<1> USE Names DEF TypeOK
<1>1. pane[p] \in PaneType /\ pane[p].thread \in Threads
  BY FieldTypes DEF PersonSubmits, OptThread, PanesTypeOK
<1>2. pane' \in [Panes -> PaneType] /\ SameShape
  BY <1>1, Redrawn, AlikePane DEF PersonSubmits, PanesTypeOK
<1>3. /\ thread' \in [Threads -> ThreadType]
      /\ \A u \in Threads : /\ thread'[u].exists = thread[u].exists
                            /\ thread'[u].effort = thread[u].effort
                            /\ thread'[u].policy = thread[u].policy
  BY <1>1, ThreadTypes DEF PersonSubmits, ServerTypeOK, ThreadType
<1> QED
  BY <1>2, <1>3, MovesAlike DEF PersonSubmits, Moves, ThreadMoves, PanesTypeOK, ServerTypeOK

LEMMA StartMoves ==
    ASSUME TypeOK, OnlyShellsQueue, CommandStarts
    PROVE  Moves
<1> USE Names DEF TypeOK
<1>1. PICK p \in Panes : TuiStarts(p, IF p = Src THEN Old ELSE NoThread)
  BY DEF CommandStarts
<1>2. /\ pane' \in [Panes -> PaneType] /\ procs' \in Nat
      /\ pane[p].queued # "none"
      /\ pane'[p].queued = "none" /\ pane'[p].open = pane[p].open
      /\ \A q \in Panes \ {p} : pane'[q] = pane[q]
  BY <1>1, Started DEF TuiStarts
<1>3. pane'[p].prog = IF pane[p].queued = "exec" THEN "managed" ELSE pane[p].queued
  BY <1>1 DEF TuiStarts, Starts, Update, Runs, PanesTypeOK, PaneType
<1>4. \A q \in Panes : PaneMoves(pane[q], pane'[q])
  <2>1. PaneMoves(pane[p], pane'[p])
    BY <1>2, <1>3, FieldTypes DEF PaneMoves, PanesTypeOK
  <2>2. \A q \in Panes : PaneMoves(pane[q], pane[q])
    BY DEF PaneMoves, OnlyShellsQueue
  <2> QED
    BY <2>1, <2>2, <1>2
<1>5. UNCHANGED <<touches, instance, constraints>>
  BY <1>1 DEF TuiStarts
<1>6. ServerTypeOK' /\ ThreadMoves
  <2>1. CASE p # Src
    BY <1>1, <2>1, <1>5, Same DEF TuiStarts, ServerTypeOK
  <2>2. CASE p = Src
    <3>1. PICK policy \in {thread[Old].policy, "default"} :
              thread' = [thread EXCEPT ![Old].live = TRUE, ![Old].policy = policy]
      BY <1>1, <2>2 DEF TuiStarts
    <3>2. policy \in Policies
      BY ThreadTypes DEF Policies
    <3>3. /\ thread' \in [Threads -> ThreadType]
          /\ \A u \in Threads : /\ thread'[u].exists = thread[u].exists
                                /\ thread'[u].effort = thread[u].effort
                                /\ u # Old => thread'[u].policy = thread[u].policy
      BY <3>1, <3>2, ThreadTypes DEF ServerTypeOK, ThreadType
    <3> QED
      BY <3>3, <1>2, <1>5, <2>2 DEF ServerTypeOK, ThreadMoves
  <2> QED
    BY <2>1, <2>2
<1> QED
  BY <1>2, <1>4, <1>5, <1>6 DEF Moves, PanesTypeOK

LEMMA KitTypes ==
    ASSUME TypeOK
    PROVE  /\ kit.pc \in AllSteps /\ kit.want \in Settings /\ kit.from \in Settings
           /\ kit.who \in OptThread /\ kit.seen \in Efforts /\ kit.pane \in {Src, Tgt}
           /\ kit.pid \in Nat /\ kit.created \in BOOLEAN /\ kit.owned \in BOOLEAN
           /\ kit.err \subseteq Causes /\ kit.op \in LaunchOps \cup {"none", "release"} \cup ConversionOps
           /\ kit.want.effort \in Efforts /\ kit.want.policy \in Policies
           /\ kit.ret \in {"done"} \cup ConversionSteps /\ kit.focus \in BOOLEAN
           /\ kit.back \in LaunchSteps \cup {"idle"} \cup ConversionSteps
BY DEF TypeOK, ConversionKits, KitRecords, AllSteps, Settings

LEMMA ChildMoves ==
    ASSUME TypeOK, OnlyShellsQueue, ChildStarts
    PROVE  Moves
<1> USE Names DEF TypeOK
<1>1. PICK parent \in OptThread, s \in Settings :
          /\ TuiCreates(Tgt, Child, parent, s)
          /\ kit.op = "new" => s = kit.want
  <2>1. CASE kit.op = "new"
    BY <2>1, KitTypes DEF ChildStarts
  <2>2. CASE kit.op # "new"
    <3>1. PICK policy \in {thread[Old].policy, "default"} :
              TuiCreates(Tgt, Child, Old, [effort |-> kit.want.effort, policy |-> policy])
      BY <2>2 DEF ChildStarts
    <3>2. [effort |-> kit.want.effort, policy |-> policy] \in Settings
      BY KitTypes, ThreadTypes DEF Settings, Policies
    <3> QED
      BY <3>1, <3>2, <2>2
  <2> QED
    BY <2>1, <2>2
<1>2. pane[Tgt] \in PaneType
  BY FieldTypes DEF PanesTypeOK
<1>3. pane' \in [Panes -> PaneType] /\ SameShape
  BY <1>1, <1>2, Redrawn, AlikePane DEF TuiCreates, PanesTypeOK
<1> DEFINE x == [exists |-> TRUE, live |-> TRUE, effort |-> s.effort,
                 policy |-> s.policy, turns |-> 0, parent |-> parent]
<1>4. x \in ThreadType
  BY DEF ThreadType, Settings
<1>5. thread' = [thread EXCEPT ![Child] = x] /\ pane[Tgt].open /\ ~thread[Child].exists
      /\ UNCHANGED <<procs, touches, instance, constraints>>
  BY <1>1 DEF TuiCreates
<1>6. x.exists = TRUE /\ x.policy = s.policy
  OBVIOUS
<1> HIDE DEF x
<1>7. /\ thread' \in [Threads -> ThreadType] /\ thread'[Child] = x
      /\ \A u \in Threads \ {Child} : thread'[u] = thread[u]
  BY <1>4, <1>5 DEF ServerTypeOK
<1>8. ThreadMoves
  BY <1>1, <1>5, <1>6, <1>7 DEF ThreadMoves
<1> QED
  BY <1>3, <1>5, <1>7, <1>8, MovesAlike DEF Moves, PanesTypeOK, ServerTypeOK

LEMMA WorldMoves ==
    ASSUME TypeOK, OnlyShellsQueue, World
    PROVE  Moves
BY ServerMoves, ChildMoves, StartMoves, SubmitMoves, PersonMoves DEF World

\* The world alone keeps the invariant.
LEMMA WorldKeeps ==
    ASSUME Inv, World, UNCHANGED <<kit, conv>>
    PROVE  Inv'
<1> USE Names DEF Inv
<1>0. kit' = kit /\ conv' = conv
  OBVIOUS
<1>1. Moves
  BY WorldMoves
<1>2. /\ PaneMoves(pane[Src], pane'[Src]) /\ PaneMoves(pane[Tgt], pane'[Tgt])
  BY <1>1 DEF Moves
<1>3. TypeOK'
  BY <1>1 DEF TypeOK, Moves, ConversionKits, KitRecords, ConversionTypeOK
<1>4. FlowInv'
  <2>1. BackFits'
    BY <1>0 DEF FlowInv, BackFits
  <2>2. RequestFits'
    BY <1>0 DEF FlowInv, RequestFits, Target, Sent
  <2>3. ErrorFits'
    BY <1>0 DEF FlowInv, ErrorFits, Unclean, Sent
  <2>4. StepsOf(kit.op)' = StepsOf(kit.op)
    BY <1>0 DEF StepsOf
  <2> QED
    BY <1>0, <2>1, <2>2, <2>3, <2>4 DEF FlowInv
<1>5. OnlyShellsQueue'
  BY <1>1 DEF OnlyShellsQueue, Moves, PaneMoves
<1>6. CommandInv'
  <2>1. NoWriter => NoWriter'
    BY <1>2 DEF NoWriter, PaneMoves, Kit
  <2>2. NoManaged => NoManaged'
    BY <1>2 DEF NoManaged, PaneMoves
  <2>3. pane[Src].queued = "none" => pane'[Src].queued = "none"
    BY <1>2 DEF PaneMoves
  <2> QED
    BY <2>1, <2>2, <2>3 DEF CommandInv, Unclean, Sent, HasHandle, Returned, At
<1>7. CreatedInv'
  BY <1>2 DEF CreatedInv, PaneMoves, Unclean, Sent
<1>8. ChildInv'
  <2>1. thread[Child].exists => thread'[Child].exists
    BY <1>1 DEF Moves, ThreadMoves
  <2>2. ~pane[Tgt].open => (thread'[Child].exists => thread[Child].exists)
    BY <1>1 DEF Moves, ThreadMoves
  <2>3. At("idle") => ~pane[Tgt].open
    BY DEF CreatedInv, FlowInv, Resting, At, Unclean, OpeningSteps
  <2>4. At("done") /\ kit.op \in {"new", "fork"} /\ kit.err # {} => ~pane[Tgt].open \/ Unclean \/ Sent
    BY DEF CreatedInv, At, OpeningSteps, LaunchOps
  <2> QED
    BY <1>0, <2>1, <2>2, <2>3, <2>4 DEF ChildInv, At, Unclean, Sent
<1>9. EffortInv'
  BY <1>0, <1>1 DEF EffortInv, SameEffort, Moves, ThreadMoves
<1>10. PolicyInv'
  <2>1. ASSUME kit.op = "resume", kit.pc \in PromisedSteps
        PROVE  pane[Src].queued = "none"
    <3>1. kit.pc = "final"
      BY <2>1 DEF FlowInv, StepsOf, PromisedSteps, OpeningSteps, StatusSteps, BindSteps, CleanupSteps,
         FailSteps, AgainSteps, FallbackSteps
    <3> QED
      BY <2>1, <3>1 DEF CommandInv
  <2>2. ASSUME kit.op \in {"new", "fork"}, kit.pc \in PromisedSteps
        PROVE  thread[Child].exists
    BY <2>2 DEF ChildInv
  <2>3. /\ thread[Child].exists => thread'[Child].policy \in {thread[Child].policy, "foreign"}
        /\ pane[Src].queued = "none" => thread'[Old].policy \in {thread[Old].policy, "foreign"}
        /\ thread'[Child].exists /\ ~thread[Child].exists /\ kit.op = "new" =>
              thread'[Child].policy = kit.want.policy
    BY <1>1 DEF Moves, ThreadMoves
  <2> QED
    BY <1>0, <2>1, <2>2, <2>3 DEF PolicyInv, Promised, target, LaunchOps
<1> QED
  BY <1>3, <1>4, <1>5, <1>6, <1>7, <1>8, <1>9, <1>10

-----------------------------------------------------------------------------
(***************************************************************************)
(* What a request's local variables may become.                            *)
(***************************************************************************)
KitType ==
    [op : LaunchOps \cup {"none", "release"} \cup ConversionOps, pc : AllSteps,
     back : LaunchSteps \cup {"idle"} \cup ConversionSteps, ret : {"done"} \cup ConversionSteps,
     pane : {Src, Tgt}, made : 1..MaxInstances, pid : Nat, leader : Nat,
     created : BOOLEAN, owned : BOOLEAN, child : BOOLEAN,
     from : Settings, want : Settings, inherits : BOOLEAN, reconciles : BOOLEAN,
     who : OptThread, seen : Efforts, found : Identities, source : Identities,
     prompt : {"none", "wanted", "unknown", "acknowledged"}, focus : BOOLEAN,
     err : SUBSET Causes]

LEMMA KitIsTyped ==
    ASSUME TypeOK
    PROVE  kit \in KitType /\ MaxInstances \in Nat \ {0}
BY InstancesAssumption DEF TypeOK, ConversionKits, KitRecords, KitType, AllSteps

LEMMA GotoTypes ==
    ASSUME TypeOK, NEW s \in AllSteps, Goto(s)
    PROVE  kit' \in KitType
BY KitIsTyped DEF KitType, Goto

LEMMA KitMoves ==
    ASSUME TypeOK, kit' \in KitType, PanesTypeOK', ServerTypeOK', ConversionTypeOK'
    PROVE  TypeOK'
BY DEF TypeOK, ConversionKits, KitRecords, KitType, AllSteps

LEMMA KnownSteps ==
    /\ StatusSteps \cup BindSteps \cup LaunchSteps \cup FailSteps \cup {"idle", "done"} \subseteq AllSteps
    /\ ConversionSteps \subseteq AllSteps
    /\ {"guard", "text", "bind", "delete", "stop", "undo", "stopLate", "settle", "stopped", "confirm",
        "final", "audit", "sourceAfter", "process", "typed", "run", "guarded", "preflight",
        "source", "focus", "prompt", "focused", "type", "shell"} \subseteq AllSteps
    /\ {"confirm", "final", "audit", "sourceAfter"} \subseteq LaunchSteps
BY DEF AllSteps, StatusSteps, BindSteps, LaunchSteps, FailSteps

\* The pane and the process that a launch or a discovery looks at.
LEMMA P0Types ==
    ASSUME TypeOK
    PROVE  /\ p0 \in Panes /\ pane[p0] \in PaneType
           /\ pane[p0].bound \in OptThread /\ pane[p0].shows \in OptThread
           /\ pane[p0].pid \in Nat /\ pane[Src].pid \in Nat
BY KitTypes, FieldTypes, Names DEF TypeOK, PanesTypeOK, p0

LEMMA GuardTypes ==
    ASSUME TypeOK, Guard
    PROVE  kit' \in KitType
<1>1. kit.back \in AllSteps
  BY KitTypes, KnownSteps
<1> QED
  BY <1>1, KitIsTyped, P0Types, KnownSteps DEF KitType, Guard

LEMMA StatusTypes ==
    ASSUME TypeOK, Status
    PROVE  kit' \in KitType
<1>1. kit.back \in AllSteps
  BY KitTypes, KnownSteps
<1>2. pane[p0].shows \in Threads
  BY P0Types, Names DEF OptThread, Status, FreshStatus
<1>3. ShownEffort(pane[p0].shows) \in Efforts
  BY <1>2, ThreadTypes DEF ShownEffort, Efforts, TypeOK
<1> QED
  BY <1>1, <1>2, <1>3, KitIsTyped, Names DEF KitType, Status

\* A call that failed: whatever is left is cleaned up, or belongs to the caller.
LEMMA AbandonedTypes ==
    ASSUME TypeOK, NEW cause \in Causes
    PROVE  /\ AfterFailure \in {"done", "undo", "stop"}
           /\ Abandoned(cause) \in KitType
<1>1. AfterFailure \in {"done", "undo", "stop"}
  BY DEF AfterFailure
<1>2. NoIdentity \in Identities
  BY Names DEF NoIdentity, Identities, Efforts
<1>3. AfterFailure \in AllSteps /\ {cause} \subseteq Causes
  BY <1>1, KnownSteps DEF AllSteps
<1> HIDE DEF AfterFailure
<1>4. NoThread \in OptThread /\ "unset" \in Efforts
  BY Names DEF Efforts
<1> DEFINE k1 == [kit EXCEPT !.pc = AfterFailure, !.err = {cause}]
           k2 == [k1 EXCEPT !.back = "idle", !.who = NoThread]
           k3 == [k2 EXCEPT !.seen = "unset", !.found = NoIdentity]
<1>5. k1 \in KitType
  BY <1>3, KitIsTyped DEF KitType
<1> HIDE DEF k1
<1>6. k2 \in KitType
  BY <1>4, <1>5 DEF KitType
<1> HIDE DEF k2
<1>7. k3 \in KitType
  BY <1>2, <1>4, <1>6 DEF KitType
<1> HIDE DEF k3
<1>8. [k3 EXCEPT !.source = NoIdentity, !.leader = 0] \in KitType
  BY <1>2, <1>7 DEF KitType
<1> QED
  BY <1>1, <1>8 DEF Abandoned, k1, k2, k3

LEMMA FailingTypes ==
    ASSUME TypeOK, Failing
    PROVE  kit' \in KitType
BY AbandonedTypes DEF Failing, CausesAt, Causes

LEMMA EnsureTypes ==
    ASSUME TypeOK, Ensure
    PROVE  kit' \in KitType
BY KitIsTyped, KnownSteps, ZenonT(60) DEF KitType, Ensure, TypeOK, ServerTypeOK

LEMMA SourceTypes ==
    ASSUME TypeOK, Source
    PROVE  kit' \in KitType
BY KitIsTyped, KnownSteps, P0Types DEF KitType, Source

LEMMA PreflightTypes ==
    ASSUME TypeOK, Preflight
    PROVE  kit' \in KitType
<1>1. CASE Goto("run")
  BY <1>1, GotoTypes, KnownSteps
<1>2. CASE ~Goto("run")
  <2>1. PICK policy \in LoadedPolicies(Old) :
            LET effective == [effort |-> thread[Old].effort, policy |-> policy]
            IN kit' = [kit EXCEPT !.source = Identity(Old),
                                  !.want = IF kit.inherits THEN effective ELSE @,
                                  !.pc = IF kit.op = "fork" THEN "run" ELSE "guarded"]
    BY <1>2 DEF Preflight
  <2>2. policy \in Policies
    BY ThreadTypes, Names DEF LoadedPolicies, Policies, TypeOK
  <2>3. [effort |-> thread[Old].effort, policy |-> policy] \in Settings
    BY <2>2, ThreadTypes, Names DEF Settings, TypeOK
  <2>4. Identity(Old) \in Identities
    BY ThreadTypes, Names DEF TypeOK
  <2> DEFINE w == IF kit.inherits THEN [effort |-> thread[Old].effort, policy |-> policy] ELSE kit.want
             s == IF kit.op = "fork" THEN "run" ELSE "guarded"
  <2>5. kit' = [kit EXCEPT !.source = Identity(Old), !.want = w, !.pc = s]
    BY <2>1
  <2>6. w \in Settings /\ s \in AllSteps
    BY <2>3, KitTypes, KnownSteps
  <2> HIDE DEF w, s
  <2> QED
    BY <2>4, <2>5, <2>6, KitIsTyped DEF KitType
<1> QED
  BY <1>1, <1>2

LEMMA LaunchOriginTypes ==
    ASSUME TypeOK, LaunchOrigin
    PROVE  kit' \in KitType
BY KitIsTyped, KnownSteps DEF KitType, LaunchOrigin

LEMMA RunTypeTypes ==
    ASSUME TypeOK, RunType
    PROVE  kit' \in KitType
<1>1. CASE kit' = [kit EXCEPT !.owned = Owned(TRUE), !.pc = "typed"]
  BY <1>1, KitIsTyped, KnownSteps DEF KitType, Owned
<1>2. ASSUME NEW cause \in CausesAt("type"), kit' = [Abandoned(cause) EXCEPT !.owned = Owned(FALSE)]
      PROVE  kit' \in KitType
  <2>1. Abandoned(cause) \in KitType
    BY <1>2, AbandonedTypes DEF CausesAt, Causes
  <2> QED
    BY <1>2, <2>1 DEF KitType, Owned
<1> QED
  BY <1>1, <1>2 DEF RunType

LEMMA ProcessTypes ==
    ASSUME TypeOK, Process
    PROVE  kit' \in KitType
BY KitIsTyped, KnownSteps, P0Types DEF KitType, Process

LEMMA ConfirmTypes ==
    ASSUME TypeOK, Confirm
    PROVE  kit' \in KitType
<1>1. Identity(target) \in Identities
  BY ThreadTypes, Names DEF TypeOK, target
<1> QED
  BY <1>1, KitIsTyped, KnownSteps DEF KitType, Confirm

LEMMA ReconciledTypes ==
    ASSUME TypeOK, Reconciled
    PROVE  kit' \in KitType
<1> DEFINE e == IF kit.op = "resume" THEN kit.want.effort ELSE kit.found.effort
           f == [kit.found EXCEPT !.effort = e]
<1>1. kit.found \in Identities
  BY KitIsTyped DEF KitType
<1>2. e \in Efforts
  BY <1>1, KitTypes DEF Identities
<1>3. f \in Identities
  BY <1>1, <1>2 DEF Identities
<1>4. kit' = [kit EXCEPT !.pc = "final", !.found = f]
  BY KitIsTyped DEF Reconciled, KitType
<1> HIDE DEF f
<1> QED
  BY <1>3, <1>4, KitIsTyped, KnownSteps DEF KitType

LEMMA FinalTypes ==
    ASSUME TypeOK, Final
    PROVE  kit' \in KitType
<1>1. kit.ret \in AllSteps
  BY KitTypes, KnownSteps
<1> QED
  BY <1>1, KitIsTyped, KnownSteps DEF KitType, Final, Goto

LEMMA DeliverPromptTypes ==
    ASSUME TypeOK, DeliverPrompt
    PROVE  kit' \in KitType
<1>1. "done" \in AllSteps /\ "focus" \in AllSteps /\ {"stale"} \in SUBSET Causes
  BY KnownSteps DEF Causes
<1>2. CASE kit' = [kit EXCEPT !.prompt = "acknowledged", !.pc = IF kit.focus THEN "focus" ELSE "done"]
  BY <1>1, <1>2, KitIsTyped, ZenonT(60) DEF KitType
<1>3. CASE kit' = [kit EXCEPT !.prompt = "unknown", !.pc = "done", !.err = {"stale"}]
  BY <1>1, <1>3, KitIsTyped DEF KitType
<1> QED
  BY <1>2, <1>3 DEF DeliverPrompt

\* Cleaning up.
LEMMA CleanupTypes ==
    ASSUME TypeOK, Undo \/ StopCreated \/ StopNothing \/ StopOwned \/ Stopped \/ StopLate \/ Settle
                   \/ Delete \/ Release
    PROVE  kit' \in KitType
<1>1. \A step \in AllSteps : CleanupFails(step) => kit' \in KitType
  <2>1. kit.err \cup {"cleanup"} \in SUBSET Causes
    BY KitTypes DEF Causes
  <2> QED
    BY <2>1, KitIsTyped, ZenonT(60) DEF KitType, CleanupFails
<1>2. \A step \in {"stop", "delete", "stopped", "stopLate", "settle"} : step \in AllSteps
  BY KnownSteps
<1>3. CASE Undo
  BY <1>1, <1>2, <1>3, GotoTypes DEF Undo, CleanupFails
<1>4. CASE StopCreated
  <2>1. CASE kit' = [kit EXCEPT !.pc = "delete", !.created = FALSE]
    BY <1>2, <2>1, KitIsTyped DEF KitType
  <2> QED
    BY <1>1, <1>2, <1>4, <2>1 DEF StopCreated
<1>5. CASE StopNothing \/ StopOwned \/ StopLate
  BY <1>1, <1>2, <1>5, GotoTypes DEF StopNothing, StopOwned, StopLate
<1>6. CASE Stopped \/ Settle
  <2>1. CASE kit' = [kit EXCEPT !.pc = "delete", !.owned = FALSE]
    BY <1>2, <2>1, KitIsTyped DEF KitType
  <2>2. CASE kit' = [kit EXCEPT !.pc = "stopLate"]
    BY <1>2, <2>2, KitIsTyped DEF KitType
  <2> QED
    BY <1>1, <1>2, <1>6, <2>1, <2>2 DEF Stopped, Settle
<1>7. CASE Delete
  <2>1. kit.ret \in AllSteps
    BY KitTypes, KnownSteps
  <2>2. PICK e \in {kit.err, kit.err \cup {"cleanup"}} : kit' = [kit EXCEPT !.pc = kit.ret, !.err = e]
    BY <1>7 DEF Delete, CleanedUp
  <2>3. e \in SUBSET Causes
    BY <2>2, KitTypes DEF Causes
  <2> QED
    BY <2>1, <2>2, <2>3, KitIsTyped DEF KitType
<1>8. CASE Release
  BY <1>8, <1>2, KitIsTyped DEF Release, KitType
<1> QED
  BY <1>3, <1>4, <1>5, <1>6, <1>7, <1>8

\* The same of a conversion's.
ConvType ==
    [session : OptThread, service : 1..MaxInstances, made : 1..MaxInstances,
     constraints : {"first", "changed"}, before : Identities, history : Nat,
     token : Identities \cup {NoToken},
     lease : [pid : Nat, draft : {"empty", "status", "typed"}],
     policy : Settings, update : {"none", "unsent", "refused", "lost", "answered"},
     attempts : 0..2, outcome : {"none", "managed", "fallback"},
     desired : Efforts, readable : BOOLEAN, fresh : BOOLEAN]

LEMMA ConvIsTyped ==
    ASSUME TypeOK
    PROVE  /\ conv \in ConvType /\ conv.attempts \in 0..2 /\ conv.before \in Identities
           /\ conv.session \in OptThread /\ conv.policy \in Settings /\ conv.desired \in Efforts
           /\ conv.readable \in BOOLEAN /\ conv.history \in Nat
           /\ conv.update \in {"none", "unsent", "refused", "lost", "answered"}
           /\ conv.before.effort \in Efforts /\ conv.before.id \in Threads
           /\ conv.outcome \in {"none", "managed", "fallback"}
BY DEF TypeOK, ConversionTypeOK, ConversionRecords, ConvType, Identities

LEMMA ConvStays ==
    ASSUME TypeOK, UNCHANGED conv
    PROVE  conv' \in ConvType
BY ConvIsTyped

LEMMA StepTypes ==
    ASSUME TypeOK, NEW s \in AllSteps, Step(s)
    PROVE  kit' \in KitType /\ conv' \in ConvType
BY GotoTypes, ConvStays DEF Step

LEMMA StopsTypes ==
    ASSUME TypeOK, NEW cause \in Causes, Stops(cause)
    PROVE  kit' \in KitType /\ conv' \in ConvType
<1>1. kit.err \cup {cause} \in SUBSET Causes
  BY KitTypes
<1> QED
  BY <1>1, KitIsTyped, KnownSteps, ConvStays DEF Stops, KitType

LEMMA RestingTypes == Resting \in KitType
<1>1. NoIdentity \in Identities /\ SourceSettings \in Settings
  BY Names DEF NoIdentity, Identities, SourceSettings, Settings, Efforts, Policies
<1>2. 1 \in 1..MaxInstances
  BY InstancesAssumption
<1> QED
  BY <1>1, <1>2, Names, KnownSteps DEF Resting, KitType, Efforts

LEMMA UnconvertedTypes == Unconverted \in ConvType
<1>1. NoIdentity \in Identities /\ SourceSettings \in Settings
  BY Names DEF NoIdentity, Identities, SourceSettings, Settings, Efforts, Policies
<1>2. 1 \in 1..MaxInstances
  BY InstancesAssumption
<1>3. NoLease \in [pid : Nat, draft : {"empty", "status", "typed"}]
  BY DEF NoLease
<1> QED
  BY <1>1, <1>2, <1>3, Names DEF Unconverted, ConvType, Efforts

LEMMA LeaseTypes ==
    ASSUME TypeOK
    PROVE  Lease \in [pid : Nat, draft : {"empty", "status", "typed"}]
BY FieldTypes, Names DEF TypeOK, PanesTypeOK, Lease

LEMMA TargetTypes ==
    ASSUME TypeOK
    PROVE  Target \in Settings
<1>1. [effort |-> conv.desired, policy |-> "wanted"] \in Settings
  BY ConvIsTyped DEF Settings, Policies
<1> QED
  BY <1>1, ConvIsTyped DEF Target

LEMMA BeforeLeavingTypes ==
    ASSUME TypeOK, kit.who # NoThread \/ ~(Capture \/ History),
           Service \/ Resolve \/ Recheck \/ Connect \/ Capture \/ History \/ Safe
    PROVE  kit' \in KitType /\ conv' \in ConvType
<1> USE KitIsTyped, ConvIsTyped, ConvStays, GotoTypes
<1>1. {"service", "resolve", "resolved", "recheck", "connect", "capture", "defaulted", "history",
       "safe", "signal", "verify", "confirmed"} \subseteq ConversionSteps
  BY DEF ConversionSteps
<1>2. instance \in 1..MaxInstances /\ constraints \in {"first", "changed"} /\ pane[Src].pid \in Nat
  BY P0Types DEF TypeOK, ServerTypeOK
<1> DEFINE Asks(b) == kit' = [kit EXCEPT !.pc = "guard", !.back = b, !.pid = pane[Src].pid]
<1>0. \A b \in ConversionSteps : Asks(b) => kit' \in KitType
  <2>1. TAKE b \in ConversionSteps
  <2>2. b \in LaunchSteps \cup {"idle"} \cup ConversionSteps /\ "guard" \in AllSteps
    BY KnownSteps
  <2> QED
    BY <1>2, <2>2 DEF KitType
<1>3. CASE Service
  BY <1>1, <1>2, <1>3, KnownSteps DEF Service, Set, KitType, ConvType
<1>4. CASE Resolve
  <2>1. CASE kit' = [kit EXCEPT !.pc = "connect", !.who = conv.session]
    BY <1>1, <1>4, <2>1, KnownSteps DEF Resolve, KitType
  <2> QED
    BY <1>0, <1>1, <1>4, <2>1 DEF Resolve
<1>5. CASE Recheck
  BY <1>1, <1>5, KnownSteps DEF Recheck, KitType
<1>6. CASE Connect
  BY <1>1, <1>2, <1>6, KnownSteps DEF Connect, Set, KitType, ConvType
<1>7. CASE Capture \/ History
  <2>1. kit.who \in Threads
    BY <1>7, KitTypes DEF OptThread
  <2>2. Identity(kit.who) \in Identities /\ thread[kit.who].turns \in Nat
    BY <2>1, ThreadTypes DEF TypeOK
  <2>3. CASE Capture
    <3>1. conv' \in ConvType
      BY <1>2, <2>2, <2>3 DEF Capture, ConvType
    <3>2. kit' = [kit EXCEPT !.pc = "guard", !.back = "defaulted", !.pid = pane[Src].pid]
          \/ Goto("history")
      BY <2>3 DEF Capture
    <3>3. "history" \in AllSteps
      BY <1>1, KnownSteps
    <3> QED
      BY <1>0, <1>1, <3>1, <3>2, <3>3
  <2>4. CASE History
    <3>1. PICK s \in {"confirmed", "safe"} : kit' = [kit EXCEPT !.pc = s]
      BY <2>4 DEF History, Set
    <3>2. \/ conv' = [conv EXCEPT !.token = conv.before, !.session = kit.who]
          \/ conv' = [conv EXCEPT !.history = thread[kit.who].turns]
      BY <2>4 DEF History, Set
    <3>3. conv' \in ConvType
      <4>1. CASE conv' = [conv EXCEPT !.token = conv.before, !.session = kit.who]
        BY <2>1, <4>1, Names DEF ConvType
      <4>2. CASE conv' = [conv EXCEPT !.history = thread[kit.who].turns]
        BY <2>2, <4>2 DEF ConvType
      <4> QED
        BY <3>2, <4>1, <4>2
    <3> QED
      BY <1>1, <3>1, <3>3, KnownSteps DEF KitType
  <2> QED
    BY <1>7, <2>3, <2>4
<1>8. CASE Safe
  BY <1>1, <1>2, <1>8, KnownSteps, ZenonT(60) DEF Safe, KitType
<1> QED
  BY <1>3, <1>4, <1>5, <1>6, <1>7, <1>8

LEMMA CaptureTypes ==
    ASSUME TypeOK, TakeLease \/ Apply \/ Readback \/ Policy
    PROVE  kit' \in KitType /\ conv' \in ConvType
<1> USE KitIsTyped, ConvIsTyped, ConvStays, GotoTypes
<1>1. {"after", "readback", "policy", "fallback", "launch"} \subseteq AllSteps /\ "unknown" \in Causes
  BY KnownSteps DEF ConversionSteps, Causes
<1>2. Identity(Old) \in Identities
  BY ThreadTypes, Names DEF TypeOK
<1> DEFINE Go(s) == kit' = [kit EXCEPT !.pc = s]
<1>3. \A s \in AllSteps : Go(s) => kit' \in KitType
  BY DEF KitType
<1>4. CASE TakeLease
  BY <1>1, <1>3, <1>4, LeaseTypes DEF TakeLease, Set, ConvType
<1>5. CASE Apply
  BY <1>1, <1>3, <1>5 DEF Apply, Set, ConvType, LostAnswer
<1>6. CASE Readback
  <2>1. \/ Stops("unknown")
        \/ /\ Go("policy") \/ Go("fallback")
           /\ \/ conv' = [conv EXCEPT !.before = Identity(Old)]
              \/ conv' = [conv EXCEPT !.readable = FALSE]
    BY <1>6 DEF Readback, Set
  <2> QED
    BY <1>1, <1>2, <1>3, <2>1, StopsTypes DEF ConvType
<1>7. CASE Policy
  <2>1. CASE Step("fallback")
    BY <1>1, <2>1, StepTypes
  <2>2. CASE ~Step("fallback")
    <3>1. PICK policy \in LoadedPolicies(Old) :
              /\ Go("launch")
              /\ conv' = [conv EXCEPT !.policy = [effort |-> thread[Old].effort, policy |-> policy]]
      BY <1>7, <2>2 DEF Policy, Set, FallBack
    <3>2. [effort |-> thread[Old].effort, policy |-> policy] \in Settings
      BY ThreadTypes, Names DEF LoadedPolicies, Policies, TypeOK, Settings
    <3> QED
      BY <1>1, <1>3, <3>1, <3>2 DEF ConvType
  <2> QED
    BY <2>1, <2>2
<1> QED
  BY <1>4, <1>5, <1>6, <1>7

LEMMA ResumingTypes ==
    ASSUME TypeOK, conv.attempts < 2 \/ ~StartLaunch,
           StartLaunch \/ Launch \/ LeaseAgain \/ FallbackLease \/ FallbackProcess \/ FallbackReadback
    PROVE  kit' \in KitType /\ conv' \in ConvType
<1> USE KitIsTyped, ConvIsTyped, ConvStays, GotoTypes
<1>1. {"launch", "ensure", "result", "recovery", "fallback", "fallbackVerify", "fallbackIdentity",
       "done"} \subseteq AllSteps /\ "stale" \in Causes /\ "launched" \in ConversionSteps
  BY KnownSteps DEF ConversionSteps, Causes, AllSteps, LaunchSteps
<1> DEFINE Go(s) == kit' = [kit EXCEPT !.pc = s]
<1>2. \A s \in AllSteps : Go(s) => kit' \in KitType
  BY DEF KitType
<1>3. CASE StartLaunch
  <2>1. conv' \in ConvType
    BY <1>3 DEF StartLaunch, Set, ConvType
  <2> DEFINE k1 == [Resting EXCEPT !.op = "resume", !.pc = "ensure", !.ret = "launched"]
             k2 == [k1 EXCEPT !.seen = "unset", !.from = conv.policy, !.want = Target]
  <2>2. k1 \in KitType
    BY <1>1, RestingTypes DEF KitType, LaunchOps
  <2> HIDE DEF k1
  <2>3. k2 \in KitType
    <3>1. Target \in Settings /\ conv.policy \in Settings /\ "unset" \in Efforts
      BY TargetTypes DEF Efforts
    <3> QED
      BY <2>2, <3>1, ZenonT(60) DEF KitType
  <2> HIDE DEF k2
  <2>4. [k2 EXCEPT !.reconciles = TRUE] \in KitType
    BY <2>3, ZenonT(60) DEF KitType
  <2> QED
    BY <1>3, <2>1, <2>4 DEF StartLaunch, Set, k1, k2
<1>4. CASE Launch
  <2>1. \/ Go("result") /\ conv' = [conv EXCEPT !.outcome = "managed"]
        \/ Go("fallback") /\ conv' = [conv EXCEPT !.fresh = TRUE]
        \/ Step("recovery") \/ Step("done")
    BY <1>4 DEF Launch, Set
  <2> QED
    BY <1>1, <1>2, <2>1, StepTypes DEF ConvType
<1>5. CASE LeaseAgain \/ FallbackLease
  <2>1. PICK s \in {"launch", "fallbackVerify"} :
            kit' = [kit EXCEPT !.pc = s, !.err = {}] /\ conv' = [conv EXCEPT !.lease = Lease]
    BY <1>5 DEF LeaseAgain, FallbackLease, ReLease, Set
  <2>2. s \in AllSteps
    BY <1>1
  <2>3. kit' \in KitType
    BY <2>1, <2>2 DEF KitType
  <2> QED
    BY <2>1, <2>3, LeaseTypes DEF ConvType
<1>6. CASE FallbackProcess
  BY <1>1, <1>6, P0Types DEF FallbackProcess, KitType
<1>7. CASE FallbackReadback
  <2>1. kit.err \cup {"stale"} \in SUBSET Causes
    BY <1>1, KitTypes
  <2> QED
    BY <1>1, <1>7, <2>1, ZenonT(60) DEF FallbackReadback, Set, KitType, ConvType
<1> QED
  BY <1>3, <1>4, <1>5, <1>6, <1>7

LEMMA RequestTypes ==
    ASSUME TypeOK, Request \/ Confirmed
    PROVE  kit' \in KitType /\ conv' \in ConvType
<1> USE RestingTypes, ConvIsTyped, ConvStays
<1>1. {"ensure", "service"} \subseteq AllSteps
  BY KnownSteps DEF ConversionSteps, AllSteps, LaunchSteps
<1>2. CASE NewRequest
  <2>1. PICK prompt \in {"none", "wanted"}, focus \in BOOLEAN :
            kit' = [Resting EXCEPT !.op = "new", !.pc = "ensure", !.prompt = prompt, !.focus = focus,
                                  !.want = [effort |-> "wanted", policy |-> "wanted"]]
    BY <1>2 DEF NewRequest
  <2> DEFINE k1 == [Resting EXCEPT !.op = "new", !.pc = "ensure"]
             k2 == [k1 EXCEPT !.prompt = prompt, !.focus = focus]
  <2>2. k1 \in KitType
    BY <1>1 DEF KitType, LaunchOps
  <2> HIDE DEF k1
  <2>3. k2 \in KitType
    BY <2>2, ZenonT(60) DEF KitType
  <2> HIDE DEF k2
  <2>4. [effort |-> "wanted", policy |-> "wanted"] \in Settings
    BY DEF Settings, Efforts, Policies
  <2>5. [k2 EXCEPT !.want = [effort |-> "wanted", policy |-> "wanted"]] \in KitType
    BY <2>3, <2>4 DEF KitType
  <2> QED
    BY <1>2, <2>1, <2>5 DEF NewRequest, k1, k2
<1>3. CASE ForkRequest
  <2>1. PICK prompt \in {"none", "wanted"}, focus \in BOOLEAN, inherits \in BOOLEAN :
            kit' = [Resting EXCEPT !.op = "fork", !.pc = "ensure", !.prompt = prompt, !.focus = focus,
                                  !.inherits = inherits, !.want.effort = "wanted"]
    BY <1>3 DEF ForkRequest
  <2> DEFINE w == [SourceSettings EXCEPT !.effort = "wanted"]
             k1 == [Resting EXCEPT !.op = "fork", !.pc = "ensure", !.prompt = prompt]
             k2 == [k1 EXCEPT !.focus = focus, !.inherits = inherits]
  <2>2. k1 \in KitType /\ k1.want = SourceSettings
    BY <1>1 DEF KitType, LaunchOps, Resting
  <2>3. w \in Settings
    BY DEF SourceSettings, Settings, Efforts, Policies
  <2> HIDE DEF w
  <2>4. kit' = [k2 EXCEPT !.want = w]
    BY <2>1 DEF Resting, w
  <2> HIDE DEF k1
  <2>5. k2 \in KitType
    BY <2>2, ZenonT(60) DEF KitType
  <2> HIDE DEF k2
  <2>6. kit' \in KitType
    BY <2>3, <2>4, <2>5 DEF KitType
  <2> QED
    BY <1>3, <2>6 DEF ForkRequest
<1>4. CASE ResumeRequest
  BY <1>1, <1>4 DEF ResumeRequest, KitType, LaunchOps
<1>5. CASE ConversionRequest \/ Confirmed
  <2>1. kit' \in KitType
    <3>1. PICK op \in ConversionOps : kit' = [Resting EXCEPT !.op = op, !.pc = "service"]
      BY <1>5 DEF ConversionRequest, Confirmed, Set, ConversionOps
    <3> QED
      BY <1>1, <3>1 DEF KitType
  <2>2. pane[Src].bound \in OptThread
    BY FieldTypes, Names DEF TypeOK, PanesTypeOK
  <2>3. CASE ConversionRequest
    <3>1. PICK desired \in {"observed", "wanted"} :
              conv' = [conv EXCEPT !.session = pane[Src].bound, !.desired = desired]
      BY <2>3 DEF ConversionRequest, Set
    <3> QED
      BY <2>1, <2>2, <3>1 DEF ConvType, Efforts
  <2> QED
    BY <1>5, <2>1, <2>3 DEF Confirmed, Set
<1> QED
  BY <1>2, <1>3, <1>4, <1>5 DEF Request

-----------------------------------------------------------------------------
(***************************************************************************)
(* The steps of a launch.  What they do to the panes and the threads, as   *)
(* far as the invariant speaks of them.                                    *)
(***************************************************************************)
USE DEF Inv, FlowInv, StepsOf, BackFits, RequestFits, ErrorFits, CommandInv, CreatedInv, ChildInv,
        EffortInv, PolicyInv, Unclean, Sent, At, Goto, HasHandle, Returned
USE DEF StatusSteps, BindSteps, LaunchSteps, FailSteps, EarlySteps, AgainSteps, FallbackSteps,
        RestoredSteps, StartSteps, OpeningSteps, CheckedSteps, PromisedSteps, CleanupSteps,
        LaunchOps, ConversionOps

\* The source's pane is as it was, and what the invariant says of the other one.
SourceAlike ==
    /\ PanesTypeOK' /\ OnlyShellsQueue'
    /\ NoWriter' = NoWriter /\ NoManaged' = NoManaged
    /\ pane'[Src].queued = pane[Src].queued
    /\ pane'[Tgt].open = pane[Tgt].open

SameWorld == SourceAlike /\ ServerTypeOK' /\ UNCHANGED thread

LEMMA ShapeIsAlike ==
    ASSUME TypeOK, OnlyShellsQueue, SameShape, pane' \in [Panes -> PaneType], UNCHANGED <<procs, touches>>
    PROVE  SourceAlike
BY Names DEF SameShape, Alike, SourceAlike, TypeOK, PanesTypeOK, OnlyShellsQueue, NoWriter, NoManaged

LEMMA StillWorld ==
    ASSUME TypeOK, OnlyShellsQueue, UNCHANGED worldVars
    PROVE  SameWorld
BY DEF worldVars, SourceAlike, SameWorld, TypeOK, PanesTypeOK, ServerTypeOK, OnlyShellsQueue,
       NoWriter, NoManaged

LEMMA ShapeWorld ==
    ASSUME TypeOK, OnlyShellsQueue, SameShape, pane' \in [Panes -> PaneType],
           UNCHANGED <<procs, touches, serverVars>>
    PROVE  SameWorld
BY ShapeIsAlike DEF SameWorld, serverVars, TypeOK, ServerTypeOK

LEMMA KitKeepsTypes ==
    ASSUME TypeOK, kit' \in KitType, SourceAlike, ServerTypeOK', UNCHANGED conv
    PROVE  TypeOK'
BY KitMoves DEF SourceAlike, TypeOK, ConversionTypeOK

LEMMA FailingKeeps ==
    ASSUME Inv, Failing, UNCHANGED conv, kit.pc \in StatusSteps \cup BindSteps \cup LaunchSteps,
           SourceAlike, ServerTypeOK', thread'[Child].exists = thread[Child].exists,
           kit.op = "new" /\ thread'[Child].exists =>
               thread'[Child].policy \in {kit.want.policy, "foreign"}
    PROVE  Inv'
<1>1. PICK cause \in CausesAt(kit.pc) : kit' = Abandoned(cause)
  BY DEF Failing
<1>2. cause \in Causes
  BY DEF CausesAt, Causes, MayRetry
<1>3. TypeOK'
  BY FailingTypes, KitKeepsTypes
<1>4. kit' = [kit EXCEPT !.pc = AfterFailure, !.err = {cause}, !.back = "idle", !.who = NoThread,
                !.seen = "unset", !.found = NoIdentity, !.source = NoIdentity, !.leader = 0]
  BY <1>1 DEF Abandoned
<1>5. /\ AfterFailure \in {"done", "undo", "stop"}
      /\ AfterFailure = "undo" <=> kit.pc \in OpeningSteps
      /\ kit.op \notin LaunchOps => AfterFailure = "done"
      /\ AfterFailure = "done" => kit.op \notin LaunchOps \/ Sent
      /\ Sent => AfterFailure = "done" \/ kit.op \notin LaunchOps
  BY DEF AfterFailure, CleansUp
<1> HIDE DEF AfterFailure
<1>6. cause # "cleanup"
  BY DEF CausesAt, MayRetry
<1>7. /\ kit'.pc = AfterFailure /\ kit'.err = {cause} /\ kit'.op = kit.op /\ kit'.ret = kit.ret
      /\ kit'.want = kit.want /\ kit'.reconciles = kit.reconciles /\ kit'.owned = kit.owned
      /\ kit'.created = kit.created /\ kit'.child = kit.child /\ kit'.pane = kit.pane
      /\ kit'.inherits = kit.inherits /\ kit'.focus = kit.focus /\ kit'.prompt = kit.prompt
  BY <1>4
<1>8. conv' = conv /\ SourceAlike
  OBVIOUS
<1>9. kit.op \in LaunchOps \cup ConversionOps
  BY KitTypes
<1>10. FlowInv'
  <2>1. (kit.pc \in StepsOf(kit.op))' /\ (kit.pc = "idle" => kit = Resting)'
    BY <1>5, <1>7, <1>9
  <2>2. BackFits'
    BY <1>5, <1>7
  <2>3. RequestFits'
    BY <1>5, <1>7, <1>8 DEF Target
  <2>4. ErrorFits'
    BY <1>5, <1>6, <1>7
  <2> QED
    BY <2>1, <2>2, <2>3, <2>4
<1>11. CommandInv'
  BY <1>5, <1>6, <1>7, <1>8 DEF SourceAlike
<1>12. CreatedInv'
  BY <1>5, <1>6, <1>7, <1>8 DEF SourceAlike
<1>13. ChildInv'
  BY <1>5, <1>6, <1>7, <1>8
<1>14. EffortInv' /\ PolicyInv'
  BY <1>5, <1>6, <1>7, <1>8 DEF SameEffort, Promised, target
<1> QED
  BY <1>3, <1>8, <1>10, <1>11, <1>12, <1>13, <1>14 DEF SourceAlike

\* Discovery and binding leave every program where it is.
LEMMA DiscoveryWorld ==
    ASSUME Inv, Discovery \/ Bind \/ Bound
    PROVE  SameWorld
<1> USE Names
<1>1. CASE Guard \/ Drafted \/ Status \/ Bound
  BY <1>1, StillWorld DEF Guard, Drafted, Status, Bound
<1>2. pane \in [Panes -> PaneType] /\ p0 \in Panes /\ pane[p0] \in PaneType
      /\ pane[p0].thread \in OptThread /\ kit.who \in OptThread
  BY KitTypes, FieldTypes DEF p0, TypeOK, PanesTypeOK
<1>3. CASE Text
  <2>1. (IF pane[p0].draft = "empty" THEN "status" ELSE "typed") \in {"empty", "status", "typed"}
    OBVIOUS
  <2>2. Update(p0, [pane[p0] EXCEPT !.draft = IF pane[p0].draft = "empty" THEN "status" ELSE "typed"])
    BY <1>2, <1>3 DEF Text, TypeText, PaneType
  <2> QED
    BY <1>2, <1>3, <2>1, <2>2, Redrawn, AlikePane, ShapeWorld DEF Text
<1>4. CASE Enter
  <2> DEFINE x == IF pane[p0].draft = "status"
                    THEN [pane[p0] EXCEPT !.draft = "empty", !.shows = pane[p0].thread]
                    ELSE [pane[p0] EXCEPT !.draft = "empty"]
  <2>1. x \in PaneType /\ Alike(x, pane[p0])
    BY <1>2, Redrawn
  <2>2. Update(p0, x) /\ UNCHANGED <<procs, touches, serverVars>>
    BY <1>4 DEF Enter
  <2> HIDE DEF x
  <2> QED
    BY <1>2, <2>1, <2>2, AlikePane, ShapeWorld
<1>5. CASE Bind
  <2>1. CASE kit.seen = "unset"
    BY <1>5, <2>1, StillWorld DEF Bind, worldVars, serverVars
  <2>2. CASE kit.seen # "unset"
    BY <1>2, <1>5, <2>2, Redrawn, AlikePane, ShapeWorld DEF Bind, ReportSession
  <2> QED
    BY <1>5, <2>1, <2>2 DEF Bind
<1> QED
  BY <1>1, <1>3, <1>4, <1>5 DEF Discovery

LEMMA DiscoveryKeeps ==
    ASSUME Inv, Discovery \/ Bind \/ Bound, UNCHANGED conv
    PROVE  Inv'
<1>1. SameWorld
  BY DiscoveryWorld
<1>2. CASE Failing
  BY <1>1, <1>2, FailingKeeps
     DEF SameWorld, Discovery, Guard, Text, Drafted, Enter, Status, Bind, Bound, Promised, target
<1>3. \/ At("text") /\ Goto("drafted")
      \/ At("drafted") /\ Goto("enter")
      \/ At("enter") /\ Goto("status")
      \/ At("bind") /\ Goto("bound")
      \/ At("bound") /\ Goto(kit.back)
      \/ Guard \/ Status \/ Failing
  BY DEF Discovery, Text, Drafted, Enter, Bind, Bound, Then
<1> USE <1>1 DEF SameWorld, SourceAlike, Target, SameEffort, Promised, target
<1>4. ASSUME NEW from, NEW to \in AllSteps, At(from), Goto(to),
             <<from, to>> \in {<<"text", "drafted">>, <<"drafted", "enter">>, <<"enter", "status">>,
                              <<"bind", "bound">>}
      PROVE  Inv'
  <2>1. TypeOK'
    BY <1>4, GotoTypes, KitKeepsTypes
  <2> QED
    BY <1>4, <2>1
<1>5. CASE At("bound") /\ Goto(kit.back)
  <2>1. TypeOK'
    BY <1>5, GotoTypes, KitKeepsTypes, KitTypes DEF AllSteps
  <2>2. kit.op \in LaunchOps \cup ConversionOps
    BY <1>5, KitTypes
  <2> QED
    BY <1>5, <2>1, <2>2
<1>6. CASE Guard
  <2>1. \/ Goto("text")
        \/ pane[p0].bound # NoThread /\ kit' = [kit EXCEPT !.pc = kit.back, !.who = pane[p0].bound]
    BY <1>6 DEF Guard
  <2>3. TypeOK'
    BY <1>6, GuardTypes, KitKeepsTypes
  <2> QED
    BY <1>6, <2>1, <2>3 DEF Guard
<1>7. CASE Status
  <2>1. kit' = [kit EXCEPT !.pc = kit.back, !.who = pane[p0].shows,
                          !.seen = ShownEffort(pane[p0].shows)]
        /\ At("status") /\ pane[p0].shows # NoThread
    BY <1>7 DEF Status, FreshStatus
  <2>2. TypeOK'
    BY <1>7, StatusTypes, KitKeepsTypes
  <2> QED
    BY <2>1, <2>2
<1> QED
  BY <1>2, <1>3, <1>4, <1>5, <1>6, <1>7 DEF AllSteps

\* Before anything is started, and looks on the way.
LEMMA LookKeeps ==
    ASSUME Inv, UNCHANGED conv,
           LaunchShell \/ Unguarded \/ RunShell \/ RunTyped \/ SourceAfter \/ Focused
    PROVE  Inv'
<1>1. /\ UNCHANGED worldVars
      /\ \/ At("launchShell") /\ Goto("launchExec")
         \/ At("guarded") /\ Goto("shell")
         \/ At("shell") /\ Goto("type")
         \/ At("typed") /\ Goto("process")
         \/ At("sourceAfter") /\ Goto("audit")
         \/ At("focused") /\ Goto("done")
  BY DEF LaunchShell, Unguarded, RunShell, RunTyped, SourceAfter, Focused
<1>2. SameWorld
  BY <1>1, StillWorld
<1> USE DEF SameWorld, SourceAlike, Target, SameEffort, Promised, target
<1>3. TypeOK'
  BY <1>1, <1>2, GotoTypes, KitKeepsTypes DEF AllSteps
<1>4. CASE At("launchShell") /\ Goto("launchExec")
  BY <1>2, <1>3, <1>4
<1>5. CASE At("guarded") /\ Goto("shell")
  BY <1>2, <1>3, <1>5
<1>6. CASE At("shell") /\ Goto("type")
  BY <1>2, <1>3, <1>6
<1>7. CASE At("typed") /\ Goto("process")
  BY <1>2, <1>3, <1>7
<1>8. CASE At("sourceAfter") /\ Goto("audit")
  BY <1>2, <1>3, <1>8
<1>9. CASE At("focused") /\ Goto("done")
  BY <1>2, <1>3, <1>9
<1> QED
  BY <1>1, <1>4, <1>5, <1>6, <1>7, <1>8, <1>9

LEMMA BeforeKeeps ==
    ASSUME Inv, UNCHANGED conv, Ensure \/ Source \/ LaunchOrigin
    PROVE  Inv'
<1>1. SameWorld
  BY StillWorld DEF Ensure, Source, LaunchOrigin
<1>2. TypeOK'
  BY <1>1, EnsureTypes, SourceTypes, LaunchOriginTypes, KitKeepsTypes DEF SameWorld
<1> USE <1>1 DEF SameWorld, SourceAlike, Target, SameEffort, Promised, target
<1>3. CASE Ensure
  BY <1>2, <1>3 DEF Ensure
<1>4. CASE Source
  BY <1>2, <1>4 DEF Source
<1>5. CASE LaunchOrigin
  BY <1>2, <1>5 DEF LaunchOrigin
<1> QED
  BY <1>3, <1>4, <1>5

LEMMA IdentifiedKeeps ==
    ASSUME Inv, UNCHANGED conv, Process \/ Confirm \/ Reconciled \/ Final
    PROVE  Inv'
<1>1. SameWorld
  BY StillWorld DEF Process, Confirm, Reconciled, Final
<1>2. TypeOK'
  BY <1>1, ProcessTypes, ConfirmTypes, ReconciledTypes, FinalTypes, KitKeepsTypes DEF SameWorld
<1> USE <1>1 DEF SameWorld, SourceAlike, Target, SameEffort
<1>3. kit.op \in LaunchOps
  BY KitTypes DEF Process, Confirm, Reconciled, Final
<1>4. CASE Process
  <2>1. kit.op = "resume" => pane[Src].queued = "none"
    BY <1>4, Names DEF Process, Verified, p0, OnlyShellsQueue
  <2>2. kit' = [kit EXCEPT !.pc = "guard", !.back = "confirm", !.pid = pane[p0].pid] /\ At("process")
    BY <1>4 DEF Process
  <2> QED
    BY <1>2, <1>3, <2>1, <2>2 DEF Promised, target
<1>5. CASE Confirm
  <2>1. /\ At("confirm") /\ kit.who = target /\ thread[target].exists
        /\ kit' = [kit EXCEPT !.pc = "bind", !.found = Identity(target), !.child = kit.op # "resume",
                          !.back = CASE kit.op = "fork" -> "sourceAfter"
                                     [] kit.op = "new" -> "final"
                                     [] OTHER -> "audit"]
    BY <1>5 DEF Confirm, CanRead
  <2>2. target \in Threads
    BY Names DEF target
  <2>3. kit.who # NoThread
    BY <2>1, <2>2, Names
  <2>4. (kit.pc \in StepsOf(kit.op))' /\ (kit.pc = "idle" => kit = Resting)'
    BY <2>1, <1>3
  <2>5. BackFits' /\ RequestFits' /\ ErrorFits'
    <3>1. /\ kit'.op = kit.op /\ kit'.pc = "bind" /\ kit'.who = kit.who /\ kit'.child = (kit.op # "resume")
          /\ kit'.ret = kit.ret /\ kit'.want = kit.want /\ kit'.reconciles = kit.reconciles
          /\ kit'.owned = kit.owned /\ kit'.created = kit.created /\ kit'.pane = kit.pane
          /\ kit'.inherits = kit.inherits /\ kit'.focus = kit.focus /\ kit'.prompt = kit.prompt
          /\ kit'.err = kit.err
      BY <2>1, KitIsTyped DEF KitType
    <3>2. kit'.back = CASE kit.op = "fork" -> "sourceAfter"
                        [] kit.op = "new" -> "final"
                        [] OTHER -> "audit"
      BY <2>1, KitIsTyped DEF KitType
    <3>3. BackFits'
      BY <1>3, <2>3, <3>1, <3>2
    <3>4. RequestFits'
      <4>1. /\ kit.pc = "confirm"
            /\ kit.op \notin {"new", "fork", "release"} => ~kit'.child
        BY <1>3, <2>1, <3>1
      <4> QED
        BY <1>3, <3>1, <4>1
    <3>5. ErrorFits'
      BY <1>3, <2>1, <3>1
    <3> QED
      BY <3>3, <3>4, <3>5
  <2>6. CommandInv' /\ CreatedInv'
    BY <2>1, <1>3
  <2>7. ChildInv' /\ EffortInv' /\ PolicyInv'
    BY <2>1, <1>3 DEF Promised, target
  <2> QED
    BY <1>2, <2>4, <2>5, <2>6, <2>7
<1>6. CASE Reconciled
  <2>1. At("reconciled") /\ kit'.pc = "final" /\ kit'.op = kit.op
        /\ kit'.want = kit.want
    BY <1>6, KitIsTyped DEF Reconciled, KitType
  <2>2. Promised'
    BY <1>6, <2>1 DEF Reconciled, UpdateReadBack, Drift, Effective, Promised, target
  <2> QED
    BY <1>2, <1>3, <1>6, <2>1, <2>2 DEF Reconciled
<1>7. CASE Final
  <2>1. At("final") /\ Goto(IF kit.prompt = "wanted" THEN "prompt" ELSE IF kit.focus THEN "focus" ELSE kit.ret)
    BY <1>7 DEF Final
  <2> QED
    BY <1>2, <1>3, <2>1 DEF Promised, target
<1> QED
  BY <1>4, <1>5, <1>6, <1>7

\* The panes and the threads that a launch changes.
LEMMA LoadedKeeps ==
    ASSUME TypeOK, NEW t \in Threads, NEW policy \in LoadedPolicies(t), Loaded(t, policy),
           UNCHANGED <<instance, constraints>>
    PROVE  /\ ServerTypeOK' /\ thread'[t].policy = policy
           /\ \A u \in Threads : /\ thread'[u].exists = thread[u].exists
                                 /\ thread'[u].effort = thread[u].effort
                                 /\ u # t => thread'[u].policy = thread[u].policy
<1> USE DEF TypeOK, ServerTypeOK
<1>1. thread \in [Threads -> ThreadType] /\ policy \in Policies
  BY ThreadTypes DEF LoadedPolicies, Policies
<1>2. CASE thread[t].live
  BY <1>1, <1>2 DEF Loaded, LoadedPolicies
<1>3. CASE ~thread[t].live
  <2> DEFINE x == [thread[t] EXCEPT !.live = TRUE, !.policy = policy]
  <2>1. /\ x \in ThreadType /\ x.exists = thread[t].exists /\ x.effort = thread[t].effort
        /\ x.policy = policy
    BY <1>1 DEF ThreadType
  <2>2. thread' = [thread EXCEPT ![t] = x]
    BY <1>1, <1>3 DEF Loaded
  <2> HIDE DEF x
  <2> QED
    BY <1>1, <2>1, <2>2
<1> QED
  BY <1>2, <1>3

LEMMA PanesStay ==
    ASSUME TypeOK, OnlyShellsQueue, UNCHANGED <<pane, procs, touches>>
    PROVE  SourceAlike
BY DEF SourceAlike, TypeOK, PanesTypeOK, OnlyShellsQueue, NoWriter, NoManaged

LEMMA SettingsTypes ==
    ASSUME TypeOK, NEW t \in Threads, NEW s \in Settings, SetEffective(t, s)
    PROVE  /\ thread' \in [Threads -> ThreadType] /\ thread'[t].policy = s.policy
           /\ thread'[t].effort = s.effort
           /\ \A u \in Threads : thread'[u].exists = thread[u].exists
           /\ \A u \in Threads \ {t} : thread'[u] = thread[u]
BY DEF TypeOK, ServerTypeOK, SetEffective, ThreadType, Settings

LEMMA PreflightKeeps ==
    ASSUME Inv, UNCHANGED conv, Preflight
    PROVE  Inv'
<1> USE Names
<1>1. SourceAlike
  BY PanesStay DEF Preflight, worldVars
<1>2. /\ ServerTypeOK' /\ thread'[Child].exists = thread[Child].exists
      /\ thread'[Child].policy = thread[Child].policy
  <2>1. CASE kit.op = "new"
    BY <2>1 DEF Preflight, worldVars, TypeOK, ServerTypeOK
  <2>2. CASE kit.op # "new"
    BY <2>2, LoadedKeeps, ZenonT(60) DEF Preflight
  <2> QED
    BY <2>1, <2>2
<1>3. TypeOK'
  BY <1>1, <1>2, PreflightTypes, KitKeepsTypes
<1>4. /\ At("preflight") /\ kit.op \in LaunchOps
      /\ kit'.op = kit.op /\ kit'.pc = IF kit.op = "resume" THEN "guarded" ELSE "run"
      /\ kit'.ret = kit.ret /\ kit'.reconciles = kit.reconciles
      /\ kit'.owned = kit.owned /\ kit'.created = kit.created /\ kit'.pane = kit.pane
      /\ kit'.inherits = kit.inherits /\ kit'.focus = kit.focus /\ kit'.prompt = kit.prompt
      /\ kit'.err = kit.err /\ kit'.child = kit.child
      /\ ~kit.inherits => kit'.want = kit.want
  <2>1. At("preflight") /\ kit.op \in LaunchOps
    BY KitTypes DEF Preflight
  <2>2. CASE kit.op = "new"
    BY <2>1, <2>2, KitIsTyped DEF Preflight, KitType
  <2>3. CASE kit.op # "new"
    <3>1. PICK w : /\ kit' = [kit EXCEPT !.source = Identity(Old), !.want = w,
                                         !.pc = IF kit.op = "fork" THEN "run" ELSE "guarded"]
                   /\ ~kit.inherits => w = kit.want
      BY <2>3, KitIsTyped, ZenonT(60) DEF Preflight, KitType
    <3> QED
      BY <2>1, <2>3, <3>1, KitIsTyped DEF KitType
  <2> QED
    BY <2>2, <2>3
<1>5. FlowInv'
  BY <1>4 DEF Target
<1>6. CommandInv' /\ CreatedInv'
  BY <1>1, <1>4 DEF SourceAlike
<1>7. ChildInv' /\ EffortInv'
  BY <1>2, <1>4
<1>8. PolicyInv'
  BY <1>2, <1>4 DEF Promised, target
<1> QED
  BY <1>1, <1>3, <1>5, <1>6, <1>7, <1>8 DEF SourceAlike

LEMMA RunKeeps ==
    ASSUME Inv, UNCHANGED conv, Run
    PROVE  Inv'
<1> USE Names
<1>1. /\ pane \in [Panes -> PaneType] /\ procs + 1 \in Nat /\ pane[Tgt] \in PaneType
  BY FieldTypes DEF TypeOK, PanesTypeOK
<1>2. PICK x \in PaneType : Update(Tgt, x) /\ x.queued = "none"
  <2>1. /\ Shell(0) \in PaneType /\ Shell(procs + 1) \in PaneType
        /\ Runs(Shell(0), "managed", procs + 1, NoThread) \in PaneType
    BY <1>1, ShellTypes, RunsTypes DEF Programs, Tui, Kit
  <2> QED
    BY <2>1 DEF Run, OpenRunning, OpenShell, Shell, Runs
<1>3. /\ pane' \in [Panes -> PaneType] /\ pane'[Src] = pane[Src] /\ OnlyShellsQueue'
  BY <1>1, <1>2, OnePane DEF OnlyShellsQueue
<1>4. TypeOK'
  <2>1. kit' \in KitType
    BY GotoTypes DEF Run, AllSteps
  <2>2. PanesTypeOK'
    BY <1>1, <1>3 DEF Run, OpenRunning, OpenShell, TypeOK, PanesTypeOK
  <2> QED
    BY <2>1, <2>2, KitMoves DEF Run, serverVars, TypeOK, ServerTypeOK, ConversionTypeOK
<1>5. NoWriter' = NoWriter /\ NoManaged' = NoManaged /\ pane'[Src].queued = pane[Src].queued
  BY <1>3 DEF NoWriter, NoManaged
<1>6. UNCHANGED thread
  BY DEF Run, serverVars
<1>7. CASE At("run") /\ Goto("launchOrigin")
  BY <1>3, <1>4, <1>5, <1>6, <1>7 DEF SameEffort, Promised, target, Target
<1>8. CASE At("run") /\ Goto("launchShell")
  BY <1>3, <1>4, <1>5, <1>6, <1>8 DEF SameEffort, Promised, target, Target
<1> QED
  BY <1>7, <1>8 DEF Run

LEMMA LaunchExecKeeps ==
    ASSUME Inv, UNCHANGED conv, LaunchExec
    PROVE  Inv'
<1> USE Names
<1>1. SourceAlike
  <2>1. /\ pane' \in [Panes -> PaneType]
        /\ \A q \in Panes \ {Tgt} : pane'[q] = pane[q]
        /\ pane'[Tgt].open = pane[Tgt].open /\ pane'[Tgt].prog = pane[Tgt].prog
        /\ pane[Tgt].prog # "shell" => pane'[Tgt].queued = pane[Tgt].queued
    BY TypedInto DEF LaunchExec, TypeOK, PanesTypeOK
  <2>2. PanesTypeOK'
    BY <2>1 DEF LaunchExec, TypeOK, PanesTypeOK
  <2> QED
    BY <2>1, <2>2 DEF SourceAlike, OnlyShellsQueue, NoWriter, NoManaged
<1>2. ServerTypeOK' /\ UNCHANGED thread
  BY DEF LaunchExec, serverVars, TypeOK, ServerTypeOK
<1>3. CASE Failing
  BY <1>1, <1>2, <1>3, FailingKeeps DEF LaunchExec, Promised, target
<1>4. CASE At("launchExec") /\ Goto("launchOrigin")
  <2>1. TypeOK'
    BY <1>1, <1>2, <1>4, GotoTypes, KitKeepsTypes DEF AllSteps
  <2> QED
    BY <1>1, <1>2, <1>4, <2>1 DEF SourceAlike, SameEffort, Promised, target, Target
<1> QED
  BY <1>3, <1>4 DEF LaunchExec, Then

LEMMA AuditKeeps ==
    ASSUME Inv, UNCHANGED conv, Audit
    PROVE  Inv'
<1> USE Names
<1>1. SourceAlike
  BY PanesStay DEF Audit
<1>2. target \in Threads
  BY DEF target
<1>3. PICK policy \in LoadedPolicies(target) :
          /\ Loaded(target, policy)
          /\ IF Drift([effort |-> thread[target].effort, policy |-> policy], kit.want) = {}
               THEN Goto("final")
               ELSE (kit.op = "fork" \/ kit.reconciles) /\ Goto("reconcile")
  BY DEF Audit
<1>4. /\ ServerTypeOK' /\ thread'[target].policy = policy
      /\ thread'[Child].exists = thread[Child].exists
      /\ target # Child => thread'[Child].policy = thread[Child].policy
  BY <1>2, <1>3, LoadedKeeps DEF Audit
<1>5. At("audit") /\ kit.op \in LaunchOps
  BY KitTypes DEF Audit
<1>6. CASE policy = kit.want.policy /\ Goto("final")
  <2>1. TypeOK'
    BY <1>1, <1>4, <1>6, GotoTypes, KitKeepsTypes DEF AllSteps
  <2> QED
    BY <1>1, <1>4, <1>5, <1>6, <2>1 DEF SourceAlike, SameEffort, Promised, target, Target
<1>7. CASE (kit.op = "fork" \/ kit.reconciles) /\ Goto("reconcile")
  <2>1. TypeOK'
    BY <1>1, <1>4, <1>7, GotoTypes, KitKeepsTypes DEF AllSteps
  <2> QED
    BY <1>1, <1>4, <1>5, <1>7, <2>1 DEF SourceAlike, SameEffort, Promised, target, Target
<1> QED
  BY <1>3, <1>6, <1>7 DEF Drift

LEMMA RunTypeKeeps ==
    ASSUME Inv, UNCHANGED conv, RunType
    PROVE  Inv'
<1> USE Names
<1>1. pane[Src].queued' \in {pane[Src].queued, "managed"} /\ PanesTypeOK' /\ OnlyShellsQueue'
      /\ pane'[Tgt].open = pane[Tgt].open
  <2>1. CASE TypeCommand(Src, "managed")
    <3>1. /\ pane' \in [Panes -> PaneType]
          /\ \A q \in Panes \ {Src} : pane'[q] = pane[q]
          /\ pane'[Src].prog = pane[Src].prog
          /\ pane'[Src].queued \in {pane[Src].queued, "managed"}
          /\ pane[Src].prog # "shell" => pane'[Src].queued = pane[Src].queued
      BY <2>1, TypedInto DEF TypeOK, PanesTypeOK, Kit
    <3> QED
      BY <3>1 DEF RunType, TypeOK, PanesTypeOK, OnlyShellsQueue
  <2>2. CASE UNCHANGED pane
    BY <2>2 DEF RunType, TypeOK, PanesTypeOK, OnlyShellsQueue
  <2> QED
    BY <2>1, <2>2 DEF RunType
<1>2. ServerTypeOK' /\ UNCHANGED thread
  BY DEF RunType, serverVars, TypeOK, ServerTypeOK
<1>3. TypeOK'
  BY <1>1, <1>2, RunTypeTypes, KitMoves DEF TypeOK, ConversionTypeOK
<1>4. At("type") /\ kit.op = "resume"
  BY KitTypes DEF RunType
<1>5. CASE kit' = [kit EXCEPT !.owned = Owned(TRUE), !.pc = "typed"]
  BY <1>1, <1>2, <1>3, <1>4, <1>5 DEF Owned, SameEffort, Promised, target, Target
<1>6. ASSUME NEW cause \in CausesAt("type"), kit' = [Abandoned(cause) EXCEPT !.owned = Owned(FALSE)]
      PROVE  Inv'
  <2>1. AfterFailure = "stop" /\ cause # "cleanup"
    BY <1>4, <1>6 DEF AfterFailure, CleansUp, CausesAt, MayRetry
  <2> HIDE DEF AfterFailure
  <2>2. /\ kit'.pc = "stop" /\ kit'.err = {cause} /\ kit'.op = kit.op /\ kit'.ret = kit.ret
        /\ kit'.want = kit.want /\ kit'.reconciles = kit.reconciles /\ kit'.owned
        /\ kit'.created = kit.created /\ kit'.child = kit.child /\ kit'.pane = kit.pane
        /\ kit'.inherits = kit.inherits /\ kit'.focus = kit.focus /\ kit'.prompt = kit.prompt
    <3>1. Abandoned(cause) \in KitType
      BY <1>6, AbandonedTypes DEF CausesAt, Causes
    <3>2. kit'.owned /\ \A f \in DOMAIN Abandoned(cause) \ {"owned"} : kit'[f] = Abandoned(cause)[f]
      BY <1>6, <3>1 DEF Owned, KitType
    <3>3. /\ Abandoned(cause).pc = "stop" /\ Abandoned(cause).err = {cause}
          /\ Abandoned(cause).op = kit.op /\ Abandoned(cause).ret = kit.ret
          /\ Abandoned(cause).want = kit.want /\ Abandoned(cause).reconciles = kit.reconciles
          /\ Abandoned(cause).created = kit.created /\ Abandoned(cause).child = kit.child
          /\ Abandoned(cause).pane = kit.pane /\ Abandoned(cause).inherits = kit.inherits
          /\ Abandoned(cause).focus = kit.focus /\ Abandoned(cause).prompt = kit.prompt
      BY <2>1, KitIsTyped DEF Abandoned, KitType
    <3> HIDE DEF Abandoned
    <3> QED
      BY <3>1, <3>2, <3>3 DEF KitType
  <2> QED
    BY <1>1, <1>2, <1>3, <1>4, <2>1, <2>2 DEF SameEffort, Promised, target, Target
<1> QED
  BY <1>5, <1>6 DEF RunType

LEMMA ReconcileKeeps ==
    ASSUME Inv, UNCHANGED conv, Reconcile
    PROVE  Inv'
<1> USE Names
<1>1. SourceAlike
  BY PanesStay DEF Reconcile
<1>2. target \in Threads /\ kit.want \in Settings
  BY KitTypes DEF target
<1>3. /\ ServerTypeOK' /\ thread'[Child].exists = thread[Child].exists
      /\ kit.op = "new" /\ thread'[Child].exists => thread'[Child].policy \in {kit.want.policy, "foreign"}
  <2>1. CASE SetEffective(target, kit.want)
    BY <1>2, <2>1, SettingsTypes DEF Reconcile, TypeOK, ServerTypeOK, target
  <2>2. CASE UNCHANGED thread
    BY <2>2 DEF Reconcile, TypeOK, ServerTypeOK, target, Promised
  <2> QED
    BY <2>1, <2>2 DEF Reconcile
<1>4. CASE Failing
  BY <1>1, <1>3, <1>4, FailingKeeps DEF Reconcile
<1>5. CASE At("reconcile") /\ Goto("reconciled")
  <2>1. TypeOK'
    BY <1>1, <1>3, <1>5, GotoTypes, KitKeepsTypes DEF AllSteps
  <2>2. kit.op \in LaunchOps
    BY <1>5, KitTypes
  <2> QED
    BY <1>1, <1>3, <1>5, <2>1, <2>2 DEF SourceAlike, SameEffort, Promised, target, Target
<1> QED
  BY <1>4, <1>5 DEF Reconcile, Then

LEMMA DeliverPromptKeeps ==
    ASSUME Inv, UNCHANGED conv, DeliverPrompt
    PROVE  Inv'
<1> USE Names
<1>1. pane \in [Panes -> PaneType] /\ p0 \in Panes /\ pane[p0] \in PaneType
  BY P0Types DEF TypeOK, PanesTypeOK
<1>2. SourceAlike
  <2>1. CASE UNCHANGED pane
    BY <2>1, PanesStay DEF DeliverPrompt
  <2>2. CASE Update(p0, [pane[p0] EXCEPT !.busy = TRUE])
    BY <1>1, <2>2, Redrawn, AlikePane, ShapeIsAlike DEF DeliverPrompt
  <2> QED
    BY <2>1, <2>2 DEF DeliverPrompt
<1>3. target \in Threads
  BY DEF target
<1>4. /\ ServerTypeOK' /\ thread'[Child].exists = thread[Child].exists
      /\ thread'[Child].policy = thread[Child].policy
      /\ thread'[Old].policy = thread[Old].policy
  <2>1. CASE UNCHANGED thread
    BY <2>1 DEF DeliverPrompt, TypeOK, ServerTypeOK
  <2>2. CASE thread' = [thread EXCEPT ![target].turns = @ + 1]
    <3>1. thread \in [Threads -> ThreadType] /\ thread[target].turns \in Nat
      BY <1>3, ThreadTypes DEF TypeOK, ServerTypeOK
    <3>2. /\ thread' \in [Threads -> ThreadType]
          /\ \A u \in Threads : thread'[u].exists = thread[u].exists /\ thread'[u].policy = thread[u].policy
      BY <1>3, <2>2, <3>1 DEF ThreadType
    <3> QED
      BY <3>2 DEF DeliverPrompt, TypeOK, ServerTypeOK
  <2> QED
    BY <2>1, <2>2 DEF DeliverPrompt
<1>5. TypeOK'
  BY <1>2, <1>4, DeliverPromptTypes, KitKeepsTypes
<1>6. At("prompt") /\ kit.op \in {"new", "fork"}
  BY KitTypes DEF DeliverPrompt
<1> USE <1>2, <1>4, <1>5, <1>6 DEF SourceAlike, SameEffort, Promised, target, Target
<1>7. CASE kit' = [kit EXCEPT !.prompt = "acknowledged", !.pc = IF kit.focus THEN "focus" ELSE "done"]
  BY <1>7
<1>8. CASE kit' = [kit EXCEPT !.prompt = "unknown", !.pc = "done", !.err = {"stale"}]
  BY <1>8
<1> QED
  BY <1>7, <1>8 DEF DeliverPrompt

LEMMA FocusKeeps ==
    ASSUME Inv, UNCHANGED conv, Focus
    PROVE  Inv'
<1>1. SameWorld
  <2>1. pane \in [Panes -> PaneType] /\ p0 \in Panes
    BY P0Types DEF TypeOK, PanesTypeOK
  <2> QED
    BY <2>1, FocusTaken, ShapeWorld DEF Focus
<1>2. CASE Failing
  BY <1>1, <1>2, FailingKeeps DEF SameWorld, Focus, Promised, target
<1>3. CASE At("focus") /\ Goto("focused")
  <2>1. TypeOK'
    BY <1>1, <1>3, GotoTypes, KitKeepsTypes DEF AllSteps, SameWorld
  <2> QED
    BY <1>1, <1>3, <2>1 DEF SameWorld, SourceAlike, SameEffort, Promised, target, Target
<1> QED
  BY <1>2, <1>3 DEF Focus, Then

LEMMA LaunchFailsKeeps ==
    ASSUME Inv, UNCHANGED conv, LaunchFails
    PROVE  Inv'
<1>1. SameWorld
  BY StillWorld DEF LaunchFails
<1> QED
  BY <1>1, FailingKeeps DEF SameWorld, LaunchFails, Promised, target

LEMMA LaunchingKeeps ==
    ASSUME Inv, UNCHANGED conv, Launching
    PROVE  Inv'
<1> HIDE DEF Inv
<1> QED
  BY LaunchFailsKeeps, DiscoveryKeeps, LookKeeps, BeforeKeeps, IdentifiedKeeps, PreflightKeeps,
     RunKeeps, LaunchExecKeeps, AuditKeeps, RunTypeKeeps, ReconcileKeeps, DeliverPromptKeeps,
     FocusKeeps DEF Launching

-----------------------------------------------------------------------------
(***************************************************************************)
(* The steps of cleaning up.                                               *)
(***************************************************************************)
LEMMA TargetCloses ==
    ASSUME Inv, ClosePane(Tgt), UNCHANGED <<procs, touches>>
    PROVE  /\ PanesTypeOK' /\ OnlyShellsQueue' /\ ~pane'[Tgt].open
           /\ NoWriter' = NoWriter /\ NoManaged' = NoManaged
           /\ pane'[Src].queued = pane[Src].queued
<1> USE Names
<1>1. pane \in [Panes -> PaneType] /\ pane[Tgt] \in PaneType
  BY FieldTypes DEF TypeOK, PanesTypeOK
<1>2. Absent \in PaneType /\ Emptied(Absent) /\ Absent.open = FALSE
  BY <1>1, EndedIsEmpty, ShellTypes
<1> HIDE DEF Inv
<1>3. /\ pane' \in [Panes -> PaneType] /\ pane'[Tgt] = Absent
      /\ \A q \in Panes \ {Tgt} : pane'[q] = pane[q]
  BY <1>1, <1>2, OnePane DEF ClosePane
<1>4. pane'[Src] = pane[Src]
  BY <1>3
<1>5. OnlyShellsQueue'
  BY <1>2, <1>3 DEF Inv, OnlyShellsQueue, Emptied
<1> QED
  BY <1>2, <1>3, <1>4, <1>5 DEF Inv, TypeOK, PanesTypeOK, NoWriter, NoManaged

LEMMA SourceEnds ==
    ASSUME Inv, Signal(Src), UNCHANGED <<procs, touches>>
    PROVE  /\ PanesTypeOK' /\ OnlyShellsQueue' /\ pane'[Tgt].open = pane[Tgt].open
           /\ NoWriter' /\ NoManaged' /\ pane'[Src].queued = "none"
<1> USE Names
<1>1. pane \in [Panes -> PaneType] /\ pane[Src] \in PaneType
  BY FieldTypes DEF TypeOK, PanesTypeOK
<1>2. Ended(pane[Src]) \in PaneType /\ Emptied(Ended(pane[Src]))
  BY <1>1, EndedIsEmpty, EndedTypes
<1> HIDE DEF Inv
<1>3. /\ pane' \in [Panes -> PaneType] /\ pane'[Src] = Ended(pane[Src])
      /\ \A q \in Panes \ {Src} : pane'[q] = pane[q]
  BY <1>1, <1>2, OnePane DEF Signal
<1>4. pane'[Src].queued = "none" /\ pane'[Src].prog = "shell" /\ pane'[Tgt] = pane[Tgt]
  BY <1>2, <1>3 DEF Emptied
<1>5. OnlyShellsQueue'
  BY <1>3, <1>4 DEF Inv, OnlyShellsQueue
<1> QED
  BY <1>3, <1>4, <1>5 DEF Inv, TypeOK, PanesTypeOK, NoWriter, NoManaged, Kit

LEMMA CleanupStays ==
    ASSUME Inv, UNCHANGED <<serverVars, conv>>
    PROVE  ServerTypeOK' /\ ConversionTypeOK' /\ UNCHANGED thread
BY DEF serverVars, TypeOK, ServerTypeOK, ConversionTypeOK

LEMMA UndoKeeps ==
    ASSUME Inv, UNCHANGED conv, Undo
    PROVE  Inv'
<1>1. ServerTypeOK' /\ ConversionTypeOK' /\ UNCHANGED thread
  BY CleanupStays DEF Undo
<1>2. At("undo") /\ kit.op \in {"new", "fork"}
  BY KitTypes DEF Undo
<1> USE <1>1, <1>2 DEF SameEffort, Promised, target, Target
<1>3. CASE ClosePane(Tgt) /\ Goto("stop")
  <2>1. /\ PanesTypeOK' /\ OnlyShellsQueue' /\ ~pane'[Tgt].open
        /\ NoWriter' = NoWriter /\ NoManaged' = NoManaged
        /\ pane'[Src].queued = pane[Src].queued
    BY <1>3, TargetCloses DEF Undo
  <2>2. TypeOK'
    BY <2>1, CleanupTypes, KitMoves
  <2> QED
    BY <1>3, <2>1, <2>2
<1>4. CASE UNCHANGED pane /\ kit' = [kit EXCEPT !.pc = "stop", !.err = @ \cup {"cleanup"}]
  <2>1. SourceAlike
    BY <1>4, PanesStay DEF Undo
  <2>2. TypeOK'
    BY <2>1, CleanupTypes, KitMoves DEF SourceAlike
  <2> QED
    BY <1>4, <2>1, <2>2 DEF SourceAlike
<1> QED
  BY <1>3, <1>4 DEF Undo

LEMMA StopCreatedKeeps ==
    ASSUME Inv, UNCHANGED conv, StopCreated
    PROVE  Inv'
<1>1. ServerTypeOK' /\ ConversionTypeOK' /\ UNCHANGED thread
  BY CleanupStays DEF StopCreated
<1>2. At("stop") /\ kit.created /\ kit.op \in LaunchOps \cup {"release"}
  BY KitTypes DEF StopCreated
<1> USE <1>1, <1>2 DEF SameEffort, Promised, target, Target
<1>3. /\ PanesTypeOK' /\ OnlyShellsQueue' /\ NoWriter' = NoWriter /\ NoManaged' = NoManaged
      /\ pane'[Src].queued = pane[Src].queued
      /\ pane'[Tgt].open => CleanupFails("delete")
  <2>1. CASE ClosePane(Tgt)
    BY <2>1, TargetCloses DEF StopCreated
  <2>2. CASE UNCHANGED pane /\ CleanupFails("delete")
    BY <2>2, PanesStay DEF StopCreated, SourceAlike
  <2> QED
    BY <2>1, <2>2 DEF StopCreated
<1>4. TypeOK'
  BY <1>3, CleanupTypes, KitMoves
<1>5. CASE ~pane'[Tgt].open /\ kit' = [kit EXCEPT !.pc = "delete", !.created = FALSE]
  BY <1>3, <1>4, <1>5
<1>6. CASE kit' = [kit EXCEPT !.pc = "delete", !.err = @ \cup {"cleanup"}]
  BY <1>3, <1>4, <1>6
<1> QED
  BY <1>3, <1>5, <1>6 DEF StopCreated, CleanupFails

LEMMA StopOwnedKeeps ==
    ASSUME Inv, UNCHANGED conv, StopOwned \/ StopLate
    PROVE  Inv'
<1>1. ServerTypeOK' /\ ConversionTypeOK' /\ UNCHANGED thread
  BY CleanupStays DEF StopOwned, StopLate
<1>2. kit.pc \in {"stop", "stopLate"} /\ kit.op \in LaunchOps \cup {"release"}
      /\ kit.owned
  BY KitTypes DEF StopOwned, StopLate
<1> USE <1>1, <1>2 DEF SameEffort, Promised, target, Target
<1>3. /\ PanesTypeOK' /\ OnlyShellsQueue' /\ pane'[Tgt].open = pane[Tgt].open
      /\ NoWriter => NoWriter'
      /\ NoManaged => NoManaged'
      /\ kit'.pc = "stopped" => pane'[Src].queued = "none"
  <2>1. CASE Signal(Src)
    BY <2>1, SourceEnds DEF StopOwned, StopLate
  <2>2. CASE UNCHANGED pane /\ (Goto("settle") \/ Goto("stopLate") \/ CleanupFails("delete"))
    <3>1. kit'.pc \in {"settle", "stopLate", "delete"}
      BY <2>2, KitIsTyped DEF CleanupFails, KitType
    <3>2. SourceAlike
      BY <2>2, PanesStay DEF StopOwned, StopLate
    <3> QED
      BY <3>1, <3>2 DEF SourceAlike
  <2> QED
    BY <2>1, <2>2 DEF StopOwned, StopLate
<1>4. TypeOK'
  BY <1>3, CleanupTypes, KitMoves
<1>5. CASE Goto("stopped")
  BY <1>3, <1>4, <1>5
<1>6. CASE Goto("settle")
  BY <1>3, <1>4, <1>6
<1>7. CASE Goto("stopLate")
  BY <1>3, <1>4, <1>7
<1>8. CASE kit' = [kit EXCEPT !.pc = "delete", !.err = @ \cup {"cleanup"}]
  BY <1>3, <1>4, <1>8
<1> QED
  BY <1>5, <1>6, <1>7, <1>8 DEF StopOwned, StopLate, CleanupFails

LEMMA StoppedKeeps ==
    ASSUME Inv, UNCHANGED conv, StopNothing \/ Stopped \/ Settle
    PROVE  Inv'
<1>1. SameWorld
  BY StillWorld DEF StopNothing, Stopped, Settle
<1>2. TypeOK'
  BY <1>1, CleanupTypes, KitKeepsTypes DEF SameWorld
<1>3. kit.op \in LaunchOps \cup {"release"}
  BY KitTypes DEF StopNothing, Stopped, Settle
<1> USE <1>1, <1>2, <1>3 DEF SameWorld, SourceAlike, SameEffort, Promised, target, Target
<1>4. CASE StopNothing
  BY <1>4 DEF StopNothing
<1>5. ASSUME kit.pc \in {"stopped", "settle"}, pane[Src].queued = "none", pane[Src].prog = "shell",
             kit' = [kit EXCEPT !.pc = "delete", !.owned = FALSE]
      PROVE  Inv'
  <2>1. NoWriter /\ NoManaged
    BY <1>5 DEF NoWriter, NoManaged, Kit
  <2>2. /\ kit'.pc = "delete" /\ ~kit'.owned /\ kit'.err = kit.err /\ kit'.op = kit.op
        /\ kit'.want = kit.want /\ kit'.reconciles = kit.reconciles /\ kit'.ret = kit.ret
        /\ kit'.created = kit.created /\ kit'.child = kit.child /\ kit'.pane = kit.pane
        /\ kit'.inherits = kit.inherits /\ kit'.focus = kit.focus /\ kit'.prompt = kit.prompt
    BY <1>5, KitIsTyped DEF KitType
  <2>3. FlowInv'
    BY <1>5, <2>2
  <2>4. CommandInv' /\ CreatedInv'
    BY <1>5, <2>1, <2>2
  <2>5. ChildInv' /\ EffortInv' /\ PolicyInv'
    BY <1>5, <2>2
  <2> QED
    BY <2>3, <2>4, <2>5
<1>6. CASE At("stopped") /\ kit' = [kit EXCEPT !.pc = "delete", !.err = @ \cup {"cleanup"}]
  BY <1>6
<1>7. CASE At("settle") /\ kit' = [kit EXCEPT !.pc = "stopLate"]
  BY <1>7
<1> QED
  BY <1>4, <1>5, <1>6, <1>7 DEF Stopped, Settle, CleanupFails, ShellReady, Verified, ShellSettled

LEMMA DeleteKeeps ==
    ASSUME Inv, UNCHANGED conv, Delete
    PROVE  Inv'
<1> USE Names
<1>1. SourceAlike
  BY PanesStay DEF Delete
<1>2. /\ ServerTypeOK' /\ thread'[Old] = thread[Old]
      /\ thread'[Child].exists => thread' = thread
  <2>1. CASE DeleteThread(Child)
    <3>1. NoSuchThread \in ThreadType /\ NoSuchThread.exists = FALSE
      BY DEF NoSuchThread, ThreadType, Efforts, Policies
    <3> QED
      BY <2>1, <3>1 DEF DeleteThread, Delete, TypeOK, ServerTypeOK
  <2>2. CASE UNCHANGED thread
    BY <2>2 DEF Delete, TypeOK, ServerTypeOK
  <2> QED
    BY <2>1, <2>2 DEF Delete
<1>3. TypeOK'
  BY <1>1, <1>2, CleanupTypes, KitKeepsTypes
<1>4. At("delete") /\ kit.op \in LaunchOps \cup {"release"}
  BY KitTypes DEF Delete
<1>5. PICK failed \in BOOLEAN :
          /\ CleanedUp(failed)
          /\ KnownChild /\ ~failed => ~thread'[Child].exists
  <2>1. DeleteThread(Child) => ~thread'[Child].exists
    BY DEF DeleteThread, NoSuchThread, TypeOK, ServerTypeOK
  <2> QED
    BY <2>1 DEF Delete
<1> DEFINE e == IF failed \/ UnknownChild THEN kit.err \cup {"cleanup"} ELSE kit.err
<1>6. /\ kit' = [kit EXCEPT !.pc = kit.ret, !.err = e]
      /\ e = kit.err \/ e = kit.err \cup {"cleanup"}
      /\ failed \/ UnknownChild => "cleanup" \in e
  BY <1>5 DEF CleanedUp
<1> HIDE DEF e
<1>7. kit.op \in {"new", "fork"} /\ kit.pane = Tgt => "cleanup" \in e \/ ~thread'[Child].exists
  BY <1>5, <1>6 DEF KnownChild, UnknownChild, p0
<1>8. /\ kit'.pc = kit.ret /\ kit'.err = e /\ kit'.op = kit.op /\ kit'.ret = kit.ret
      /\ kit'.want = kit.want /\ kit'.reconciles = kit.reconciles /\ kit'.owned = kit.owned
      /\ kit'.created = kit.created /\ kit'.child = kit.child /\ kit'.pane = kit.pane
      /\ kit'.inherits = kit.inherits /\ kit'.focus = kit.focus /\ kit'.prompt = kit.prompt
  BY <1>6, KitIsTyped DEF KitType
<1>9. FlowInv'
  BY <1>4, <1>6, <1>8 DEF Target
<1>10. CommandInv' /\ CreatedInv'
  BY <1>1, <1>4, <1>6, <1>8 DEF SourceAlike
<1>11. ChildInv' /\ EffortInv' /\ PolicyInv'
  BY <1>2, <1>4, <1>6, <1>7, <1>8 DEF SameEffort, Promised, target
<1> QED
  BY <1>1, <1>3, <1>9, <1>10, <1>11 DEF SourceAlike

LEMMA ReleaseKeeps ==
    ASSUME Inv, UNCHANGED conv, Release
    PROVE  Inv'
<1>1. SameWorld
  BY StillWorld DEF Release
<1>2. TypeOK'
  BY <1>1, CleanupTypes, KitKeepsTypes DEF SameWorld
<1>3. ~Unclean /\ At("done") /\ kit.op \in LaunchOps /\ (kit.owned \/ NoWriter)
  BY DEF Release
<1>4. /\ kit'.op = "release" /\ kit'.pc = "stop" /\ kit'.ret = "done" /\ kit'.err = {}
      /\ kit'.want = kit.want /\ kit'.reconciles = kit.reconciles /\ kit'.owned = kit.owned
      /\ kit'.created = kit.created /\ kit'.child = kit.child /\ kit'.pane = kit.pane
      /\ kit'.inherits = kit.inherits /\ kit'.focus = kit.focus /\ kit'.prompt = kit.prompt
  BY KitIsTyped DEF Release, KitType
<1> QED
  BY <1>1, <1>2, <1>3, <1>4 DEF SameWorld, SourceAlike, SameEffort, Promised, target, Target

LEMMA CleaningUpKeeps ==
    ASSUME Inv, UNCHANGED conv, CleaningUp
    PROVE  Inv'
<1> HIDE DEF Inv
<1> QED
  BY UndoKeeps, StopCreatedKeeps, StopOwnedKeeps, StoppedKeeps, DeleteKeeps, ReleaseKeeps DEF CleaningUp

-----------------------------------------------------------------------------
(***************************************************************************)
(* The steps of a conversion.                                              *)
(***************************************************************************)
LEMMA AllTypes ==
    ASSUME TypeOK, kit' \in KitType, conv' \in ConvType, PanesTypeOK', ServerTypeOK'
    PROVE  TypeOK'
BY KitMoves DEF ConversionTypeOK, ConversionRecords, ConvType

\* It gives up, and says why.
LEMMA StopsKeeps ==
    ASSUME Inv, NEW cause \in Causes, cause # "cleanup", Stops(cause),
           kit.pc \in EarlySteps \cup FallbackSteps \cup StatusSteps \cup BindSteps
                         \cup {"recovery", "releaseLease", "result"},
           kit.op \notin {"new", "fork"},
           kit.op = "resume" => kit.pc \notin StatusSteps \cup BindSteps,
           PanesTypeOK', ServerTypeOK', OnlyShellsQueue',
           pane'[Tgt].open = pane[Tgt].open,
           ~kit.owned /\ ~Unclean => NoManaged'
    PROVE  Inv'
<1>1. TypeOK'
  BY StopsTypes, AllTypes
<1>2. kit.op \in {"resume"} \cup ConversionOps
  BY KitTypes
<1>3. kit' = [kit EXCEPT !.pc = "done", !.err = kit.err \cup {cause}] /\ UNCHANGED conv
  BY DEF Stops
<1>4. /\ kit'.pc = "done" /\ kit'.err = kit.err \cup {cause} /\ kit'.op = kit.op /\ kit'.ret = kit.ret
      /\ kit'.want = kit.want /\ kit'.reconciles = kit.reconciles /\ kit'.owned = kit.owned
      /\ kit'.created = kit.created /\ kit'.child = kit.child /\ kit'.pane = kit.pane
      /\ kit'.inherits = kit.inherits /\ kit'.focus = kit.focus /\ kit'.prompt = kit.prompt
  BY <1>3, KitIsTyped DEF KitType
<1>5. conv' = conv
  BY <1>3
<1>6. FlowInv'
  <2>1. (kit.pc \in StepsOf(kit.op))' /\ (kit.pc = "idle" => kit = Resting)'
    BY <1>2, <1>4
  <2>2. BackFits' /\ ErrorFits'
    BY <1>2, <1>4
  <2>3. RequestFits'
    BY <1>2, <1>4, <1>5 DEF Target
  <2> QED
    BY <2>1, <2>2, <2>3
<1>7. kit.op = "resume" => ~kit.owned \/ conv.outcome = "managed"
  BY <1>2
<1>8. ~Sent
  BY <1>2
<1>9. CommandInv'
  BY <1>2, <1>4, <1>5, <1>7, <1>8
<1>10. CreatedInv'
  BY <1>2, <1>4, <1>8
<1>11. ChildInv' /\ EffortInv' /\ PolicyInv'
  BY <1>2, <1>4
<1> QED
  BY <1>1, <1>6, <1>9, <1>10, <1>11

LEMMA ConversionFailsKeeps ==
    ASSUME Inv, ConversionFails
    PROVE  Inv'
<1>1. SameWorld
  BY StillWorld DEF ConversionFails
<1>2. PICK cause \in {"unknown", "stale"} : Stops(cause)
  BY DEF ConversionFails
<1>3. /\ kit.pc \in EarlySteps \cup FallbackSteps \cup StatusSteps \cup BindSteps
                         \cup {"recovery", "releaseLease", "result"}
      /\ kit.op = "resume" => kit.pc \notin StatusSteps \cup BindSteps
  BY DEF ConversionFails, ConversionSteps
<1>4. kit.op \notin {"new", "fork"}
  BY <1>3 DEF ConversionFails, ConversionSteps
<1> HIDE DEF Inv
<1>5. cause \in Causes /\ cause # "cleanup"
  BY DEF Causes
<1>6. ~kit.owned /\ ~Unclean => NoManaged
  BY DEF Inv
<1> QED
  BY <1>1, <1>2, <1>3, <1>4, <1>5, <1>6, StopsKeeps DEF SameWorld, SourceAlike

\* Looking, and going on.
LEMMA StepKeeps ==
    ASSUME Inv, NEW from, NEW to \in AllSteps, At(from), Step(to), SameWorld,
           <<from, to>> \in
               {<<"resolved", "recheck">>, <<"defaulted", "history">>, <<"signalled", "done">>,
                <<"verify", "exit">>, <<"exited", "lease">>, <<"after", "policy">>,
                <<"after", "fallback">>, <<"policy", "fallback">>, <<"guarded", "shell">>}
    PROVE  Inv'
<1>1. TypeOK'
  BY StepTypes, AllTypes DEF SameWorld, SourceAlike
<1>2. kit' = [kit EXCEPT !.pc = to] /\ UNCHANGED conv
  BY DEF Step
<1> USE <1>1, <1>2 DEF SameWorld, SourceAlike, Target, SameEffort, Promised, target
<1>3. kit.op \in LaunchOps \cup ConversionOps
  BY KitTypes
<1>4. /\ kit'.pc = to /\ kit'.err = kit.err /\ kit'.op = kit.op /\ kit'.ret = kit.ret
      /\ kit'.want = kit.want /\ kit'.reconciles = kit.reconciles /\ kit'.owned = kit.owned
      /\ kit'.created = kit.created /\ kit'.child = kit.child /\ kit'.pane = kit.pane
      /\ kit'.inherits = kit.inherits /\ kit'.focus = kit.focus /\ kit'.prompt = kit.prompt
      /\ kit'.who = kit.who /\ kit'.back = kit.back
  BY <1>2, KitIsTyped DEF KitType
<1>5. FlowInv'
  BY <1>3, <1>4
<1>6. CommandInv' /\ CreatedInv'
  BY <1>3, <1>4
<1>7. ChildInv' /\ EffortInv' /\ PolicyInv'
  BY <1>3, <1>4
<1> QED
  BY <1>5, <1>6, <1>7

\* The same, when the thread still has the effort that was read.
LEMMA SameEffortKeeps ==
    ASSUME Inv, NEW from, NEW to \in AllSteps, At(from), Step(to), SameWorld,
           to \in {"apply", "fallbackLease", "fallbackVerify"} => SameEffort,
           <<from, to>> \in
               {<<"after", "apply">>, <<"fallback", "fallbackLease">>, <<"fallback", "fallbackVerify">>,
                <<"fallbackVerify", "fallbackShell">>, <<"fallbackShell", "fallbackType">>,
                <<"fallbackTyped", "fallbackProcess">>, <<"fallbackIdentity", "fallbackReadback">>,
                <<"recovery", "releaseLease">>, <<"result", "done">>, <<"launched", "recovery">>,
                <<"launched", "done">>},
           from = "launched" => /\ kit.err # {}
                                /\ to = "recovery" => conv.attempts < 2 /\ ~Unclean
    PROVE  Inv'
<1>1. TypeOK'
  BY StepTypes, AllTypes DEF SameWorld, SourceAlike
<1>2. kit' = [kit EXCEPT !.pc = to] /\ UNCHANGED conv
  BY DEF Step
<1> USE <1>1, <1>2 DEF SameWorld, SourceAlike, Target, SameEffort, Promised, target
<1>3. kit.op \in {"resume"} \cup ConversionOps
  BY KitTypes
<1>4. /\ kit'.pc = to /\ kit'.err = kit.err /\ kit'.op = kit.op /\ kit'.ret = kit.ret
      /\ kit'.want = kit.want /\ kit'.reconciles = kit.reconciles /\ kit'.owned = kit.owned
      /\ kit'.created = kit.created /\ kit'.child = kit.child /\ kit'.pane = kit.pane
      /\ kit'.inherits = kit.inherits /\ kit'.focus = kit.focus /\ kit'.prompt = kit.prompt
      /\ kit'.who = kit.who /\ kit'.back = kit.back
  BY <1>2, KitIsTyped DEF KitType
<1>5. FlowInv'
  BY <1>3, <1>4
<1>6. CommandInv' /\ CreatedInv'
  BY <1>3, <1>4
<1>7. ChildInv' /\ EffortInv' /\ PolicyInv'
  BY <1>3, <1>4
<1> QED
  BY <1>5, <1>6, <1>7

LEMMA ReadsSameEffort ==
    ASSUME Identity(Old) = conv.before
    PROVE  SameEffort
BY DEF Identity, SameEffort

LEMMA StepsKeep ==
    ASSUME Inv, Resolved \/ Defaulted \/ Signalled \/ Verify \/ Exited \/ After \/ ResumeGuard
                \/ Recovery \/ Result \/ Fallback \/ FallbackVerify \/ FallbackShell
                \/ FallbackTyped \/ FallbackIdentity
    PROVE  Inv'
<1>1. SameWorld
  BY StillWorld DEF Resolved, Defaulted, Signalled, Verify, Exited, After, ResumeGuard, Recovery, Result,
                    Fallback, FallbackVerify, FallbackShell, FallbackTyped, FallbackIdentity
<1>2. {"recheck", "history", "done", "exit", "lease", "policy", "fallback", "shell", "apply",
       "releaseLease", "fallbackLease", "fallbackVerify", "fallbackShell", "fallbackType",
       "fallbackProcess", "fallbackReadback"} \subseteq AllSteps
  BY DEF AllSteps, ConversionSteps
<1>3. \/ At("resolved") /\ Step("recheck")
      \/ At("defaulted") /\ Step("history")
      \/ At("signalled") /\ Step("done")
      \/ At("verify") /\ Step("exit")
      \/ At("exited") /\ Step("lease")
      \/ At("after") /\ (Step("policy") \/ Step("fallback"))
      \/ At("guarded") /\ Step("shell")
      \/ At("after") /\ Step("apply") /\ Identity(Old) = conv.before
      \/ At("recovery") /\ Step("releaseLease")
      \/ At("result") /\ Step("done")
      \/ /\ At("fallback") /\ (Step("fallbackLease") \/ Step("fallbackVerify"))
         /\ conv.readable => Identity(Old) = conv.before
      \/ At("fallbackVerify") /\ Step("fallbackShell")
      \/ At("fallbackShell") /\ Step("fallbackType")
      \/ At("fallbackTyped") /\ Step("fallbackProcess")
      \/ At("fallbackIdentity") /\ Step("fallbackReadback")
  <2> HIDE DEF Inv, At, Goto
  <2> QED
  BY DEF Resolved, Defaulted, Signalled, Verify, Exited, After, ResumeGuard, Recovery, Result,
         Fallback, FallbackVerify, FallbackShell, FallbackTyped, FallbackIdentity, FallBack, ReadsBack,
         Recovers
<1>4. At("fallback") /\ (conv.readable => Identity(Old) = conv.before) => SameEffort
  BY ReadsSameEffort, ConvIsTyped
<1> HIDE DEF Inv, At
<1> QED
  BY <1>1, <1>2, <1>3, <1>4, StepKeeps, SameEffortKeeps, ReadsSameEffort

\* Until something is started, a conversion has nothing of its own in the pane.
KitFrame ==
    /\ kit'.op = kit.op /\ kit'.ret = kit.ret /\ kit'.want = kit.want
    /\ kit'.reconciles = kit.reconciles /\ kit'.owned = kit.owned
    /\ kit'.created = kit.created /\ kit'.child = kit.child /\ kit'.pane = kit.pane
    /\ kit'.inherits = kit.inherits /\ kit'.focus = kit.focus /\ kit'.prompt = kit.prompt

LEMMA EarlyKeeps ==
    ASSUME Inv, kit.pc \in EarlySteps, kit' \in KitType, conv' \in ConvType, KitFrame,
           kit'.err = kit.err,
           kit'.pc \in EarlySteps \cup {"guard", "bind", "fallback", "launch"},
           BackFits', EffortInv', UNCHANGED <<conv.outcome, conv.attempts>>,
           ~conv'.readable => kit'.pc = "fallback",
           PanesTypeOK', ServerTypeOK', OnlyShellsQueue',
           pane'[Tgt].open = pane[Tgt].open, NoWriter => NoWriter'
    PROVE  Inv'
<1>1. TypeOK'
  BY AllTypes
<1>2. kit.op \in ConversionOps
  BY KitTypes
<1> USE DEF KitFrame
<1>3. NoWriter' => NoManaged'
  BY DEF NoWriter, NoManaged, Kit
<1>4. FlowInv'
  <2>1. (kit.pc \in StepsOf(kit.op))' /\ (kit.pc = "idle" => kit = Resting)'
    BY <1>2
  <2>2. ErrorFits'
    BY <1>2
  <2>3. RequestFits'
    BY <1>2
  <2> QED
    BY <2>1, <2>2, <2>3
<1>5. CommandInv'
  BY <1>2, <1>3
<1>6. CreatedInv'
  BY <1>2
<1>7. ChildInv' /\ PolicyInv'
  BY <1>2
<1> QED
  BY <1>1, <1>4, <1>5, <1>6, <1>7

LEMMA EarlyBackFits ==
    ASSUME Inv, kit.pc \in EarlySteps, KitFrame,
           kit'.pc \in {"guard"} => kit'.back \in {"resolved", "defaulted"},
           kit'.pc = "bind" => kit'.back = "connect",
           kit'.pc \in {"bind", "resolved", "recheck", "connect", "capture", "defaulted", "history"}
               => kit'.who # NoThread,
           kit'.pc \in EarlySteps \cup {"guard", "bind", "fallback", "launch"}
    PROVE  BackFits'
<1>1. kit.op \in ConversionOps
  BY KitTypes
<1> QED
  BY <1>1 DEF KitFrame

LEMMA BeforeLeavingKeeps ==
    ASSUME Inv, Service \/ Resolve \/ Recheck \/ Connect \/ Capture \/ History \/ Safe
    PROVE  Inv'
<1>1. SameWorld
  BY StillWorld DEF Service, Resolve, Recheck, Connect, Capture, History, Safe
<1>2. kit.pc \in EarlySteps /\ (Capture \/ History \/ Recheck \/ Connect => kit.who # NoThread)
  BY DEF Service, Resolve, Recheck, Connect, Capture, History, Safe
<1>3. kit' \in KitType /\ conv' \in ConvType
  BY <1>2, BeforeLeavingTypes
<1>4. /\ KitFrame /\ kit'.err = kit.err
      /\ UNCHANGED <<conv.outcome, conv.attempts, conv.readable>>
      /\ \/ kit'.pc \in {"safe", "resolve", "confirmed", "signal", "verify"}
         \/ /\ kit'.pc = "connect" /\ kit'.who = conv.session /\ conv.session # NoThread
         \/ kit'.pc = "guard" /\ kit'.back \in {"resolved", "defaulted"}
         \/ kit'.pc = "bind" /\ kit'.back = "connect" /\ kit'.who = kit.who /\ Recheck
         \/ kit'.pc = "capture" /\ kit'.who = kit.who /\ Connect
         \/ kit'.pc = "history" /\ kit'.who = kit.who /\ Capture
  <2> USE KitIsTyped, ConvIsTyped DEF KitFrame, KitType, ConvType, Set
  <2> HIDE DEF Inv
  <2>0. TypeOK
    BY DEF Inv
  <2>1. CASE Service
    BY <2>0, <2>1 DEF Service
  <2>2. CASE Resolve
    <3>1. CASE kit' = [kit EXCEPT !.pc = "connect", !.who = conv.session] /\ conv.session # NoThread
      BY <2>0, <2>2, <3>1 DEF Resolve
    <3>2. CASE kit' = [kit EXCEPT !.pc = "guard", !.back = "resolved", !.pid = pane[Src].pid]
      BY <2>0, <2>2, <3>2 DEF Resolve
    <3> QED
      BY <2>2, <3>1, <3>2 DEF Resolve
  <2>3. CASE Recheck
    BY <2>0, <2>3 DEF Recheck
  <2>4. CASE Connect
    BY <2>0, <2>4 DEF Connect
  <2>5. CASE Capture
    <3>1. UNCHANGED <<conv.outcome, conv.attempts, conv.readable>>
      BY <2>0, <2>5 DEF Capture
    <3>2. CASE kit' = [kit EXCEPT !.pc = "guard", !.back = "defaulted", !.pid = pane[Src].pid]
      BY <2>0, <3>1, <3>2
    <3>3. CASE Goto("history")
      BY <2>0, <2>5, <3>1, <3>3
    <3> QED
      BY <2>5, <3>2, <3>3 DEF Capture
  <2>6. CASE History
    <3>1. \/ conv' = [conv EXCEPT !.token = conv.before, !.session = kit.who]
          \/ conv' = [conv EXCEPT !.history = thread[kit.who].turns]
      BY <2>6 DEF History
    <3>2. UNCHANGED <<conv.outcome, conv.attempts, conv.readable>>
      BY <2>0, <3>1
    <3>3. kit' = [kit EXCEPT !.pc = "confirmed"] \/ kit' = [kit EXCEPT !.pc = "safe"]
      BY <2>6 DEF History
    <3> QED
      BY <2>0, <3>2, <3>3
  <2>7. CASE Safe
    BY <2>0, <2>7 DEF Safe
  <2> QED
    BY <2>1, <2>2, <2>3, <2>4, <2>5, <2>6, <2>7
<1>5. kit'.pc \in {"safe", "resolve", "confirmed", "signal", "verify", "connect", "guard", "bind",
                   "capture", "history"}
  BY <1>4
<1>6. BackFits'
  <2> HIDE DEF Inv, BackFits
  <2>1. kit'.pc = "guard" => kit'.back \in {"resolved", "defaulted"}
    BY <1>4
  <2>2. kit'.pc = "bind" => kit'.back = "connect"
    BY <1>4
  <2>3. kit'.pc \in {"bind", "resolved", "recheck", "connect", "capture", "defaulted", "history"}
               => kit'.who # NoThread
    BY <1>2, <1>4
  <2> QED
    BY <1>2, <1>4, <1>5, <2>1, <2>2, <2>3, EarlyBackFits
<1>7. EffortInv' /\ conv.readable
  BY <1>2, <1>5
<1> HIDE DEF BackFits, EffortInv
<1> QED
  BY <1>1, <1>2, <1>3, <1>4, <1>5, <1>6, <1>7, EarlyKeeps DEF SameWorld, SourceAlike

\* Leaving the TUI, and reading the settings.
LEMMA SourceQuits ==
    ASSUME Inv, Signal(Src) \/ PressCtrlD(Src) \/ UNCHANGED pane, UNCHANGED <<procs, touches>>
    PROVE  /\ PanesTypeOK' /\ OnlyShellsQueue' /\ pane'[Tgt].open = pane[Tgt].open
           /\ NoWriter => NoWriter'
           /\ NoManaged => NoManaged'
<1> USE Names
<1>1. pane \in [Panes -> PaneType] /\ pane[Src] \in PaneType
  BY FieldTypes DEF TypeOK, PanesTypeOK
<1>2. Ended(pane[Src]) \in PaneType /\ Emptied(Ended(pane[Src])) /\ Absent \in PaneType /\ Emptied(Absent)
  BY <1>1, EndedIsEmpty, EndedTypes, ShellTypes
<1> HIDE DEF Inv
<1>3. PICK x \in PaneType : Update(Src, x) /\ (Emptied(x) \/ x = pane[Src])
  <2>1. pane' = pane => Update(Src, pane[Src])
    BY <1>1 DEF Update
  <2> QED
    BY <1>1, <1>2, <2>1 DEF Signal, PressCtrlD
<1>4. /\ pane' \in [Panes -> PaneType] /\ pane'[Src] = x
      /\ \A q \in Panes \ {Src} : pane'[q] = pane[q]
  BY <1>1, <1>3, OnePane
<1>5. pane'[Tgt] = pane[Tgt] /\ OnlyShellsQueue'
  BY <1>3, <1>4 DEF Inv, OnlyShellsQueue, Emptied
<1> QED
  BY <1>3, <1>4, <1>5 DEF Inv, TypeOK, PanesTypeOK, NoWriter, NoManaged, Kit, Emptied

LEMMA LeavingKeeps ==
    ASSUME Inv, SignalSource \/ Exit
    PROVE  Inv'
<1>1. /\ PanesTypeOK' /\ OnlyShellsQueue' /\ pane'[Tgt].open = pane[Tgt].open
      /\ NoWriter => NoWriter'
      /\ NoManaged => NoManaged'
  <2>1. Signal(Src) \/ PressCtrlD(Src) \/ UNCHANGED pane
    BY DEF SignalSource, Exit
  <2> QED
    BY <2>1, SourceQuits DEF SignalSource, Exit
<1>2. ServerTypeOK' /\ UNCHANGED thread
  BY DEF SignalSource, Exit, serverVars, TypeOK, ServerTypeOK
<1>3. kit.pc \in EarlySteps /\ kit.op \in ConversionOps
  BY KitTypes DEF SignalSource, Exit
<1>4. \A cause \in {"stale", "unknown"} : Stops(cause) => Inv'
  <2>1. TAKE cause \in {"stale", "unknown"}
  <2>2. cause \in Causes /\ cause # "cleanup"
    BY DEF Causes
  <2>3. ~kit.owned /\ ~Unclean => NoManaged'
    BY <1>1
  <2>4. /\ kit.pc \in EarlySteps \cup FallbackSteps \cup StatusSteps \cup BindSteps
                         \cup {"recovery", "releaseLease", "result"}
        /\ kit.op \notin {"new", "fork"}
        /\ kit.op = "resume" => kit.pc \notin StatusSteps \cup BindSteps
    BY <1>3
  <2> HIDE DEF Inv
  <2> QED
    BY <1>1, <1>2, <2>2, <2>3, <2>4, StopsKeeps
<1>5. \A s \in {"signalled", "exited"} : Step(s) => Inv'
  <2>1. SUFFICES ASSUME NEW s \in {"signalled", "exited"}, Step(s) PROVE Inv'
    OBVIOUS
  <2>2. s \in AllSteps
    BY DEF AllSteps, ConversionSteps
  <2>3. kit' \in KitType /\ conv' \in ConvType
    BY <2>1, <2>2, StepTypes
  <2>4. KitFrame /\ kit'.pc = s /\ kit'.err = kit.err /\ conv' = conv
    BY <2>1, KitIsTyped DEF Step, KitFrame, KitType
  <2>5. EffortInv' /\ conv.readable
    BY <1>2, <1>3, <2>4
  <2>6. BackFits'
    BY <1>3, <2>4, EarlyBackFits
  <2>7. s \in EarlySteps
    OBVIOUS
  <2> HIDE DEF Inv, BackFits, EffortInv, EarlySteps
  <2> QED
    BY <1>1, <1>2, <1>3, <2>3, <2>4, <2>5, <2>6, <2>7, EarlyKeeps
<1> HIDE DEF Inv
<1> QED
  BY <1>4, <1>5 DEF SignalSource, Exit

LEMMA CapturingKeeps ==
    ASSUME Inv, TakeLease \/ Apply \/ Policy
    PROVE  Inv'
<1> USE Names
<1>1. SourceAlike
  BY PanesStay DEF TakeLease, Apply, Policy, worldVars
<1>2. kit.pc \in EarlySteps /\ kit.op \in ConversionOps
  BY KitTypes, ZenonT(60) DEF TakeLease, Apply, Policy
<1>3. kit' \in KitType /\ conv' \in ConvType
  BY CaptureTypes
<1>4. /\ ServerTypeOK'
      /\ conv'.update = "unsent" /\ Apply => thread'[Old].effort = thread[Old].effort
  <2>1. CASE UNCHANGED <<thread, instance, constraints>>
    BY <2>1 DEF TypeOK, ServerTypeOK
  <2>2. CASE Policy /\ ~UNCHANGED <<thread, instance, constraints>>
    BY <2>2, LoadedKeeps DEF Policy, Apply
  <2>3. CASE Apply
    <3>1. PICK policy \in LoadedPolicies(Old), update \in {"unsent", "refused", LostAnswer, "answered"} :
             /\ \/ update \notin {LostAnswer, "answered"} /\ UNCHANGED thread
                \/ update = LostAnswer /\ Loaded(Old, policy)
                \/ /\ update \in {LostAnswer, "answered"}
                   /\ thread' = [thread EXCEPT ![Old].live = TRUE, ![Old].policy = policy,
                                             ![Old].effort = kit.seen]
             /\ conv' = [conv EXCEPT !.update = update]
      BY <2>3 DEF Apply, Set
    <3>2. UNCHANGED <<instance, constraints>> /\ conv'.update = update
      BY <2>3, <3>1, ConvIsTyped DEF Apply, ConvType
    <3>3. CASE UNCHANGED thread
      BY <2>1, <3>2, <3>3
    <3>4. CASE Loaded(Old, policy)
      BY <3>2, <3>4, LoadedKeeps
    <3>5. CASE /\ update \in {LostAnswer, "answered"}
               /\ thread' = [thread EXCEPT ![Old].live = TRUE, ![Old].policy = policy,
                                           ![Old].effort = kit.seen]
      <4>1. policy \in Policies /\ kit.seen \in Efforts /\ thread[Old] \in ThreadType
            /\ thread \in [Threads -> ThreadType]
        BY ThreadTypes, KitTypes DEF LoadedPolicies, Policies, TypeOK, ServerTypeOK
      <4> DEFINE x == [thread[Old] EXCEPT !.live = TRUE, !.policy = policy, !.effort = kit.seen]
      <4>2. x \in ThreadType
        BY <4>1 DEF ThreadType
      <4>3. thread' = [thread EXCEPT ![Old] = x]
        BY <3>5, <4>1
      <4> HIDE DEF x
      <4>4. thread' \in [Threads -> ThreadType]
        BY <4>1, <4>2, <4>3
      <4>5. update # "unsent"
        BY <3>5 DEF LostAnswer
      <4> QED
        BY <3>2, <4>4, <4>5 DEF TypeOK, ServerTypeOK
    <3> QED
      BY <3>1, <3>3, <3>4, <3>5
  <2> QED
    BY <2>1, <2>2, <2>3 DEF TakeLease, worldVars
<1>5. /\ KitFrame /\ kit'.err = kit.err
      /\ UNCHANGED <<conv.outcome, conv.attempts, conv.readable>>
      /\ \/ kit'.pc \in {"after", "launch", "fallback"}
         \/ kit'.pc = "readback" /\ Apply /\ At("apply") /\ conv'.before = conv.before
  <2> USE KitIsTyped, ConvIsTyped DEF KitFrame, KitType, ConvType, Set
  <2> HIDE DEF Inv
  <2>0. TypeOK
    BY DEF Inv
  <2>1. CASE TakeLease
    BY <2>0, <2>1 DEF TakeLease
  <2>2. CASE Apply
    <3>1. PICK update : kit' = [kit EXCEPT !.pc = "readback"] /\ conv' = [conv EXCEPT !.update = update]
      BY <2>2 DEF Apply
    <3> QED
      BY <2>0, <2>2, <3>1 DEF Apply
  <2>3. CASE Policy
    <3>1. CASE Step("fallback")
      BY <2>0, <3>1 DEF Step
    <3>2. CASE ~Step("fallback")
      <4>1. PICK captured : kit' = [kit EXCEPT !.pc = "launch"] /\ conv' = [conv EXCEPT !.policy = captured]
        BY <2>3, <3>2 DEF Policy, FallBack
      <4> QED
        BY <2>0, <4>1
    <3> QED
      BY <3>1, <3>2
  <2> QED
    BY <2>1, <2>2, <2>3
<1>6. conv.readable
  BY <1>2
<1>7. EffortInv'
  BY <1>4, <1>5, <1>6 DEF SameEffort
<1>8. kit'.pc \in {"after", "launch", "fallback", "readback"}
  BY <1>5
<1>9. BackFits'
  BY <1>2, <1>5, <1>8, EarlyBackFits
<1> HIDE DEF Inv, BackFits, EffortInv
<1> QED
  BY <1>1, <1>2, <1>3, <1>4, <1>5, <1>6, <1>7, <1>8, <1>9, EarlyKeeps DEF SourceAlike

LEMMA ReadbackKeeps ==
    ASSUME Inv, Readback
    PROVE  Inv'
<1>1. SameWorld
  BY StillWorld DEF Readback
<1>2. At("readback") /\ kit.op \in ConversionOps /\ conv.readable
  BY KitTypes DEF Readback
<1>3. kit' \in KitType /\ conv' \in ConvType
  BY CaptureTypes
<1>4. CASE Stops("unknown")
  <2>1. "unknown" \in Causes /\ "unknown" # "cleanup"
    BY DEF Causes
  <2>2. ~kit.owned /\ ~Unclean => NoManaged'
    BY <1>1 DEF SameWorld, SourceAlike
  <2>3. /\ kit.pc \in EarlySteps \cup FallbackSteps \cup StatusSteps \cup BindSteps
                         \cup {"recovery", "releaseLease", "result"}
        /\ kit.op \notin {"new", "fork"}
        /\ kit.op = "resume" => kit.pc \notin StatusSteps \cup BindSteps
    BY <1>2
  <2> HIDE DEF Inv
  <2> QED
    BY <1>1, <1>4, <2>1, <2>2, <2>3, StopsKeeps DEF SameWorld, SourceAlike
<1>5. CASE ~Stops("unknown")
  <2>1. \/ /\ kit' = [kit EXCEPT !.pc = "policy"] \/ kit' = [kit EXCEPT !.pc = "fallback"]
           /\ conv' = [conv EXCEPT !.before = Identity(Old)]
        \/ /\ kit' = [kit EXCEPT !.pc = "fallback"] /\ conv.update = "unsent"
           /\ conv' = [conv EXCEPT !.readable = FALSE]
    <3> HIDE DEF Inv
    <3> QED
      BY <1>5 DEF Readback, Set
  <2>2. KitFrame /\ kit'.err = kit.err /\ kit'.pc \in {"policy", "fallback"}
    BY <2>1, KitIsTyped DEF KitFrame, KitType
  <2>3. UNCHANGED <<conv.outcome, conv.attempts>>
    BY <2>1, ConvIsTyped DEF ConvType
  <2>4. ~conv'.readable => kit'.pc = "fallback" /\ conv'.before = conv.before /\ conv.update = "unsent"
    <3>1. CASE conv' = [conv EXCEPT !.before = Identity(Old)]
      BY <1>2, <3>1, ConvIsTyped DEF ConvType
    <3>2. CASE /\ kit' = [kit EXCEPT !.pc = "fallback"] /\ conv.update = "unsent"
               /\ conv' = [conv EXCEPT !.readable = FALSE]
      BY <3>2, ConvIsTyped, KitIsTyped DEF ConvType, KitType
    <3> QED
      BY <2>1, <3>1, <3>2
  <2>5. EffortInv'
    BY <1>1, <1>2, <2>2, <2>4 DEF SameEffort, SameWorld
  <2>6. BackFits'
    BY <1>2, <2>2, EarlyBackFits
  <2>7. kit.pc \in EarlySteps
    BY <1>2
  <2> HIDE DEF Inv, BackFits, EffortInv
  <2> QED
    BY <1>1, <1>3, <2>2, <2>3, <2>4, <2>5, <2>6, <2>7, EarlyKeeps DEF SameWorld, SourceAlike
<1> QED
  BY <1>4, <1>5

\* Starting a managed TUI, and what its end says.
LEMMA StartLaunchKeeps ==
    ASSUME Inv, StartLaunch
    PROVE  Inv'
<1>1. SameWorld
  BY StillWorld DEF StartLaunch
<1>2. At("launch") /\ conv.attempts < 2 /\ kit.op \in {"resume"} \cup ConversionOps
  BY KitTypes DEF StartLaunch
<1>3. TypeOK'
  BY <1>1, <1>2, ResumingTypes, AllTypes DEF SameWorld, SourceAlike
<1>4. /\ kit'.op = "resume" /\ kit'.pc = "ensure" /\ kit'.ret = "launched" /\ kit'.want = Target
      /\ kit'.reconciles /\ ~kit'.owned /\ ~kit'.created /\ ~kit'.child /\ kit'.pane = Src
      /\ ~kit'.inherits /\ ~kit'.focus /\ kit'.prompt = "none" /\ kit'.err = {}
  BY DEF StartLaunch, Set, Resting
<1>5. /\ UNCHANGED <<conv.outcome, conv.readable, conv.token, conv.policy, conv.desired>>
  BY ConvIsTyped DEF StartLaunch, Set, ConvType
<1>6. Target' = Target
  BY <1>5 DEF Target
<1>7. FlowInv'
  <2>1. (kit.pc \in StepsOf(kit.op))' /\ (kit.pc = "idle" => kit = Resting)'
    BY <1>4
  <2>2. BackFits' /\ ErrorFits'
    BY <1>4
  <2>3. RequestFits'
    BY <1>2, <1>4, <1>5, <1>6
  <2> QED
    BY <2>1, <2>2, <2>3
<1>8. CommandInv'
  BY <1>1, <1>2, <1>4 DEF SameWorld, SourceAlike
<1>9. CreatedInv'
  BY <1>1, <1>2, <1>4 DEF SameWorld, SourceAlike
<1>10. ChildInv' /\ EffortInv' /\ PolicyInv'
  BY <1>4
<1> QED
  BY <1>1, <1>3, <1>7, <1>8, <1>9, <1>10 DEF SameWorld, SourceAlike

LEMMA LaunchKeeps ==
    ASSUME Inv, Launch
    PROVE  Inv'
<1>1. SameWorld
  BY StillWorld DEF Launch
<1>2. At("launched") /\ kit.op = "resume" /\ conv.readable
  BY KitTypes DEF Launch
<1>3. TypeOK'
  BY <1>1, ResumingTypes, AllTypes DEF SameWorld, SourceAlike, StartLaunch
<1>4. \/ Step("recovery") /\ kit.err = {"retry"} /\ conv.attempts < 2
      \/ Step("done") /\ kit.err # {}
      \/ /\ kit.err = {} /\ kit' = [kit EXCEPT !.pc = "result"]
         /\ conv' = [conv EXCEPT !.outcome = "managed"]
      \/ /\ kit.err = {"retry"} /\ kit' = [kit EXCEPT !.pc = "fallback"]
         /\ conv' = [conv EXCEPT !.fresh = TRUE]
  <2> HIDE DEF Inv
  <2> QED
    BY DEF Launch, Set, Eligible
<1>5. CASE Step("recovery") /\ kit.err = {"retry"} /\ conv.attempts < 2
  <2>1. ~Unclean /\ kit.err # {} /\ "recovery" \in AllSteps
    BY <1>5 DEF AllSteps, ConversionSteps
  <2> HIDE DEF Inv
  <2> QED
    BY <1>1, <1>2, <1>5, <2>1, SameEffortKeeps
<1>6. CASE Step("done") /\ kit.err # {}
  <2>1. "done" \in AllSteps
    BY DEF AllSteps
  <2> HIDE DEF Inv
  <2> QED
    BY <1>1, <1>2, <1>6, <2>1, SameEffortKeeps
<1>7. ASSUME \/ /\ kit.err = {} /\ kit' = [kit EXCEPT !.pc = "result"]
                /\ conv' = [conv EXCEPT !.outcome = "managed"]
             \/ /\ kit.err = {"retry"} /\ kit' = [kit EXCEPT !.pc = "fallback"]
                /\ conv' = [conv EXCEPT !.fresh = TRUE]
      PROVE  Inv'
  <2>1. KitFrame /\ kit'.err = kit.err /\ ~Unclean
        /\ \/ kit'.pc = "result" /\ kit.err = {} /\ conv'.outcome = "managed"
           \/ kit'.pc = "fallback" /\ kit.err = {"retry"} /\ conv'.outcome = conv.outcome
    BY <1>7, KitIsTyped, ConvIsTyped DEF KitFrame, KitType, ConvType
  <2>2. /\ UNCHANGED <<conv.attempts, conv.readable, conv.token, conv.policy, conv.desired>>
    BY <1>7, ConvIsTyped DEF ConvType
  <2>3. Target' = Target
    BY <2>2 DEF Target
  <2>4. FlowInv'
    <3>1. (kit.pc \in StepsOf(kit.op))' /\ (kit.pc = "idle" => kit = Resting)'
      BY <1>2, <2>1 DEF KitFrame
    <3>2. BackFits' /\ ErrorFits'
      BY <1>2, <2>1 DEF KitFrame
    <3>3. RequestFits'
      BY <1>2, <2>1, <2>2, <2>3 DEF KitFrame
    <3> QED
      BY <3>1, <3>2, <3>3
  <2>5. CommandInv' /\ CreatedInv'
    BY <1>1, <1>2, <2>1 DEF KitFrame, SameWorld, SourceAlike
  <2>6. ChildInv' /\ EffortInv' /\ PolicyInv'
    BY <1>2, <2>1, <2>2 DEF KitFrame
  <2> QED
    BY <1>1, <1>3, <2>4, <2>5, <2>6 DEF SameWorld, SourceAlike
<1> QED
  BY <1>4, <1>5, <1>6, <1>7

LEMMA ReLeaseKeeps ==
    ASSUME Inv, LeaseAgain \/ FallbackLease
    PROVE  Inv'
<1>1. SameWorld
  BY StillWorld DEF LeaseAgain, FallbackLease, ReLease
<1>2. kit.op \in {"resume"} \cup ConversionOps
  BY KitTypes DEF LeaseAgain, FallbackLease
<1>3. TypeOK'
  BY <1>1, ResumingTypes, AllTypes DEF SameWorld, SourceAlike, LeaseAgain, FallbackLease, StartLaunch
<1>4. KitFrame /\ kit'.err = {}
      /\ \/ At("releaseLease") /\ kit'.pc = "launch"
         \/ At("fallbackLease") /\ kit'.pc = "fallbackVerify"
  <2>0. TypeOK
    OBVIOUS
  <2> HIDE DEF Inv
  <2>1. CASE LeaseAgain
    <3>1. kit' = [kit EXCEPT !.pc = "launch", !.err = {}]
      BY <2>1 DEF LeaseAgain, ReLease, Set
    <3> QED
      BY <2>0, <2>1, <3>1, KitIsTyped DEF LeaseAgain, KitFrame, KitType
  <2>2. CASE FallbackLease
    <3>1. kit' = [kit EXCEPT !.pc = "fallbackVerify", !.err = {}]
      BY <2>2 DEF FallbackLease, ReLease, Set
    <3> QED
      BY <2>0, <2>2, <3>1, KitIsTyped DEF FallbackLease, KitFrame, KitType
  <2> QED
    BY <2>1, <2>2
<1>5. UNCHANGED <<conv.attempts, conv.readable, conv.token, conv.policy, conv.desired, conv.outcome,
                  conv.before>>
  BY ConvIsTyped DEF LeaseAgain, FallbackLease, ReLease, Set, ConvType
<1>6. Target' = Target
  BY <1>5 DEF Target
<1> USE <1>1, <1>2, <1>4, <1>5, <1>6 DEF KitFrame
<1>7. FlowInv'
  <2>1. (kit.pc \in StepsOf(kit.op))' /\ (kit.pc = "idle" => kit = Resting)'
    OBVIOUS
  <2>2. BackFits' /\ ErrorFits'
    OBVIOUS
  <2>3. RequestFits'
    OBVIOUS
  <2> QED
    BY <2>1, <2>2, <2>3
<1>8. CommandInv' /\ CreatedInv'
  BY DEF SameWorld, SourceAlike
<1>9. ChildInv' /\ PolicyInv'
  OBVIOUS
<1>10. EffortInv'
  BY DEF SameEffort, SameWorld
<1> QED
  BY <1>3, <1>7, <1>8, <1>9, <1>10 DEF SameWorld, SourceAlike

LEMMA RestoringKeeps ==
    ASSUME Inv, FallbackProcess \/ FallbackReadback
    PROVE  Inv'
<1>1. SameWorld
  BY StillWorld DEF FallbackProcess, FallbackReadback
<1>2. kit.op \in {"resume"} \cup ConversionOps
  BY KitTypes DEF FallbackProcess, FallbackReadback
<1>3. TypeOK'
  BY <1>1, ResumingTypes, AllTypes DEF SameWorld, SourceAlike, FallbackProcess, StartLaunch, FallbackReadback
<1>4. KitFrame
      /\ \/ At("fallbackProcess") /\ kit'.pc = "fallbackIdentity" /\ kit'.err = kit.err
         \/ At("fallbackReadback") /\ kit'.pc = "done" /\ kit'.err = kit.err \cup {"stale"}
  <2>0. TypeOK
    OBVIOUS
  <2> HIDE DEF Inv
  <2>1. CASE FallbackProcess
    BY <2>0, <2>1, KitIsTyped DEF FallbackProcess, KitFrame, KitType
  <2>2. CASE FallbackReadback
    <3>1. kit' = [kit EXCEPT !.pc = "done", !.err = kit.err \cup {"stale"}]
      BY <2>2 DEF FallbackReadback, Set
    <3> QED
      BY <2>0, <2>2, <3>1, KitIsTyped DEF FallbackReadback, KitFrame, KitType
  <2> QED
    BY <2>1, <2>2
<1>5. UNCHANGED <<conv.attempts, conv.readable, conv.token, conv.policy, conv.desired>>
      /\ conv'.outcome \in {conv.outcome, "fallback"}
  BY ConvIsTyped DEF FallbackProcess, FallbackReadback, Set, ConvType
<1>6. Target' = Target /\ ~Sent
  BY <1>2, <1>4, <1>5 DEF Target
<1> USE <1>1, <1>2, <1>4, <1>5, <1>6 DEF KitFrame
<1>7. FlowInv'
  <2>1. (kit.pc \in StepsOf(kit.op))' /\ (kit.pc = "idle" => kit = Resting)'
    OBVIOUS
  <2>2. BackFits' /\ ErrorFits'
    OBVIOUS
  <2>3. RequestFits'
    OBVIOUS
  <2> QED
    BY <2>1, <2>2, <2>3
<1>8. CommandInv' /\ CreatedInv'
  BY DEF SameWorld, SourceAlike
<1>9. ChildInv' /\ PolicyInv' /\ EffortInv'
  OBVIOUS
<1> QED
  BY <1>3, <1>7, <1>8, <1>9 DEF SameWorld, SourceAlike

\* The ordinary resume is typed where nothing of the kit's is.
LEMMA FallbackTypeKeeps ==
    ASSUME Inv, FallbackType
    PROVE  Inv'
<1> USE Names
<1>1. /\ pane' \in [Panes -> PaneType]
      /\ \A q \in Panes \ {Src} : pane'[q] = pane[q]
      /\ pane'[Src].prog = pane[Src].prog
      /\ pane'[Src].queued \in {pane[Src].queued, "ordinary"}
      /\ pane[Src].prog # "shell" => pane'[Src].queued = pane[Src].queued
  BY TypedInto DEF FallbackType, TypeOK, PanesTypeOK, Kit
<1>2. PanesTypeOK' /\ OnlyShellsQueue' /\ pane'[Tgt].open = pane[Tgt].open
  BY <1>1 DEF FallbackType, TypeOK, PanesTypeOK, OnlyShellsQueue
<1>3. ServerTypeOK' /\ UNCHANGED thread
  BY DEF FallbackType, serverVars, TypeOK, ServerTypeOK
<1>4. At("fallbackType") /\ kit.op \in {"resume"} \cup ConversionOps
  BY KitTypes DEF FallbackType
<1>5. NoManaged'
  BY <1>1, <1>4 DEF NoWriter, NoManaged, Kit
<1>6. CASE Stops("stale")
  <2>1. "stale" \in Causes /\ "stale" # "cleanup"
    BY DEF Causes
  <2>2. /\ kit.pc \in EarlySteps \cup FallbackSteps \cup StatusSteps \cup BindSteps
                         \cup {"recovery", "releaseLease", "result"}
        /\ kit.op \notin {"new", "fork"}
        /\ kit.op = "resume" => kit.pc \notin StatusSteps \cup BindSteps
    BY <1>4
  <2> HIDE DEF Inv
  <2> QED
    BY <1>2, <1>3, <1>5, <1>6, <2>1, <2>2, StopsKeeps
<1>7. CASE Step("fallbackTyped")
  <2>1. "fallbackTyped" \in AllSteps
    BY DEF AllSteps, ConversionSteps
  <2>2. TypeOK'
    BY <1>2, <1>3, <1>7, <2>1, StepTypes, AllTypes
  <2>3. KitFrame /\ kit'.pc = "fallbackTyped" /\ kit'.err = kit.err /\ conv' = conv
    BY <1>7, KitIsTyped DEF Step, KitFrame, KitType
  <2> USE <1>2, <1>3, <1>4, <1>5, <2>3 DEF KitFrame
  <2>4. FlowInv'
    BY DEF Target
  <2>5. CommandInv' /\ CreatedInv'
    OBVIOUS
  <2>6. ChildInv' /\ EffortInv' /\ PolicyInv'
    OBVIOUS
  <2> QED
    BY <2>2, <2>4, <2>5, <2>6
<1> QED
  BY <1>6, <1>7 DEF FallbackType

-----------------------------------------------------------------------------
(***************************************************************************)
(* The requests, and the whole.                                            *)
(***************************************************************************)
LEMMA ConvertsKeeps ==
    ASSUME Inv, Converts
    PROVE  Inv'
<1> HIDE DEF Inv
<1> QED
  BY ConversionFailsKeeps, StepsKeep, BeforeLeavingKeeps, LeavingKeeps, CapturingKeeps, ReadbackKeeps,
     StartLaunchKeeps, LaunchKeeps, ReLeaseKeeps, RestoringKeeps, FallbackTypeKeeps DEF Converts

LEMMA RequestKeeps ==
    ASSUME Inv, Request \/ Confirmed
    PROVE  Inv'
<1>1. SameWorld
  BY StillWorld DEF Request, Confirmed
<1>2. TypeOK'
  BY <1>1, RequestTypes, AllTypes DEF SameWorld, SourceAlike
<1>3. /\ kit.pc \in {"idle", "confirmed"}
      /\ kit.pc = "idle" => Request /\ kit = Resting
      /\ kit.pc = "confirmed" => Confirmed /\ kit.op \in ConversionOps
  BY KitTypes DEF Request, Confirmed
<1>4. conv.readable /\ conv.attempts = 0 /\ conv.outcome # "managed"
  BY <1>3 DEF Resting
<1>5. /\ ~pane[Tgt].open /\ NoWriter /\ NoManaged
      /\ Request => ~thread[Child].exists
  BY <1>3 DEF Resting, Request
<1>6. /\ kit'.ret = "done" /\ ~kit'.reconciles /\ ~kit'.owned /\ ~kit'.created /\ ~kit'.child
      /\ kit'.pane = Src /\ kit'.err = {} /\ kit'.prompt \in {"none", "wanted"}
      /\ \/ kit'.op \in {"new", "fork"} /\ kit'.pc = "ensure" /\ (kit'.op = "new" => ~kit'.inherits) /\ Request
         \/ /\ kit'.op = "resume" /\ kit'.pc = "ensure" /\ ~kit'.inherits /\ ~kit'.focus
            /\ kit'.prompt = "none"
         \/ kit'.op \in ConversionOps /\ kit'.pc = "service"
  <2> HIDE DEF Inv
  <2>1. CASE Request /\ NewRequest
    <3>1. PICK prompt \in {"none", "wanted"}, focus \in BOOLEAN :
            kit' = [Resting EXCEPT !.op = "new", !.pc = "ensure", !.prompt = prompt, !.focus = focus,
                                  !.want = [effort |-> "wanted", policy |-> "wanted"]]
      BY <2>1 DEF NewRequest
    <3> QED
      BY <2>1, <3>1 DEF Resting
  <2>2. CASE Request /\ ForkRequest
    <3>1. PICK prompt \in {"none", "wanted"}, focus \in BOOLEAN, inherits \in BOOLEAN :
            kit' = [Resting EXCEPT !.op = "fork", !.pc = "ensure", !.prompt = prompt, !.focus = focus,
                                  !.inherits = inherits, !.want.effort = "wanted"]
      BY <2>2 DEF ForkRequest
    <3> QED
      BY <2>2, <3>1 DEF Resting
  <2>3. CASE ResumeRequest
    BY <2>3 DEF ResumeRequest, Resting
  <2>4. CASE ConversionRequest
    <3>1. PICK op \in ConversionOps : kit' = [Resting EXCEPT !.op = op, !.pc = "service"]
      BY <2>4 DEF ConversionRequest, Set
    <3> QED
      BY <3>1 DEF Resting
  <2>5. CASE Confirmed
    BY <2>5 DEF Confirmed, Set, Resting
  <2> QED
    BY <2>1, <2>2, <2>3, <2>4, <2>5, <1>3 DEF Request
<1>7. conv'.readable /\ conv'.attempts = 0 /\ conv'.outcome # "managed"
  BY <1>4, ConvIsTyped, ZenonT(60) DEF Request, NewRequest, ForkRequest, ResumeRequest,
     ConversionRequest, Confirmed, Set, ConvType
<1> HIDE DEF Inv
<1>8. FlowInv'
  BY <1>6, <1>7
<1>9. CommandInv' /\ CreatedInv'
  BY <1>1, <1>5, <1>6 DEF SameWorld, SourceAlike
<1>10. ChildInv' /\ EffortInv'
  BY <1>6
<1>11. PolicyInv'
  BY <1>1, <1>5, <1>6 DEF SameWorld
<1> QED
  BY <1>1, <1>2, <1>8, <1>9, <1>10, <1>11 DEF Inv, SameWorld, SourceAlike

LEMMA InitInv ==
    ASSUME Init
    PROVE  Inv
<1> USE Names
<1>1. kit = Resting /\ conv = Unconverted /\ procs = 2 /\ touches = 0 /\ instance = 1 /\ constraints = "first"
  BY DEF Init
<1>2. /\ pane \in [Panes -> PaneType] /\ ~pane[Tgt].open
      /\ pane[Src].queued = "none" /\ pane[Src].prog \notin Kit
      /\ \A p \in Panes : pane[p].queued = "none"
  <2>1. PICK bound \in {NoThread, Old}, prog \in {"codex", "shell"} :
           pane = [p \in Panes |->
                      IF p # Src THEN Absent
                      ELSE IF prog = "shell" THEN Shell(1)
                      ELSE [Runs(Shell(1), "codex", 2, Old) EXCEPT !.bound = bound]]
    BY DEF Init
  <2> DEFINE x == IF prog = "shell" THEN Shell(1)
                  ELSE [Runs(Shell(1), "codex", 2, Old) EXCEPT !.bound = bound]
  <2>2. /\ Shell(1) \in PaneType /\ Absent \in PaneType
        /\ Runs(Shell(1), "codex", 2, Old) \in PaneType
    <3>1. Shell(1) \in PaneType /\ Absent \in PaneType
      BY ShellTypes
    <3> QED
      BY <3>1, RunsTypes DEF Programs, Tui
  <2>3. x \in PaneType /\ x.queued = "none" /\ x.prog \notin Kit
    BY <2>2 DEF PaneType, Shell, Runs, Kit
  <2>4. Absent.queued = "none" /\ Absent.open = FALSE
    BY DEF Absent, Shell
  <2>5. pane = [p \in Panes |-> IF p # Src THEN Absent ELSE x]
    BY <2>1
  <2> HIDE DEF x
  <2> QED
    BY <2>2, <2>3, <2>4, <2>5
<1>3. thread \in [Threads -> ThreadType] /\ ~thread[Child].exists
  <2>1. PICK effort \in {"unset", "observed"}, live \in BOOLEAN :
           thread = [t \in Threads |->
                        IF t # Old THEN NoSuchThread
                        ELSE [exists |-> TRUE, live |-> live, effort |-> effort, policy |-> "source",
                              turns |-> 1, parent |-> NoThread]]
    BY DEF Init
  <2>2. NoSuchThread \in ThreadType /\ NoSuchThread.exists = FALSE
    BY DEF NoSuchThread, ThreadType, Efforts, Policies
  <2>3. [exists |-> TRUE, live |-> live, effort |-> effort, policy |-> "source",
         turns |-> 1, parent |-> NoThread] \in ThreadType
    BY DEF ThreadType, Efforts, Policies
  <2> QED
    BY <2>1, <2>2, <2>3
<1>4. TypeOK
  <2>1. 0 \in 0..MaxTouches /\ 1 \in 1..MaxInstances
    BY TouchesAssumption, InstancesAssumption
  <2>2. kit \in ConversionKits
    BY <1>1, RestingTypes DEF ConversionKits, KitRecords, KitType, AllSteps
  <2>3. ConversionTypeOK
    BY <1>1, UnconvertedTypes DEF ConversionTypeOK, ConversionRecords, ConvType
  <2> QED
    BY <1>1, <1>2, <1>3, <2>1, <2>2, <2>3 DEF TypeOK, PanesTypeOK, ServerTypeOK
<1>5. /\ kit.op = "none" /\ kit.pc = "idle" /\ kit.ret = "done" /\ ~kit.reconciles /\ ~kit.owned
      /\ ~kit.created /\ ~kit.child /\ kit.pane = Src /\ kit.err = {} /\ kit.prompt = "none"
      /\ ~kit.inherits /\ ~kit.focus
      /\ conv.readable /\ conv.attempts = 0 /\ conv.outcome # "managed"
  BY <1>1 DEF Resting, Unconverted
<1>6. FlowInv
  BY <1>1, <1>5
<1>7. NoWriter /\ NoManaged /\ OnlyShellsQueue
  BY <1>2 DEF NoWriter, NoManaged, OnlyShellsQueue, Kit
<1>8. CommandInv /\ CreatedInv
  BY <1>2, <1>5, <1>7
<1>9. ChildInv /\ EffortInv /\ PolicyInv
  BY <1>3, <1>5
<1> QED
  BY <1>4, <1>6, <1>7, <1>8, <1>9

LEMMA NextKeeps ==
    ASSUME Inv, [Next]_vars
    PROVE  Inv'
<1> HIDE DEF Inv
<1>1. CASE UNCHANGED vars
  <2> USE <1>1 DEF vars
  <2>1. TypeOK' = TypeOK
    BY DEF TypeOK, PanesTypeOK, ServerTypeOK, ConversionTypeOK, ConversionKits, KitRecords
  <2>2. FlowInv' = FlowInv /\ OnlyShellsQueue' = OnlyShellsQueue
    BY DEF OnlyShellsQueue, Target
  <2>3. CommandInv' = CommandInv /\ CreatedInv' = CreatedInv
    BY DEF NoWriter, NoManaged
  <2>4. ChildInv' = ChildInv /\ EffortInv' = EffortInv /\ PolicyInv' = PolicyInv
    BY DEF SameEffort, Promised, target
  <2> QED
    BY <2>1, <2>2, <2>3, <2>4 DEF Inv
<1>2. CASE World /\ UNCHANGED <<kit, conv>>
  BY <1>2, WorldKeeps
<1>3. CASE (Launching \/ CleaningUp) /\ UNCHANGED conv
  BY <1>3, LaunchingKeeps, CleaningUpKeeps
<1>4. CASE Converts \/ Request \/ Confirmed
  BY <1>4, ConvertsKeeps, RequestKeeps
<1> QED
  BY <1>1, <1>2, <1>3, <1>4 DEF Next, Rest

LEMMA InvHolds == Spec => []Inv
<1>1. Init => Inv
  BY InitInv
<1>2. Inv /\ [Next]_vars => Inv'
  BY NextKeeps
<1> HIDE DEF Inv
<1> QED
  BY <1>1, <1>2, PTL DEF Spec

-----------------------------------------------------------------------------
(***************************************************************************)
(* The theorems.                                                           *)
(***************************************************************************)
\* Whatever fails in managed_codex.go, and whoever interferes: an error that does not
\* say that the cleanup failed leaves no managed TUI, no pane and no thread behind.
THEOREM NothingIsEverForgotten == Spec => []NothingIsForgotten
<1>1. Inv => NothingIsForgotten
  <2> SUFFICES ASSUME Inv, Returned, kit.op \in LaunchOps, kit.err # {}, "cleanup" \notin kit.err,
                      kit.prompt \notin {"unknown", "acknowledged"}, conv.outcome # "managed"
               PROVE  /\ pane[Src].prog # "managed" /\ pane[Src].queued # "managed"
                      /\ ~pane[Tgt].open
                      /\ kit.pane = Tgt => ~thread[Child].exists
    BY DEF NothingIsForgotten, LeftoversAreReported
  <2>1. ~kit.owned /\ ~kit.created /\ NoManaged
    OBVIOUS
  <2>2. ~pane[Tgt].open
    BY <2>1
  <2>3. kit.pane = Tgt => ~thread[Child].exists
    BY Names
  <2> QED
    BY <2>1, <2>2, <2>3 DEF NoManaged
<1> HIDE DEF Inv
<1> QED
  BY <1>1, InvHolds, PTL

\* RunInShell of codex_conversion.go and managed_codex.go types only where no other
\* command of the kit's waits or runs, whichever retry or fallback it is.
THEOREM OnlyOneWriter == Spec => OneWriter
<1>1. Inv /\ [Next]_vars => [Types => pane[Src].queued = "none" /\ pane[Src].prog \notin Kit]_vars
  <2>1. Inv /\ Types => NoWriter
    BY DEF Types
  <2> HIDE DEF Inv
  <2> QED
    BY <2>1 DEF NoWriter
<1> HIDE DEF Inv
<1> QED
  BY <1>1, InvHolds, PTL DEF Spec, OneWriter

\* fallbackResume restores the ordinary TUI only for a thread with the settings the
\* conversion read last: no settings update of its own is in doubt.
THEOREM OrdinaryIsAlwaysUnchanged == Spec => OrdinaryIsResumedUnchanged
<1>1. Inv /\ [Next]_vars =>
         [Types /\ At("fallbackType") => thread[Old].effort \in {conv.before.effort, "foreign"}]_vars
  <2>1. Inv /\ At("fallbackType") => SameEffort
    OBVIOUS
  <2> HIDE DEF Inv, At
  <2> QED
    BY <2>1 DEF SameEffort
<1> HIDE DEF Inv
<1> QED
  BY <1>1, InvHolds, PTL DEF Spec, OrdinaryIsResumedUnchanged

\* Which steps leave a target that holds a prompt, and which end a launch well.
SentSteps == {"focus", "focused", "done"}

LEMMA OtherLaunching ==
    ASSUME Launching \/ CleaningUp, kit.pc \in SentSteps
    PROVE  LaunchFails \/ Focus \/ Focused \/ Release
<1> USE DEF SentSteps
<1>1. CASE Discovery \/ Bind \/ Bound \/ Ensure \/ Source \/ Preflight \/ Run \/ LaunchShell
           \/ LaunchExec \/ LaunchOrigin \/ Unguarded
  BY <1>1 DEF Discovery, Guard, Text, Drafted, Enter, Status, Bind, Bound, Ensure, Source, Preflight,
              Run, LaunchShell, LaunchExec, LaunchOrigin, Unguarded
<1>2. CASE RunShell \/ RunType \/ RunTyped \/ Process \/ Confirm \/ SourceAfter \/ Audit
           \/ Reconcile \/ Reconciled \/ Final \/ DeliverPrompt
  BY <1>2 DEF RunShell, RunType, RunTyped, Process, Confirm, SourceAfter, Audit, Reconcile, Reconciled,
              Final, DeliverPrompt
<1>3. CASE Undo \/ StopCreated \/ StopNothing \/ StopOwned \/ Stopped \/ StopLate \/ Settle \/ Delete
  BY <1>3 DEF Undo, StopCreated, StopNothing, StopOwned, Stopped, StopLate, Settle, Delete
<1> QED
  BY <1>1, <1>2, <1>3 DEF Launching, CleaningUp

LEMMA OtherConverting ==
    ASSUME Inv, Converts \/ Request \/ Confirmed, kit.pc \in SentSteps
    PROVE  kit.op \notin {"new", "fork"} /\ ~Sent
<1> USE DEF SentSteps
<1>1. ~(Request \/ Confirmed)
  BY DEF Request, Confirmed
<1>2. CASE ConversionFails
  BY <1>2 DEF ConversionFails, ConversionSteps
<1>3. CASE Service \/ Resolve \/ Resolved \/ Recheck \/ Connect \/ Capture \/ Defaulted \/ History
           \/ Safe \/ SignalSource \/ Signalled \/ Verify \/ Exit \/ Exited \/ TakeLease
  BY <1>3 DEF Service, Resolve, Resolved, Recheck, Connect, Capture, Defaulted, History,
              Safe, SignalSource, Signalled, Verify, Exit, Exited, TakeLease
<1>4. CASE After \/ Apply \/ Readback \/ Policy \/ StartLaunch \/ ResumeGuard \/ Launch
           \/ Recovery \/ LeaseAgain \/ Result \/ Fallback \/ FallbackLease
  BY <1>4 DEF After, Apply, Readback, Policy, StartLaunch, ResumeGuard, Launch,
              Recovery, LeaseAgain, Result, Fallback, FallbackLease
<1>5. CASE FallbackVerify \/ FallbackShell \/ FallbackType \/ FallbackTyped \/ FallbackProcess
           \/ FallbackIdentity \/ FallbackReadback
  BY <1>5 DEF FallbackVerify, FallbackShell, FallbackType, FallbackTyped, FallbackProcess,
              FallbackIdentity, FallbackReadback
<1> QED
  BY <1>1, <1>2, <1>3, <1>4, <1>5 DEF Converts

\* Once a prompt may have been sent, no failure of Launch closes the target or deletes
\* its thread: the focus may fail, and the handle is the caller's.
THEOREM PromptedTargetIsAlwaysKept == Spec => PromptedTargetIsKept
<1>1. ASSUME Inv, Next, Sent, kit.op # "release", kit' # kit
      PROVE  pane'[Tgt].open = pane[Tgt].open /\ thread'[Child].exists = thread[Child].exists
  <2>1. kit.pc \in SentSteps
    BY <1>1 DEF SentSteps
  <2>2. (Launching \/ CleaningUp) \/ (Converts \/ Request \/ Confirmed)
    BY <1>1 DEF Next, Rest, vars
  <2>3. LaunchFails \/ Focus \/ Focused \/ Release
    <3> HIDE DEF Inv
    <3> QED
      BY <1>1, <2>1, <2>2, OtherLaunching, OtherConverting
  <2>4. SameWorld
    <3>1. CASE LaunchFails \/ Focused \/ Release
      BY <1>1, <3>1, StillWorld DEF LaunchFails, Focused, Release
    <3>2. CASE Focus
      <4>1. pane \in [Panes -> PaneType] /\ p0 \in Panes
        BY <1>1, P0Types DEF TypeOK, PanesTypeOK
      <4> QED
        BY <1>1, <3>2, <4>1, FocusTaken, ShapeWorld DEF Focus
    <3> QED
      BY <2>3, <3>1, <3>2
  <2> QED
    BY <2>4 DEF SameWorld, SourceAlike
<1>2. Inv /\ [Next]_vars =>
         [Sent /\ kit.op # "release" /\ kit' # kit =>
              pane'[Tgt].open = pane[Tgt].open /\ thread'[Child].exists = thread[Child].exists]_vars
  <2> HIDE DEF Inv, Sent
  <2> QED
    BY <1>1
<1> HIDE DEF Inv
<1> QED
  BY <1>2, InvHolds, PTL DEF Spec, PromptedTargetIsKept

LEMMA LaunchingEnds ==
    ASSUME Inv, Launching
    PROVE  Failing \/ kit'.pc # "done" \/ kit.pc \in PromisedSteps \/ RunType
<1>0. kit \in KitType /\ kit.back # "done"
  BY KitIsTyped, KitTypes DEF ConversionSteps
<1> HIDE DEF Inv
<1> USE <1>0 DEF KitType
<1>1. CASE Guard \/ Status \/ Bound
  <2>1. CASE Guard
    BY <2>1 DEF Guard
  <2>2. CASE Status
    BY <2>2 DEF Status
  <2>3. CASE Bound
    BY <2>3 DEF Bound
  <2> QED
    BY <1>1, <2>1, <2>2, <2>3
<1>2. ASSUME \E s \in {"drafted", "enter", "status", "bound", "launchOrigin", "launchShell", "launchExec",
                       "shell", "type", "process", "audit", "final", "reconcile", "reconciled"} : Goto(s)
      PROVE  kit'.pc # "done"
  BY <1>2
<1>3. CASE Text \/ Drafted \/ Enter \/ Bind \/ Run \/ LaunchShell \/ LaunchExec \/ Unguarded \/ RunShell
           \/ RunTyped \/ SourceAfter \/ Audit \/ Reconcile
  <2> HIDE DEF Goto
  <2> QED
    BY <1>2, <1>3 DEF Text, Drafted, Enter, Bind, Run, LaunchShell, LaunchExec, Unguarded, RunShell,
              RunTyped, SourceAfter, Audit, Reconcile, Then
<1>4. CASE Ensure \/ Source \/ LaunchOrigin
  BY <1>4 DEF Ensure, Source, LaunchOrigin
<1>5. CASE Preflight
  <2>1. CASE Goto("run")
    BY <2>1
  <2>2. CASE ~Goto("run")
    <3>1. PICK w : kit' = [kit EXCEPT !.source = Identity(Old), !.want = w,
                                     !.pc = IF kit.op = "fork" THEN "run" ELSE "guarded"]
      <4> HIDE DEF Goto
      <4> QED
        BY <1>5, <2>2, KitIsTyped DEF Preflight, KitType
    <3> QED
      BY <3>1
  <2> QED
    BY <2>1, <2>2
<1>6. CASE Process
  BY <1>6 DEF Process
<1>7. CASE Confirm
  BY <1>7 DEF Confirm
<1>8. CASE Reconciled
  BY <1>8 DEF Reconciled
<1>9. CASE Final \/ DeliverPrompt \/ Focus \/ Focused
  BY <1>9 DEF Final, DeliverPrompt, Focus, Focused
<1>10. CASE LaunchFails
  BY <1>10 DEF LaunchFails
<1> QED
  BY <1>1, <1>3, <1>4, <1>5, <1>6, <1>7, <1>8, <1>9, <1>10 DEF Launching, Discovery

LEMMA FailedEnds ==
    ASSUME Failing \/ (RunType /\ kit'.pc = "done"), TypeOK
    PROVE  kit'.err # {}
<1>1. \A cause : Abandoned(cause).err = {cause}
  BY KitIsTyped DEF Abandoned, KitType
<1>2. CASE Failing
  BY <1>1, <1>2 DEF Failing
<1>3. CASE RunType /\ kit'.pc = "done"
  <2>1. PICK cause \in CausesAt("type") : kit' = [Abandoned(cause) EXCEPT !.owned = Owned(FALSE)]
    BY <1>3, KitIsTyped DEF RunType, KitType
  <2>2. Abandoned(cause) \in KitType
    BY <2>1, AbandonedTypes DEF CausesAt, Causes
  <2>3. Abandoned(cause).err = {cause}
    BY <1>1
  <2> DEFINE k == Abandoned(cause)
  <2>4. kit' = [k EXCEPT !.owned = Owned(FALSE)] /\ k \in KitType /\ k.err = {cause}
    BY <2>1, <2>2, <2>3
  <2> HIDE DEF k
  <2> QED
    BY <2>4 DEF KitType
<1> QED
  BY <1>2, <1>3

LEMMA CleaningEnds ==
    ASSUME Inv, CleaningUp, kit.op \in LaunchOps, kit.pc # "done"
    PROVE  kit'.err # {}
<1>1. kit.err # {}
  BY DEF CleaningUp, Undo, StopCreated, StopNothing, StopOwned, Stopped, StopLate, Settle, Delete, Release
<1>2. kit'.err \in {kit.err, kit.err \cup {"cleanup"}}
  <2>0. TypeOK
    OBVIOUS
  <2> HIDE DEF Inv
  <2> USE <2>0, KitIsTyped DEF CleanupFails, KitType
  <2>1. CASE Undo
    BY <2>1 DEF Undo
  <2>2. CASE StopCreated
    BY <2>2 DEF StopCreated
  <2>3. CASE StopNothing \/ StopOwned
    BY <2>3 DEF StopNothing, StopOwned
  <2>4. CASE Stopped \/ StopLate
    BY <2>4 DEF Stopped, StopLate
  <2>5. CASE Settle
    BY <2>5 DEF Settle
  <2>6. CASE Delete
    BY <2>6 DEF Delete, CleanedUp
  <2>7. ~Release
    BY DEF Release
  <2> QED
    BY <2>1, <2>2, <2>3, <2>4, <2>5, <2>6, <2>7 DEF CleaningUp
<1> QED
  BY <1>1, <1>2

LEMMA ConvertingEnds ==
    ASSUME Inv, Converts, kit.op \in LaunchOps, kit'.pc = "done"
    PROVE  kit'.err # {} \/ Result
<1>0. kit \in KitType
  BY KitIsTyped
<1>8. ~Signalled
  BY DEF Signalled
<1> HIDE DEF Inv
<1> USE <1>0 DEF KitType
<1>1. ASSUME NEW cause, Stops(cause)
      PROVE  kit'.err # {}
  BY <1>1 DEF Stops
<1>2. ASSUME NEW s, Step(s), s # "done"
      PROVE  FALSE
  BY <1>2 DEF Step
<1>3. CASE ConversionFails
  BY <1>1, <1>3 DEF ConversionFails
<1>4. CASE Service \/ Connect \/ Recheck \/ Safe \/ TakeLease
  BY <1>4 DEF Service, Connect, Recheck, Safe, TakeLease, Set
<1>16. CASE Resolve
  BY <1>16 DEF Resolve
<1>17. CASE Capture
  <2>1. kit'.pc \in {"guard", "history"}
    BY <1>17 DEF Capture
  <2> QED
    BY <2>1
<1>5. CASE Resolved \/ Defaulted \/ Verify \/ Exited \/ ResumeGuard \/ Recovery
  <2> HIDE DEF Step
  <2> QED
    BY <1>2, <1>5 DEF Resolved, Defaulted, Verify, Exited, ResumeGuard, Recovery
<1>6. CASE History
  <2>1. kit' \in {[kit EXCEPT !.pc = "confirmed"], [kit EXCEPT !.pc = "safe"]}
    BY <1>6 DEF History, Set
  <2> QED
    BY <2>1
<1>7. CASE SignalSource \/ Exit \/ FallbackType
  <2> HIDE DEF Step, Stops
  <2> QED
    BY <1>1, <1>2, <1>7 DEF SignalSource, Exit, FallbackType
<1>9. CASE After
  <2> HIDE DEF Step
  <2> QED
    BY <1>2, <1>9 DEF After, FallBack
<1>18. CASE Policy
  <2>1. CASE FallBack
    <3> HIDE DEF Step
    <3> QED
      BY <1>2, <2>1 DEF FallBack
  <2>2. CASE ~FallBack
    <3>1. kit' = [kit EXCEPT !.pc = "launch"]
      <4> HIDE DEF FallBack
      <4> QED
        BY <1>18, <2>2 DEF Policy, Set
    <3> QED
      BY <3>1
  <2> QED
    BY <2>1, <2>2
<1>19. CASE Apply
  <2>1. kit' = [kit EXCEPT !.pc = "readback"]
    BY <1>19 DEF Apply, Set
  <2> QED
    BY <2>1
<1>10. CASE Readback
  <2>1. \/ Stops("unknown")
        \/ kit' \in {[kit EXCEPT !.pc = "policy"], [kit EXCEPT !.pc = "fallback"]}
    <3> HIDE DEF Stops
    <3> QED
      BY <1>10 DEF Readback, Set
  <2> QED
    BY <1>1, <2>1
<1>11. CASE LeaseAgain \/ FallbackLease
  BY <1>11 DEF LeaseAgain, FallbackLease, ReLease, Set
<1>20. CASE StartLaunch
  BY <1>20 DEF StartLaunch, Set, Resting
<1>12. CASE Launch
  <2>1. CASE kit.err = {}
    BY <1>12, <2>1 DEF Launch, Eligible, Set
  <2>2. CASE kit.err # {}
    <3>1. kit' = kit \/ kit'.err = kit.err
      BY <1>12, <2>2 DEF Launch, Set, Step, Goto
    <3> QED
      BY <2>2, <3>1
  <2> QED
    BY <2>1, <2>2
<1>13. CASE Fallback \/ FallbackVerify \/ FallbackShell \/ FallbackTyped \/ FallbackIdentity
  <2> HIDE DEF Step
  <2> QED
    BY <1>2, <1>13 DEF Fallback, FallbackVerify, FallbackShell, FallbackTyped, FallbackIdentity
<1>14. CASE FallbackProcess
  BY <1>14 DEF FallbackProcess
<1>15. CASE FallbackReadback
  BY <1>15 DEF FallbackReadback, Set
<1> QED
  BY <1>3, <1>4, <1>5, <1>6, <1>7, <1>8, <1>9, <1>10, <1>11, <1>12, <1>13, <1>14, <1>15,
     <1>16, <1>17, <1>18, <1>19, <1>20 DEF Converts

\* A launch reports success only after the audit of Final, DeliverPrompt or Focused, or
\* after the conversion's own, found the settings it promised.
THEOREM ManagedIsAsPromised == Spec => ManagedMeansPromised
<1>1. ASSUME Inv, Next, kit.pc # "done", kit'.pc = "done", kit'.err = {}, kit.op \in LaunchOps
      PROVE  thread[target].policy \in {kit.want.policy, "foreign"}
  <2>1. CASE kit.pc \in PromisedSteps
    BY <1>1, <2>1 DEF Promised
  <2>2. CASE Launching /\ kit.pc \notin PromisedSteps
    <3>1. TypeOK
      BY <1>1
    <3> HIDE DEF Inv
    <3> QED
      BY <1>1, <2>2, <3>1, LaunchingEnds, FailedEnds
  <2>3. ~CleaningUp
    BY <1>1, CleaningEnds
  <2>4. CASE Converts
    <3>1. Result
      BY <1>1, <2>4, ConvertingEnds
    <3>2. kit.op = "resume" /\ kit.want = Target
      BY <1>1, <3>1 DEF Result
    <3>3. thread[Old].policy = Target.policy
      BY <3>1 DEF Result, Drift, Effective
    <3> QED
      BY <3>2, <3>3 DEF target
  <2>5. ~(Request \/ Confirmed)
    BY <1>1 DEF Request, Confirmed
  <2>6. kit' # kit
    BY <1>1
  <2> QED
    BY <1>1, <2>1, <2>2, <2>3, <2>4, <2>5, <2>6 DEF Next, Rest, vars
<1>2. Inv /\ [Next]_vars =>
         [kit.pc # "done" /\ kit'.pc = "done" /\ kit'.err = {} /\ kit.op \in LaunchOps =>
              thread[target].policy \in {kit.want.policy, "foreign"}]_vars
  <2> HIDE DEF Inv
  <2> QED
    BY <1>1
<1> HIDE DEF Inv
<1> QED
  BY <1>2, InvHolds, PTL DEF Spec, ManagedMeansPromised
=============================================================================
