------------------------ MODULE NativeStart_proofs ------------------------
(***************************************************************************)
(* Whatever fails in a start or a fork, and whoever interferes: what is    *)
(* left behind is reported, what is answered is true, and a prompt is safe *)
(* once it is sent, for any number of panes, conversations and touches.    *)
(***************************************************************************)
EXTENDS NativeStart, TLAPS

-----------------------------------------------------------------------------
(***************************************************************************)
(* The inductive invariant.  First the request on its own: what is known   *)
(* at a step of the kind of request and of its local variables.            *)
(***************************************************************************)
EndSteps == {"undo", "close", "delete", "stop", "done"}
BeforeSteps == {"baseline", "source", "spawn", "proof", "create", "native", "sourceAfter", "launch"}
ForkSteps == {"source", "safe", "native", "sourceAfter", "child", "sourceAgain", "focused"}
CodexSteps == {"safe", "discover", "resolve", "bind", "bound"}

\* validatePromptStart, validateNativeStart, composeForkArgv.
Admitted ==
    /\ req.op = "start" => req.prompted
    /\ req.op = "new" => ~req.prompted /\ ~req.focus /\ req.kind # "codex"
    /\ req.own => req.kind = "opencode" /\ req.op # "fork"

StepFits ==
    /\ req.pc \in ForkSteps => req.op = "fork"
    /\ req.pc \in {"baseline", "fresh"} => req.op = "new"
    /\ req.pc = "identity" => req.op = "start"
    /\ req.pc \in {"spawn", "proof", "create", "delete"} => req.op # "fork"
    /\ req.pc \in {"spawn", "proof", "create", "native"} => req.kind = "opencode"
    /\ req.pc \in CodexSteps => req.kind = "codex"
    /\ req.pc = "stop" => req.own
    /\ req.pc \in BeforeSteps => ~req.created

\* An error is what ends a request, and the prompt decides how it may end.
ErrorFits ==
    /\ req.pc \notin EndSteps => req.err = {} /\ ~req.kept
    /\ req.pc \notin EndSteps => req.state \in {"notAttempted", "acknowledged"}
    /\ req.pc \in {"undo", "close", "delete"} => NotAttempted /\ "failed" \in req.err /\ ~req.kept
    /\ ~NotAttempted => req.pc \in {"resolve", "bind", "bound", "focus", "focused", "stop", "done"}

Named == req.who # NoThread \/ req.prefix # NoThread

\* Which conversation the request has found so far.
IdentityFits ==
    /\ req.pc \in BeforeSteps \cup {"safe", "exec", "origin", "identity", "child", "discover"} => ~Named
    /\ req.pc \in DeliverySteps => Named
    /\ req.pc \in {"resolve", "bind", "bound"} => req.prefix # NoThread
    /\ req.pc \in {"focus", "focused"} => req.who # NoThread
    /\ req.pc = "sourceAgain" => req.who # NoThread \/ (req.prompted /\ req.prefix # NoThread)
    /\ req.op = "fork" => req.who # Old /\ req.prefix # Old
    /\ req.op = "new" => req.who \notin req.prior
    /\ req.prefix # NoThread => req.kind = "codex"

\* The OpenCode conversation that was created for it.
SessionFits ==
    /\ req.pc \in {"baseline", "source", "spawn", "proof", "create", "native"} => req.session = NoThread
    /\ req.kind = "opencode" /\ req.pc \in {"sourceAfter", "launch", "exec", "origin", "child", "sourceAgain"} =>
          req.session # NoThread
    /\ req.kind = "opencode" /\ req.pc \in DeliverySteps \cup {"focus", "focused"} => req.who = req.session
    /\ req.kind = "opencode" /\ req.pc = "fresh" => req.who \in {NoThread, req.session}

\* What a request that ends well promises.
Promised ==
    /\ req.prompted => req.state = "acknowledged"
    /\ req.who # NoThread
    /\ req.kind = "opencode" => req.who = req.session

SuccessFits ==
    /\ req.pc \in {"focus", "focused"} /\ req.prompted => req.state = "acknowledged"
    /\ req.pc \in {"stop", "done"} /\ req.err = {} => Promised

FlowInv == Admitted /\ StepFits /\ ErrorFits /\ IdentityFits /\ SessionFits /\ SuccessFits

-----------------------------------------------------------------------------
(***************************************************************************)
(* What it has left behind.                                                *)
(***************************************************************************)
PaneReported ==
    req.pc \in {"delete", "stop", "done"} /\ ~Kept /\ req.created /\ pane[Tgt].open => "cleanup" \in req.err

SessionReported ==
    req.pc \in {"stop", "done"} /\ ~Kept /\ req.session \in sessions /\ req.op # "fork" =>
        "session" \in req.err

\* Whether OpenCode forked a conversation is known, or the error will say so.
ForkReported ==
    req.op = "fork" /\ sessions # {} =>
        IF req.pc \in EndSteps THEN req.err = {} \/ "uncertain" \in req.err
        ELSE req.session # NoThread

ServerReported == req.pc = "done" /\ req.own /\ server = "running" => "server" \in req.err

PromptsCounted ==
    /\ req.state \in {"notAttempted", "notSent"} => Arrived(0)
    /\ req.state = "acknowledged" => Arrived(1)

ReportInv == PaneReported /\ SessionReported /\ ForkReported /\ ServerReported /\ PromptsCounted

-----------------------------------------------------------------------------
(***************************************************************************)
(* The pane of the request.                                                *)
(***************************************************************************)
\* The command is started once, and takes the place of its shell.
Fits(x) ==
    /\ x.prog \in {"managed", "shell", "other"}
    /\ x.queued \in {"exec", "none"}
    /\ x.prog # "shell" => x.queued = "none"
    /\ x.prog = "managed" => x.shell = 0
    /\ x.bound # NoThread => x.prog = "managed" /\ x.thread # NoThread

\* Once a conversation was seen there, no TUI without one comes.
Attaching(x) == x.queued = "none" /\ (x.prog = "managed" => x.thread # NoThread)

\* Since the last look nothing has changed but by a touch.
LookHolds ==
    /\ req.looked <= touches
    /\ touches = req.looked => Untouched(Tgt) /\ (req.kind = "omp" => pane[Tgt].thread = req.who)

PaneInv ==
    /\ Fits(pane[Tgt])
    /\ Named => Attaching(pane[Tgt])
    /\ req.pc = "send" => LookHolds

Inv == TypeOK /\ FlowInv /\ ReportInv /\ PaneInv

-----------------------------------------------------------------------------
(***************************************************************************)
(* Types.                                                                  *)
(***************************************************************************)
AllSteps == DeliverySteps \cup StartSteps

ReqType ==
    [op : Ops, kind : Kinds, prompted : BOOLEAN, focus : BOOLEAN, own : BOOLEAN,
     pc : AllSteps, created : BOOLEAN, kept : BOOLEAN,
     who : OptThread, prefix : OptThread, session : OptThread, prior : SUBSET Threads,
     pid : Nat, leader : Nat, looked : 0..MaxTouches, state : States, err : SUBSET Errors]

LEMMA Names ==
    /\ Src \in Panes /\ Tgt \in Panes /\ Src # Tgt
    /\ Old \in Threads /\ Child \in Threads /\ Old # Child
    /\ NoThread \notin Threads /\ Threads \subseteq OptThread /\ NoThread \in OptThread
    /\ MaxTouches \in Nat
BY NamesAssumption, ThreadsAssumption, TouchesAssumption DEF OptThread

LEMMA ReqIsTyped ==
    ASSUME TypeOK PROVE req \in ReqType
BY DEF TypeOK, ReqType, AllSteps

LEMMA TypesGoOn ==
    ASSUME PanesTypeOK', req' \in ReqType, server' \in {"none", "running", "gone"},
           sessions' \subseteq Threads, received' \in [OptThread -> Nat]
    PROVE  TypeOK'
BY DEF TypeOK, ReqType, AllSteps

LEMMA ShellTypes ==
    ASSUME NEW pid \in Nat
    PROVE  Shell(pid) \in PaneType /\ Absent \in PaneType
BY Names DEF Shell, Absent, PaneType, Programs, Tui, Kit

LEMMA RunsTypes ==
    ASSUME NEW x \in PaneType, NEW prog \in Programs, NEW pid \in Nat, NEW t \in OptThread
    PROVE  Runs(x, prog, pid, t) \in PaneType
BY Names DEF Runs, PaneType

LEMMA FieldTypes ==
    ASSUME pane \in [Panes -> PaneType], NEW p \in Panes
    PROVE  /\ pane[p] \in PaneType
           /\ pane[p].draft \in {"empty", "status", "typed"} /\ pane[p].busy \in BOOLEAN
           /\ pane[p].bound \in OptThread /\ pane[p].shows \in OptThread
           /\ pane[p].thread \in OptThread /\ pane[p].pid \in Nat /\ pane[p].open \in BOOLEAN
           /\ pane[p].prog \in Programs /\ pane[p].shell \in Nat
           /\ pane[p].queued \in Kit \cup {"exec", "none"} /\ pane[p].focused \in BOOLEAN
BY DEF PaneType

LEMMA ReqFields ==
    ASSUME TypeOK
    PROVE  /\ req.op \in Ops /\ req.kind \in Kinds /\ req.prompted \in BOOLEAN /\ req.focus \in BOOLEAN
           /\ req.own \in BOOLEAN /\ req.pc \in AllSteps /\ req.created \in BOOLEAN
           /\ req.kept \in BOOLEAN /\ req.who \in OptThread /\ req.prefix \in OptThread
           /\ req.session \in OptThread /\ req.prior \subseteq Threads /\ req.looked \in Nat
           /\ req.state \in States /\ req.err \subseteq Errors
BY ReqIsTyped, Names DEF ReqType

\* One pane changes.
LEMMA OnePane ==
    ASSUME pane \in [Panes -> PaneType], NEW p \in Panes, NEW x \in PaneType, Update(p, x)
    PROVE  /\ pane' \in [Panes -> PaneType]
           /\ pane'[p] = x
           /\ \A q \in Panes \ {p} : pane'[q] = pane[q]
BY DEF Update

-----------------------------------------------------------------------------
(***************************************************************************)
(* What becomes of the pane of the request while the request waits.        *)
(***************************************************************************)
\* Untouched, of a record.
Held(x) == x.open /\ x.prog \in Tui /\ ~x.busy /\ ~x.focused /\ x.draft = "empty"

\* It is not opened again, and keeps what Inv says of it.
Goes(x, y) ==
    /\ y.open => x.open
    /\ Fits(x) => Fits(y)
    /\ Fits(x) /\ Attaching(x) => Attaching(y)

\* It shows another conversation without a touch only where a fork shows its source's.
Rests(x, y) ==
    Fits(x) /\ Attaching(x) /\ Held(x) =>
        Held(y) /\ (y.thread = x.thread \/ (req.op = "fork" /\ x.thread = Old))

TargetMoves ==
    /\ PanesTypeOK'
    /\ Goes(pane[Tgt], pane'[Tgt])
    /\ touches' >= touches
    /\ touches' = touches => Rests(pane[Tgt], pane'[Tgt])

LEMMA Redrawn ==
    ASSUME NEW x \in PaneType, NEW d \in {"empty", "status", "typed"}, NEW b \in BOOLEAN,
           NEW t \in Threads
    PROVE  /\ [x EXCEPT !.draft = d] \in PaneType /\ Goes(x, [x EXCEPT !.draft = d])
           /\ [x EXCEPT !.busy = b] \in PaneType /\ Goes(x, [x EXCEPT !.busy = b])
           /\ [x EXCEPT !.focused = b] \in PaneType /\ Goes(x, [x EXCEPT !.focused = b])
           /\ Rests(x, [x EXCEPT !.busy = FALSE])
           /\ [x EXCEPT !.bound = t] \in PaneType /\ Rests(x, [x EXCEPT !.bound = t])
           /\ x.prog \in Tui /\ x.thread # NoThread => Goes(x, [x EXCEPT !.bound = t])
           /\ [x EXCEPT !.thread = t] \in PaneType /\ Goes(x, [x EXCEPT !.thread = t])
<1> USE DEF Goes, Fits, Attaching, Rests, Held
<1>1. [x EXCEPT !.draft = d] \in PaneType /\ Goes(x, [x EXCEPT !.draft = d])
  BY DEF PaneType
<1>2. /\ [x EXCEPT !.busy = b] \in PaneType /\ Goes(x, [x EXCEPT !.busy = b])
      /\ Rests(x, [x EXCEPT !.busy = FALSE])
  BY DEF PaneType
<1>3. [x EXCEPT !.focused = b] \in PaneType /\ Goes(x, [x EXCEPT !.focused = b])
  BY DEF PaneType
<1>4. /\ [x EXCEPT !.bound = t] \in PaneType /\ Rests(x, [x EXCEPT !.bound = t])
      /\ x.prog \in Tui /\ x.thread # NoThread => Goes(x, [x EXCEPT !.bound = t])
  BY Names DEF PaneType, Tui, Kit
<1>5. [x EXCEPT !.thread = t] \in PaneType /\ Goes(x, [x EXCEPT !.thread = t])
  BY Names DEF PaneType
<1> QED
  BY <1>1, <1>2, <1>3, <1>4, <1>5

\* A pane that is closed, or whose program ends or gives way to another.
LEMMA Emptied ==
    ASSUME NEW x \in PaneType, NEW pid \in Nat
    PROVE  /\ Absent \in PaneType /\ Goes(x, Absent) /\ ~Absent.open
           /\ Ended(x) \in PaneType /\ (x.open => Goes(x, Ended(x)))
           /\ Runs(x, "other", pid, NoThread) \in PaneType
           /\ Goes(x, Runs(x, "other", pid, NoThread))
<1>1. x.shell \in Nat
  BY DEF PaneType
<1>2. /\ Absent \in PaneType /\ Runs(x, "shell", x.shell, NoThread) \in PaneType
      /\ Runs(x, "other", pid, NoThread) \in PaneType
  BY <1>1, ShellTypes, RunsTypes, Names DEF Programs
<1>3. Goes(x, Absent) /\ ~Absent.open
  BY DEF Goes, Fits, Attaching, Absent, Shell
<1>4. x.open => Goes(x, Runs(x, "shell", x.shell, NoThread))
  BY DEF Goes, Fits, Attaching, Runs, PaneType
<1>5. Goes(x, Runs(x, "other", pid, NoThread))
  BY DEF Goes, Fits, Attaching, Runs, PaneType
<1> QED
  BY <1>2, <1>3, <1>4, <1>5 DEF Ended

LEMMA Still ==
    ASSUME NEW x PROVE Goes(x, x) /\ Rests(x, x)
BY DEF Goes, Rests

LEMMA OneGoes ==
    ASSUME PanesTypeOK, NEW p \in Panes, NEW x \in PaneType, Update(p, x), Goes(pane[p], x)
    PROVE  /\ pane' \in [Panes -> PaneType] /\ Goes(pane[Tgt], pane'[Tgt])
           /\ Rests(pane[p], x) => Rests(pane[Tgt], pane'[Tgt])
<1>1. /\ pane' \in [Panes -> PaneType] /\ pane'[p] = x
      /\ \A q \in Panes \ {p} : pane'[q] = pane[q]
  BY OnePane DEF PanesTypeOK
<1>2. CASE p = Tgt
  BY <1>1, <1>2
<1>3. CASE p # Tgt
  BY <1>1, <1>3, Still, Names
<1> QED
  BY <1>2, <1>3

LEMMA FocusGoes ==
    ASSUME PanesTypeOK, NEW p \in Panes, TakeFocus(p)
    PROVE  pane' \in [Panes -> PaneType] /\ Goes(pane[Tgt], pane'[Tgt])
           /\ pane'[Tgt].open = pane[Tgt].open
<1>1. ASSUME NEW q \in Panes
      PROVE  /\ pane'[q] \in PaneType /\ Goes(pane[q], pane'[q]) /\ pane'[q].open = pane[q].open
  <2>1. pane[q] \in PaneType /\ pane'[q] = [pane[q] EXCEPT !.focused = q = p]
    BY DEF PanesTypeOK, TakeFocus
  <2>2. CASE q = p
    <3>1. pane'[q] = [pane[q] EXCEPT !.focused = TRUE]
      BY <2>1, <2>2
    <3>2. pane'[q].open = pane[q].open
      BY <2>1, <3>1 DEF PaneType
    <3>3. pane'[q] \in PaneType /\ Goes(pane[q], pane'[q])
      BY <2>1, <3>1, Redrawn, Names
    <3> QED
      BY <3>2, <3>3
  <2>3. CASE q # p
    <3>1. pane'[q] = [pane[q] EXCEPT !.focused = FALSE]
      BY <2>1, <2>3
    <3>2. pane'[q].open = pane[q].open
      BY <2>1, <3>1 DEF PaneType
    <3>3. pane'[q] \in PaneType /\ Goes(pane[q], pane'[q])
      BY <2>1, <3>1, Redrawn, Names
    <3> QED
      BY <3>2, <3>3
  <2> QED
    BY <2>2, <2>3
<1>2. pane' \in [Panes -> PaneType]
  BY <1>1 DEF TakeFocus
<1> QED
  BY <1>1, <1>2, Names

LEMMA PersonMoves ==
    ASSUME TypeOK, NEW p \in Panes,
           PersonTypes(p) \/ PersonFocuses(p) \/ ProgramEnds(p) \/ PersonStarts(p)
              \/ PersonCloses(p) \/ PersonSwitches(p)
    PROVE  TargetMoves
<1> USE DEF Touch
<1>1. /\ PanesTypeOK /\ pane[p] \in PaneType /\ procs \in Nat /\ procs + 1 \in Nat
      /\ touches \in Nat /\ MaxTouches \in Nat
  BY FieldTypes, Names DEF TypeOK, PanesTypeOK
<1>2. procs' \in Nat /\ touches' \in 0..MaxTouches /\ touches' = touches + 1
  <2>1. touches < MaxTouches /\ touches' = touches + 1
    BY DEF PersonTypes, PersonFocuses, ProgramEnds, PersonStarts, PersonCloses, PersonSwitches
  <2>2. procs' \in {procs, procs + 1}
    BY DEF PersonTypes, PersonFocuses, ProgramEnds, PersonStarts, PersonCloses, PersonSwitches, Shows
  <2> QED
    BY <1>1, <2>1, <2>2
<1>3. pane' \in [Panes -> PaneType] /\ Goes(pane[Tgt], pane'[Tgt])
  <2>1. CASE PersonTypes(p)
    BY <2>1, <1>1, Redrawn, OneGoes, Names DEF PersonTypes
  <2>2. CASE PersonFocuses(p)
    BY <2>2, <1>1, FocusGoes DEF PersonFocuses
  <2>3. CASE ProgramEnds(p)
    BY <2>3, <1>1, Emptied, OneGoes DEF ProgramEnds
  <2>4. CASE PersonStarts(p)
    BY <2>4, <1>1, Emptied, OneGoes DEF PersonStarts
  <2>5. CASE PersonCloses(p)
    BY <2>5, <1>1, Emptied, OneGoes DEF PersonCloses, ClosePane
  <2>6. CASE PersonSwitches(p)
    BY <2>6, <1>1, Redrawn, OneGoes DEF PersonSwitches, Shows
  <2> QED
    BY <2>1, <2>2, <2>3, <2>4, <2>5, <2>6
<1> QED
  BY <1>1, <1>2, <1>3 DEF TargetMoves, PanesTypeOK

LEMMA TuiMoves ==
    ASSUME TypeOK, NEW p \in Panes, Notices(p) \/ TurnEnds(p)
    PROVE  TargetMoves
<1>1. /\ PanesTypeOK /\ pane[p] \in PaneType /\ touches \in Nat
      /\ pane[p].thread \in Threads \cup {NoThread}
  BY FieldTypes, Names DEF TypeOK, PanesTypeOK, OptThread
<1>2. UNCHANGED <<procs, touches>>
  BY DEF Notices, TurnEnds
<1>3. /\ pane' \in [Panes -> PaneType] /\ Goes(pane[Tgt], pane'[Tgt])
      /\ Rests(pane[Tgt], pane'[Tgt])
  <2>1. CASE Notices(p)
    BY <2>1, <1>1, Redrawn, OneGoes DEF Notices, ReportSession
  <2>2. CASE TurnEnds(p)
    BY <2>2, <1>1, Redrawn, OneGoes, Names DEF TurnEnds
  <2> QED
    BY <2>1, <2>2
<1> QED
  BY <1>1, <1>2, <1>3 DEF TargetMoves, PanesTypeOK

LEMMA ChildMoves ==
    ASSUME TypeOK, CommandStarts \/ Attaches \/ Forks
    PROVE  TargetMoves
<1> USE Names
<1>1. PanesTypeOK /\ pane[Tgt] \in PaneType /\ touches \in Nat /\ procs + 1 \in Nat /\ touches' = touches
  BY FieldTypes DEF TypeOK, PanesTypeOK, CommandStarts, Attaches, Forks
<1>2. procs' \in Nat
  BY DEF TypeOK, PanesTypeOK, CommandStarts, Starts, Attaches, Forks, Shows
<1>3. /\ pane' \in [Panes -> PaneType] /\ Goes(pane[Tgt], pane'[Tgt])
      /\ Rests(pane[Tgt], pane'[Tgt])
  <2>1. CASE CommandStarts
    <3> DEFINE x == IF pane[Tgt].queued = "exec"
                      THEN [Runs(pane[Tgt], "managed", procs + 1, NoThread) EXCEPT !.shell = 0]
                      ELSE Runs(pane[Tgt], pane[Tgt].queued, procs + 1, NoThread)
    <3>1. /\ Update(Tgt, x) /\ pane[Tgt].queued \in Kit \cup {"exec"} /\ pane[Tgt].prog = "shell"
          /\ pane[Tgt].open
      BY <2>1, <1>1, FieldTypes DEF CommandStarts, Starts, PanesTypeOK
    <3>2. x \in PaneType /\ Goes(pane[Tgt], x)
      <4>1. CASE pane[Tgt].queued = "exec"
        <5>1. Runs(pane[Tgt], "managed", procs + 1, NoThread) \in PaneType
          BY <1>1, RunsTypes DEF Programs, Tui, Kit
        <5>2. x = [Runs(pane[Tgt], "managed", procs + 1, NoThread) EXCEPT !.shell = 0]
          BY <4>1
        <5> HIDE DEF x
        <5>3. x \in PaneType
          BY <5>1, <5>2 DEF PaneType
        <5> QED
          BY <4>1, <5>2, <5>3, <3>1, <1>1 DEF Goes, Fits, Attaching, Runs, PaneType
      <4>2. CASE pane[Tgt].queued # "exec"
        <5>1. Runs(pane[Tgt], pane[Tgt].queued, procs + 1, NoThread) \in PaneType
          BY <1>1, <3>1, <4>2, RunsTypes DEF Programs, Tui
        <5> QED
          BY <4>2, <5>1, <3>1, <1>1 DEF Goes, Fits, Attaching, Kit
      <4> QED
        BY <4>1, <4>2
    <3>3. Rests(pane[Tgt], x)
      BY <3>1 DEF Rests, Held, Tui, Kit
    <3> HIDE DEF x
    <3> QED
      BY <1>1, <3>1, <3>2, <3>3, OneGoes
  <2>2. ASSUME NEW t \in Threads, Shows(Tgt, t),
               pane[Tgt].thread = NoThread \/ (req.op = "fork" /\ pane[Tgt].thread = Old),
               pane[Tgt].prog = "managed"
        PROVE  /\ pane' \in [Panes -> PaneType] /\ Goes(pane[Tgt], pane'[Tgt])
               /\ Rests(pane[Tgt], pane'[Tgt])
    <3> DEFINE x == [pane[Tgt] EXCEPT !.thread = t]
    <3>1. Update(Tgt, x) /\ x \in PaneType /\ Goes(pane[Tgt], x)
      BY <2>2, <1>1, Redrawn DEF Shows
    <3>2. Rests(pane[Tgt], x)
      BY <2>2, <1>1 DEF Rests, Attaching, Held, PaneType
    <3> HIDE DEF x
    <3> QED
      BY <1>1, <3>1, <3>2, OneGoes
  <2>3. CASE Attaches
    BY <2>2, <2>3 DEF Attaches
  <2>4. CASE Forks
    BY <2>2, <2>4 DEF Forks
  <2> QED
    BY <2>1, <2>3, <2>4
<1> QED
  BY <1>1, <1>2, <1>3 DEF TargetMoves, PanesTypeOK, TypeOK

LEMMA WorldMoves ==
    ASSUME TypeOK, World
    PROVE  /\ TargetMoves /\ UNCHANGED <<sessions, received>>
           /\ server' = server \/ (server = "running" /\ server' = "gone")
<1>1. CASE ServerExits /\ UNCHANGED <<pane, procs, sessions, received>>
  BY <1>1, Still, Names DEF ServerExits, Touch, TargetMoves, TypeOK, PanesTypeOK
<1>2. CASE (CommandStarts \/ Attaches \/ Forks) /\ UNCHANGED promptVars
  BY <1>2, ChildMoves DEF promptVars
<1>3. ASSUME NEW p \in Panes, UNCHANGED promptVars,
             \/ PersonTypes(p) \/ PersonFocuses(p) \/ ProgramEnds(p) \/ PersonStarts(p)
             \/ PersonCloses(p) \/ PersonSwitches(p) \/ Notices(p) \/ TurnEnds(p)
      PROVE  TargetMoves /\ UNCHANGED promptVars
  BY <1>3, PersonMoves, TuiMoves
<1> QED
  BY <1>1, <1>2, <1>3 DEF World, promptVars

USE DEF Admitted, StepFits, ErrorFits, IdentityFits, SessionFits, SuccessFits, FlowInv, Named, Promised,
        EndSteps, BeforeSteps, ForkSteps, CodexSteps, DeliverySteps, NotAttempted, At

LEMMA HeldIsUntouched ==
    /\ Held(pane[Tgt]) <=> Untouched(Tgt)
    /\ Held(pane'[Tgt]) <=> Untouched(Tgt)'
BY DEF Held, Untouched, Quiet

LEMMA WorldKeeps ==
    ASSUME Inv, World, ~Answered, UNCHANGED req
    PROVE  Inv'
<1>1. /\ TargetMoves /\ UNCHANGED <<sessions, received>>
      /\ server' = server \/ (server = "running" /\ server' = "gone")
  BY WorldMoves DEF Inv
<1>2. TypeOK'
  BY <1>1 DEF Inv, TypeOK, TargetMoves
<1>3. FlowInv'
  BY DEF Inv
<1>4. ReportInv'
  <2>1. PaneReported'
    BY <1>1 DEF Inv, ReportInv, PaneReported, Kept, TargetMoves, Goes
  <2>2. SessionReported' /\ ForkReported' /\ PromptsCounted'
    BY <1>1 DEF Inv, ReportInv, SessionReported, ForkReported, PromptsCounted, Kept, Arrived
  <2>3. ServerReported'
    BY DEF ServerReported, Answered
  <2> QED
    BY <2>1, <2>2, <2>3 DEF ReportInv
<1>5. PaneInv'
  <2>1. Fits(pane[Tgt])' /\ (Named => Attaching(pane[Tgt])')
    BY <1>1 DEF Inv, PaneInv, TargetMoves, Goes
  <2>2. ASSUME req.pc = "send" PROVE LookHolds'
    <3>1. LookHolds /\ Named /\ Fits(pane[Tgt]) /\ Attaching(pane[Tgt])
      BY <2>2 DEF Inv, PaneInv
    <3>2. req.looked \in Nat /\ touches \in Nat /\ touches' \in Nat /\ touches' >= touches
      BY <1>1, ReqFields, Names DEF Inv, TypeOK, PanesTypeOK, TargetMoves
    <3>3. req.looked <= touches'
      BY <3>1, <3>2 DEF LookHolds
    <3>4. ASSUME touches' = req.looked
          PROVE  Untouched(Tgt)' /\ (req.kind = "omp" => pane'[Tgt].thread = req.who)
      <4>1. touches' = touches /\ touches = req.looked
        BY <3>1, <3>2, <3>4 DEF LookHolds
      <4>2. Held(pane[Tgt]) /\ (req.kind = "omp" => pane[Tgt].thread = req.who)
        BY <3>1, <4>1, HeldIsUntouched DEF LookHolds
      <4>3. /\ Held(pane'[Tgt])
            /\ pane'[Tgt].thread = pane[Tgt].thread \/ (req.op = "fork" /\ pane[Tgt].thread = Old)
        BY <1>1, <3>1, <4>1, <4>2 DEF TargetMoves, Rests
      <4>4. ~(req.kind = "omp" /\ req.op = "fork" /\ pane[Tgt].thread = Old)
        BY <4>2 DEF Inv
      <4> QED
        BY <4>2, <4>3, <4>4, HeldIsUntouched
    <3> QED
      BY <3>3, <3>4 DEF LookHolds
  <2> QED
    BY <2>1, <2>2 DEF PaneInv
<1> QED
  BY <1>2, <1>3, <1>4, <1>5 DEF Inv

-----------------------------------------------------------------------------
(***************************************************************************)
(* How a request goes on, ends and fails.                                  *)
(***************************************************************************)
\* What a request is asked never changes, ...
SameRequest ==
    /\ req'.op = req.op /\ req'.kind = req.kind /\ req'.prompted = req.prompted
    /\ req'.focus = req.focus /\ req'.own = req.own

\* ... and what it has created, only where it is said.
SameGains == /\ req'.created = req.created /\ req'.session = req.session /\ req'.state = req.state
             /\ req'.err = req.err /\ req'.kept = req.kept

GoesOn == req.pc \notin EndSteps /\ (req'.pc \notin EndSteps \/ req'.pc = Finish)

LEMMA ReportsGoOn ==
    ASSUME Inv, SameRequest, GoesOn, req'.state = req.state, req'.err = req.err,
           UNCHANGED <<sessions, received>>, req.op = "fork" => req'.session = req.session,
           server' = server \/ req'.pc \notin EndSteps
    PROVE  ReportInv'
<1>1. req.err = {} /\ Kept'
  BY DEF Inv, GoesOn, SameRequest, Kept
<1>2. PaneReported' /\ SessionReported'
  BY <1>1 DEF PaneReported, SessionReported
<1>3. ForkReported'
  BY <1>1 DEF Inv, ReportInv, ForkReported, SameRequest, GoesOn
<1>4. ServerReported'
  BY DEF ServerReported, GoesOn, Finish, SameRequest
<1>5. PromptsCounted'
  BY DEF Inv, ReportInv, PromptsCounted, Arrived
<1> QED
  BY <1>2, <1>3, <1>4, <1>5 DEF ReportInv

LEMMA PaneGoesOn ==
    ASSUME Inv, Goes(pane[Tgt], pane'[Tgt]), Named' => Named \/ Attaching(pane[Tgt]),
           req'.pc = "send" => LookHolds'
    PROVE  PaneInv'
BY DEF Inv, PaneInv, Goes

\* A step that only looks.
LEMMA LookingKeeps ==
    ASSUME Inv, Keeps, SameRequest, SameGains, GoesOn, req' \in ReqType, FlowInv',
           Named' => Named \/ Attaching(pane[Tgt]), req'.pc = "send" => LookHolds'
    PROVE  Inv'
<1>1. UNCHANGED <<pane, procs, touches, server, sessions, received>>
  BY DEF Keeps, paneVars, promptVars
<1>2. TypeOK'
  BY <1>1, TypesGoOn DEF Inv, TypeOK, PanesTypeOK
<1>3. ReportInv'
  BY <1>1, ReportsGoOn DEF SameGains
<1>4. PaneInv'
  BY <1>1, Still, PaneGoesOn
<1> QED
  BY <1>2, <1>3, <1>4 DEF Inv

\* What a failure keeps of the request.
Kin(r) ==
    /\ r \in ReqType
    /\ r.op = req.op /\ r.kind = req.kind /\ r.prompted = req.prompted /\ r.focus = req.focus
    /\ r.own = req.own /\ r.created = req.created /\ r.session = req.session
    /\ r.state = req.state /\ r.kept = req.kept /\ r.who = req.who

LEMMA FailedFields ==
    ASSUME TypeOK, NEW after \in AllSteps
    PROVE  /\ Kin(Failed(after))
           /\ Failed(after).pc = after /\ Failed(after).prior = {} /\ Failed(after).prefix = NoThread
           /\ Failed(after).err = req.err \cup {"failed"} \cup Uncertain
           /\ Failed(after).looked = 0
<1>1. req \in ReqType /\ NoThread \in OptThread /\ 0 \in 0..MaxTouches /\ {} \in SUBSET Threads
  BY ReqIsTyped, Names
<1>2. req.err \cup {"failed"} \cup Uncertain \in SUBSET Errors
  BY <1>1 DEF ReqType, Errors, Uncertain
<1> DEFINE e == req.err \cup {"failed"} \cup Uncertain
           r1 == [req EXCEPT !.pc = after, !.err = e]
           r2 == [r1 EXCEPT !.pid = 0, !.leader = 0]
           r3 == [r2 EXCEPT !.prior = {}, !.prefix = NoThread]
           r4 == [r3 EXCEPT !.looked = 0]
<1> HIDE DEF e
<1>3. Kin(r1) /\ r1.pc = after /\ r1.err = e
  BY <1>1, <1>2 DEF ReqType, Kin, e
<1> HIDE DEF r1
<1>4. Kin(r2) /\ r2.pc = after /\ r2.err = e
  BY <1>3 DEF ReqType, Kin
<1> HIDE DEF r2
<1>5. Kin(r3) /\ r3.pc = after /\ r3.err = e /\ r3.prior = {} /\ r3.prefix = NoThread
  BY <1>1, <1>4 DEF ReqType, Kin
<1> HIDE DEF r3
<1>6. /\ Kin(r4) /\ r4.pc = after /\ r4.err = e /\ r4.prior = {} /\ r4.prefix = NoThread
      /\ r4.looked = 0
  BY <1>1, <1>5 DEF ReqType, Kin
<1>7. Failed(after) = r4
  BY DEF Failed, r1, r2, r3, e
<1> HIDE DEF r4
<1> QED
  BY <1>6, <1>7 DEF e

\* Whatever the last step did to the pane, a failure is prepared to say so.
LEMMA FailureReports ==
    ASSUME Inv, Failing, req.pc \notin EndSteps, sessions' \subseteq Threads,
           UNCHANGED <<server, received>>, req.op = "fork" => UNCHANGED sessions
    PROVE  req' \in ReqType /\ FlowInv' /\ ReportInv' /\ (Named' => Named) /\ req'.pc # "send"
<1>0. TypeOK /\ FlowInv /\ ReportInv
  BY DEF Inv
<1>1. AfterFailure \in {"close", "delete", "stop", "done"}
  BY DEF AfterFailure, Finish
<1>2. /\ Kin(req') /\ req'.pc = AfterFailure /\ req'.prior = {} /\ req'.prefix = NoThread
      /\ req'.err = {"failed"} \cup Uncertain
  <2>1. AfterFailure \in AllSteps
    BY <1>1 DEF AllSteps, StartSteps
  <2>2. req.err = {}
    BY <1>0
  <2> QED
    BY <1>0, <2>1, <2>2, FailedFields DEF Failing
<1> HIDE DEF Inv
<1>3. ~NotAttempted => Kept'
  BY <1>2 DEF Kept, Kin
<1>4. req'.pc \in {"delete", "stop", "done"} /\ NotAttempted => ~req.created
  BY <1>2 DEF AfterFailure
<1>5. req'.pc \in {"stop", "done"} /\ NotAttempted => req.session = NoThread \/ req.op = "fork"
  BY <1>2 DEF AfterFailure
<1>6. req'.pc = "done" => ~req.own \/ server = "none"
  BY <1>2 DEF AfterFailure, Finish
<1>7. FlowInv'
  BY <1>0, <1>1, <1>2, Names DEF Kin, AfterFailure, Finish
<1>8. PaneReported' /\ SessionReported'
  BY <1>2, <1>3, <1>4, <1>5, Names DEF PaneReported, SessionReported, Kin
<1>9. ForkReported' /\ ServerReported' /\ PromptsCounted'
  <2>1. ForkReported'
    BY <1>0, <1>2 DEF ReportInv, ForkReported, Kin, Uncertain
  <2>2. ServerReported'
    BY <1>2, <1>6 DEF ServerReported, Kin
  <2>3. PromptsCounted'
    BY <1>0, <1>2 DEF ReportInv, PromptsCounted, Kin, Arrived
  <2> QED
    BY <2>1, <2>2, <2>3
<1> QED
  BY <1>1, <1>2, <1>7, <1>8, <1>9 DEF ReportInv, Kin

LEMMA FailingKeeps ==
    ASSUME Inv, Failing, req.pc \notin EndSteps, PanesTypeOK', Goes(pane[Tgt], pane'[Tgt]),
           UNCHANGED promptVars
    PROVE  Inv'
<1>1. req' \in ReqType /\ FlowInv' /\ ReportInv' /\ (Named' => Named) /\ req'.pc # "send"
  BY FailureReports DEF Inv, TypeOK, promptVars
<1>2. TypeOK'
  BY <1>1, TypesGoOn DEF Inv, TypeOK, promptVars
<1>3. PaneInv'
  BY <1>1, PaneGoesOn
<1> QED
  BY <1>1, <1>2, <1>3 DEF Inv

-----------------------------------------------------------------------------
(***************************************************************************)
(* The steps that only look: before the launch, and at the new pane.       *)
(***************************************************************************)
LEMMA GotoKeeps ==
    ASSUME Inv, Keeps, NEW s \in AllSteps, Goto(s), req.pc \notin EndSteps,
           s \notin EndSteps \/ s = Finish, s # "send", FlowInv'
    PROVE  Inv'
<1>1. req \in ReqType
  BY ReqIsTyped DEF Inv
<1>2. req' \in ReqType /\ SameRequest /\ SameGains /\ req'.pc = s /\ req'.who = req.who
      /\ req'.prefix = req.prefix
  BY <1>1 DEF Goto, ReqType, SameRequest, SameGains
<1> QED
  BY <1>2, LookingKeeps DEF GoesOn

LEMMA GotoFields ==
    ASSUME TypeOK, NEW s, Goto(s)
    PROVE  /\ SameRequest /\ SameGains /\ req'.pc = s
           /\ req'.who = req.who /\ req'.prefix = req.prefix /\ req'.prior = req.prior
           /\ req'.looked = req.looked
BY ReqIsTyped DEF Goto, ReqType, SameRequest, SameGains

LEMMA FinishIsEnd ==
    Finish \in {"stop", "done"} /\ (Finish = "stop" => req.own)
BY DEF Finish

LEMMA BeforeKeeps ==
    ASSUME Inv, Baseline \/ ForkSource \/ Safe \/ SourceAfter \/ Origin
    PROVE  Inv'
<1> USE Names
<1>0. TypeOK /\ FlowInv /\ req \in ReqType
  BY ReqIsTyped DEF Inv
<1>1. CASE Baseline
  <2> DEFINE b == {pane[p].bound : p \in Panes} \ {NoThread}
  <2>1. b \subseteq Threads
    BY <1>0, FieldTypes DEF TypeOK, PanesTypeOK, OptThread
  <2>2. Prepare \in {"spawn", "create", "launch"} /\ Prepare \in AllSteps
    BY DEF Prepare, AllSteps, StartSteps
  <2>3. req' = [req EXCEPT !.pc = Prepare, !.prior = b]
    BY <1>1 DEF Baseline
  <2> HIDE DEF b
  <2>4. /\ req' \in ReqType /\ SameRequest /\ SameGains /\ req'.pc = Prepare
        /\ req'.who = req.who /\ req'.prefix = req.prefix /\ req'.prior = b
    BY <1>0, <2>1, <2>2, <2>3 DEF ReqType, SameRequest, SameGains
  <2>5. FlowInv'
    BY <1>0, <1>1, <2>1, <2>2, <2>4 DEF SameRequest, SameGains, Baseline, Prepare
  <2> QED
    BY <1>1, <2>2, <2>4, <2>5, LookingKeeps DEF GoesOn, Baseline
<1>2. CASE ForkSource
  <2> DEFINE s == IF req.kind = "opencode" THEN "native"
                  ELSE IF req.kind = "codex" /\ req.prompted THEN "safe" ELSE "launch"
  <2>1. Goto(s) /\ s \in AllSteps /\ s \in {"native", "safe", "launch"} /\ req.pc = "source"
    BY <1>2 DEF ForkSource, AllSteps, StartSteps
  <2>2. FlowInv'
    BY <1>0, <2>1, GotoFields DEF SameRequest, SameGains
  <2> HIDE DEF s
  <2> QED
    BY <1>2, <2>1, <2>2, GotoKeeps DEF ForkSource
<1>3. CASE Safe
  <2>1. pane[Src].pid \in Nat
    BY <1>0, FieldTypes DEF TypeOK, PanesTypeOK
  <2>2. /\ req' \in ReqType /\ SameRequest /\ SameGains
        /\ req'.pc = IF req.created THEN "discover" ELSE "launch"
        /\ req'.who = req.who /\ req'.prefix = req.prefix /\ req'.prior = req.prior
    BY <1>0, <1>3, <2>1 DEF Safe, ReqType, SameRequest, SameGains, AllSteps, StartSteps
  <2>3. FlowInv'
    BY <1>0, <1>3, <2>2 DEF SameRequest, SameGains, Safe
  <2> QED
    BY <1>3, <2>2, <2>3, LookingKeeps DEF GoesOn, Safe
<1>4. CASE SourceAfter
  <2>1. Goto("launch") /\ req.pc = "sourceAfter" /\ "launch" \in AllSteps
    BY <1>4 DEF SourceAfter, AllSteps, StartSteps
  <2>2. FlowInv'
    BY <1>0, <2>1, GotoFields DEF SameRequest, SameGains
  <2> QED
    BY <1>4, <2>1, <2>2, GotoKeeps DEF SourceAfter
<1>5. CASE Origin
  <2>1. /\ Goto(Identify) /\ Identify \in AllSteps /\ req.pc = "origin"
        /\ Identify \in {"discover", "identity", "fresh", "child"}
        /\ Identify = "discover" => req.kind = "codex"
        /\ Identify = "identity" => req.op = "start"
        /\ Identify = "fresh" => req.op = "new"
        /\ Identify = "child" => req.op = "fork"
    BY <1>5, <1>0, ReqFields DEF Origin, Identify, AllSteps, StartSteps, Ops
  <2>2. FlowInv'
    BY <1>0, <2>1, GotoFields DEF SameRequest, SameGains
  <2> QED
    BY <1>5, <2>1, <2>2, GotoKeeps DEF Origin
<1> QED
  BY <1>1, <1>2, <1>3, <1>4, <1>5

\* Herdr's binding of a new pane.
LEMMA BoundIsAttached ==
    ASSUME Inv, pane[Tgt].bound # NoThread
    PROVE  Attaching(pane[Tgt]) /\ pane[Tgt].bound \in Threads
BY FieldTypes, Names DEF Inv, PaneInv, Fits, Attaching, TypeOK, PanesTypeOK, OptThread

LEMMA IdentifyingKeeps ==
    ASSUME Inv, WaitForAgent \/ WaitForFresh \/ WaitForChild \/ SourceAgain
    PROVE  Inv'
<1> USE Names
<1>0. TypeOK /\ FlowInv /\ req \in ReqType
  BY ReqIsTyped DEF Inv
<1>1. ASSUME NEW s \in AllSteps, Keeps, pane[Tgt].bound # NoThread,
             req' = [req EXCEPT !.pc = s, !.who = pane[Tgt].bound] \/ req' = [req EXCEPT !.who = pane[Tgt].bound],
             req.pc \notin EndSteps, s \notin EndSteps, s # "send",
             FlowInv', req.pc # "send"
      PROVE  Inv'
  <2>1. pane[Tgt].bound \in OptThread
    BY <1>1, BoundIsAttached
  <2>2. \/ req' \in ReqType /\ SameRequest /\ SameGains /\ req'.pc = s
        \/ req' \in ReqType /\ SameRequest /\ SameGains /\ req'.pc = req.pc
    <3>1. CASE req' = [req EXCEPT !.pc = s, !.who = pane[Tgt].bound]
      BY <1>0, <2>1, <3>1 DEF ReqType, SameRequest, SameGains
    <3>2. CASE req' = [req EXCEPT !.who = pane[Tgt].bound]
      BY <1>0, <2>1, <3>2 DEF ReqType, SameRequest, SameGains
    <3> QED
      BY <1>1, <3>1, <3>2
  <2> QED
    BY <1>1, <2>2, BoundIsAttached, LookingKeeps DEF GoesOn
<1>2. CASE WaitForAgent
  <2>1. /\ req' = [req EXCEPT !.pc = "observe", !.who = pane[Tgt].bound] /\ req.pc = "identity"
        /\ pane[Tgt].bound # NoThread /\ Expected(pane[Tgt].bound) /\ "observe" \in AllSteps
    BY <1>2 DEF WaitForAgent, AllSteps
  <2>2. /\ SameRequest /\ SameGains /\ req'.pc = "observe" /\ req'.who = pane[Tgt].bound
        /\ req'.prefix = req.prefix
    BY <1>0, <2>1 DEF ReqType, SameRequest, SameGains
  <2>3. FlowInv'
    BY <1>0, <2>1, <2>2 DEF SameRequest, SameGains, Expected
  <2> QED
    BY <1>1, <1>2, <2>1, <2>3 DEF WaitForAgent
<1>3. CASE WaitForFresh
  <2>1. /\ req.pc = "fresh" /\ pane[Tgt].bound # NoThread /\ Fresh(pane[Tgt].bound)
        /\ req.who \in {NoThread, pane[Tgt].bound} /\ Keeps
    BY <1>3 DEF WaitForFresh
  <2>2. CASE req.who = NoThread
    <3>1. req' = [req EXCEPT !.who = pane[Tgt].bound]
      BY <1>3, <2>2 DEF WaitForFresh
    <3>2. /\ SameRequest /\ SameGains /\ req'.pc = "fresh" /\ req'.who = pane[Tgt].bound
          /\ req'.prefix = req.prefix /\ req'.prior = req.prior
      BY <1>0, <2>1, <3>1 DEF ReqType, SameRequest, SameGains
    <3>3. FlowInv'
      BY <1>0, <2>1, <3>2 DEF SameRequest, SameGains, Expected, Fresh
    <3> QED
      BY <1>1, <2>1, <3>1, <3>3 DEF AllSteps, StartSteps
  <2>3. CASE req.who # NoThread
    <3>1. Goto(Finish)
      BY <1>3, <2>3 DEF WaitForFresh, Goto
    <3>2. FlowInv'
      BY <1>0, <2>1, <2>3, <3>1, GotoFields, FinishIsEnd DEF SameRequest, SameGains
    <3> QED
      BY <2>1, <3>1, <3>2, FinishIsEnd, GotoKeeps DEF AllSteps, StartSteps
  <2> QED
    BY <2>2, <2>3
<1>4. CASE WaitForChild
  <2>1. CASE pane[Tgt].bound \notin {NoThread, Old}
             /\ req' = [req EXCEPT !.pc = "sourceAgain", !.who = pane[Tgt].bound]
    <3>1. /\ SameRequest /\ SameGains /\ req'.pc = "sourceAgain" /\ req'.who = pane[Tgt].bound
          /\ req'.prefix = req.prefix /\ req.pc = "child" /\ Keeps /\ "sourceAgain" \in AllSteps
      BY <1>0, <1>4, <2>1 DEF ReqType, SameRequest, SameGains, WaitForChild, AllSteps, StartSteps
    <3>2. FlowInv'
      BY <1>0, <2>1, <3>1 DEF SameRequest, SameGains
    <3> QED
      BY <1>1, <2>1, <3>1, <3>2
  <2>2. CASE pane[Tgt].bound = NoThread /\ req.kind = "codex" /\ Goto("safe")
    <3>1. req.pc = "child" /\ Keeps /\ "safe" \in AllSteps
      BY <1>4 DEF WaitForChild, AllSteps, StartSteps
    <3>2. FlowInv'
      BY <1>0, <2>2, <3>1, GotoFields DEF SameRequest, SameGains
    <3> QED
      BY <2>2, <3>1, <3>2, GotoKeeps
  <2> QED
    BY <1>4, <2>1, <2>2 DEF WaitForChild
<1>5. CASE SourceAgain
  <2> DEFINE s == IF req.prompted THEN "observe" ELSE IF req.focus THEN "focus" ELSE Finish
  <2>1. /\ Goto(s) /\ Keeps /\ req.pc = "sourceAgain"
        /\ req.session # NoThread => req.who = req.session
    BY <1>5 DEF SourceAgain
  <2>2. s \in {"observe", "focus", "stop", "done"} /\ (s \in {"stop", "done"} => s = Finish) /\ s \in AllSteps
    BY FinishIsEnd DEF AllSteps, StartSteps
  <2>3. FlowInv'
    BY <1>0, <2>1, FinishIsEnd, GotoFields DEF SameRequest, SameGains
  <2> HIDE DEF s
  <2> QED
    BY <2>1, <2>2, <2>3, GotoKeeps
<1> QED
  BY <1>2, <1>3, <1>4, <1>5

-----------------------------------------------------------------------------
(***************************************************************************)
(* Identifying an ordinary Codex.                                          *)
(***************************************************************************)
\* A step that moves the pane too, and after which no prompt is sent yet.
LEMMA MovingKeeps ==
    ASSUME Inv, PanesTypeOK', Goes(pane[Tgt], pane'[Tgt]), UNCHANGED promptVars,
           NEW s \in AllSteps, Goto(s), req.pc \notin EndSteps,
           s \notin EndSteps \/ s = Finish, s # "send", FlowInv'
    PROVE  Inv'
<1>1. TypeOK /\ req \in ReqType
  BY ReqIsTyped DEF Inv
<1>2. req' \in ReqType /\ SameRequest /\ SameGains /\ req'.pc = s /\ req'.who = req.who
      /\ req'.prefix = req.prefix
  BY <1>1 DEF Goto, ReqType, SameRequest, SameGains
<1>3. TypeOK'
  BY <1>1, <1>2, TypesGoOn DEF promptVars, TypeOK
<1>4. ReportInv'
  BY <1>2, ReportsGoOn DEF promptVars, SameGains, GoesOn
<1>5. PaneInv'
  BY <1>2, PaneGoesOn
<1> QED
  BY <1>3, <1>4, <1>5 DEF Inv

LEMMA DiscoverKeeps ==
    ASSUME Inv, Discover
    PROVE  Inv'
<1> USE Names
<1>0. TypeOK /\ FlowInv /\ req \in ReqType /\ pane[Tgt] \in PaneType
  BY ReqIsTyped, FieldTypes DEF Inv, TypeOK, PanesTypeOK
<1>1. PICK full \in BOOLEAN : req' = [req EXCEPT !.prefix = Shown, !.pc = Identified(full)]
  BY DEF Discover
<1>2. /\ req.pc = "discover" /\ Keeps /\ Shown # NoThread /\ (req.op = "fork" => Shown # Old)
      /\ pane[Tgt].prog = "managed"
  BY DEF Discover, Verified
<1>3. Shown \in OptThread
  BY <1>0, FieldTypes DEF Shown, TypeOK, PanesTypeOK
<1>4. /\ Identified(full) \in {"bind", "resolve", "sourceAgain", "observe"}
      /\ Identified(full) = "sourceAgain" => req.op = "fork" /\ req.prompted
  BY DEF Identified
<1>5. Attaching(pane[Tgt])
  <2>1. pane[Tgt].bound # NoThread \/ pane[Tgt].thread # NoThread
    BY <1>2 DEF Shown
  <2> QED
    BY <1>2, <2>1, BoundIsAttached DEF Inv, PaneInv, Fits, Attaching
<1> HIDE DEF Identified, Shown
<1>6. /\ req' \in ReqType /\ SameRequest /\ SameGains /\ req'.pc = Identified(full)
      /\ req'.who = req.who /\ req'.prefix = Shown /\ req'.prior = req.prior
  BY <1>0, <1>1, <1>3, <1>4 DEF ReqType, SameRequest, SameGains, AllSteps, StartSteps
<1>7. FlowInv'
  BY <1>0, <1>2, <1>4, <1>6 DEF SameRequest, SameGains
<1> QED
  BY <1>2, <1>4, <1>5, <1>6, <1>7, LookingKeeps DEF GoesOn

LEMMA BindingKeeps ==
    ASSUME Inv, Resolve \/ Bind \/ Bound
    PROVE  Inv'
<1> USE Names
<1>0. TypeOK /\ FlowInv /\ req \in ReqType /\ pane[Tgt] \in PaneType /\ PanesTypeOK
  BY ReqIsTyped, FieldTypes DEF Inv, TypeOK, PanesTypeOK
<1>1. CASE Resolve
  <2>1. Goto("bind") /\ Keeps /\ req.pc = "resolve" /\ "bind" \in AllSteps
    BY <1>1 DEF Resolve, AllSteps, StartSteps
  <2>2. FlowInv'
    BY <1>0, <2>1, GotoFields DEF SameRequest, SameGains
  <2> QED
    BY <2>1, <2>2, GotoKeeps
<1>2. CASE Bind
  <2>1. /\ req.pc = "bind" /\ pane[Tgt].prog = "managed" /\ ReportSession(Tgt, req.prefix)
        /\ UNCHANGED <<procs, touches, promptVars>> /\ req.prefix \in Threads
        /\ Goto("bound") \/ Failing
    BY <1>0, <1>2, ReqFields DEF Bind, MayBind, Verified, Then, OptThread
  <2>2. pane[Tgt].thread # NoThread
    BY <1>0, <2>1 DEF Inv, PaneInv, Attaching
  <2>3. PanesTypeOK' /\ Goes(pane[Tgt], pane'[Tgt])
    BY <1>0, <2>1, <2>2, Redrawn, OneGoes DEF ReportSession, PanesTypeOK, Tui, Kit
  <2>4. CASE Goto("bound")
    <3>1. FlowInv'
      BY <1>0, <2>1, <2>4, GotoFields DEF SameRequest, SameGains
    <3> QED
      BY <2>1, <2>3, <2>4, <3>1, MovingKeeps DEF AllSteps, StartSteps
  <2>5. CASE Failing
    BY <2>1, <2>3, <2>5, FailingKeeps
  <2> QED
    BY <2>1, <2>4, <2>5
<1>3. CASE Bound
  <2> DEFINE s == IF req.state = "acknowledged" THEN IF req.focus THEN "focus" ELSE Finish
                  ELSE IF req.op = "fork" THEN "sourceAgain" ELSE "observe"
  <2>1. /\ req.pc = "bound" /\ Keeps
        /\ req' = [req EXCEPT !.who = req.prefix, !.prefix = NoThread, !.pc = s]
    BY <1>3 DEF Bound
  <2>2. s \in {"focus", "stop", "done", "sourceAgain", "observe"}
        /\ (s \in EndSteps => s = Finish) /\ s \in AllSteps
    BY FinishIsEnd DEF AllSteps, StartSteps
  <2>3. /\ s \in {"focus", "stop", "done"} => req.state = "acknowledged"
        /\ s \in {"sourceAgain", "observe"} => req.state # "acknowledged"
        /\ s = "sourceAgain" => req.op = "fork"
        /\ s = "stop" => req.own
    BY FinishIsEnd
  <2> HIDE DEF s
  <2>4. /\ req' \in ReqType /\ SameRequest /\ SameGains /\ req'.pc = s
        /\ req'.who = req.prefix /\ req'.prefix = NoThread /\ req'.prior = req.prior
    BY <1>0, <2>1, <2>2 DEF ReqType, SameRequest, SameGains
  <2>5. FlowInv'
    BY <1>0, <2>1, <2>2, <2>3, <2>4 DEF SameRequest, SameGains
  <2>6. s # "send" /\ GoesOn /\ Named
    BY <1>0, <2>1, <2>2, <2>4 DEF GoesOn, Finish, SameRequest
  <2> QED
    BY <2>1, <2>4, <2>5, <2>6, LookingKeeps
<1> QED
  BY <1>1, <1>2, <1>3

-----------------------------------------------------------------------------
(***************************************************************************)
(* The three looks.                                                        *)
(***************************************************************************)
LEMMA LooksKeep ==
    ASSUME Inv, Observe \/ Settled \/ Last
    PROVE  Inv'
<1> USE Names
<1>0. TypeOK /\ FlowInv /\ req \in ReqType /\ pane[Tgt] \in PaneType
      /\ pane[Tgt].pid \in Nat /\ touches \in 0..MaxTouches
  BY ReqIsTyped, FieldTypes DEF Inv, TypeOK, PanesTypeOK
<1>1. CASE Observe
  <2>1. req.pc = "observe" /\ Keeps /\ req' = [req EXCEPT !.pc = "settled", !.pid = pane[Tgt].pid]
    BY <1>1 DEF Observe, Keeps
  <2>2. /\ req' \in ReqType /\ SameRequest /\ SameGains /\ req'.pc = "settled"
        /\ req'.who = req.who /\ req'.prefix = req.prefix /\ req'.prior = req.prior
    BY <1>0, <2>1 DEF ReqType, SameRequest, SameGains, AllSteps
  <2>3. FlowInv'
    BY <1>0, <2>1, <2>2 DEF SameRequest, SameGains
  <2> QED
    BY <2>1, <2>2, <2>3, LookingKeeps DEF GoesOn
<1>2. CASE Settled
  <2>1. req.pc = "settled" /\ Keeps /\ Goto("last") /\ "last" \in AllSteps
    BY <1>2 DEF Settled, Keeps, AllSteps
  <2>2. FlowInv'
    BY <1>0, <2>1, GotoFields DEF SameRequest, SameGains
  <2> QED
    BY <2>1, <2>2, GotoKeeps
<1>3. CASE Last
  <2>1. /\ req.pc = "last" /\ Keeps /\ req' = [req EXCEPT !.pc = "send", !.looked = touches]
        /\ Observed
    BY <1>3 DEF Last, Keeps
  <2>2. /\ req' \in ReqType /\ SameRequest /\ SameGains /\ req'.pc = "send"
        /\ req'.who = req.who /\ req'.prefix = req.prefix /\ req'.prior = req.prior
        /\ req'.looked = touches
    BY <1>0, <2>1 DEF ReqType, SameRequest, SameGains, AllSteps
  <2>3. FlowInv'
    BY <1>0, <2>1, <2>2 DEF SameRequest, SameGains
  <2>4. Untouched(Tgt) /\ (req.kind = "omp" => pane[Tgt].thread = req.who)
    BY <2>1 DEF Observed, NativeReady, Untouched, Quiet, Verified, BoundTo, ComposerEmpty, OmpIdle,
                Tui, Kit
  <2>5. LookHolds'
    BY <1>0, <2>1, <2>2, <2>4 DEF LookHolds, Untouched, Quiet, Keeps, paneVars, SameRequest
  <2> QED
    BY <2>1, <2>2, <2>3, <2>5, LookingKeeps DEF GoesOn
<1> QED
  BY <1>1, <1>2, <1>3

-----------------------------------------------------------------------------
(***************************************************************************)
(* The prompt, and the focus.                                              *)
(***************************************************************************)
\* The prompt arrives in the TUI that was looked at.
LEMMA Arriving ==
    ASSUME Inv, Arrives, req.pc = "send"
    PROVE  /\ pane' \in [Panes -> PaneType] /\ Fits(pane'[Tgt]) /\ Attaching(pane'[Tgt])
           /\ received' \in [OptThread -> Nat] /\ Arrived(1)'
<1> USE Names
<1>0. TypeOK /\ FlowInv /\ pane[Tgt] \in PaneType /\ Arrived(0)
  <2>1. req.state = "notAttempted"
    BY DEF Inv
  <2> QED
    BY <2>1, FieldTypes DEF Inv, TypeOK, PanesTypeOK, ReportInv, PromptsCounted
<1> DEFINE b == [pane[Tgt] EXCEPT !.busy = TRUE]
           x == [b EXCEPT !.draft = "empty"]
<1>1. b \in PaneType /\ Goes(pane[Tgt], b)
  BY <1>0, Redrawn
<1>2. x \in PaneType /\ Goes(b, x)
  BY <1>1, Redrawn
<1>3. Update(Tgt, x)
  BY <1>0 DEF Arrives, PaneType
<1>4. Fits(pane[Tgt]) /\ Attaching(pane[Tgt])
  BY <1>0 DEF Inv, PaneInv
<1> HIDE DEF x, b
<1>5. pane' \in [Panes -> PaneType] /\ pane'[Tgt] = x
  BY <1>0, <1>2, <1>3, OnePane DEF TypeOK, PanesTypeOK
<1>6. Fits(pane'[Tgt]) /\ Attaching(pane'[Tgt])
  BY <1>1, <1>2, <1>4, <1>5 DEF Goes
<1>7. pane[Tgt].thread \in Threads
  BY <1>0, <1>4, FieldTypes DEF Arrives, Fits, Attaching, Tui, Kit, TypeOK, PanesTypeOK, OptThread
<1> DEFINE u == pane[Tgt].thread
<1>8. received = [v \in OptThread |-> 0]
  BY <1>0 DEF Arrived
<1>9. received' = [v \in OptThread |-> IF v = u THEN 1 ELSE 0]
  BY <1>7, <1>8 DEF Arrives
<1> HIDE DEF u
<1>10. u \in Threads
  BY <1>7 DEF u
<1> QED
  BY <1>5, <1>6, <1>9, <1>10 DEF Arrived

LEMMA SendKeeps ==
    ASSUME Inv, Send
    PROVE  Inv'
<1> USE Names
<1>0. /\ TypeOK /\ FlowInv /\ ReportInv /\ req \in ReqType /\ req.pc = "send"
      /\ req.state = "notAttempted" /\ req.err = {} /\ Arrived(0)
      /\ Fits(pane[Tgt]) /\ Attaching(pane[Tgt])
  BY ReqIsTyped DEF Inv, ReportInv, PromptsCounted, PaneInv, Send
<1>1. UNCHANGED <<procs, touches, server, sessions>>
  BY DEF Send
\* Not written, or written and lost to the kit.
<1>2. ASSUME NEW state \in {"notSent", "unknown"}, req' = Sent(state), PanesTypeOK',
             received' \in [OptThread -> Nat], state = "notSent" => Arrived(0)',
             Fits(pane'[Tgt]) /\ Attaching(pane'[Tgt])
      PROVE  Inv'
  <2> DEFINE r == Failed(Finish)
  <2>1. /\ Kin(r) /\ r.pc = Finish /\ r.prior = {} /\ r.prefix = NoThread
        /\ r.err = {"failed"} \cup Uncertain
    <3>1. Finish \in AllSteps
      BY FinishIsEnd DEF AllSteps, StartSteps
    <3> QED
      BY <1>0, <3>1, FailedFields
  <2>2. req' = [r EXCEPT !.state = state]
    BY <1>2 DEF Sent
  <2> HIDE DEF r
  <2>3. /\ req' \in ReqType /\ SameRequest /\ req'.pc = Finish /\ req'.prior = {}
        /\ req'.prefix = NoThread /\ req'.state = state /\ req'.who = req.who
        /\ req'.created = req.created /\ req'.session = req.session
        /\ req'.err = {"failed"} \cup Uncertain
    BY <2>1, <2>2 DEF Kin, ReqType, States, SameRequest
  <2>4. TypeOK'
    BY <1>0, <1>1, <1>2, <2>3, TypesGoOn DEF TypeOK
  <2>5. FlowInv'
    BY <1>0, <2>3, FinishIsEnd DEF SameRequest
  <2>6. Kept'
    BY <1>2, <2>3 DEF Kept
  <2>7. PaneReported' /\ SessionReported'
    BY <2>6 DEF PaneReported, SessionReported
  <2>8. ForkReported'
    BY <1>0, <1>1, <2>3 DEF ReportInv, ForkReported, SameRequest, Uncertain
  <2>9. ServerReported'
    BY <1>1, <2>3 DEF ServerReported, SameRequest, Finish
  <2>10. PromptsCounted'
    BY <1>2, <2>3 DEF PromptsCounted
  <2>11. PaneInv'
    BY <1>2, <2>3, FinishIsEnd DEF PaneInv
  <2> QED
    BY <2>4, <2>5, <2>7, <2>8, <2>9, <2>10, <2>11 DEF Inv, ReportInv
<1>3. CASE UNCHANGED <<pane, received>> /\ \E state \in {"notSent", "unknown"} : req' = Sent(state)
  BY <1>0, <1>1, <1>2, <1>3 DEF TypeOK, PanesTypeOK, Arrived
<1>4. CASE Arrives /\ req' = Sent("unknown")
  BY <1>0, <1>1, <1>2, <1>4, Arriving DEF TypeOK, PanesTypeOK
<1>5. CASE Arrives /\ req' = Sent("acknowledged")
  <2>1. /\ PanesTypeOK' /\ Fits(pane'[Tgt]) /\ Attaching(pane'[Tgt])
        /\ received' \in [OptThread -> Nat] /\ Arrived(1)'
    BY <1>0, <1>1, <1>5, Arriving DEF TypeOK, PanesTypeOK
  <2>2. req' = [req EXCEPT !.state = "acknowledged", !.pc = Delivered]
    BY <1>5 DEF Sent
  <2>3. /\ Delivered \in {"resolve", "focus", "stop", "done"} /\ Delivered \in AllSteps
        /\ Delivered = "resolve" <=> req.prefix # NoThread
        /\ Delivered \in {"stop", "done"} => Delivered = Finish
        /\ Delivered = "stop" => req.own
    BY FinishIsEnd DEF Delivered, AllSteps, StartSteps
  <2>4. /\ req' \in ReqType /\ SameRequest /\ req'.pc = Delivered /\ req'.state = "acknowledged"
        /\ req'.who = req.who /\ req'.prefix = req.prefix /\ req'.prior = req.prior
        /\ req'.created = req.created /\ req'.session = req.session
        /\ req'.err = req.err /\ req'.kept = req.kept
    BY <1>0, <2>2, <2>3 DEF ReqType, States, SameRequest
  <2>5. TypeOK'
    BY <1>0, <1>1, <2>1, <2>4, TypesGoOn DEF TypeOK
  <2>6. FlowInv'
    BY <1>0, <2>3, <2>4 DEF SameRequest
  <2>7. Kept' /\ PaneReported' /\ SessionReported'
    BY <1>0, <2>4 DEF Kept, PaneReported, SessionReported
  <2>8. ForkReported'
    BY <1>0, <1>1, <2>4 DEF ReportInv, ForkReported, SameRequest
  <2>9. ServerReported'
    BY <1>1, <2>3, <2>4 DEF ServerReported, SameRequest, Finish
  <2>10. PromptsCounted'
    BY <2>1, <2>4 DEF PromptsCounted
  <2>11. PaneInv'
    BY <2>1, <2>3, <2>4 DEF PaneInv
  <2> QED
    BY <2>5, <2>6, <2>7, <2>8, <2>9, <2>10, <2>11 DEF Inv, ReportInv
<1> QED
  BY <1>3, <1>4, <1>5 DEF Send

LEMMA FocusKeeps ==
    ASSUME Inv, Focus \/ Focused
    PROVE  Inv'
<1> USE Names
<1>0. TypeOK /\ FlowInv /\ PanesTypeOK
  BY DEF Inv, TypeOK
<1>1. CASE Focus
  <2>1. /\ req.pc = "focus" /\ TakeFocus(Tgt) /\ UNCHANGED <<procs, touches, promptVars>>
        /\ Goto(IF req.op = "fork" THEN "focused" ELSE Finish) \/ Failing
    BY <1>1 DEF Focus
  <2>2. PanesTypeOK' /\ Goes(pane[Tgt], pane'[Tgt])
    BY <1>0, <2>1, FocusGoes DEF PanesTypeOK
  <2>3. CASE Goto(IF req.op = "fork" THEN "focused" ELSE Finish)
    <3> DEFINE s == IF req.op = "fork" THEN "focused" ELSE Finish
    <3>1. /\ s \in {"focused", "stop", "done"} /\ (s \in {"stop", "done"} => s = Finish)
          /\ s \in AllSteps /\ (s = "focused" => req.op = "fork") /\ (s = "stop" => req.own)
          /\ Goto(s)
      BY <2>3, FinishIsEnd DEF AllSteps, StartSteps
    <3> HIDE DEF s
    <3>2. FlowInv'
      BY <1>0, <2>1, <3>1, GotoFields DEF SameRequest, SameGains
    <3> QED
      BY <2>1, <2>2, <3>1, <3>2, MovingKeeps
  <2>4. CASE Failing
    BY <2>1, <2>2, <2>4, FailingKeeps
  <2> QED
    BY <2>1, <2>3, <2>4
<1>2. CASE Focused
  <2>1. /\ req.pc = "focused" /\ Goto(Finish) /\ Keeps /\ Finish \in AllSteps
    BY <1>2, FinishIsEnd DEF Focused, AllSteps, StartSteps
  <2>2. FlowInv'
    BY <1>0, <2>1, FinishIsEnd, GotoFields DEF SameRequest, SameGains
  <2> QED
    BY <2>1, <2>2, FinishIsEnd, GotoKeeps
<1> QED
  BY <1>1, <1>2

-----------------------------------------------------------------------------
(***************************************************************************)
(* What a request creates.                                                 *)
(***************************************************************************)
\* What Failed(s) makes of a request.
FailsTo(s) ==
    /\ Kin(req') /\ req'.pc = s /\ req'.prior = {} /\ req'.prefix = NoThread
    /\ req'.err = req.err \cup {"failed"} \cup Uncertain

LEMMA FailsToFields ==
    ASSUME TypeOK, NEW s \in AllSteps, req' = Failed(s)
    PROVE  FailsTo(s) /\ req' \in ReqType /\ SameRequest
BY FailedFields DEF FailsTo, Kin, SameRequest

LEMMA ServerKeeps ==
    ASSUME Inv, Spawn \/ Proof
    PROVE  Inv'
<1> USE Names
<1>0. TypeOK /\ FlowInv /\ ReportInv /\ req \in ReqType
  BY ReqIsTyped DEF Inv
<1>1. CASE Spawn
  <2>1. /\ req.pc = "spawn" /\ Goto("proof") /\ server' = "running"
        /\ UNCHANGED <<pane, procs, touches, sessions, received>>
    BY <1>1 DEF Spawn, paneVars
  <2>2. req' \in ReqType
    BY <1>0, <2>1 DEF Goto, ReqType, AllSteps, StartSteps
  <2>3. /\ SameRequest /\ SameGains /\ req'.pc = "proof" /\ req'.who = req.who
        /\ req'.prefix = req.prefix /\ req'.prior = req.prior
    BY <1>0, <2>1, GotoFields
  <2>4. TypeOK'
    BY <1>0, <2>1, <2>2, TypesGoOn DEF TypeOK, PanesTypeOK
  <2>5. FlowInv'
    BY <1>0, <2>1, <2>3 DEF SameRequest, SameGains
  <2>6. ReportInv'
    BY <2>1, <2>3, ReportsGoOn DEF SameGains, GoesOn
  <2>7. PaneInv'
    BY <2>1, <2>3, Still, PaneGoesOn
  <2> QED
    BY <2>4, <2>5, <2>6, <2>7 DEF Inv
<1>2. CASE Proof
  <2>1. req.pc = "proof" /\ Keeps
    BY <1>2 DEF Proof
  <2>2. CASE server = "gone"
    <3>1. FailsTo("done") /\ req' \in ReqType /\ SameRequest
      BY <1>0, <1>2, <2>2, FailsToFields DEF Proof, AllSteps, StartSteps
    <3>2. UNCHANGED <<pane, procs, touches, server, sessions, received>>
      BY <2>1 DEF Keeps, paneVars, promptVars
    <3>3. TypeOK'
      BY <1>0, <3>1, <3>2, TypesGoOn DEF TypeOK, PanesTypeOK
    <3>4. FlowInv'
      BY <1>0, <2>1, <3>1 DEF FailsTo, Kin
    <3>5. /\ ~req'.created /\ req'.session = NoThread /\ req'.op # "fork" /\ server' = "gone"
          /\ req'.state = req.state
      BY <1>0, <2>1, <2>2, <3>1, <3>2 DEF FailsTo, Kin
    <3>6. ReportInv'
      BY <1>0, <3>2, <3>3, <3>5 DEF ReportInv, PaneReported, SessionReported, ForkReported,
            ServerReported, PromptsCounted, Arrived, TypeOK
    <3>7. PaneInv'
      BY <3>1, <3>2, Still, PaneGoesOn DEF FailsTo, Kin
    <3> QED
      BY <3>3, <3>4, <3>6, <3>7 DEF Inv
  <2>3. CASE server # "gone"
    <3>1. Goto("create") /\ "create" \in AllSteps
      BY <1>2, <2>3 DEF Proof, AllSteps, StartSteps
    <3>2. FlowInv'
      BY <1>0, <2>1, <3>1, GotoFields DEF SameRequest, SameGains
    <3> QED
      BY <2>1, <3>1, <3>2, GotoKeeps
  <2> QED
    BY <2>2, <2>3
<1> QED
  BY <1>1, <1>2

LEMMA CreatingKeeps ==
    ASSUME Inv, Create \/ NativeFork
    PROVE  Inv'
<1> USE Names
<1>0. TypeOK /\ FlowInv /\ ReportInv /\ req \in ReqType /\ sessions \subseteq Threads
  BY ReqIsTyped DEF Inv, TypeOK
<1>1. /\ UNCHANGED <<pane, procs, touches, server, received>> /\ sessions' \subseteq Threads
      /\ req.pc \in {"create", "native"}
  BY <1>0 DEF Create, NativeFork, paneVars
\* The conversation is known, ...
<1>2. ASSUME NEW s \in {"launch", "sourceAfter"}, req' = [req EXCEPT !.session = Child, !.pc = s],
             s = "sourceAfter" => req.op = "fork"
      PROVE  Inv'
  <2>1. /\ req' \in ReqType /\ SameRequest /\ req'.pc = s /\ req'.session = Child
        /\ req'.created = req.created /\ req'.state = req.state /\ req'.err = req.err
        /\ req'.kept = req.kept
        /\ req'.who = req.who /\ req'.prefix = req.prefix /\ req'.prior = req.prior
    BY <1>0, <1>2 DEF ReqType, AllSteps, StartSteps, SameRequest
  <2>2. TypeOK'
    BY <1>0, <1>1, <2>1, TypesGoOn DEF TypeOK, PanesTypeOK
  <2>3. FlowInv'
    BY <1>0, <1>1, <1>2, <2>1 DEF SameRequest
  <2>4. req.err = {} /\ Kept'
    BY <1>0, <1>1, <2>1 DEF Kept
  <2>5. PaneReported' /\ SessionReported' /\ ServerReported'
    BY <2>1 DEF PaneReported, SessionReported, ServerReported
  <2>6. ForkReported'
    BY <1>2, <2>1 DEF ForkReported
  <2>7. PromptsCounted'
    BY <1>0, <1>1, <2>1 DEF ReportInv, PromptsCounted, Arrived
  <2>8. PaneInv'
    BY <1>1, <2>1, Still, PaneGoesOn
  <2> QED
    BY <2>2, <2>3, <2>5, <2>6, <2>7, <2>8 DEF Inv, ReportInv
\* ... or the answer is lost, ...
<1>3. CASE Failing /\ (Create \/ UNCHANGED sessions)
  <2>1. req.op = "fork" => UNCHANGED sessions
    BY <1>0, <1>3 DEF Create
  <2>2. req' \in ReqType /\ FlowInv' /\ ReportInv' /\ (Named' => Named) /\ req'.pc # "send"
    BY <1>1, <1>3, <2>1, FailureReports
  <2>3. TypeOK'
    BY <1>0, <1>1, <2>2, TypesGoOn DEF TypeOK, PanesTypeOK
  <2>4. PaneInv'
    BY <1>1, <2>2, Still, PaneGoesOn
  <2> QED
    BY <2>2, <2>3, <2>4 DEF Inv
\* ... which a fork cannot undo.
<1>4. CASE NativeFork /\ req' = [Failed(Finish) EXCEPT !.err = @ \cup {"uncertain"}]
  <2> DEFINE r == Failed(Finish)
  <2>1. /\ Kin(r) /\ r.pc = Finish /\ r.prior = {} /\ r.prefix = NoThread
        /\ r.err = req.err \cup {"failed"} \cup Uncertain
    BY <1>0, FailedFields, FinishIsEnd DEF AllSteps, StartSteps
  <2>2. req.pc = "native" /\ req.op = "fork" /\ req.own = FALSE /\ Finish = "done"
    BY <1>0, <1>4, ReqFields DEF NativeFork, Finish
  <2>3. req' = [r EXCEPT !.err = @ \cup {"uncertain"}]
    BY <1>4
  <2> HIDE DEF r
  <2>4. r.err \in SUBSET Errors /\ "uncertain" \in Errors
    BY <2>1 DEF Kin, ReqType, Errors
  <2>5. /\ req' \in ReqType /\ SameRequest /\ req'.pc = "done" /\ req'.prior = {}
        /\ req'.prefix = NoThread /\ req'.who = req.who /\ req'.session = req.session
        /\ req'.created = req.created /\ req'.state = req.state
        /\ "failed" \in req'.err /\ "uncertain" \in req'.err
    BY <2>1, <2>2, <2>3, <2>4 DEF Kin, ReqType, SameRequest
  <2>6. TypeOK'
    BY <1>0, <1>1, <2>5, TypesGoOn DEF TypeOK, PanesTypeOK
  <2>7. FlowInv'
    BY <1>0, <2>2, <2>5 DEF SameRequest
  <2>8. ~req'.created /\ req'.op = "fork" /\ req'.own = FALSE
    BY <1>0, <2>2, <2>5 DEF SameRequest
  <2>9. ReportInv'
    BY <1>0, <1>1, <2>5, <2>8 DEF ReportInv, PaneReported, SessionReported, ForkReported,
          ServerReported, PromptsCounted, Arrived
  <2>10. PaneInv'
    BY <1>1, <2>5, Still, PaneGoesOn
  <2> QED
    BY <2>6, <2>7, <2>9, <2>10 DEF Inv
<1>5. CASE Create
  BY <1>2, <1>3, <1>5 DEF Create
<1>6. CASE NativeFork
  <2>1. req.op = "fork"
    BY <1>0, <1>6 DEF NativeFork
  <2> QED
    BY <1>2, <1>3, <1>4, <1>6, <2>1 DEF NativeFork
<1> QED
  BY <1>5, <1>6

LEMMA LaunchKeeps ==
    ASSUME Inv, Launch
    PROVE  Inv'
<1> USE Names
<1>0. /\ TypeOK /\ FlowInv /\ ReportInv /\ req \in ReqType /\ req.pc = "launch" /\ ~Named
      /\ PanesTypeOK /\ procs + 1 \in Nat
  BY ReqIsTyped DEF Inv, TypeOK, PanesTypeOK, Launch
<1>1. UNCHANGED <<touches, server, sessions, received>>
  BY DEF Launch, promptVars
<1>2. OpenShell(Tgt) \/ OpenRunning(Tgt, "managed")
  BY DEF Launch
<1>3. PanesTypeOK' /\ Fits(pane'[Tgt])
  <2>1. CASE OpenShell(Tgt)
    <3>1. Shell(procs + 1) \in PaneType
      BY <1>0, ShellTypes
    <3>2. pane' \in [Panes -> PaneType] /\ pane'[Tgt] = Shell(procs + 1) /\ procs' = procs + 1
      BY <1>0, <2>1, <3>1, OnePane DEF OpenShell, PanesTypeOK
    <3> QED
      BY <1>0, <1>1, <3>2 DEF PanesTypeOK, Fits, Shell
  <2>2. CASE OpenRunning(Tgt, "managed")
    <3> DEFINE x == Runs(Shell(0), "managed", procs + 1, NoThread)
    <3>1. x \in PaneType
      BY <1>0, ShellTypes, RunsTypes DEF Programs, Tui, Kit
    <3>2. Fits(x)
      BY DEF Fits, Runs, Shell
    <3>3. Update(Tgt, x) /\ procs' = procs + 1
      BY <2>2 DEF OpenRunning
    <3> HIDE DEF x
    <3>4. pane' \in [Panes -> PaneType] /\ pane'[Tgt] = x
      BY <1>0, <3>1, <3>3, OnePane DEF PanesTypeOK
    <3> QED
      BY <1>0, <1>1, <3>2, <3>3, <3>4 DEF PanesTypeOK
  <2> QED
    BY <1>2, <2>1, <2>2
<1>4. ASSUME NEW s \in {"origin", "exec"}, req' = [req EXCEPT !.pc = s, !.created = TRUE]
      PROVE  Inv'
  <2>1. /\ req' \in ReqType /\ SameRequest /\ req'.pc = s /\ req'.session = req.session
        /\ req'.state = req.state /\ req'.err = req.err /\ req'.kept = req.kept
        /\ req'.who = req.who /\ req'.prefix = req.prefix /\ req'.prior = req.prior
    BY <1>0, <1>4 DEF ReqType, AllSteps, StartSteps, SameRequest
  <2>2. TypeOK'
    BY <1>0, <1>1, <1>3, <2>1, TypesGoOn DEF TypeOK
  <2>3. FlowInv'
    BY <1>0, <1>4, <2>1 DEF SameRequest
  <2>4. ReportInv'
    BY <1>0, <1>1, <2>1, ReportsGoOn DEF GoesOn
  <2>5. PaneInv'
    BY <1>0, <1>3, <2>1 DEF PaneInv
  <2> QED
    BY <2>2, <2>3, <2>4, <2>5 DEF Inv
<1>5. CASE Failing
  <2>1. req' \in ReqType /\ FlowInv' /\ ReportInv' /\ (Named' => Named) /\ req'.pc # "send"
    BY <1>0, <1>1, <1>5, FailureReports DEF TypeOK
  <2>2. TypeOK'
    BY <1>0, <1>1, <1>3, <2>1, TypesGoOn DEF TypeOK
  <2>3. PaneInv'
    BY <1>0, <1>3, <2>1 DEF PaneInv
  <2> QED
    BY <2>1, <2>2, <2>3 DEF Inv
<1> QED
  BY <1>4, <1>5 DEF Launch

-----------------------------------------------------------------------------
(***************************************************************************)
(* The ways out.                                                           *)
(***************************************************************************)
\* A launch that fails closes its pane next.
LEMMA UndoingKeeps ==
    ASSUME Inv, req' = Failed("undo"), req.pc \in {"exec", "origin"}, PanesTypeOK',
           Fits(pane'[Tgt]), UNCHANGED promptVars
    PROVE  Inv'
<1>0. TypeOK /\ FlowInv /\ ReportInv
  BY DEF Inv
<1>1. FailsTo("undo") /\ req' \in ReqType /\ SameRequest
  BY <1>0, FailsToFields DEF AllSteps, StartSteps
<1>2. TypeOK'
  BY <1>0, <1>1, TypesGoOn DEF TypeOK, promptVars
<1>3. FlowInv'
  BY <1>0, <1>1, Names DEF FailsTo, Kin
<1>4. PaneReported' /\ SessionReported' /\ ServerReported'
  BY <1>1 DEF FailsTo, PaneReported, SessionReported, ServerReported
<1>5. ForkReported'
  BY <1>0, <1>1 DEF ReportInv, ForkReported, FailsTo, Kin, Uncertain, promptVars
<1>6. PromptsCounted'
  BY <1>0, <1>1 DEF ReportInv, PromptsCounted, FailsTo, Kin, Arrived, promptVars
<1>7. PaneInv'
  BY <1>0, <1>1, Names DEF FailsTo, Kin, PaneInv
<1> QED
  BY <1>2, <1>3, <1>4, <1>5, <1>6, <1>7 DEF Inv, ReportInv

LEMMA ExecKeeps ==
    ASSUME Inv, Exec \/ LaunchFails
    PROVE  Inv'
<1> USE Names
<1>0. TypeOK /\ FlowInv /\ PanesTypeOK /\ pane[Tgt] \in PaneType
  BY FieldTypes DEF Inv, TypeOK, PanesTypeOK
<1>1. CASE Exec
  <2>1. /\ req.pc = "exec" /\ pane[Tgt].prog = "shell" /\ TypeCommand(Tgt, "exec")
        /\ UNCHANGED <<procs, touches, promptVars>> /\ ~Named /\ Fits(pane[Tgt])
    BY <1>0, <1>1 DEF Exec, ShellReady, Verified, Inv, PaneInv
  <2>2. /\ PanesTypeOK' /\ Fits(pane'[Tgt])
        /\ pane'[Tgt].open = pane[Tgt].open /\ pane[Tgt].open
    <3> DEFINE x == CASE pane[Tgt].prog = "shell" /\ pane[Tgt].draft = "empty" ->
                           [pane[Tgt] EXCEPT !.queued = "exec"]
                      [] pane[Tgt].prog \in Tui -> [pane[Tgt] EXCEPT !.draft = "empty", !.busy = TRUE]
                      [] OTHER -> [pane[Tgt] EXCEPT !.draft = "empty"]
    <3>1. x \in PaneType /\ Fits(x) /\ x.open = pane[Tgt].open
      BY <1>0, <2>1 DEF PaneType, Fits, Tui, Kit
    <3>2. Update(Tgt, x) /\ pane[Tgt].open
      BY <1>1, <2>1 DEF TypeCommand, Exec, ShellReady, Verified
    <3> HIDE DEF x
    <3>3. pane' \in [Panes -> PaneType] /\ pane'[Tgt] = x
      BY <1>0, <3>1, <3>2, OnePane DEF PanesTypeOK
    <3> QED
      BY <1>0, <2>1, <3>1, <3>2, <3>3 DEF PanesTypeOK
  <2>4. CASE Goto("origin")
    <3>1. req' \in ReqType /\ SameRequest /\ SameGains /\ req'.pc = "origin" /\ ~Named'
          /\ req'.prior = req.prior /\ req'.who = req.who /\ req'.prefix = req.prefix
      <4>1. req' \in ReqType
        BY <1>0, <2>4, ReqIsTyped DEF Goto, ReqType, AllSteps, StartSteps
      <4> QED
        BY <1>0, <2>1, <2>4, <4>1, GotoFields
    <3>2. TypeOK'
      BY <1>0, <2>1, <2>2, <3>1, TypesGoOn DEF TypeOK, promptVars
    <3>3. FlowInv'
      BY <1>0, <2>1, <3>1 DEF SameRequest, SameGains
    <3>4. ReportInv'
      BY <2>1, <3>1, ReportsGoOn DEF SameGains, GoesOn, promptVars
    <3>5. PaneInv'
      BY <2>2, <3>1 DEF PaneInv
    <3> QED
      BY <3>2, <3>3, <3>4, <3>5 DEF Inv
  <2>5. CASE req' = Failed("undo")
    <3>1. req'.who = NoThread /\ req'.prefix = NoThread
      BY <1>0, <2>1, <2>5, FailsToFields DEF AllSteps, StartSteps, FailsTo, Kin
    <3> QED
      BY <2>1, <2>2, <2>5, <3>1, UndoingKeeps
  <2> QED
    BY <1>1, <2>4, <2>5 DEF Exec
<1>2. CASE LaunchFails
  BY <1>0, <1>2, UndoingKeeps DEF LaunchFails, Keeps, paneVars, PanesTypeOK, Inv, PaneInv
<1> QED
  BY <1>1, <1>2

LEMMA KeptKeeps ==
    ASSUME Inv, ChildIsKept
    PROVE  Inv'
<1> USE Names
<1>0. TypeOK /\ FlowInv /\ ReportInv /\ req \in ReqType
  BY ReqIsTyped DEF Inv
<1>1. /\ UNCHANGED <<pane, procs, touches, server, sessions, received>>
      /\ req.op = "fork" /\ req.own = FALSE /\ Finish = "done"
  BY <1>0, ReqFields DEF ChildIsKept, Keeps, paneVars, promptVars, Finish
<1> DEFINE r == Failed(Finish)
<1>2. /\ Kin(r) /\ r.pc = Finish /\ r.prior = {} /\ r.prefix = NoThread
      /\ r.err = req.err \cup {"failed"} \cup Uncertain
  BY <1>0, FailedFields, FinishIsEnd DEF AllSteps, StartSteps
<1>3. req' = [r EXCEPT !.kept = TRUE, !.err = @ \cup {"uncertain"}]
  BY DEF ChildIsKept
<1> HIDE DEF r
<1>4. r.err \in SUBSET Errors /\ "uncertain" \in Errors
  BY <1>2 DEF Kin, ReqType, Errors
<1>5. /\ req' \in ReqType /\ SameRequest /\ req'.pc = "done" /\ req'.prior = {}
      /\ req'.prefix = NoThread /\ req'.who = req.who /\ req'.session = req.session
      /\ req'.created = req.created /\ req'.state = req.state /\ req'.kept = TRUE
      /\ "failed" \in req'.err /\ "uncertain" \in req'.err
  BY <1>1, <1>2, <1>3, <1>4 DEF Kin, ReqType, SameRequest
<1>6. TypeOK'
  BY <1>0, <1>1, <1>5, TypesGoOn DEF TypeOK, PanesTypeOK
<1>7. FlowInv'
  BY <1>0, <1>1, <1>5 DEF SameRequest
<1>8. Kept' /\ req'.own = FALSE
  BY <1>1, <1>5 DEF Kept, SameRequest
<1>9. ReportInv'
  BY <1>0, <1>1, <1>5, <1>8 DEF ReportInv, PaneReported, SessionReported, ForkReported,
        ServerReported, PromptsCounted, Arrived
<1>10. PaneInv'
  BY <1>1, <1>5, Still, PaneGoesOn
<1> QED
  BY <1>6, <1>7, <1>9, <1>10 DEF Inv

\* One of the steps with which a failed request ends.
Ends(s, e) == req' = [req EXCEPT !.pc = s, !.err = e]

LEMMA EndsFields ==
    ASSUME TypeOK, NEW s \in AllSteps, NEW e \in SUBSET Errors, Ends(s, e)
    PROVE  /\ req' \in ReqType /\ SameRequest /\ req'.pc = s /\ req'.err = e
           /\ req'.created = req.created /\ req'.session = req.session /\ req'.state = req.state
           /\ req'.kept = req.kept /\ req'.who = req.who /\ req'.prefix = req.prefix
           /\ req'.prior = req.prior /\ req'.looked = req.looked
BY ReqIsTyped DEF Ends, ReqType, SameRequest

LEMMA EndsFlow ==
    ASSUME TypeOK, FlowInv, NEW s \in {"delete", "stop", "done"}, NEW e \in SUBSET Errors, Ends(s, e),
           req.pc \in {"undo", "close", "delete", "stop"}, req.err \subseteq e,
           s = "stop" => req.own, s = "delete" => req.op # "fork" /\ req.pc # "stop"
    PROVE  FlowInv' /\ req' \in ReqType
<1>1. s \in AllSteps
  BY DEF AllSteps, StartSteps
<1> QED
  BY <1>1, EndsFields DEF SameRequest

\* The step closes the pane or says that it did not, ...
LEMMA ClosingKeeps ==
    ASSUME Inv, Undo \/ Close
    PROVE  Inv'
<1> USE Names
<1>0. TypeOK /\ FlowInv /\ ReportInv /\ req \in ReqType /\ pane[Tgt] \in PaneType /\ PanesTypeOK
  BY ReqIsTyped, FieldTypes DEF Inv, TypeOK, PanesTypeOK
<1> DEFINE s == IF req.session # NoThread /\ req.op # "fork" THEN "delete" ELSE Finish
           e(closed) == IF closed THEN req.err ELSE req.err \cup {"cleanup"}
<1>1. PICK closed \in BOOLEAN :
          /\ (pane[Tgt].open /\ ClosePane(Tgt)) \/ (~closed /\ UNCHANGED pane)
          /\ Ends(s, e(closed))
  BY DEF Undo, Close, DeletesToo, Ends
<1>2. /\ req.pc \in {"undo", "close"} /\ UNCHANGED <<procs, touches, server, sessions, received>>
      /\ NotAttempted /\ "failed" \in req.err /\ ~req.kept
  BY <1>0 DEF Undo, Close, promptVars
<1>3. e(closed) \in SUBSET Errors /\ req.err \subseteq e(closed) /\ (~closed => "cleanup" \in e(closed))
  BY <1>0 DEF ReqType, Errors
<1>4. /\ s \in {"delete", "stop", "done"} /\ s \in AllSteps /\ (s = "stop" => req.own)
      /\ s = "delete" <=> req.session # NoThread /\ req.op # "fork"
      /\ s = "done" => ~req.own \/ server = "none"
  BY DEF AllSteps, StartSteps, Finish
<1> HIDE DEF s, e
<1>5. /\ req' \in ReqType /\ SameRequest /\ req'.pc = s /\ req'.err = e(closed)
      /\ req'.created = req.created /\ req'.session = req.session /\ req'.state = req.state
      /\ req'.kept = req.kept /\ req'.who = req.who /\ req'.prefix = req.prefix
  BY <1>0, <1>1, <1>3, <1>4, EndsFields
<1>6. /\ pane' \in [Panes -> PaneType] /\ Goes(pane[Tgt], pane'[Tgt])
      /\ closed => ~pane'[Tgt].open
  <2>1. CASE pane[Tgt].open /\ ClosePane(Tgt)
    <3>1. Absent \in PaneType /\ Goes(pane[Tgt], Absent) /\ ~Absent.open
      BY <1>0, Emptied
    <3> QED
      BY <1>0, <2>1, <3>1, OnePane DEF ClosePane, PanesTypeOK
  <2>2. CASE ~closed /\ UNCHANGED pane
    BY <1>0, <2>2, Still DEF PanesTypeOK
  <2> QED
    BY <1>1, <2>1, <2>2
<1>7. TypeOK'
  BY <1>0, <1>2, <1>5, <1>6, TypesGoOn DEF TypeOK, PanesTypeOK
<1>8. FlowInv'
  BY <1>0, <1>1, <1>2, <1>3, <1>4, EndsFlow
<1>9. PaneReported'
  BY <1>3, <1>5, <1>6 DEF PaneReported
<1>10. SessionReported'
  BY <1>0, <1>2, <1>4, <1>5 DEF SessionReported, SameRequest, TypeOK
<1>11. ForkReported'
  BY <1>0, <1>2, <1>3, <1>4, <1>5 DEF ReportInv, ForkReported, SameRequest
<1>12. ServerReported'
  BY <1>2, <1>4, <1>5 DEF ServerReported, SameRequest
<1>13. PromptsCounted'
  BY <1>0, <1>2, <1>5 DEF ReportInv, PromptsCounted, Arrived
<1>14. PaneInv'
  BY <1>4, <1>5, <1>6, PaneGoesOn
<1> QED
  BY <1>7, <1>8, <1>9, <1>10, <1>11, <1>12, <1>13, <1>14 DEF Inv, ReportInv

\* ... the next deletes the conversation or says that it did not, ...
LEMMA DeletingKeeps ==
    ASSUME Inv, Delete
    PROVE  Inv'
<1> USE Names
<1>0. /\ TypeOK /\ FlowInv /\ ReportInv /\ req \in ReqType /\ req.pc = "delete"
      /\ NotAttempted /\ "failed" \in req.err /\ ~req.kept /\ req.op # "fork"
  BY ReqIsTyped DEF Inv, Delete
<1> DEFINE e(deleted) == IF deleted THEN req.err ELSE req.err \cup {"session"}
<1>1. PICK deleted \in BOOLEAN :
          sessions' \in (IF deleted THEN {{}} ELSE {{}, sessions}) /\ Ends(Finish, e(deleted))
  BY DEF Delete, Ends
<1>2. UNCHANGED <<pane, procs, touches, server, received>>
  BY DEF Delete, paneVars
<1>3. /\ e(deleted) \in SUBSET Errors /\ req.err \subseteq e(deleted)
      /\ ~deleted => "session" \in e(deleted)
  BY <1>0 DEF ReqType, Errors
<1>4. /\ Finish \in {"stop", "done"} /\ Finish \in AllSteps /\ (Finish = "stop" => req.own)
      /\ Finish = "done" => ~req.own \/ server = "none"
  BY DEF AllSteps, StartSteps, Finish
<1> HIDE DEF e, Finish
<1>5. /\ req' \in ReqType /\ SameRequest /\ req'.pc = Finish /\ req'.err = e(deleted)
      /\ req'.created = req.created /\ req'.session = req.session /\ req'.state = req.state
      /\ req'.kept = req.kept /\ req'.who = req.who /\ req'.prefix = req.prefix
  BY <1>0, <1>1, <1>3, <1>4, EndsFields
<1>6. TypeOK'
  BY <1>0, <1>1, <1>2, <1>5, TypesGoOn DEF TypeOK, PanesTypeOK
<1>7. FlowInv'
  BY <1>0, <1>1, <1>3, <1>4, EndsFlow
<1>8. ~Kept
  BY <1>0 DEF Kept
<1>9. PaneReported'
  BY <1>0, <1>2, <1>3, <1>5, <1>8 DEF ReportInv, PaneReported
<1>10. SessionReported'
  BY <1>1, <1>3, <1>5 DEF SessionReported
<1>11. ForkReported'
  BY <1>0, <1>5 DEF ForkReported, SameRequest
<1>12. ServerReported'
  BY <1>2, <1>4, <1>5 DEF ServerReported, SameRequest
<1>13. PromptsCounted'
  BY <1>0, <1>2, <1>5 DEF ReportInv, PromptsCounted, Arrived
<1>14. PaneInv'
  BY <1>2, <1>4, <1>5, Still, PaneGoesOn
<1> QED
  BY <1>6, <1>7, <1>9, <1>10, <1>11, <1>12, <1>13, <1>14 DEF Inv, ReportInv

\* ... and the last stops the server or says that it did not.
LEMMA StoppingKeeps ==
    ASSUME Inv, Stop
    PROVE  Inv'
<1> USE Names
<1>0. /\ TypeOK /\ FlowInv /\ ReportInv /\ req \in ReqType /\ req.pc = "stop"
      /\ req.own /\ req.op # "fork"
  BY ReqIsTyped DEF Inv, Stop
<1> DEFINE e(stopped) == IF stopped THEN req.err ELSE req.err \cup {"server"}
<1>1. PICK stopped \in BOOLEAN :
          server' = (IF stopped THEN "gone" ELSE server) /\ Ends("done", e(stopped))
  BY DEF Stop, Ends
<1>2. UNCHANGED <<pane, procs, touches, sessions, received>>
  BY DEF Stop, paneVars
<1>3. /\ e(stopped) \in SUBSET Errors /\ req.err \subseteq e(stopped)
      /\ e(stopped) \subseteq req.err \cup {"server"}
      /\ ~stopped => "server" \in e(stopped)
  BY <1>0 DEF ReqType, Errors
<1> HIDE DEF e
<1>4. /\ req' \in ReqType /\ SameRequest /\ req'.pc = "done" /\ req'.err = e(stopped)
      /\ req'.created = req.created /\ req'.session = req.session /\ req'.state = req.state
      /\ req'.kept = req.kept /\ req'.who = req.who /\ req'.prefix = req.prefix
  BY <1>0, <1>1, <1>3, EndsFields DEF AllSteps, StartSteps
<1>5. TypeOK'
  BY <1>0, <1>1, <1>2, <1>4, TypesGoOn DEF TypeOK, PanesTypeOK
<1>6. FlowInv'
  BY <1>0, <1>1, <1>3, EndsFlow
<1>7. Kept => Kept'
  BY <1>3, <1>4 DEF Kept
<1>8. PaneReported' /\ SessionReported'
  BY <1>0, <1>2, <1>3, <1>4, <1>7 DEF ReportInv, PaneReported, SessionReported, SameRequest
<1>9. ForkReported'
  BY <1>0, <1>4 DEF ForkReported, SameRequest
<1>10. ServerReported'
  BY <1>1, <1>3, <1>4 DEF ServerReported
<1>11. PromptsCounted'
  BY <1>0, <1>2, <1>4 DEF ReportInv, PromptsCounted, Arrived
<1>12. PaneInv'
  BY <1>2, <1>4, Still, PaneGoesOn
<1> QED
  BY <1>5, <1>6, <1>8, <1>9, <1>10, <1>11, <1>12 DEF Inv, ReportInv

LEMMA FailsKeeps ==
    ASSUME Inv, Fails
    PROVE  Inv'
<1>1. req.pc \notin EndSteps
  BY DEF Fails
<1>2. UNCHANGED <<pane, procs, touches, promptVars>> /\ PanesTypeOK
  BY DEF Fails, Keeps, paneVars, Inv, TypeOK
<1> QED
  BY <1>1, <1>2, Still, FailingKeeps DEF Fails, PanesTypeOK

-----------------------------------------------------------------------------
(***************************************************************************)
(* The invariant holds, and with it what the runs check.                   *)
(***************************************************************************)
LEMMA InitInv ==
    Init => Inv
<1> SUFFICES ASSUME Init PROVE Inv
  OBVIOUS
<1> USE Names
<1>1. PICK r \in Requests :
           req = [op |-> r.op, kind |-> r.kind, prompted |-> r.prompted, focus |-> r.focus,
                  own |-> r.own, pc |-> First(r), created |-> FALSE, kept |-> FALSE,
                  who |-> NoThread, prefix |-> NoThread, session |-> NoThread, prior |-> {},
                  pid |-> 0, leader |-> 0, looked |-> 0, state |-> "notAttempted", err |-> {}]
  BY DEF Init
<1>2. /\ r \in [op : Ops, kind : Kinds, prompted : BOOLEAN, focus : BOOLEAN, own : BOOLEAN]
      /\ r.op = "start" => r.prompted
      /\ r.op = "new" => ~r.prompted /\ ~r.focus /\ r.kind # "codex"
      /\ r.own => r.kind = "opencode" /\ r.op # "fork"
  BY DEF Requests
<1>3. /\ First(r) \in {"baseline", "source", "spawn", "create", "launch"} /\ First(r) \in AllSteps
      /\ First(r) = "baseline" => r.op = "new"
      /\ First(r) = "source" => r.op = "fork"
      /\ First(r) \in {"spawn", "create"} => r.op # "fork" /\ r.kind = "opencode"
      /\ First(r) = "launch" => r.op = "start" /\ r.kind # "opencode"
  <2>1. r.op \in {"start", "new", "fork"} /\ r.own \in BOOLEAN
    BY <1>2 DEF Ops
  <2>2. CASE r.op = "new"
    BY <2>2 DEF First, AllSteps, StartSteps
  <2>3. CASE r.op = "fork"
    BY <2>3 DEF First, AllSteps, StartSteps
  <2>4. CASE r.op = "start"
    BY <2>1, <2>4 DEF First, AllSteps, StartSteps
  <2> QED
    BY <2>1, <2>2, <2>3, <2>4
<1> HIDE DEF First
<1>4. req \in ReqType
  BY <1>1, <1>2, <1>3 DEF ReqType, States
<1>5. PanesTypeOK
  <2> DEFINE x == [Runs(Shell(1), "codex", 2, Old) EXCEPT !.bound = Old]
  <2>1. Runs(Shell(1), "codex", 2, Old) \in PaneType
    BY ShellTypes, RunsTypes DEF Programs, Tui
  <2>2. x \in PaneType
    BY <2>1 DEF PaneType
  <2> HIDE DEF x
  <2>3. pane = [p \in Panes |-> IF p = Src THEN x ELSE Absent]
    BY DEF Init, x
  <2>4. Absent \in PaneType
    BY ShellTypes
  <2> QED
    BY <2>2, <2>3, <2>4 DEF Init, PanesTypeOK
<1>6. TypeOK
  BY <1>4, <1>5 DEF Init, TypeOK, ReqType, AllSteps
<1>7. FlowInv
  BY <1>1, <1>2, <1>3
<1>8. ReportInv
  BY <1>1, <1>3 DEF Init, ReportInv, PaneReported, SessionReported, ForkReported, ServerReported,
        PromptsCounted, Arrived
<1>9. PaneInv
  <2>1. pane[Tgt] = Absent
    BY DEF Init
  <2>2. Fits(pane[Tgt])
    BY <2>1 DEF Fits, Absent, Shell
  <2> QED
    BY <1>1, <1>3, <2>2 DEF PaneInv
<1> QED
  BY <1>6, <1>7, <1>8, <1>9 DEF Inv

LEMMA NextKeeps ==
    Inv /\ [Next]_vars => Inv'
<1> SUFFICES ASSUME Inv, [Next]_vars PROVE Inv'
  OBVIOUS
<1>1. CASE UNCHANGED vars
  <2>1. UNCHANGED <<pane, procs, touches, req, server, sessions, received>>
    BY <1>1 DEF vars, paneVars, promptVars
  <2>2. TypeOK' /\ FlowInv'
    BY <2>1 DEF Inv, TypeOK, PanesTypeOK
  <2>3. ReportInv'
    BY <2>1 DEF Inv, ReportInv, PaneReported, SessionReported, ForkReported, ServerReported,
                PromptsCounted, Kept, Arrived
  <2>4. PaneInv'
    BY <2>1 DEF Inv, PaneInv, LookHolds, Untouched, Quiet
  <2> QED
    BY <2>2, <2>3, <2>4 DEF Inv
<1>2. CASE ~Answered /\ World /\ UNCHANGED req
  BY <1>2, WorldKeeps
<1>3. CASE Baseline \/ ForkSource \/ Safe \/ SourceAfter \/ Origin
  BY <1>3, BeforeKeeps
<1>4. CASE Spawn \/ Proof
  BY <1>4, ServerKeeps
<1>5. CASE Create \/ NativeFork
  BY <1>5, CreatingKeeps
<1>6. CASE Launch
  BY <1>6, LaunchKeeps
<1>7. CASE Exec \/ LaunchFails
  BY <1>7, ExecKeeps
<1>8. CASE WaitForAgent \/ WaitForFresh \/ WaitForChild \/ SourceAgain
  BY <1>8, IdentifyingKeeps
<1>9. CASE Discover
  BY <1>9, DiscoverKeeps
<1>10. CASE Resolve \/ Bind \/ Bound
  BY <1>10, BindingKeeps
<1>11. CASE Deliver
  BY <1>11, LooksKeep, SendKeeps DEF Deliver
<1>12. CASE Focus \/ Focused
  BY <1>12, FocusKeeps
<1>13. CASE Fails
  BY <1>13, FailsKeeps
<1>14. CASE ChildIsKept
  BY <1>14, KeptKeeps
<1>15. CASE Undo \/ Close
  BY <1>15, ClosingKeeps
<1>16. CASE Delete
  BY <1>16, DeletingKeeps
<1>17. CASE Stop
  BY <1>17, StoppingKeeps
<1>18. CASE Rest
  BY <1>1, <1>18 DEF Rest
<1> QED
  BY <1>1, <1>2, <1>3, <1>4, <1>5, <1>6, <1>7, <1>8, <1>9, <1>10, <1>11, <1>12, <1>13, <1>14,
     <1>15, <1>16, <1>17, <1>18 DEF Next

-----------------------------------------------------------------------------
(***************************************************************************)
(* Which conversation is found, and where the prompt arrives, while nobody *)
(* interferes: at all, or with an OMP since the last look.                 *)
(***************************************************************************)
\* What the new pane may show then: a fork may show its source's first.
MayShow(t) == t \in {NoThread, Child} \/ (req.op = "fork" /\ t = Old)

CalmPane ==
    /\ MayShow(pane[Tgt].thread) /\ MayShow(pane[Tgt].bound)
    /\ pane[Tgt].bound = Child => pane[Tgt].thread = Child

CalmPrefix ==
    req.pc \notin EndSteps /\ req.prefix # NoThread =>
        req.prefix = Child /\ pane[Tgt].thread = Child

Acknowledged == req.state = "acknowledged"

CalmInv ==
    touches = 0 => /\ CalmPane /\ CalmPrefix
                   /\ req.who \in {NoThread, Child}
                   /\ Acknowledged => received[Child] = 1

OmpInv ==
    req.kind = "omp" /\ Acknowledged /\ req.err = {} /\ touches = req.looked =>
        received[req.who] = 1

TruthInv == req.looked <= touches /\ CalmInv /\ OmpInv

\* A step that leaves the touches and the count of the prompts alone.
LEMMA TruthGoesOn ==
    ASSUME TruthInv, UNCHANGED <<touches, received>>,
           req'.kind = req.kind, req'.state = req.state, req'.looked <= touches,
           touches = 0 => CalmPane' /\ CalmPrefix' /\ req'.who \in {NoThread, Child},
           req.kind = "omp" /\ Acknowledged /\ req'.err = {} =>
               req.err = {} /\ req'.who = req.who /\ req'.looked = req.looked
    PROVE  TruthInv'
BY DEF TruthInv, CalmInv, OmpInv, Acknowledged

\* The pane is as it was, or rather what it shows.
LEMMA CalmPaneStays ==
    ASSUME CalmPane, req'.op = req.op,
           pane'[Tgt].thread = pane[Tgt].thread, pane'[Tgt].bound = pane[Tgt].bound
    PROVE  CalmPane'
BY DEF CalmPane, MayShow

LEMMA CalmPaneEmpties ==
    ASSUME pane'[Tgt].thread = NoThread, pane'[Tgt].bound = NoThread
    PROVE  CalmPane'
BY Names DEF CalmPane, MayShow

\* A step on to s of a request that has not failed.
LEMMA GotoIsTrue ==
    ASSUME Inv, TruthInv, NEW s, Goto(s), UNCHANGED <<touches, received>>, req.pc \notin EndSteps,
           touches = 0 => CalmPane' /\ (s \notin EndSteps /\ req.prefix # NoThread =>
                                            pane'[Tgt].thread = pane[Tgt].thread)
    PROVE  TruthInv'
<1>1. /\ SameRequest /\ SameGains /\ req'.pc = s /\ req'.who = req.who
      /\ req'.prefix = req.prefix /\ req'.looked = req.looked
  BY GotoFields DEF Inv
<1>2. touches = 0 => CalmPrefix' /\ req'.who \in {NoThread, Child}
  BY <1>1 DEF TruthInv, CalmInv, CalmPrefix
<1> QED
  BY <1>1, <1>2, TruthGoesOn DEF TruthInv, SameRequest, SameGains

\* A failure: nothing is claimed of what was found.
LEMMA FailedIsTrue ==
    ASSUME Inv, TruthInv, UNCHANGED touches, req'.who = req.who, req'.looked = 0,
           req'.pc \in EndSteps, "failed" \in req'.err, touches = 0 => CalmPane',
           req'.state = "acknowledged" => Acknowledged /\ UNCHANGED received
    PROVE  TruthInv'
<1>1. touches \in Nat
  BY Names DEF Inv, TypeOK, PanesTypeOK
<1>2. touches = 0 => CalmPrefix'
  BY DEF CalmPrefix
<1> QED
  BY <1>1, <1>2 DEF TruthInv, CalmInv, OmpInv, Acknowledged

LEMMA FailingIsTrue ==
    ASSUME Inv, TruthInv, NEW after \in EndSteps, req' = Failed(after),
           UNCHANGED <<touches, received>>, touches = 0 => CalmPane'
    PROVE  TruthInv'
<1>1. after \in AllSteps
  BY DEF AllSteps, StartSteps
<1>2. Kin(req') /\ req'.pc = after /\ "failed" \in req'.err /\ req'.looked = 0
  BY <1>1, FailedFields DEF Inv
<1> QED
  BY <1>2, FailedIsTrue DEF Kin, Acknowledged

LEMMA AfterFailureEnds ==
    AfterFailure \in EndSteps /\ Finish \in EndSteps
BY DEF AfterFailure, Finish

\* A step that looks or fails, and one that moves nothing of the pane.
LEMMA KeepsIsTrue ==
    ASSUME Inv, TruthInv, UNCHANGED <<pane, touches, received>>, req.pc \notin EndSteps,
           (\E s : Goto(s)) \/ Failing
    PROVE  TruthInv'
<1>1. ASSUME touches = 0, req'.op = req.op PROVE CalmPane'
  BY <1>1, CalmPaneStays DEF TruthInv, CalmInv
<1>2. ASSUME NEW s, Goto(s) PROVE TruthInv'
  <2>1. req'.op = req.op
    BY <1>2, GotoFields DEF Inv, SameRequest
  <2> QED
    BY <1>1, <1>2, <2>1, GotoIsTrue
<1>3. CASE Failing
  <2>1. req'.op = req.op
    <3>1. AfterFailure \in AllSteps
      BY AfterFailureEnds DEF AllSteps, StartSteps
    <3> QED
      BY <1>3, <3>1, FailedFields DEF Failing, Kin, Inv
  <2> QED
    BY <1>1, <1>3, <2>1, AfterFailureEnds, FailingIsTrue DEF Failing
<1> QED
  BY <1>2, <1>3

\* What somebody does to a TUI, or it does by itself.
LEMMA WorldIsTrue ==
    ASSUME Inv, TruthInv, World, UNCHANGED req
    PROVE  TruthInv'
<1> USE Names
<1>1. /\ TypeOK /\ PanesTypeOK /\ pane[Tgt] \in PaneType
      /\ req.looked \in Nat /\ touches \in Nat /\ touches' \in Nat /\ touches' >= touches
      /\ UNCHANGED received
  BY WorldMoves, ReqFields, FieldTypes DEF Inv, TypeOK, PanesTypeOK, TargetMoves
<1>2. req.looked <= touches' /\ OmpInv'
  <2>1. touches' = req.looked => touches = req.looked
    BY <1>1 DEF TruthInv
  <2> QED
    BY <1>1, <2>1 DEF TruthInv, OmpInv, Acknowledged
<1>3. ASSUME touches' = 0 PROVE CalmPane' /\ CalmPrefix'
  <2>1. touches = 0 /\ CalmPane /\ CalmPrefix
    BY <1>1, <1>3 DEF TruthInv, CalmInv
  <2>2. ~Touch
    BY <1>1, <1>3 DEF Touch
  <2>3. CASE UNCHANGED <<pane[Tgt].thread, pane[Tgt].bound>>
    BY <2>1, <2>3, CalmPaneStays DEF CalmPrefix
  <2>4. CASE CommandStarts
    <3>1. pane[Tgt].queued # "none" /\ ~Named
      BY <2>4 DEF CommandStarts, Starts, Inv, PaneInv, Attaching
    <3>2. pane'[Tgt].thread = NoThread /\ pane'[Tgt].bound = NoThread
      BY <1>1, <2>4 DEF CommandStarts, Starts, Update, Runs, PanesTypeOK, PaneType
    <3> QED
      BY <3>1, <3>2, CalmPaneEmpties DEF CalmPrefix
  <2>5. ASSUME NEW t \in Threads, Shows(Tgt, t), MayShow(t), pane[Tgt].thread # Child
        PROVE  CalmPane' /\ CalmPrefix'
    <3>1. pane'[Tgt].thread = t /\ pane'[Tgt].bound = pane[Tgt].bound
      BY <1>1, <2>5 DEF Shows, Update, PanesTypeOK, PaneType
    <3> QED
      BY <2>1, <2>5, <3>1 DEF CalmPane, CalmPrefix, MayShow
  <2>6. CASE Attaches \/ Forks
    BY <2>5, <2>6 DEF Attaches, Forks, MayShow
  <2>7. ASSUME NEW p \in Panes, Notices(p) \/ TurnEnds(p)
        PROVE  CalmPane' /\ CalmPrefix'
    <3>1. CASE p # Tgt
      <4>1. pane'[Tgt] = pane[Tgt]
        BY <1>1, <2>7, <3>1 DEF Notices, TurnEnds, ReportSession, Update, PanesTypeOK
      <4> QED
        BY <2>3, <4>1
    <3>2. CASE p = Tgt /\ TurnEnds(p)
      <4>1. pane'[Tgt].thread = pane[Tgt].thread /\ pane'[Tgt].bound = pane[Tgt].bound
        BY <1>1, <3>2 DEF TurnEnds, Update, PanesTypeOK, PaneType
      <4> QED
        BY <2>3, <4>1
    <3>3. CASE p = Tgt /\ Notices(p)
      <4>1. pane'[Tgt].thread = pane[Tgt].thread /\ pane'[Tgt].bound = pane[Tgt].thread
        BY <1>1, <3>3 DEF Notices, ReportSession, Update, PanesTypeOK, PaneType
      <4> QED
        BY <2>1, <4>1 DEF CalmPane, CalmPrefix, MayShow
    <3> QED
      BY <2>7, <3>1, <3>2, <3>3
  <2>8. CASE ServerExits /\ UNCHANGED <<pane, procs, sessions, received>>
    BY <2>3, <2>8
  <2> QED
    BY <2>2, <2>4, <2>6, <2>7, <2>8
    DEF World, PersonTypes, PersonFocuses, ProgramEnds, PersonStarts, PersonCloses, PersonSwitches
<1> QED
  BY <1>1, <1>2, <1>3 DEF TruthInv, CalmInv, Acknowledged

\* What the kit does to the pane leaves the conversation, or there is none in it.
LEMMA PaneStaysCalm ==
    ASSUME Inv, Exec \/ Focus \/ Send
    PROVE  pane'[Tgt].thread = pane[Tgt].thread /\ pane'[Tgt].bound = pane[Tgt].bound
<1> USE Names
<1>1. pane \in [Panes -> PaneType] /\ pane[Tgt] \in PaneType
  BY FieldTypes DEF Inv, TypeOK, PanesTypeOK
<1>2. CASE Exec
  <2> DEFINE x == CASE pane[Tgt].prog = "shell" /\ pane[Tgt].draft = "empty" ->
                         [pane[Tgt] EXCEPT !.queued = "exec"]
                    [] pane[Tgt].prog \in Tui -> [pane[Tgt] EXCEPT !.draft = "empty", !.busy = TRUE]
                    [] OTHER -> [pane[Tgt] EXCEPT !.draft = "empty"]
  <2>1. x \in PaneType /\ x.thread = pane[Tgt].thread /\ x.bound = pane[Tgt].bound
    BY <1>1 DEF PaneType, Tui, Kit
  <2>2. Update(Tgt, x)
    BY <1>2 DEF Exec, TypeCommand
  <2> HIDE DEF x
  <2> QED
    BY <1>1, <2>1, <2>2, OnePane
<1>3. CASE Focus
  BY <1>1, <1>3 DEF Focus, TakeFocus, PaneType
<1>4. CASE Send
  BY <1>1, <1>4 DEF Send, Arrives, Update, PaneType
<1> QED
  BY <1>2, <1>3, <1>4

LEMMA StartIsTrue ==
    ASSUME Inv, TruthInv, Launch \/ Create \/ NativeFork \/ Baseline \/ Safe
    PROVE  TruthInv'
<1> USE Names
<1>1. /\ TypeOK /\ req \in ReqType /\ pane[Tgt] \in PaneType /\ PanesTypeOK
      /\ req.pc \notin EndSteps /\ (req.pc # "safe" => req.prefix = NoThread)
      /\ ~Named
  BY ReqIsTyped, FieldTypes DEF Inv, TypeOK, PanesTypeOK, Launch, Create, NativeFork, Baseline, Safe
<1>2. UNCHANGED <<touches, received>>
  BY DEF Launch, Create, NativeFork, Baseline, Safe, Keeps, promptVars, paneVars
<1>3. ASSUME touches = 0, req'.op = req.op PROVE CalmPane'
  <2>1. CASE UNCHANGED pane
    BY <1>3, <2>1, CalmPaneStays DEF TruthInv, CalmInv
  <2>2. CASE Launch
    <3>1. pane'[Tgt] = Shell(procs + 1) \/ pane'[Tgt] = Runs(Shell(0), "managed", procs + 1, NoThread)
      BY <1>1, <2>2 DEF Launch, OpenShell, OpenRunning, Update, PanesTypeOK
    <3>2. Shell(procs + 1).thread = NoThread /\ Shell(procs + 1).bound = NoThread
      BY DEF Shell
    <3>3. /\ Runs(Shell(0), "managed", procs + 1, NoThread).thread = NoThread
          /\ Runs(Shell(0), "managed", procs + 1, NoThread).bound = NoThread
      BY DEF Runs, Shell
    <3> QED
      BY <3>1, <3>2, <3>3, CalmPaneEmpties
  <2> QED
    BY <2>1, <2>2 DEF Create, NativeFork, Baseline, Safe, Keeps, paneVars
<1>4. CASE Failing
  <2>1. AfterFailure \in AllSteps
    BY AfterFailureEnds DEF AllSteps, StartSteps
  <2>2. req'.op = req.op
    BY <1>1, <1>4, <2>1, FailedFields DEF Failing, Kin
  <2> QED
    BY <1>2, <1>3, <1>4, <2>2, AfterFailureEnds, FailingIsTrue DEF Failing
<1>5. CASE NativeFork /\ req' = [Failed(Finish) EXCEPT !.err = @ \cup {"uncertain"}]
  <2>1. Finish \in AllSteps /\ Finish \in EndSteps
    BY FinishIsEnd DEF AllSteps, StartSteps
  <2>2. Kin(Failed(Finish)) /\ Failed(Finish).pc = Finish /\ Failed(Finish).looked = 0
        /\ "failed" \in Failed(Finish).err
    BY <1>1, <2>1, FailedFields
  <2> DEFINE r == Failed(Finish)
  <2>3. req' = [r EXCEPT !.err = @ \cup {"uncertain"}]
    BY <1>5
  <2> HIDE DEF r
  <2>4. /\ req'.op = req.op /\ req'.kind = req.kind /\ req'.who = req.who /\ req'.looked = 0
        /\ req'.pc = Finish /\ "failed" \in req'.err /\ req'.state = req.state
    BY <2>2, <2>3 DEF Kin, ReqType, r
  <2> QED
    BY <1>2, <1>3, <2>1, <2>4, FailedIsTrue DEF Acknowledged
<1>6. ASSUME req'.op = req.op, req'.kind = req.kind, req'.state = req.state, req'.who = req.who,
             req'.prefix = req.prefix, req'.looked = req.looked, req'.err = req.err
      PROVE  TruthInv'
  <2>1. req'.prefix = NoThread
    BY <1>1, <1>6
  <2> QED
    BY <1>2, <1>3, <1>6, <2>1, TruthGoesOn DEF TruthInv, CalmInv, CalmPrefix
<1>7. CASE Launch /\ ~Failing
  BY <1>1, <1>6, <1>7 DEF Launch, ReqType
<1>8. ASSUME NEW step \in {"launch", "sourceAfter"},
             req' = [req EXCEPT !.session = Child, !.pc = step]
      PROVE  TruthInv'
  BY <1>1, <1>6, <1>8 DEF ReqType
<1>9. CASE Baseline
  BY <1>1, <1>6, <1>9 DEF Baseline, ReqType
<1>10. CASE Safe
  BY <1>1, <1>6, <1>10 DEF Safe, ReqType
<1>11. CASE Create
  BY <1>4, <1>8, <1>11 DEF Create
<1>12. CASE NativeFork
  BY <1>4, <1>5, <1>8, <1>12 DEF NativeFork
<1>13. CASE Launch
  BY <1>4, <1>7, <1>13
<1> QED
  BY <1>9, <1>10, <1>11, <1>12, <1>13

\* The steps that look at the panes and go on, or fail.
LEMMA LookingIsTrue ==
    ASSUME Inv, TruthInv,
           \/ ForkSource \/ SourceAfter \/ Origin \/ Spawn \/ SourceAgain \/ Settled
           \/ Resolve \/ Focused \/ Fails
    PROVE  TruthInv'
<1>1. req.pc \notin EndSteps /\ UNCHANGED <<pane, touches, received>>
  BY DEF ForkSource, SourceAfter, Origin, Spawn, SourceAgain, Settled, Resolve, Focused, Fails, Keeps,
         paneVars, promptVars
<1>2. (\E s : Goto(s)) \/ Failing
  BY DEF ForkSource, SourceAfter, Origin, Spawn, SourceAgain, Settled, Resolve, Focused, Fails
<1> QED
  BY <1>1, <1>2, KeepsIsTrue

\* The new pane as the kit finds it or leaves it, by a step that fails.
LEMMA LaunchingIsTrue ==
    ASSUME Inv, TruthInv, Proof \/ Exec \/ LaunchFails \/ Focus
    PROVE  TruthInv'
<1>1. /\ req.pc \notin EndSteps /\ UNCHANGED <<touches, received>> /\ TypeOK
      /\ pane'[Tgt].thread = pane[Tgt].thread /\ pane'[Tgt].bound = pane[Tgt].bound
  BY PaneStaysCalm DEF Proof, Exec, LaunchFails, Focus, Keeps, paneVars, promptVars, Inv
<1>2. (\E s : Goto(s)) \/ Failing \/ req' = Failed("undo") \/ req' = Failed("done")
  BY DEF Proof, Exec, LaunchFails, Focus
<1>3. ASSUME touches = 0, req'.op = req.op PROVE CalmPane'
  BY <1>1, <1>3, CalmPaneStays DEF TruthInv, CalmInv
<1>4. ASSUME NEW s, Goto(s) PROVE TruthInv'
  <2>1. req'.op = req.op
    BY <1>1, <1>4, GotoFields DEF SameRequest
  <2> QED
    BY <1>1, <1>3, <1>4, <2>1, GotoIsTrue
<1>5. ASSUME NEW after \in EndSteps, req' = Failed(after) PROVE TruthInv'
  <2>1. after \in AllSteps
    BY DEF AllSteps, StartSteps
  <2>2. req'.op = req.op
    BY <1>1, <1>5, <2>1, FailedFields DEF Kin
  <2> QED
    BY <1>1, <1>3, <1>5, <2>2, FailingIsTrue
<1> QED
  BY <1>2, <1>4, <1>5, AfterFailureEnds DEF Failing

\* A step that finds a conversation in the new pane, or looks again.
LEMMA FindingIsTrue ==
    ASSUME Inv, TruthInv, UNCHANGED <<pane, touches, received>>,
           req.pc \notin EndSteps, req.pc \notin {"focus", "focused"},
           SameRequest, req'.state = req.state, req'.err = req.err,
           req'.looked = req.looked,
           \/ req'.prefix \in {NoThread, req.prefix}
           \/ req'.prefix = Shown /\ (req.op = "fork" => Shown # Old),
           touches = 0 => req'.who \in {NoThread, Child},
           req.kind = "omp" => ~Acknowledged
    PROVE  TruthInv'
<1>1. ASSUME touches = 0 PROVE CalmPane' /\ CalmPrefix'
  <2>1. CalmPane /\ CalmPrefix
    BY <1>1 DEF TruthInv, CalmInv
  <2>2. CalmPane'
    BY <2>1, CalmPaneStays DEF SameRequest
  <2>3. ASSUME req'.prefix = Shown, req.op = "fork" => req'.prefix # Old, req'.prefix # NoThread
        PROVE  req'.prefix = Child /\ pane[Tgt].thread = Child
    BY <2>1, <2>3 DEF CalmPane, MayShow, Shown
  <2> QED
    BY <2>1, <2>2, <2>3 DEF CalmPrefix
<1> QED
  BY <1>1, TruthGoesOn DEF TruthInv, SameRequest

LEMMA FoundIsTrue ==
    ASSUME Inv, TruthInv, WaitForAgent \/ WaitForFresh \/ WaitForChild \/ Discover \/ Bound \/ Observe
    PROVE  TruthInv'
<1> USE Names
<1>1. /\ TypeOK /\ FlowInv /\ req \in ReqType /\ UNCHANGED <<pane, touches, received>>
      /\ req.pc \notin EndSteps /\ req.pc \notin {"focus", "focused"}
      /\ req.kind = "omp" => ~Acknowledged
  <2>1. TypeOK /\ FlowInv /\ req \in ReqType
    BY ReqIsTyped DEF Inv
  <2>2. UNCHANGED <<pane, touches, received>>
    BY DEF WaitForAgent, WaitForFresh, WaitForChild, Discover, Bound, Observe, Keeps, paneVars, promptVars
  <2>3. req.pc \in {"identity", "fresh", "child", "discover", "bound", "observe"}
    BY DEF WaitForAgent, WaitForFresh, WaitForChild, Discover, Bound, Observe
  <2> QED
    BY <2>1, <2>2, <2>3 DEF Acknowledged
<1>0. /\ UNCHANGED <<pane, touches, received>>
      /\ req.pc \notin EndSteps /\ req.pc \notin {"focus", "focused"}
      /\ req.kind = "omp" => ~Acknowledged
  BY <1>1
<1>2. touches = 0 => CalmPane /\ CalmPrefix /\ req.who \in {NoThread, Child}
  BY DEF TruthInv, CalmInv
<1>3. (WaitForFresh \/ WaitForChild) /\ (\E s : Goto(s)) => TruthInv'
  BY <1>1, KeepsIsTrue
<1>4. ASSUME NEW s, NEW t \in OptThread, req' = [req EXCEPT !.pc = s, !.who = t],
             touches = 0 => t \in {NoThread, Child}
      PROVE  TruthInv'
  <2>1. /\ SameRequest /\ req'.state = req.state /\ req'.err = req.err
        /\ req'.looked = req.looked /\ req'.prefix = req.prefix /\ req'.who = t
    BY <1>1, <1>4 DEF SameRequest, ReqType
  <2> QED
    BY <1>0, <1>4, <2>1, FindingIsTrue
<1>5. pane[Tgt].bound \in OptThread /\ Shown \in OptThread
  BY <1>1, FieldTypes DEF TypeOK, PanesTypeOK, Shown
<1>6. CASE WaitForAgent
  <2>1. req.op = "start" /\ (touches = 0 => pane[Tgt].bound \in {NoThread, Child})
    BY <1>1, <1>2, <1>6 DEF WaitForAgent, CalmPane, MayShow
  <2> QED
    BY <1>4, <1>5, <1>6, <2>1 DEF WaitForAgent
<1>7. CASE WaitForFresh
  <2>1. req.op = "new" /\ (touches = 0 => pane[Tgt].bound \in {NoThread, Child})
    BY <1>1, <1>2, <1>7 DEF WaitForFresh, CalmPane, MayShow
  <2>2. CASE req.who = NoThread
    <3>1. req' = [req EXCEPT !.who = pane[Tgt].bound]
      BY <1>7, <2>2 DEF WaitForFresh
    <3>2. req' = [req EXCEPT !.pc = req.pc, !.who = pane[Tgt].bound]
      BY <1>1, <3>1 DEF ReqType
    <3> QED
      BY <1>4, <1>5, <2>1, <3>2
  <2>3. CASE req.who # NoThread
    <3>1. Goto(Finish)
      BY <1>7, <2>3 DEF WaitForFresh, Goto
    <3> QED
      BY <1>3, <1>7, <3>1
  <2> QED
    BY <2>2, <2>3
<1>8. CASE WaitForChild
  <2>1. touches = 0 /\ pane[Tgt].bound # Old => pane[Tgt].bound \in {NoThread, Child}
    BY <1>2 DEF CalmPane, MayShow
  <2>2. CASE pane[Tgt].bound # Old /\ req' = [req EXCEPT !.pc = "sourceAgain", !.who = pane[Tgt].bound]
    BY <1>4, <1>5, <2>1, <2>2
  <2> QED
    BY <1>3, <1>8, <2>2 DEF WaitForChild
<1>9. CASE Discover
  <2>1. PICK s \in {Identified(TRUE), Identified(FALSE)} : req' = [req EXCEPT !.prefix = Shown, !.pc = s]
    BY <1>9 DEF Discover
  <2>2. /\ SameRequest /\ req'.state = req.state /\ req'.err = req.err
        /\ req'.looked = req.looked /\ req'.prefix = Shown /\ req'.who = req.who
    BY <1>1, <1>5, <2>1 DEF SameRequest, ReqType
  <2>3. req.op = "fork" => Shown # Old
    BY <1>9 DEF Discover
  <2> QED
    BY <1>0, <1>2, <2>2, <2>3, FindingIsTrue
<1>10. CASE Bound
  <2>1. PICK s : req' = [req EXCEPT !.who = req.prefix, !.prefix = NoThread, !.pc = s]
    BY <1>10 DEF Bound
  <2>2. /\ SameRequest /\ req'.state = req.state /\ req'.err = req.err
        /\ req'.looked = req.looked /\ req'.prefix = NoThread /\ req'.who = req.prefix
    BY <1>1, <2>1 DEF SameRequest, ReqType
  <2>3. touches = 0 => req.prefix \in {NoThread, Child}
    BY <1>1, <1>2 DEF CalmPrefix
  <2> QED
    BY <1>0, <2>2, <2>3, FindingIsTrue
<1>11. CASE Observe
  <2>1. /\ SameRequest /\ req'.state = req.state /\ req'.err = req.err
        /\ req'.looked = req.looked /\ req'.prefix = req.prefix /\ req'.who = req.who
    BY <1>1, <1>11 DEF SameRequest, ReqType, Observe
  <2> QED
    BY <1>0, <1>2, <2>1, FindingIsTrue
<1> QED
  BY <1>6, <1>7, <1>8, <1>9, <1>10, <1>11

LEMMA LastIsTrue ==
    ASSUME Inv, TruthInv, Last
    PROVE  TruthInv'
<1>1. /\ req \in ReqType /\ UNCHANGED <<pane, touches, received>> /\ ~Acknowledged
      /\ touches \in Nat
  BY ReqIsTyped, Names DEF Inv, TypeOK, PanesTypeOK, Last, paneVars, promptVars, Acknowledged
<1>2. /\ SameRequest /\ req'.state = req.state /\ req'.err = req.err /\ req'.looked = touches
      /\ req'.prefix = req.prefix /\ req'.who = req.who
  BY <1>1 DEF SameRequest, ReqType, Last, TypeOK, PanesTypeOK
<1>3. touches = 0 => CalmPane' /\ CalmPrefix' /\ req'.who \in {NoThread, Child}
  <2>1. ASSUME touches = 0 PROVE CalmPane /\ CalmPrefix /\ req.who \in {NoThread, Child}
    BY <2>1 DEF TruthInv, CalmInv
  <2>2. CalmPane => CalmPane'
    BY <1>1, <1>2, CalmPaneStays DEF SameRequest
  <2>3. CalmPrefix => CalmPrefix'
    BY <1>1, <1>2 DEF CalmPrefix, Last
  <2> QED
    BY <1>2, <2>1, <2>2, <2>3
<1>4. req'.kind = req.kind
  BY <1>2 DEF SameRequest
<1>5. req'.looked <= touches
  BY <1>1, <1>2
<1> QED
  BY <1>1, <1>2, <1>3, <1>4, <1>5, TruthGoesOn

LEMMA BindIsTrue ==
    ASSUME Inv, TruthInv, Bind
    PROVE  TruthInv'
<1> USE Names
<1>1. /\ pane \in [Panes -> PaneType] /\ pane[Tgt] \in PaneType /\ req.pc = "bind"
      /\ req.prefix \in Threads /\ UNCHANGED <<touches, received>> /\ TypeOK
      /\ Goto("bound") \/ Failing
  BY FieldTypes, ReqFields DEF Inv, TypeOK, PanesTypeOK, Bind, promptVars, Then, OptThread
<1>2. pane'[Tgt].thread = pane[Tgt].thread /\ pane'[Tgt].bound = req.prefix
  BY <1>1 DEF Bind, ReportSession, Update, PaneType
<1>3. ASSUME touches = 0, req'.op = req.op PROVE CalmPane'
  <2>1. req.prefix = Child /\ pane[Tgt].thread = Child
    BY <1>1, <1>3 DEF TruthInv, CalmInv, CalmPrefix
  <2> QED
    BY <1>2, <2>1 DEF CalmPane, MayShow
<1>4. CASE Goto("bound")
  <2>1. req'.op = req.op
    BY <1>1, <1>4, GotoFields DEF SameRequest
  <2> QED
    BY <1>1, <1>2, <1>3, <1>4, <2>1, GotoIsTrue
<1>5. CASE Failing
  <2>1. AfterFailure \in AllSteps
    BY AfterFailureEnds DEF AllSteps, StartSteps
  <2>2. req'.op = req.op
    BY <1>1, <1>5, <2>1, FailedFields DEF Failing, Kin
  <2> QED
    BY <1>1, <1>3, <1>5, <2>2, AfterFailureEnds, FailingIsTrue DEF Failing
<1> QED
  BY <1>1, <1>4, <1>5

\* The prompt arrives in the TUI that is there.
LEMMA SendIsTrue ==
    ASSUME Inv, TruthInv, Send
    PROVE  TruthInv'
<1> USE Names
<1>1. /\ TypeOK /\ req \in ReqType /\ req.pc = "send" /\ NotAttempted /\ Named /\ LookHolds
      /\ UNCHANGED touches /\ Arrived(0) /\ pane[Tgt].thread \in OptThread
      /\ received \in [OptThread -> Nat] /\ req.who \in OptThread
  <2>1. TypeOK /\ req \in ReqType /\ req.pc = "send" /\ NotAttempted /\ Named /\ UNCHANGED touches
    BY ReqIsTyped DEF Inv, Send
  <2>2. LookHolds /\ Arrived(0)
    BY <2>1 DEF Inv, PaneInv, ReportInv, PromptsCounted
  <2> QED
    BY <2>1, <2>2, FieldTypes, ReqFields DEF TypeOK, PanesTypeOK
<1>2. ASSUME touches = 0, req'.op = req.op PROVE CalmPane'
  BY <1>2, CalmPaneStays, PaneStaysCalm DEF TruthInv, CalmInv
<1>3. ASSUME NEW state \in {"notSent", "unknown"}, req' = Sent(state) PROVE TruthInv'
  <2> DEFINE r == Failed(Finish)
  <2>1. Finish \in AllSteps /\ Finish \in EndSteps
    BY FinishIsEnd DEF AllSteps, StartSteps
  <2>2. Kin(r) /\ r.pc = Finish /\ r.looked = 0 /\ "failed" \in r.err
    BY <1>1, <2>1, FailedFields
  <2>3. req' = [r EXCEPT !.state = state]
    BY <1>3 DEF Sent
  <2> HIDE DEF r
  <2>4. /\ req'.op = req.op /\ req'.who = req.who /\ req'.looked = 0 /\ req'.pc = Finish
        /\ "failed" \in req'.err /\ req'.state = state
    BY <2>2, <2>3 DEF Kin, ReqType
  <2> QED
    BY <1>1, <1>2, <2>1, <2>4, FailedIsTrue
<1>4. CASE SameAgent /\ Arrives /\ req' = Sent("acknowledged")
  <2>1. /\ req'.op = req.op /\ req'.kind = req.kind /\ req'.who = req.who
        /\ req'.prefix = req.prefix /\ req'.looked = req.looked
    BY <1>1, <1>4 DEF Sent, ReqType
  <2>2. received'[pane[Tgt].thread] = 1
    <3>1. received[pane[Tgt].thread] = 0
      BY <1>1 DEF Arrived
    <3> QED
      BY <1>1, <1>4, <3>1 DEF Arrives
  <2>3. ASSUME touches = 0
        PROVE  CalmPane' /\ CalmPrefix' /\ req'.who \in {NoThread, Child} /\ received'[Child] = 1
    <3>1. CalmPane /\ CalmPrefix /\ req.who \in {NoThread, Child}
      BY <2>3 DEF TruthInv, CalmInv
    <3>2. pane[Tgt].thread = Child
      BY <1>1, <1>4, <3>1 DEF SameAgent, BoundTo, CalmPane, CalmPrefix
    <3>3. CalmPrefix'
      BY <1>1, <2>1, <3>1, PaneStaysCalm DEF CalmPrefix
    <3> QED
      BY <1>2, <2>1, <2>2, <2>3, <3>1, <3>2, <3>3
  <2>4. OmpInv'
    BY <1>1, <2>1, <2>2 DEF LookHolds, OmpInv
  <2>5. req'.looked <= touches'
    BY <1>1, <2>1 DEF TruthInv
  <2> QED
    BY <1>1, <2>3, <2>4, <2>5 DEF TruthInv, CalmInv
<1> QED
  BY <1>3, <1>4 DEF Send

\* The ways out: the pane is closed, or as it was.
LEMMA EndIsTrue ==
    ASSUME Inv, TruthInv, ChildIsKept \/ Undo \/ Close \/ Delete \/ Stop
    PROVE  TruthInv'
<1> USE Names
<1>1. /\ TypeOK /\ req \in ReqType /\ pane[Tgt] \in PaneType /\ PanesTypeOK
      /\ UNCHANGED <<touches, received>>
  BY ReqIsTyped, FieldTypes DEF Inv, TypeOK, PanesTypeOK, ChildIsKept, Undo, Close, Delete, Stop,
     Keeps, paneVars, promptVars
<1>2. ASSUME touches = 0, req'.op = req.op PROVE CalmPane'
  <2>1. CASE UNCHANGED pane
    BY <1>2, <2>1, CalmPaneStays DEF TruthInv, CalmInv
  <2>2. CASE ClosePane(Tgt)
    <3>1. pane'[Tgt] = Absent
      BY <1>1, <2>2 DEF ClosePane, Update, PanesTypeOK
    <3>2. Absent.thread = NoThread /\ Absent.bound = NoThread
      BY DEF Absent, Shell
    <3> QED
      BY <3>1, <3>2, CalmPaneEmpties
  <2> QED
    BY <2>1, <2>2 DEF ChildIsKept, Undo, Close, Delete, Stop, Keeps, paneVars
<1>3. CASE ChildIsKept
  <2> DEFINE r == Failed(Finish)
  <2>1. Finish \in AllSteps /\ Finish \in EndSteps
    BY FinishIsEnd DEF AllSteps, StartSteps
  <2>2. Kin(r) /\ r.pc = Finish /\ r.looked = 0 /\ "failed" \in r.err
    BY <1>1, <2>1, FailedFields
  <2>3. req' = [r EXCEPT !.kept = TRUE, !.err = @ \cup {"uncertain"}]
    BY <1>3 DEF ChildIsKept
  <2> HIDE DEF r
  <2>4. /\ req'.op = req.op /\ req'.who = req.who /\ req'.looked = 0 /\ req'.pc = Finish
        /\ "failed" \in req'.err /\ req'.state = req.state
    BY <2>2, <2>3 DEF Kin, ReqType
  <2> QED
    BY <1>1, <1>2, <2>1, <2>4, FailedIsTrue DEF Acknowledged
<1>4. ASSUME NEW s \in EndSteps, NEW e \in SUBSET Errors, req.err \subseteq e, Ends(s, e)
      PROVE  TruthInv'
  <2>1. s \in AllSteps
    BY DEF AllSteps, StartSteps
  <2>2. /\ req'.op = req.op /\ req'.kind = req.kind /\ req'.pc = s /\ req'.err = e
        /\ req'.state = req.state /\ req'.who = req.who /\ req'.looked = req.looked
    BY <1>1, <1>4, <2>1, EndsFields DEF SameRequest
  <2>3. touches = 0 => CalmPane' /\ CalmPrefix' /\ req'.who \in {NoThread, Child}
    BY <1>2, <1>4, <2>2 DEF CalmPrefix, TruthInv, CalmInv
  <2>4. e = {} => req.err = {}
    BY <1>4
  <2> QED
    BY <1>1, <2>2, <2>3, <2>4, TruthGoesOn DEF TruthInv
<1>5. \A x \in {"cleanup", "session", "server"} : req.err \cup {x} \in SUBSET Errors
  BY <1>1 DEF ReqType, Errors
<1>6. req.err \in SUBSET Errors /\ Finish \in EndSteps
  BY <1>1, AfterFailureEnds DEF ReqType
<1>7. CASE Undo \/ Close
  <2>1. PICK s \in {"delete", Finish}, e \in {req.err, req.err \cup {"cleanup"}} : Ends(s, e)
    BY <1>7 DEF Undo, Close, DeletesToo, Ends
  <2> QED
    BY <1>4, <1>5, <1>6, <2>1
<1>8. CASE Delete
  <2>1. PICK e \in {req.err, req.err \cup {"session"}} : Ends(Finish, e)
    BY <1>8 DEF Delete, Ends
  <2> QED
    BY <1>4, <1>5, <1>6, <2>1
<1>9. CASE Stop
  <2>1. PICK e \in {req.err, req.err \cup {"server"}} : Ends("done", e)
    BY <1>9 DEF Stop, Ends
  <2> QED
    BY <1>4, <1>5, <1>6, <2>1
<1> QED
  BY <1>3, <1>7, <1>8, <1>9

LEMMA InitTruth ==
    Init => TruthInv
<1> SUFFICES ASSUME Init PROVE TruthInv
  OBVIOUS
<1>1. /\ touches = 0 /\ req.looked = 0 /\ req.prefix = NoThread /\ req.who = NoThread
      /\ req.state = "notAttempted"
  BY DEF Init
<1>2. pane[Tgt].thread = NoThread /\ pane[Tgt].bound = NoThread
  BY Names DEF Init, Absent, Shell
<1> QED
  BY <1>1, <1>2 DEF TruthInv, CalmInv, CalmPane, CalmPrefix, MayShow, OmpInv, Acknowledged

LEMMA NextIsTrue ==
    Inv /\ TruthInv /\ [Next]_vars => TruthInv'
<1> SUFFICES ASSUME Inv, TruthInv, [Next]_vars PROVE TruthInv'
  OBVIOUS
<1>1. CASE UNCHANGED vars
  BY <1>1 DEF vars, paneVars, promptVars, TruthInv, CalmInv, CalmPane, CalmPrefix, MayShow, OmpInv,
     Acknowledged
<1>2. CASE Next
  BY <1>1, <1>2, WorldIsTrue, StartIsTrue, LookingIsTrue, LaunchingIsTrue, FoundIsTrue, LastIsTrue,
     BindIsTrue, SendIsTrue, EndIsTrue DEF Next, Deliver, Rest
<1> QED
  BY <1>1, <1>2

LEMMA InvHolds ==
    Spec => []Inv
BY InitInv, NextKeeps, PTL DEF Spec

LEMMA InvTellsLeftovers ==
    Inv => LeftoversAreReported
BY Names DEF Inv, ReportInv, PaneReported, SessionReported, ForkReported, ServerReported,
      LeftoversAreReported, Answered, Kept

LEMMA TruthHolds ==
    Spec => []TruthInv
BY InitTruth, NextIsTrue, InvHolds, PTL DEF Spec

LEMMA InvTellsTruth ==
    Inv /\ TruthInv => AnswersAreTrue
<1> SUFFICES ASSUME Inv, TruthInv PROVE AnswersAreTrue
  OBVIOUS
<1>1. TypeOK /\ FlowInv /\ PromptsCounted
  BY DEF Inv, ReportInv
<1>2. ASSUME Answered, req.err = {}
      PROVE  /\ req.prompted => req.state = "acknowledged"
             /\ req.who # NoThread
             /\ req.op = "fork" => req.who # Old
             /\ req.op = "new" => req.who \notin req.prior
             /\ touches = 0 => req.who = Child
             /\ req.prompted /\ touches = Undisturbed => received[req.who] = 1
             /\ req.kind = "opencode" => req.who = req.session
  <2>1. /\ req.prompted => req.state = "acknowledged"
        /\ req.who # NoThread
        /\ req.op = "fork" => req.who # Old
        /\ req.op = "new" => req.who \notin req.prior
        /\ req.kind = "opencode" => req.who = req.session
    BY <1>1, <1>2 DEF Answered
  <2>2. touches = 0 => req.who = Child
    BY <2>1 DEF TruthInv, CalmInv
  <2>3. req.prompted /\ touches = Undisturbed => received[req.who] = 1
    BY <1>2, <2>1, <2>2 DEF TruthInv, CalmInv, OmpInv, Acknowledged, Undisturbed
  <2> QED
    BY <2>1, <2>2, <2>3
<1> QED
  BY <1>1, <1>2 DEF AnswersAreTrue, PromptsCounted

\* A step after which a prompt is there, or that finds one there.
LEMMA StepsArePromptSafe ==
    ASSUME Inv, Next
    PROVE  /\ received' # received /\ touches = req.looked =>
                 Untouched(Tgt) /\ (req.kind = "omp" => pane[Tgt].thread = req.who)
           /\ ~Arrived(0) /\ req' # req => pane'[Tgt].open = pane[Tgt].open /\ sessions' = sessions
<1>1. ASSUME received' # received, touches = req.looked
      PROVE  Untouched(Tgt) /\ (req.kind = "omp" => pane[Tgt].thread = req.who)
  <2>1. Send
    <3>1. ~UNCHANGED vars /\ ~UNCHANGED promptVars
      BY <1>1 DEF vars, promptVars
    <3>2. ~World
      BY <1>1, WorldMoves DEF Inv
    <3>3. ~(Observe \/ Settled \/ Last)
      BY <3>1 DEF Observe, Settled, Last
    <3>4. ~(Spawn \/ Create \/ NativeFork \/ Delete \/ Stop)
      BY <1>1 DEF Spawn, Create, NativeFork, Delete, Stop
    <3>5. ~(Launch \/ Exec \/ Undo \/ Bind \/ Focus \/ Close)
      BY <3>1 DEF Launch, Exec, Undo, Bind, Focus, Close
    <3>6. ~(Baseline \/ ForkSource \/ Safe \/ Proof \/ SourceAfter \/ Origin \/ WaitForAgent
              \/ WaitForFresh \/ WaitForChild \/ SourceAgain \/ Discover \/ Resolve \/ Bound
              \/ Focused \/ Fails \/ LaunchFails \/ ChildIsKept)
      BY <3>1 DEF Baseline, ForkSource, Safe, Proof, SourceAfter, Origin, WaitForAgent,
            WaitForFresh, WaitForChild, SourceAgain, Discover, Resolve, Bound, Focused, Fails,
            LaunchFails, ChildIsKept, Keeps
    <3>7. ~Rest
      BY <3>1 DEF Rest
    <3> QED
      BY <3>2, <3>3, <3>4, <3>5, <3>6, <3>7 DEF Next, Deliver
  <2>2. req.pc = "send"
    BY <2>1 DEF Send
  <2> QED
    BY <1>1, <2>2 DEF Inv, PaneInv, LookHolds
<1>2. ASSUME ~Arrived(0), req' # req
      PROVE  pane'[Tgt].open = pane[Tgt].open /\ sessions' = sessions
  <2>1. /\ req.pc \in {"resolve", "bind", "bound", "focus", "focused", "stop", "done"}
        /\ TypeOK /\ pane[Tgt] \in PaneType
    <3>1. ~NotAttempted
      BY <1>2 DEF Inv, ReportInv, PromptsCounted
    <3> QED
      BY <3>1, FieldTypes, Names DEF Inv, TypeOK, PanesTypeOK
  <2>2. CASE UNCHANGED <<paneVars, promptVars>>
    BY <2>2 DEF paneVars, promptVars
  <2>3. CASE Bind
    <3>1. sessions' = sessions /\ pane' = [pane EXCEPT ![Tgt] = [pane[Tgt] EXCEPT !.bound = req.prefix]]
      BY <2>3 DEF Bind, ReportSession, Update, promptVars
    <3> QED
      BY <2>1, <3>1, Names DEF TypeOK, PanesTypeOK, PaneType
  <2>4. CASE Focus
    BY <2>1, <2>4, FocusGoes, Names DEF Focus, promptVars, TypeOK
  <2>5. CASE Stop
    BY <2>5 DEF Stop, paneVars
  <2>6. \/ Resolve \/ Bind \/ Bound \/ Focus \/ Focused \/ Fails \/ ChildIsKept \/ Stop
    <3>1. ~(World /\ UNCHANGED req) /\ ~Rest
      BY <1>2 DEF Rest, vars
    <3>2. ~(Baseline \/ ForkSource \/ Safe \/ Spawn \/ Proof \/ Create \/ NativeFork \/ SourceAfter
              \/ Launch \/ Exec \/ Origin \/ Undo)
      BY <2>1 DEF Baseline, ForkSource, Safe, Spawn, Proof, Create, NativeFork, SourceAfter,
              Launch, Exec, Origin, Undo
    <3>3. ~(WaitForAgent \/ WaitForFresh \/ WaitForChild \/ SourceAgain \/ Discover \/ Deliver
              \/ LaunchFails \/ Close \/ Delete)
      BY <2>1 DEF WaitForAgent, WaitForFresh, WaitForChild, SourceAgain, Discover, Deliver,
              Observe, Settled, Last, Send, LaunchFails, Close, Delete
    <3> QED
      BY <3>1, <3>2, <3>3 DEF Next
  <2>7. CASE Resolve \/ Bound \/ Focused \/ Fails \/ ChildIsKept
    BY <2>2, <2>7 DEF Resolve, Bound, Focused, Fails, ChildIsKept, Keeps
  <2> QED
    BY <2>3, <2>4, <2>5, <2>6, <2>7
<1> QED
  BY <1>1, <1>2

-----------------------------------------------------------------------------
\* Whatever fails in a start or a fork, and whoever interferes, what is left of it
\* is named by the error or handed back (failBeforeSend, Cleanup, Delete, stop).
THEOREM LeftoversAreAlwaysReported == Spec => []LeftoversAreReported
<1>1. Inv => LeftoversAreReported
  BY InvTellsLeftovers
<1> QED
  BY <1>1, InvHolds, PTL

\* The state of the prompt counts what arrived; a fork never answers with its source,
\* nor New with a conversation that was listed before; and while nobody interferes the
\* answer is the new conversation, with the prompt in it (PromptStarter.Start,
\* NativeStarter.Start, Fork).
THEOREM AnswersAreAlwaysTrue == Spec => []AnswersAreTrue
<1>1. Inv /\ TruthInv => AnswersAreTrue
  BY InvTellsTruth
<1> QED
  BY <1>1, InvHolds, TruthHolds, PTL

\* A prompt reaches an untouched TUI, and nothing is cleaned up after it (Deliver).
THEOREM PromptIsAlwaysSafe == Spec => PromptIsSafe
<1>1. Inv /\ [Next]_vars =>
          [/\ received' # received /\ touches = req.looked =>
                 Untouched(Tgt) /\ (req.kind = "omp" => pane[Tgt].thread = req.who)
           /\ ~Arrived(0) /\ req' # req =>
                 pane'[Tgt].open = pane[Tgt].open /\ sessions' = sessions]_vars
  BY StepsArePromptSafe
<1> QED
  BY <1>1, InvHolds, PTL DEF Spec, PromptIsSafe
=============================================================================
