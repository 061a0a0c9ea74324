----------------------------- MODULE ServiceControl -----------------------------
(***************************************************************************)
(* A service process (servicehost.Server): its control RPCs Drain and      *)
(* Resume around the application's maintenance handler, the status it      *)
(* publishes meanwhile, admission of calls and streams, shutdown, and its  *)
(* restart by the manager.  What the application itself does (its handler, *)
(* its UpdateStatus calls) is any choice its interface allows.             *)
(***************************************************************************)
EXTENDS StatusHub

CONSTANTS Callers,           \* connections that may call Drain or Resume
          MaxConcurrentRPC,  \* ServerConfig.MaxConcurrentRPC
          AppStatuses        \* the statuses the application publishes

ASSUME AppAssumption == AppStatuses \subseteq [state : Health, accepting : BOOLEAN]
ASSUME RPCAssumption == MaxConcurrentRPC \in Nat \ {0}

VARIABLES
    rpc,        \* per caller: where its Drain or Resume handler stands
    before,     \* Server.beforeDrain, or NoStatus
    completed,  \* Server.drainCompleted
    serve,      \* where Server.Serve stands
    admitting,  \* the application admits work (external)
    said,       \* history: the last status the application itself published
    spoke,      \* history: it published one while maintenance held an older one
    doubtful    \* history: a Resume of the handler failed since the last Drain

controlVars == <<rpc, before, completed, serve, admitting, said, spoke, doubtful>>
vars == <<hubVars, controlVars>>

Handlers == {"drain", "drain.publish", "drain.handler", "drain.undo", "drain.restore",
             "drain.degraded", "resume", "resume.handler", "resume.restore"}
Answers == {"none", "drained", "resumed", "failed"}
NoCall == [at |-> "none", expired |-> FALSE, snapshot |-> NoStatus, answer |-> "none"]

TypeOK ==
    /\ HubTypeOK
    /\ rpc \in [Callers -> [at : Handlers \cup {"none"}, expired : BOOLEAN,
                            snapshot : Statuses \cup {NoStatus}, answer : Answers]]
    /\ before \in Statuses \cup {NoStatus}
    /\ completed \in BOOLEAN
    /\ serve \in {"serving", "stopping", "forced", "stopped"}
    /\ admitting \in BOOLEAN
    /\ said \in [state : Health, accepting : BOOLEAN]
    /\ spoke \in BOOLEAN /\ doubtful \in BOOLEAN

Content(s) == [state |-> s.state, accepting |-> s.accepting]

Fresh ==
    /\ rpc = [c \in Callers |-> NoCall]
    /\ before = NoStatus
    /\ completed = FALSE
    /\ serve = "serving"
    /\ admitting = TRUE
    /\ said = Content(hub)
    /\ spoke = FALSE
    /\ doubtful = FALSE

Init == HubInit /\ Fresh

(***************************************************************************)
(* Admission: a channel of MaxConcurrentRPC places, taken for the whole    *)
(* call; a full one refuses.  A dropped watch keeps its place until its    *)
(* handler returns.                                                        *)
(***************************************************************************)
Busy == {c \in Callers : rpc[c].at # "none"}
Admits ==
    /\ serve = "serving"
    /\ Cardinality(Busy) + Cardinality({c \in Clients : watch[c].open})
           < MaxConcurrentRPC

\* A mistake the runs must notice: maintenance is not exclusive.
NoMaintenanceMu == TRUE

\* maintenanceMu, held from TryLock to the handler's return.
MaintenanceFree == \A c \in Callers : rpc[c].at \in {"none", "drain", "resume"}

Call(c, at) ==
    /\ rpc[c].at = "none"
    /\ Admits
    /\ rpc' = [rpc EXCEPT ![c] = [NoCall EXCEPT !.at = at]]
    /\ UNCHANGED <<hubVars, before, completed, serve, admitting, said, spoke, doubtful>>

Goto(c, at) == rpc' = [rpc EXCEPT ![c].at = at]
Return(c, answer) == rpc' = [rpc EXCEPT ![c] = [NoCall EXCEPT !.answer = answer]]

\* The caller's deadline passes, the caller cancels, or its connection ends.
Expire(c) ==
    /\ rpc[c].at # "none" /\ ~rpc[c].expired
    /\ rpc' = [rpc EXCEPT ![c].expired = TRUE]
    /\ UNCHANGED <<hubVars, before, completed, serve, admitting, said, spoke, doubtful>>

(***************************************************************************)
(* Drain.                                                                  *)
(***************************************************************************)
DrainRefused(c) ==
    /\ \/ ~MaintenanceFree
       \/ before # NoStatus /\ ~completed
       \/ before = NoStatus /\ rpc[c].expired
    /\ Return(c, "failed")

\* A mistake: a drain that could not be undone counts as done.
DrainAgainAlways(c) ==
    /\ MaintenanceFree
    /\ before # NoStatus
    /\ Return(c, "drained")

DrainAgain(c) ==
    /\ MaintenanceFree
    /\ before # NoStatus /\ completed
    /\ Return(c, "drained")

DrainReadsStatus(c) ==
    /\ MaintenanceFree
    /\ before = NoStatus /\ ~rpc[c].expired
    /\ rpc' = [rpc EXCEPT ![c].at = "drain.publish", ![c].snapshot = hub]

DrainBegins(c) ==
    /\ rpc[c].at = "drain"
    /\ DrainRefused(c) \/ DrainAgain(c) \/ DrainReadsStatus(c)
    /\ UNCHANGED <<hubVars, spoke, before, completed, serve, admitting, said, doubtful>>

DrainPublishes(c) ==
    /\ rpc[c].at = "drain.publish"
    /\ \/ HubUpdate("draining", FALSE) /\ Goto(c, "drain.handler")
       \/ closed /\ UNCHANGED hubVars /\ Return(c, "failed")
    /\ UNCHANGED <<before, completed, serve, admitting, said, spoke, doubtful>>

\* Maintenance.Drain, and the check that the caller is still there.
DrainHandler(c) ==
    /\ rpc[c].at = "drain.handler"
    /\ \/ /\ admitting' = FALSE
          /\ \/ /\ ~rpc[c].expired
                /\ before' = rpc[c].snapshot
                /\ completed' = TRUE
                /\ doubtful' = FALSE
                /\ Return(c, "drained")
             \/ /\ rpc[c].expired
                /\ Goto(c, "drain.undo")
                /\ UNCHANGED <<before, completed, doubtful>>
       \/ /\ admitting' \in BOOLEAN
          /\ Goto(c, "drain.undo")
          /\ UNCHANGED <<before, completed, doubtful>>
    /\ UNCHANGED <<hubVars, serve, said, spoke>>

\* Maintenance.Resume under a context of its own.
DrainUndo(c) ==
    /\ rpc[c].at = "drain.undo"
    /\ \/ admitting' = TRUE /\ Goto(c, "drain.restore")
       \/ admitting' \in BOOLEAN /\ Goto(c, "drain.degraded")
    /\ UNCHANGED <<hubVars, before, completed, serve, said, spoke, doubtful>>

DrainRestores(c) ==
    /\ rpc[c].at = "drain.restore"
    /\ \/ /\ HubUpdate(rpc[c].snapshot.state, rpc[c].snapshot.accepting)
          /\ Return(c, "failed")
       \/ closed /\ UNCHANGED hubVars /\ Goto(c, "drain.degraded")
    /\ UNCHANGED <<before, completed, serve, admitting, said, spoke, doubtful>>

\* A mistake: a drain that could not be undone is not remembered.
DrainForgets(c) ==
    /\ rpc[c].at = "drain.degraded"
    /\ HubUpdate("degraded", FALSE) \/ (closed /\ UNCHANGED hubVars)
    /\ Return(c, "failed")
    /\ UNCHANGED <<before, completed, serve, admitting, said, spoke, doubtful>>

DrainDegrades(c) ==
    /\ rpc[c].at = "drain.degraded"
    /\ before' = rpc[c].snapshot
    /\ completed' = FALSE
    /\ HubUpdate("degraded", FALSE) \/ (closed /\ UNCHANGED hubVars)
    /\ Return(c, "failed")
    /\ UNCHANGED <<serve, admitting, said, spoke, doubtful>>

(***************************************************************************)
(* Resume.                                                                 *)
(***************************************************************************)
ResumeBegins(c) ==
    /\ rpc[c].at = "resume"
    /\ \/ ~MaintenanceFree /\ Return(c, "failed")
       \/ MaintenanceFree /\ before = NoStatus /\ Return(c, "resumed")
       \/ MaintenanceFree /\ before # NoStatus /\ Goto(c, "resume.handler")
    /\ UNCHANGED <<hubVars, before, completed, serve, admitting, said, spoke, doubtful>>

\* A handler that fails may have resumed all the same.
ResumeHandler(c) ==
    /\ rpc[c].at = "resume.handler"
    /\ \/ /\ admitting' = TRUE
          /\ rpc' = [rpc EXCEPT ![c].at = "resume.restore", ![c].snapshot = before]
          /\ before' = NoStatus
          /\ completed' = FALSE
          /\ UNCHANGED doubtful
       \/ /\ admitting' \in BOOLEAN
          /\ doubtful' = TRUE
          /\ Return(c, "failed")
          /\ UNCHANGED <<before, completed>>
    /\ UNCHANGED <<hubVars, serve, said, spoke>>

ResumeRestores(c) ==
    /\ rpc[c].at = "resume.restore"
    /\ \/ /\ HubUpdate(rpc[c].snapshot.state, rpc[c].snapshot.accepting)
          /\ Return(c, "resumed")
       \/ closed /\ UNCHANGED hubVars /\ Return(c, "failed")
    /\ UNCHANGED <<before, completed, serve, admitting, said, spoke, doubtful>>

HandlerNext(c) ==
    \/ DrainBegins(c) \/ DrainPublishes(c) \/ DrainHandler(c) \/ DrainUndo(c)
    \/ DrainRestores(c) \/ DrainDegrades(c)
    \/ ResumeBegins(c) \/ ResumeHandler(c) \/ ResumeRestores(c)

(***************************************************************************)
(* The application's own UpdateStatus, also while the server shuts down.   *)
(***************************************************************************)
UpdateStatus(s) ==
    /\ HubUpdate(s.state, s.accepting)
    /\ said' = s
    /\ spoke' = ~(MaintenanceFree /\ before = NoStatus)
    /\ UNCHANGED <<rpc, before, completed, serve, admitting, doubtful>>

(***************************************************************************)
(* Serve: shutdown, and a new process under a new epoch.                   *)
(***************************************************************************)
ShutdownBegins ==
    /\ serve = "serving"
    /\ serve' = "stopping"
    /\ HubUpdate("stopping", FALSE)
    /\ UNCHANGED <<rpc, before, completed, admitting, said, spoke, doubtful>>

Quiet == Busy = {} /\ \A c \in Clients : ~watch[c].open

\* GracefulStop returned in time: every handler has returned.
ShutdownIsGraceful ==
    /\ serve = "stopping" /\ Quiet
    /\ serve' = "stopped"
    /\ HubClose
    /\ UNCHANGED <<rpc, before, completed, admitting, said, spoke, doubtful>>

\* A mistake: the graceful stop has no time limit.
NoShutdownTimer == FALSE

\* The shutdown timer fired: Stop closes every connection, whose handlers may
\* run on under an ended context.
ShutdownIsForced ==
    /\ serve = "stopping" /\ ~Quiet
    /\ serve' = "forced"
    /\ rpc' = [c \in Callers |->
                 IF c \in Busy THEN [rpc[c] EXCEPT !.expired = TRUE] ELSE rpc[c]]
    /\ UNCHANGED <<hubVars, before, completed, admitting, said, spoke, doubtful>>

ShutdownCloses ==
    /\ serve = "forced"
    /\ serve' = "stopped"
    /\ HubClose
    /\ UNCHANGED <<rpc, before, completed, admitting, said, spoke, doubtful>>

\* The process ends, by itself or killed, and the manager starts another: what
\* it kept in memory is gone, the clients keep their cursors.
Restart ==
    /\ hub.epoch < MaxEpoch
    /\ hub' = FirstStatus(hub.epoch + 1)
    /\ closed' = FALSE
    /\ watch' = [c \in Clients |-> NoWatch]
    /\ rpc' = [c \in Callers |-> NoCall]
    /\ before' = NoStatus /\ completed' = FALSE
    /\ serve' = "serving" /\ admitting' = TRUE
    /\ said' = Content(FirstStatus(1)) /\ spoke' = FALSE /\ doubtful' = FALSE
    /\ UNCHANGED view

WatchNext(c) ==
    /\ \/ Admits /\ Subscribe(c)
       \/ Admits /\ ReadStatus(c)
       \/ TakeUpdate(c) \/ Deliver(c) \/ EndDropped(c) \/ EndBroken(c)
    /\ UNCHANGED controlVars

Next ==
    \/ \E c \in Callers : Call(c, "drain") \/ Call(c, "resume")
    \/ \E c \in Callers : HandlerNext(c) \/ Expire(c)
    \/ \E c \in Clients : WatchNext(c)
    \/ \E s \in AppStatuses : UpdateStatus(s)
    \/ ShutdownBegins \/ ShutdownIsGraceful \/ ShutdownIsForced \/ ShutdownCloses
    \/ Restart

Spec == Init /\ [][Next]_vars

\* Handlers return (gRPC runs each in a goroutine, the maintenance handler is
\* given a deadline), open streams move, and Serve's timer fires.
Fairness ==
    /\ \A c \in Callers : WF_vars(HandlerNext(c))
    /\ \A c \in Clients : WF_vars((TakeUpdate(c) \/ Deliver(c) \/ EndDropped(c))
                                    /\ UNCHANGED controlVars)
    /\ WF_vars(ShutdownIsGraceful \/ ShutdownIsForced)
    /\ WF_vars(ShutdownCloses)

FairSpec == Spec /\ Fairness

(***************************************************************************)
(* Properties.                                                             *)
(***************************************************************************)
\* An application that does not admit work, with no maintenance under way, can
\* be brought back by Resume: beforeDrain remembers what to restore.
DrainedIsRecorded ==
    MaintenanceFree /\ ~admitting => before # NoStatus

\* A Drain is answered with success only when the application has stopped
\* admitting work, unless an earlier Resume of it failed half way
\* (drainCompleted is kept, so Drain does not ask the handler again).
DrainAnswerIsTrue ==
    [][\A c \in Callers :
          rpc[c].at # "none" /\ rpc'[c].answer = "drained" =>
              ~admitting' \/ doubtful]_vars

\* Outside maintenance the published status is what the application last said;
\* while drained it is not accepting.  A status the application published
\* during maintenance is the exception: Resume overwrites it.
StatusIsExplained ==
    MaintenanceFree /\ ~spoke /\ serve = "serving" =>
        IF before = NoStatus
        THEN Content(hub) = said
        ELSE hub.state \in {"draining", "degraded"} /\ ~hub.accepting

\* Between maintenance calls the server's records are true: what Resume has to
\* bring back, and why the published status is what it is (maintenanceMu).
MaintenanceIsRecorded == TypeOK /\ DrainedIsRecorded /\ StatusIsExplained

\* The RPCs implement the contract the lifecycle commands rely on.
DrainMode ==
    IF \E c \in Callers : rpc[c].at \in {"drain.publish", "drain.handler", "drain.undo",
                                        "drain.restore", "drain.degraded"}
    THEN "draining"
    ELSE IF before = NoStatus THEN "open"
    ELSE IF completed THEN "drained" ELSE "stuck"

Contract == INSTANCE DrainContract WITH mode <- DrainMode

\* A service is open, drained or stuck, and which one is never in doubt
\* (beforeDrain and drainCompleted under maintenanceMu).
ImplementsDrainContract == Contract!Spec

\* Once asked to, Serve returns: streams that never end only delay it until
\* the timer fires.
ShutdownCompletes == serve = "stopping" ~> (serve = "stopped" \/ serve = "serving")

\* Every status published while a client is subscribed reaches it, alone or passed by
\* a Reset, or the watch ends, however fast the application goes on publishing: what is
\* owed a watcher arrives (controlServer.WatchStatus).  A last status is the special
\* case of an application that falls silent.
WatchersCatchUp ==
    \A c \in Clients, r \in 1..MaxRevision :
        (watch[c].subscribed /\ hub.rev = r)
            ~> (view[c].epoch = hub.epoch /\ view[c].rev >= r) \/ ~watch[c].subscribed
=============================================================================
