------------------------------ MODULE RouteCall ------------------------------
(***************************************************************************)
(* RouteClient.Invoke over RouteProcessCaller: an action of another plugin *)
(* asked for by one request on the standard input of the provider's own    *)
(* process, which ServeRoute answers once, before the deadline of both.    *)
(*                                                                         *)
(* The process is the leader of CommandRunner.  The caller holds a         *)
(* catalogue of revision 0.  The request is never repeated.                *)
(*                                                                         *)
(* Of version 1 a provider acts before it replies.  Of version 2 it may    *)
(* also hand the operation over to a service of its own, which performs it *)
(* when it likes, whatever becomes of the process and of the caller.       *)
(***************************************************************************)
EXTENDS CommandRunner

CONSTANT MaxRevisions      \* bound: how often the provider's catalogue changes

ASSUME MaxAssumption == MaxRevisions \in Nat

VARIABLES
    at, answer,      \* the caller
    prov, reply,     \* ServeRoute in the provider's process
    output,          \* what arrived on its standard output
    version,         \* the interface version of the request
    performed,       \* how often the action was performed
    operation,       \* the provider's service: what was handed over to it (external)
    revision,        \* the provider's catalogue
    expired          \* the deadline of the request has passed

provVars == <<prov, reply, output, performed, operation>>
callVars == <<at, answer, provVars, version, revision, expired>>
routeVars == <<runnerVars, callVars>>

\* The outcomes, of which version 2 alone has "accepted" and "handoff" (the provider
\* opened the workflow's own UI).  "late": DeadlineExceeded.  "error": the outcome
\* failed, or a typed error that comes from the provider or from its result.
Replies == {"none", "completed", "accepted", "handoff", "rejected", "refused", "late", "error"}

RouteTypeOK ==
    /\ RunnerTypeOK
    /\ at \in {"discover", "run", "answered"}
    /\ answer \in Replies \cup {"failed"}
    /\ prov \in {"read", "catalog", "invoke", "validate", "write", "end"}
    /\ reply \in Replies /\ output \in Replies
    /\ version \in {1, 2}
    /\ performed \in Nat
    /\ operation \in {"none", "owned", "done"}
    /\ revision \in 0..MaxRevisions
    /\ expired \in BOOLEAN

RouteInit ==
    /\ RunnerInit
    /\ at = "discover" /\ answer = "none"
    /\ prov = "read" /\ reply = "none" /\ output = "none"
    /\ version \in {1, 2}
    /\ performed = 0 /\ operation = "none" /\ revision = 0 /\ expired = FALSE

-----------------------------------------------------------------------------
(***************************************************************************)
(* The caller.                                                             *)
(***************************************************************************)
Answer(a) == at' = "answered" /\ answer' = a

\* discoverVersion finds the one provider, or fails.
Discover ==
    /\ at = "discover"
    /\ \/ at' = "run" /\ UNCHANGED answer
       \/ Answer("failed")
    /\ UNCHANGED <<runnerVars, provVars, version, revision, expired>>

RunSpec == at = "run" /\ RunnerStep /\ UNCHANGED callVars

\* validateRouteEnvelopeResponse is asked by the caller and by the client: a
\* response that is read too late does not count.
Readable == kind = "none" /\ output # "none" /\ ctx = "live"

Decode ==
    /\ at = "run" /\ At("returned")
    /\ \/ Readable /\ Answer(output)
       \/ Answer("failed")
    /\ UNCHANGED <<runnerVars, provVars, version, revision, expired>>

-----------------------------------------------------------------------------
(***************************************************************************)
(* ServeRoute and DispatchRoute in the provider's process.                 *)
(***************************************************************************)
Serving(step) == proc[Leader] = "alive" /\ prov = step

Reply(r) == reply' = r /\ prov' = "validate"

\* ValidateRequest compares the deadline with the time ServeRoute was given, and
\* DispatchRoute asks again whether callCtx, which ends at the deadline, is over.
ReadRequest ==
    /\ Serving("read")
    /\ \/ ~expired /\ prov' = "catalog" /\ UNCHANGED reply
       \/ expired /\ reply' = "late" /\ prov' = "write"
    /\ UNCHANGED <<output, performed, operation>>

\* The catalogue is asked again: revision, action and availability.
Refresh ==
    /\ Serving("catalog")
    /\ \/ revision = 0 /\ prov' = "invoke" /\ UNCHANGED reply
       \/ Reply("refused")
    /\ UNCHANGED <<output, performed, operation>>

\* The provider's Invoke, or InvokeV2; with an error it may have done it or not, and
\* its service may own the operation or not.
Acts == performed' = performed + 1 /\ UNCHANGED operation
HandsOver == version = 2 /\ operation' = "owned" /\ UNCHANGED performed
Declines == UNCHANGED <<performed, operation>>

Invoke ==
    /\ Serving("invoke")
    /\ \/ Reply("completed") /\ Acts
       \/ Reply("rejected") /\ Declines
       \/ Reply("accepted") /\ HandsOver
       \/ Reply("handoff") /\ version = 2 /\ Declines
       \/ Reply("error") /\ (Acts \/ HandsOver \/ Declines)
    /\ UNCHANGED output

\* Dispatch: a response after the deadline is replaced.
Validated == IF expired THEN "late" ELSE reply

Validate ==
    /\ Serving("validate")
    /\ reply' = Validated /\ prov' = "write"
    /\ UNCHANGED <<output, performed, operation>>

Write ==
    /\ Serving("write") /\ Leader \in holds
    /\ output' = reply /\ prov' = "end"
    /\ UNCHANGED <<reply, performed, operation>>

Serve ==
    /\ ReadRequest \/ Refresh \/ Invoke \/ Validate \/ Write
    /\ UNCHANGED <<runnerVars, at, answer, version, revision, expired>>

-----------------------------------------------------------------------------
\* The deadline passes for both; only the caller knows of its own cancellation.
Expires ==
    /\ ~expired /\ expired' = TRUE
    /\ \/ CtxEnds
       \/ ctx = "done" /\ UNCHANGED runnerVars
    /\ UNCHANGED <<at, answer, provVars, version, revision>>

CallerCancels == CtxEnds /\ UNCHANGED callVars

CatalogueChanges ==
    /\ revision < MaxRevisions /\ revision' = revision + 1
    /\ UNCHANGED <<runnerVars, at, answer, provVars, version, expired>>

\* The provider's service: neither the process nor the deadline stops it.
OperationRuns ==
    /\ operation = "owned" /\ operation' = "done"
    /\ performed' = performed + 1
    /\ UNCHANGED <<runnerVars, at, answer, prov, reply, output, version, revision, expired>>

World ==
    \/ (WaitReturns \/ ProcessStep) /\ UNCHANGED callVars
    \/ Expires \/ CallerCancels \/ CatalogueChanges \/ OperationRuns

Answered == at = "answered"

Rest == Answered /\ UNCHANGED routeVars

RouteNext == Discover \/ RunSpec \/ Decode \/ Serve \/ World \/ Rest

RouteSpec == RouteInit /\ [][RouteNext]_routeVars

\* The caller's goroutine and its timers go on, and the deadline passes; nothing
\* is asked of the provider's processes.
Fairness ==
    /\ WF_routeVars(Discover) /\ WF_routeVars(RunSpec) /\ WF_routeVars(Decode)
    /\ WF_routeVars(Expires)

FairSpec == RouteSpec /\ Fairness

-----------------------------------------------------------------------------
\* docs/action-route.md:42, 56, 78, 112: what an answer claims of the action, at the moment
\* the caller has it.  An operation that was accepted may be performed later.
Claim(a) ==
    /\ a = "completed" => performed = 1 /\ operation = "none"
    /\ a = "accepted" => version = 2 /\ operation # "none"
    /\ a \in {"refused", "rejected", "handoff"} => performed = 0 /\ operation = "none"

\* The provider's process performs the action, or hands it over to a service, before
\* the caller has its answer or not at all, whatever that answer is; only what was
\* handed over is performed after it, and nothing is performed twice.  What an answer
\* of the provider says is true.
EffectsPrecedeTheAnswer ==
    [][/\ performed' # performed => performed = 0 /\ (Answered => operation = "owned")
       /\ operation' = "owned" /\ operation # "owned" =>
             ~Answered /\ version = 2 /\ operation = "none" /\ performed = 0
       /\ Answered' /\ ~Answered => Claim(answer)']_routeVars

\* The caller has its answer, although processes of the provider live on and keep
\* its output open.
CallReturns == <>Answered
=============================================================================
