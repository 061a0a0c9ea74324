--------------------------- MODULE KeybindingHost ---------------------------
(***************************************************************************)
(* Package runtime/keybindinghost: plugins that keep their keybindings in   *)
(* one Herdr config file, and the Herdr session that the file configures.   *)
(*                                                                         *)
(* A config is the keys bound natively and, per owner, the keys of the      *)
(* managed section; how they are laid out in bytes is left out, so a config *)
(* stands for its revision and Absent for the zero revision.  The calls on  *)
(* the document store are CheckedDocument's, but split at the revision      *)
(* check, because an editor of the config that takes no lock may come       *)
(* between the check and the rename.                                        *)
(***************************************************************************)
EXTENDS FiniteSets, Functions

CONSTANTS Hosts,        \* processes running a transaction
          Owners,       \* plugins with a group in the managed section
          Keys,
          Absent,
          NoHost

VARIABLES
    doc,        \* the config file
    effective,  \* the config the Herdr session has loaded
    lock,       \* the holder of the transaction lock
    op          \* per host: the transaction under way

vars == <<doc, effective, lock, op>>

Config == [native : SUBSET Keys, owned : [Owners -> SUBSET Keys]]

ASSUME AbsentIsNoConfig == Absent \notin Config /\ NoHost \notin Hosts

Documents == Config \cup {Absent}

EmptyConfig == [native |-> {}, owned |-> [o \in Owners |-> {}]]

\* An absent file parses like an empty one.
Parsed(d) == IF d = Absent THEN EmptyConfig ELSE d

Failures == {"none", "ownership", "collision", "drift", "check", "write", "reload",
             "rollback", "canceled", "unread"}

Results == [err : Failures, revision : Documents, changed : BOOLEAN,
            activated : BOOLEAN, rolledBack : BOOLEAN, effectiveRestored : BOOLEAN]

ZeroResult == [err |-> "none", revision |-> Absent, changed |-> FALSE,
               activated |-> FALSE, rolledBack |-> FALSE, effectiveRestored |-> FALSE]

Kinds == {"apply", "compensate", "activate"}

Places == {"waiting", "locked", "candidate", "checked", "publishing", "reload",
           "rollback", "restoring", "recover", "done"}

\* edited: the file was edited during the transaction; raced: between a
\* revision check and the rename that follows it (history of the environment).
Idle == [at |-> "idle"]

Transactions ==
    {Idle} \cup
    [at : Places, owner : Owners, kind : Kinds, expected : Documents, desired : SUBSET Keys,
     previous : Documents, result : Results, edited : BOOLEAN, raced : BOOLEAN]

Init == /\ doc \in {Absent, EmptyConfig}
        /\ effective = doc
        /\ lock = NoHost
        /\ op = [h \in Hosts |-> Idle]

-----------------------------------------------------------------------------
\* replaceOwned.

Occupied(owner, d) ==
    Parsed(d).native \cup UNION {Parsed(d).owned[o] : o \in Owners \ {owner}}

Collides(o, d) == o.desired \cap Occupied(o.owner, d) # {}

Changes(o, d) == Parsed(d).owned[o.owner] # o.desired

WithOwned(o, d) == [Parsed(d) EXCEPT !.owned[o.owner] = o.desired]

\* The config a transaction publishes.
NextDoc(h) == IF op[h].kind = "compensate" THEN Absent
              ELSE WithOwned(op[h], op[h].previous)

-----------------------------------------------------------------------------
\* Helpers.

Goto(h, place) == op' = [op EXCEPT ![h].at = place]

Finish(h, result) == op' = [op EXCEPT ![h].at = "done", ![h].result = result]

Step(h, place, result) == op' = [op EXCEPT ![h].at = place, ![h].result = result]

\* The result so far, with a failure.
Failed(h, err) == [op[h].result EXCEPT !.err = err]

\* An unpublished transaction's result names the revision it read.
Observed(err, d) == [ZeroResult EXCEPT !.err = err, !.revision = d]

-----------------------------------------------------------------------------
\* Apply and Activate.

\* A caller passes the revision of some earlier Read: the current one, which
\* may be stale once the lock is taken, or none.  Compensation needs a
\* published revision and no bindings.
Begin(h) == /\ op[h] = Idle
            /\ \E owner \in Owners, kind \in Kinds, expected \in {doc, Absent},
                  desired \in SUBSET Keys :
                 /\ kind = "compensate" => expected # Absent /\ desired = {}
                 /\ op' = [op EXCEPT ![h] =
                      [at |-> "waiting", owner |-> owner, kind |-> kind, expected |-> expected,
                       desired |-> desired, previous |-> Absent, result |-> ZeroResult,
                       edited |-> FALSE, raced |-> FALSE]]
            /\ UNCHANGED <<doc, effective, lock>>

LockFree == lock = NoHost

Acquire(h) == /\ op[h].at = "waiting" /\ LockFree
              /\ lock' = h
              /\ Goto(h, "locked")
              /\ UNCHANGED <<doc, effective>>

AcquireFails(h) == /\ op[h].at = "waiting"
                   /\ \E err \in {"canceled", "write"} : Finish(h, Failed(h, err))
                   /\ UNCHANGED <<doc, effective, lock>>

\* What the config read decides before the candidate is checked.
Refusal(o, d) ==
    CASE d # o.expected -> "drift"
      [] d = o.expected /\ Collides(o, d) -> "collision"
      [] OTHER ->
           CASE o.kind = "compensate"
                  /\ (~Changes(o, d) \/ WithOwned(o, d) # EmptyConfig) -> "ownership"
             [] o.kind = "activate" /\ Changes(o, d) -> "drift"
             [] OTHER -> "none"

ReadConfig(h) ==
    /\ op[h].at = "locked"
    /\ LET refusal == Refusal(op[h], doc)
           unchanged == op[h].kind = "apply" /\ ~Changes(op[h], doc)
       IN  op' = [op EXCEPT
              ![h].at = IF refusal = "none" /\ ~unchanged THEN "candidate" ELSE "done",
              ![h].previous = doc,
              ![h].result = Observed(refusal, doc)]
    /\ UNCHANGED <<doc, effective, lock>>

ReadFails(h) == /\ op[h].at = "locked"
                /\ Finish(h, Failed(h, "unread"))
                /\ UNCHANGED <<doc, effective, lock>>

\* checkCandidate has the Herdr CLI check a private copy.
CheckCandidate(h) == /\ op[h].at = "candidate"
                     /\ \/ Goto(h, "checked")
                        \/ \E err \in {"check", "canceled"} : Finish(h, Failed(h, err))
                     /\ UNCHANGED <<doc, effective, lock>>

\* Activate reads the config again after the check, and reloads it only if it
\* is still the revision that was checked.
Verify(h) == /\ op[h].at = "checked" /\ op[h].kind = "activate"
             /\ IF doc = op[h].previous
                THEN Goto(h, "reload")
                ELSE Finish(h, Observed("drift", doc))
             /\ UNCHANGED <<doc, effective, lock>>

\* WriteBounded and RemoveBounded check the revision under the document lock.
PublishCheck(h) ==
    /\ op[h].at = "checked" /\ op[h].kind # "activate"
    /\ CASE doc = op[h].previous -> Goto(h, "publishing")
         [] doc # op[h].previous /\ op[h].kind = "apply" ->
              Finish(h, [ZeroResult EXCEPT !.err = "drift"])
         [] OTHER -> Finish(h, Failed(h, "rollback"))
    /\ UNCHANGED <<doc, effective, lock>>

PublishFails(h) ==
    /\ op[h].at \in {"checked", "publishing"}
    /\ \E result \in
         CASE op[h].kind = "apply" -> {[ZeroResult EXCEPT !.err = e] : e \in {"write", "canceled"}}
           [] op[h].kind = "compensate" -> {Failed(h, "rollback")}
           [] op[h].kind = "activate" -> {Failed(h, "unread")} :
         Finish(h, result)
    /\ UNCHANGED <<doc, effective, lock>>

\* The rename or the unlink; when the directory fsync after it fails, a write
\* is rolled back and a removal stands, with the error.
Publish(h) ==
    /\ op[h].at = "publishing"
    /\ doc' = NextDoc(h)
    /\ \E synced \in BOOLEAN :
         LET published == [ZeroResult EXCEPT !.revision = doc', !.changed = TRUE]
         IN  IF op[h].kind = "compensate"
             THEN Step(h, "reload", [published EXCEPT !.rolledBack = TRUE,
                                       !.err = IF synced THEN "none" ELSE "rollback"])
             ELSE Step(h, IF synced THEN "reload" ELSE "rollback",
                       [published EXCEPT !.err = IF synced THEN "none" ELSE "write"])
    /\ UNCHANGED <<effective, lock>>

-----------------------------------------------------------------------------
\* reload: the session loads the file as it is when it gets to it, and a
\* failed receipt does not tell whether it did.

ReloadAccepted(h) ==
    /\ op[h].at = "reload"
    /\ effective' = doc
    /\ Finish(h, [op[h].result EXCEPT !.activated = TRUE,
                    !.effectiveRestored = op[h].kind = "compensate"])
    /\ UNCHANGED <<doc, lock>>

ReloadFails(h) ==
    /\ op[h].at = "reload"
    /\ effective' \in {effective, doc}
    /\ \E err \in {"reload", "canceled"} :
         CASE op[h].kind = "apply" -> Step(h, "rollback", Failed(h, err))
           [] op[h].kind = "activate" -> Finish(h, Failed(h, err))
           [] op[h].kind = "compensate" -> Finish(h, Failed(h, "rollback"))
    /\ UNCHANGED <<doc, lock>>

\* A mistake: rollback does not look at what it replaces.
RollbackUnchecked(h) ==
    /\ op[h].at = "rollback"
    /\ op' = [op EXCEPT ![h].at = "restoring", ![h].raced = FALSE]
    /\ UNCHANGED <<doc, effective, lock>>

\* rollback: put the previous bytes back, or remove the file that was created,
\* but only over the revision that was written.
RollbackCheck(h) ==
    /\ op[h].at = "rollback"
    /\ IF doc = NextDoc(h)
       THEN op' = [op EXCEPT ![h].at = "restoring", ![h].raced = FALSE]
       ELSE Finish(h, Failed(h, "rollback"))
    /\ UNCHANGED <<doc, effective, lock>>

RollbackFails(h) == /\ op[h].at \in {"rollback", "restoring"}
                    /\ Finish(h, Failed(h, "rollback"))
                    /\ UNCHANGED <<doc, effective, lock>>

\* A mistake: the result keeps the revision that was rolled back.
RollbackKeepsRevision(h) ==
    /\ op[h].at = "restoring"
    /\ doc' = op[h].previous
    /\ Step(h, "recover", [op[h].result EXCEPT !.rolledBack = TRUE])
    /\ UNCHANGED <<effective, lock>>

Rollback(h) ==
    /\ op[h].at = "restoring"
    /\ doc' = op[h].previous
    /\ \E err \in {op[h].result.err, "rollback"} :
         Step(h, "recover", [op[h].result EXCEPT !.err = err, !.revision = doc',
                                                !.rolledBack = TRUE])
    /\ UNCHANGED <<effective, lock>>

\* The reload that ends a rollback keeps the kind of the first failure.
RecoverAccepted(h) == /\ op[h].at = "recover"
                      /\ effective' = doc
                      /\ Finish(h, [op[h].result EXCEPT !.effectiveRestored = TRUE])
                      /\ UNCHANGED <<doc, lock>>

RecoverFails(h) == /\ op[h].at = "recover"
                   /\ effective' \in {effective, doc}
                   /\ Finish(h, Failed(h, "rollback"))
                   /\ UNCHANGED <<doc, lock>>

Return(h) == /\ op[h].at = "done"
             /\ op' = [op EXCEPT ![h] = Idle]
             /\ lock' = IF lock = h THEN NoHost ELSE lock
             /\ UNCHANGED <<doc, effective>>

-----------------------------------------------------------------------------
\* The environment: a process dies, an editor changes the native part or
\* deletes the file, the session loads the file on its own (or late).

Crash(h) == /\ op[h] # Idle
            /\ op' = [op EXCEPT ![h] = Idle]
            /\ lock' = IF lock = h THEN NoHost ELSE lock
            /\ UNCHANGED <<doc, effective>>

Noticed(o) == IF o = Idle THEN Idle
              ELSE [o EXCEPT !.edited = TRUE,
                             !.raced = @ \/ o.at \in {"publishing", "restoring"}]

Edit == /\ doc' \in {Absent} \cup {[Parsed(doc) EXCEPT !.native = n] : n \in SUBSET Keys}
        /\ doc' # doc
        /\ op' = [h \in Hosts |-> Noticed(op[h])]
        /\ UNCHANGED <<effective, lock>>

NativeReload == effective' = doc /\ UNCHANGED <<doc, lock, op>>

HostStep(h) ==
    \/ Begin(h) \/ Acquire(h) \/ AcquireFails(h) \/ ReadConfig(h) \/ ReadFails(h)
    \/ CheckCandidate(h) \/ Verify(h) \/ PublishCheck(h) \/ PublishFails(h) \/ Publish(h)
    \/ ReloadAccepted(h) \/ ReloadFails(h) \/ RollbackCheck(h) \/ RollbackFails(h)
    \/ Rollback(h) \/ RecoverAccepted(h) \/ RecoverFails(h) \/ Return(h)

Next == \/ \E h \in Hosts : HostStep(h) \/ Crash(h)
        \/ Edit \/ NativeReload

Spec == Init /\ [][Next]_vars

-----------------------------------------------------------------------------
TypeOK == /\ doc \in Documents /\ effective \in Documents
          /\ lock \in Hosts \cup {NoHost}
          /\ op \in [Hosts -> Transactions]

\* A transaction that has its answer and nobody edited the file meanwhile.
Settled(h) == op[h].at = "done" /\ lock = h /\ ~op[h].edited

\* The result of a transaction tells where the file is: the revision is the
\* file's, a change that was not rolled back is there, and one that was, or
\* never happened, is not.  Without an edit from outside there is no other
\* way, whatever step failed.
ResultDescribesConfig == \A h \in Hosts : Settled(h) =>
    LET r == op[h].result IN
    /\ r.changed \/ r.revision # Absent => r.revision = doc
    /\ doc = IF r.changed /\ (~r.rolledBack \/ op[h].kind = "compensate") THEN NextDoc(h)
             ELSE IF r.err = "unread" THEN doc ELSE op[h].previous

\* An accepted reload stays in force until the lock is released: no later
\* transaction makes it effective for another revision
\* (docs/keybindinghost.md:81-86).
AcceptedReloadIsEffective == \A h \in Hosts :
    Settled(h) /\ (op[h].result.activated \/ op[h].result.effectiveRestored)
        => effective = doc

\* ErrRollback means that recovery was incomplete: every other failure leaves
\* the file as it was, and the session told to load it again if it might have
\* loaded the new one.
OnlyRollbackIsIncomplete == \A h \in Hosts :
    Settled(h) /\ op[h].result.err \notin {"none", "rollback", "unread"} =>
        /\ doc = op[h].previous
        /\ op[h].result.changed => op[h].result.effectiveRestored

\* The answer of a settled transaction is true of the file and of the session,
\* whichever step failed (Result, ErrRollback).
AnswersAreTrue == /\ TypeOK
                  /\ ResultDescribesConfig
                  /\ AcceptedReloadIsEffective
                  /\ OnlyRollbackIsIncomplete

\* No transaction, and no rollback, touches the keys of another owner or the
\* native ones, unless an editor came between the revision check and the
\* rename (docs/documentstore.md: non-cooperating writers).
Others(owner, d) == [Parsed(d) EXCEPT !.owned[owner] = {}]

OthersAreKept == [][\A h \in Hosts :
    op[h] # Idle /\ op'[h] # Idle /\ op'[h].at # op[h].at /\ ~op[h].raced
        => Others(op[h].owner, doc') = Others(op[h].owner, doc)]_vars
=============================================================================
