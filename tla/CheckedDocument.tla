-------------------------- MODULE CheckedDocument --------------------------
(***************************************************************************)
(* What package documentstore promises of one document: every call takes   *)
(* effect at one instant, a write or a removal only while the document is  *)
(* the one its caller expected, and the answer tells what happened.        *)
(***************************************************************************)
EXTENDS Naturals

CONSTANTS Callers, Contents, Absent

Documents == Contents \cup {Absent}

VARIABLES
    doc,        \* the document the directory shows
    durable,    \* the documents a machine crash may leave
    call        \* per caller: the call under way, and how far it is

Requests ==
    [kind : {"read"}] \cup [kind : {"write"}, data : Contents, expected : Documents]
        \cup [kind : {"remove"}, expected : Documents]

Answers ==
    [kind : {"closed", "failed", "conflict", "ok", "unsynced"}]
        \cup [kind : {"document"}, document : Documents]

\* The document a checked mutation leaves.
Outcome(r) == IF r.kind = "write" THEN r.data ELSE Absent

\* The revision check: a removal also needs a document to remove.
Matches(r) == doc = r.expected /\ (r.kind = "remove" => r.expected # Absent)

Idle == [at |-> "idle"]
Pending(r) == [at |-> "pending", request |-> r]
Effective(r) == [at |-> "effective", request |-> r]
Answered(r, a) == [at |-> "answered", request |-> r, answer |-> a]

Init == /\ doc \in Documents
        /\ durable = {doc}
        /\ call = [c \in Callers |-> Idle]

Call(c) == /\ call[c] = Idle
           /\ \E r \in Requests : call' = [call EXCEPT ![c] = Pending(r)]
           /\ UNCHANGED <<doc, durable>>

Answer(c, a) == call' = [call EXCEPT ![c] = Answered(@.request, a)]

\* A refusal changes nothing; a conflict means that the check failed.
Refuse(c) == \E k \in {"closed", "failed", "conflict"} :
    /\ call[c].at = "pending"
    /\ k = "conflict" => call[c].request.kind # "read" /\ ~Matches(call[c].request)
    /\ Answer(c, [kind |-> k])
    /\ UNCHANGED <<doc, durable>>

Read(c) == /\ call[c].at = "pending" /\ call[c].request.kind = "read"
           /\ Answer(c, [kind |-> "document", document |-> doc])
           /\ UNCHANGED <<doc, durable>>

Publish(c) == /\ call[c].at = "pending" /\ call[c].request.kind # "read"
              /\ Matches(call[c].request)
              /\ doc' = Outcome(call[c].request)
              /\ durable' = durable \cup {doc'}
              /\ call' = [call EXCEPT ![c] = Effective(@.request)]

\* An answer "ok" promises that the mutation survives a machine crash.
Confirm(c) == /\ call[c].at = "effective" /\ doc = Outcome(call[c].request)
              /\ \/ durable' = {doc} /\ Answer(c, [kind |-> "ok"])
                 \/ durable' = durable /\ Answer(c, [kind |-> "unsynced"])
              /\ UNCHANGED doc

Return(c) == /\ call[c].at = "answered"
             /\ call' = [call EXCEPT ![c] = Idle]
             /\ UNCHANGED <<doc, durable>>

ProcessCrash == \E gone \in SUBSET Callers :
    /\ call' = [c \in Callers |-> IF c \in gone THEN Idle ELSE call[c]]
    /\ UNCHANGED <<doc, durable>>

MachineCrash == /\ doc' \in durable
                /\ durable' = {doc'}
                /\ call' = [c \in Callers |-> Idle]

Next == \/ \E c \in Callers : \/ Call(c) \/ Refuse(c) \/ Read(c)
                              \/ Publish(c) \/ Confirm(c) \/ Return(c)
        \/ ProcessCrash \/ MachineCrash

Spec == Init /\ [][Next]_<<doc, durable, call>>
=============================================================================
