--------------------------- MODULE DocumentStore ---------------------------
(***************************************************************************)
(* Package documentstore on Linux: one document, read, replaced and        *)
(* removed through any number of Store handles, of one process or of       *)
(* several, that cooperate through a lock file beside the document.        *)
(*                                                                         *)
(* A revision is a digest of the content, so a content stands for its own  *)
(* revision, and Absent for the zero revision.  Cancellation and I/O       *)
(* errors end an operation in the same way and are one failure here.       *)
(* Writers that ignore the lock are outside the package's promise and are  *)
(* left out; ownership, modes and size limits are data nothing here reads. *)
(***************************************************************************)
EXTENDS FiniteSets

CONSTANTS Stores,       \* Store handles
          Callers,      \* goroutines, each with at most one call under way
          Contents,     \* documents
          Absent,       \* no document
          Torn,         \* a document whose bytes were never synced
          NoInode

ASSUME DistinctDocuments == Absent \notin Contents /\ Torn \notin Contents \cup {Absent}
ASSUME NoInodeIsNoCaller == NoInode \notin Callers

VARIABLES
    doc,        \* the document the directory shows
    durable,    \* the documents a machine crash may leave
    lockFile,   \* the inode under the lock's name; an inode is named by its creator
    handle,     \* per store: "open", "closing" (Close waits for s.mu) or "closed"
    op          \* per caller: the operation under way

vars == <<doc, durable, lockFile, handle, op>>

Documents == Contents \cup {Absent}

Requests ==
    [kind : {"read"}] \cup [kind : {"write"}, data : Contents, expected : Documents]
        \cup [kind : {"remove"}, expected : Documents]

Answers ==
    [kind : {"closed", "failed", "conflict", "ok", "unsynced"}]
        \cup [kind : {"document"}, document : Documents]

Idle == [at |-> "idle"]

\* Where an operation stands before it took effect, in the order it goes.
Before == {"called", "opened", "candidate", "reopen", "lock", "locked", "checked", "written", "synced"}

Operations ==
    {Idle}
    \cup [at : Before \cup {"published"}, request : Requests, store : Stores,
          lock : Callers \cup {NoInode}]
    \cup [at : {"answered"}, request : Requests, store : Stores,
          lock : Callers \cup {NoInode}, answer : Answers]

Init == /\ doc \in Documents
        /\ durable = {doc}
        /\ lockFile = NoInode
        /\ handle = [s \in Stores |-> "open"]
        /\ op = [c \in Callers |-> Idle]

-----------------------------------------------------------------------------
\* The file lock: an exclusive holder excludes everyone on the same inode.

Holding == {"locked", "checked", "written", "synced", "published"}

Holds(c, inode) == /\ op[c].at \in Holding \cup {"answered"}
                   /\ op[c].lock = inode

Exclusive(r) == r.kind # "read"

Compatible(c) == \A d \in Callers \ {c} :
    Holds(d, op[c].lock) => ~Exclusive(op[c].request) /\ ~Exclusive(op[d].request)

-----------------------------------------------------------------------------
\* Helpers: a step to another place, and an answer.

Goto(c, from, to) == op[c].at = from /\ op' = [op EXCEPT ![c].at = to]

AnswerOp(o, a) == [at |-> "answered", request |-> o.request, store |-> o.store,
                   lock |-> o.lock, answer |-> a]

Reply(c, a) == op' = [op EXCEPT ![c] = AnswerOp(@, a)]

WaitingOp(o, inode) == [at |-> "lock", request |-> o.request, store |-> o.store,
                        lock |-> inode]

WaitFor(c, inode) == op' = [op EXCEPT ![c] = WaitingOp(@, inode)]

-----------------------------------------------------------------------------
\* Operations.

Begin(c) == /\ op[c] = Idle
            /\ \E s \in Stores, r \in Requests :
                 op' = [op EXCEPT ![c] = [at |-> "called", request |-> r, store |-> s,
                                          lock |-> NoInode]]
            /\ UNCHANGED <<doc, durable, lockFile, handle>>

\* openParent takes s.mu for reading: a waiting Close holds it back, and a
\* closed store answers ErrClosed.
OpenParent(c) == /\ op[c].at = "called"
                 /\ \/ handle[op[c].store] = "open" /\ Goto(c, "called", "opened")
                    \/ handle[op[c].store] = "closed" /\ Reply(c, [kind |-> "closed"])
                 /\ UNCHANGED <<doc, durable, lockFile, handle>>

\* openLock: the existing lock file, or else a private candidate.
OpenLock(c) == /\ op[c].at \in {"opened", "reopen"}
               /\ lockFile # NoInode
               /\ WaitFor(c, lockFile)
               /\ UNCHANGED <<doc, durable, lockFile, handle>>

PrepareLock(c) == /\ lockFile = NoInode
                  /\ Goto(c, "opened", "candidate")
                  /\ UNCHANGED <<doc, durable, lockFile, handle>>

\* A mistake the run must notice: a plain rename replaces the lock file.
ReplaceLock(c) == /\ op[c].at = "candidate"
                  /\ lockFile' = c
                  /\ WaitFor(c, c)
                  /\ UNCHANGED <<doc, durable, handle>>

\* renameat2 with RENAME_NOREPLACE: the first candidate becomes the lock, and
\* the others are discarded for it.
PublishLock(c) == /\ op[c].at = "candidate" /\ lockFile = NoInode
                  /\ lockFile' = c
                  /\ WaitFor(c, c)
                  /\ UNCHANGED <<doc, durable, handle>>

DiscardLock(c) == /\ lockFile # NoInode
                  /\ Goto(c, "candidate", "reopen")
                  /\ UNCHANGED <<doc, durable, lockFile, handle>>

\* flockContext polls until the lock is compatible.
Lock(c) == /\ Goto(c, "lock", "locked")
           /\ Compatible(c)
           /\ UNCHANGED <<doc, durable, lockFile, handle>>

ReadLocked(c) == /\ op[c].at = "locked" /\ op[c].request.kind = "read"
                 /\ Reply(c, [kind |-> "document", document |-> doc])
                 /\ UNCHANGED <<doc, durable, lockFile, handle>>

\* The revision check of write and RemoveBounded.
Expected(r) == doc = r.expected /\ (r.kind = "remove" => r.expected # Absent)

Check(c) == /\ op[c].at = "locked" /\ op[c].request.kind # "read"
            /\ IF Expected(op[c].request)
               THEN Goto(c, "locked", "checked")
               ELSE Reply(c, [kind |-> "conflict"])
            /\ UNCHANGED <<doc, durable, lockFile, handle>>

WriteTemp(c) == /\ op[c].at = "checked" /\ op[c].request.kind = "write"
                /\ Goto(c, "checked", "written")
                /\ UNCHANGED <<doc, durable, lockFile, handle>>

SyncTemp(c) == /\ Goto(c, "written", "synced")
               /\ UNCHANGED <<doc, durable, lockFile, handle>>

\* What a crash may find under the name: renaming a temporary that was not
\* synced publishes bytes that need not be there after a crash.
Replaced(c) == IF op[c].at = "synced" THEN op[c].request.data ELSE Torn

\* A mistake: the temporary is renamed before it is synced.
RenameUnsynced(c) == /\ Goto(c, "written", "published")
                     /\ doc' = op[c].request.data
                     /\ durable' = durable \cup {Replaced(c)}
                     /\ UNCHANGED <<lockFile, handle>>

Rename(c) == /\ Goto(c, "synced", "published")
             /\ doc' = op[c].request.data
             /\ durable' = durable \cup {Replaced(c)}
             /\ UNCHANGED <<lockFile, handle>>

Unlink(c) == /\ op[c].at = "checked" /\ op[c].request.kind = "remove"
             /\ doc' = Absent
             /\ durable' = durable \cup {Absent}
             /\ Goto(c, "checked", "published")
             /\ UNCHANGED <<lockFile, handle>>

SyncDirectory(c) == /\ op[c].at = "published"
                    /\ durable' = {doc}
                    /\ Reply(c, [kind |-> "ok"])
                    /\ UNCHANGED <<doc, lockFile, handle>>

\* A mistake: a published document is reported as a failure.
SyncDirectoryHides(c) == /\ op[c].at = "published"
                         /\ Reply(c, [kind |-> "failed"])
                         /\ UNCHANGED <<doc, durable, lockFile, handle>>

\* The mutation stands, and the caller gets its revision with the error.
SyncDirectoryFails(c) == /\ op[c].at = "published"
                         /\ Reply(c, [kind |-> "unsynced"])
                         /\ UNCHANGED <<doc, durable, lockFile, handle>>

\* An error or a cancelled context at any earlier step.
Fail(c) == /\ op[c].at \in Before
           /\ Reply(c, [kind |-> "failed"])
           /\ UNCHANGED <<doc, durable, lockFile, handle>>

\* The deferred calls: close the lock (which releases it), close the parent,
\* release s.mu.
Return(c) == /\ op[c].at = "answered"
             /\ op' = [op EXCEPT ![c] = Idle]
             /\ UNCHANGED <<doc, durable, lockFile, handle>>

-----------------------------------------------------------------------------
\* Handles and crashes.

\* s.mu is held for reading while the parent directory is open, from
\* openParent to the deferred release.
ParentOpen(c) == /\ op[c].at \notin {"idle", "called"}
                 /\ op[c].at = "answered" => op[c].lock # NoInode

InUse(s) == \E c \in Callers : ParentOpen(c) /\ op[c].store = s

Close(s) == /\ handle[s] = "open"
            /\ handle' = [handle EXCEPT ![s] = "closing"]
            /\ UNCHANGED <<doc, durable, lockFile, op>>

\* A mistake: Close does not wait.
CloseAtOnce(s) == /\ handle[s] = "closing"
                  /\ handle' = [handle EXCEPT ![s] = "closed"]
                  /\ UNCHANGED <<doc, durable, lockFile, op>>

CloseLocked(s) == /\ handle[s] = "closing" /\ ~InUse(s)
                  /\ handle' = [handle EXCEPT ![s] = "closed"]
                  /\ UNCHANGED <<doc, durable, lockFile, op>>

Open(s) == /\ handle[s] = "closed"
           /\ handle' = [handle EXCEPT ![s] = "open"]
           /\ UNCHANGED <<doc, durable, lockFile, op>>

\* The process of a handle dies: its locks go, its temporaries stay behind
\* under random names nothing opens again.
Crash(s) == /\ handle[s] # "closed"
            /\ handle' = [handle EXCEPT ![s] = "closed"]
            /\ op' = [c \in Callers |-> IF op[c] # Idle /\ op[c].store = s THEN Idle ELSE op[c]]
            /\ UNCHANGED <<doc, durable, lockFile>>

\* The machine stops: unsynced directory entries may be undone.
MachineCrash == /\ doc' \in durable
                /\ durable' = {doc'}
                /\ lockFile' \in {lockFile, NoInode}
                /\ handle' = [s \in Stores |-> "closed"]
                /\ op' = [c \in Callers |-> Idle]

Next == \/ \E c \in Callers :
             \/ Begin(c) \/ OpenParent(c) \/ OpenLock(c) \/ PrepareLock(c)
             \/ PublishLock(c) \/ DiscardLock(c) \/ Lock(c) \/ ReadLocked(c) \/ Check(c)
             \/ WriteTemp(c) \/ SyncTemp(c) \/ Rename(c) \/ Unlink(c)
             \/ SyncDirectory(c) \/ SyncDirectoryFails(c) \/ Fail(c) \/ Return(c)
        \/ \E s \in Stores : Close(s) \/ CloseLocked(s) \/ Open(s) \/ Crash(s)
        \/ MachineCrash

Spec == Init /\ [][Next]_vars

-----------------------------------------------------------------------------
\* Types of every variable; Torn never appears as the document itself, also
\* not after a machine crash, because write syncs the temporary before it
\* renames it.
StoreTypeOK ==
    /\ doc \in Documents
    /\ durable \in SUBSET Documents /\ doc \in durable
    /\ lockFile \in Callers \cup {NoInode}
    /\ handle \in [Stores -> {"open", "closing", "closed"}]
    /\ op \in [Callers -> Operations]

\* A caller that has passed its revision check is alone: no other operation
\* reads, checks or publishes until it has returned, so that the document it
\* replaces is the one it checked.
CheckedIsCurrent == \A c \in Callers :
    op[c].at \in {"checked", "written", "synced"} => Expected(op[c].request)

\* Store.Close waits for active operations: none uses the root after it.
CloseWaits == \A c \in Callers :
    ParentOpen(c) => handle[op[c].store] # "closed"

\* Every call is a call on a checked document: it takes effect at one instant
\* within the call, only while its expectation holds, and its answer (conflict,
\* failure, revision with an error, success) says what happened; an answered
\* success survives a machine crash.
Progress(c) ==
    CASE op[c].at = "idle" -> [at |-> "idle"]
      [] op[c].at \in Before -> [at |-> "pending", request |-> op[c].request]
      [] op[c].at = "published" -> [at |-> "effective", request |-> op[c].request]
      [] op[c].at = "answered" ->
           [at |-> "answered", request |-> op[c].request, answer |-> op[c].answer]

Checked == INSTANCE CheckedDocument WITH call <- [c \in Callers |-> Progress(c)]

ImplementsCheckedDocument == Checked!Spec
=============================================================================
