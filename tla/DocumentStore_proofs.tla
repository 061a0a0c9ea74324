------------------------ MODULE DocumentStore_proofs ------------------------
(***************************************************************************)
(* Proofs about DocumentStore, for any number of handles, callers and      *)
(* contents: its types, the exclusion its lock file gives and what follows *)
(* from it, and that it implements CheckedDocument.                        *)
(***************************************************************************)
EXTENDS DocumentStore, TLAPS

\* An operation that has begun and has no answer yet.
Places == Before \cup {"published"}
Live == [at : Places, request : Requests, store : Stores, lock : Callers \cup {NoInode}]
Done == [at : {"answered"}, request : Requests, store : Stores,
         lock : Callers \cup {NoInode}, answer : Answers]

Changing == {"checked", "written", "synced", "published"}

\* A caller that waits for the lock or holds it has the one lock file; one that
\* has not come that far has none.
LocksAgree == \A c \in Callers :
    /\ op[c].at \in Holding \cup {"lock"} => op[c].lock = lockFile /\ lockFile # NoInode
    /\ op[c].at = "called" => op[c].lock = NoInode

\* The file lock: two holders both read.
Exclusion == \A c, d \in Callers :
    c # d /\ op[c].at \in Holding /\ op[d].at \in Holding =>
        ~Exclusive(op[c].request) /\ ~Exclusive(op[d].request)

\* What request stands where, and that a published document is the one there is.
Stages == \A c \in Callers :
    /\ op[c].at \in Changing => op[c].request.kind # "read"
    /\ op[c].at \in {"written", "synced"} => op[c].request.kind = "write"
    /\ op[c].at = "published" =>
         doc = IF op[c].request.kind = "write" THEN op[c].request.data ELSE Absent

\* The inductive invariant.
Inv == StoreTypeOK /\ LocksAgree /\ Exclusion /\ Stages /\ CheckedIsCurrent /\ CloseWaits

-----------------------------------------------------------------------------
(***************************************************************************)
(* The steps an operation takes.                                           *)
(***************************************************************************)
\* Every other operation stays as it is, and this one is `o`.
Becomes(c, o) == op' = [op EXCEPT ![c] = o]

LEMMA OperationKinds ==
    ASSUME StoreTypeOK, NEW c \in Callers
    PROVE  \/ op[c] = Idle /\ op[c].at = "idle"
           \/ op[c] \in Live /\ op[c].at \in Places
           \/ op[c] \in Done /\ op[c].at = "answered"
  BY DEF StoreTypeOK, Operations, Idle, Live, Done, Places

LEMMA BecomesFacts ==
    ASSUME StoreTypeOK, NEW c \in Callers, NEW o \in Operations, Becomes(c, o)
    PROVE  /\ op' \in [Callers -> Operations] /\ op'[c] = o
           /\ \A d \in Callers \ {c} : op'[d] = op[d]
  BY DEF StoreTypeOK, Becomes

\* A step to another place, which may also name the lock.
MovedTo(o, to, lock) == [at |-> to, request |-> o.request, store |-> o.store, lock |-> lock]

LEMMA MovedIsLive ==
    ASSUME NEW o \in Live, NEW to \in Places, NEW lock \in Callers \cup {NoInode}
    PROVE  MovedTo(o, to, lock) \in Live /\ MovedTo(o, to, lock) \in Operations
  BY DEF MovedTo, Live, Places, Operations

LEMMA MovedFields ==
    ASSUME NEW o, NEW to, NEW lock
    PROVE  /\ MovedTo(o, to, lock).at = to /\ MovedTo(o, to, lock).request = o.request
           /\ MovedTo(o, to, lock).store = o.store /\ MovedTo(o, to, lock).lock = lock
  BY DEF MovedTo

LEMMA GotoMoves ==
    ASSUME StoreTypeOK, NEW c \in Callers, NEW from \in Places, NEW to, Goto(c, from, to)
    PROVE  op[c] \in Live /\ op[c].at = from /\ Becomes(c, MovedTo(op[c], to, op[c].lock))
  <1>1. op[c].at = from /\ op' = [op EXCEPT ![c] = [op[c] EXCEPT !.at = to]]
    BY DEF Goto
  <1>2. op[c] \in Live
    BY <1>1, OperationKinds DEF Places, Before
  <1>3. [op[c] EXCEPT !.at = to] = MovedTo(op[c], to, op[c].lock)
    BY <1>2 DEF Live, MovedTo
  <1> QED
    BY <1>1, <1>2, <1>3 DEF Becomes

LEMMA LockMoves ==
    ASSUME StoreTypeOK, NEW c \in Callers, op[c].at \in Places, NEW lock, WaitFor(c, lock)
    PROVE  op[c] \in Live /\ Becomes(c, MovedTo(op[c], "lock", lock))
  BY OperationKinds DEF Places, Before, WaitFor, WaitingOp, Becomes, MovedTo

LEMMA ReplyMoves ==
    ASSUME StoreTypeOK, NEW c \in Callers, op[c].at \in Places, NEW a \in Answers, Reply(c, a)
    PROVE  /\ op[c] \in Live /\ Becomes(c, AnswerOp(op[c], a))
           /\ AnswerOp(op[c], a) \in Operations
  <1>1. op[c] \in Live
    BY OperationKinds DEF Places, Before
  <1>2. AnswerOp(op[c], a) \in Operations
    BY <1>1 DEF Live, AnswerOp, Operations
  <1> QED
    BY <1>1, <1>2 DEF Reply, Becomes

LEMMA AnswerFields ==
    ASSUME NEW o, NEW a
    PROVE  /\ AnswerOp(o, a).at = "answered" /\ AnswerOp(o, a).request = o.request
           /\ AnswerOp(o, a).store = o.store /\ AnswerOp(o, a).lock = o.lock
           /\ AnswerOp(o, a).answer = a
  BY DEF AnswerOp

-----------------------------------------------------------------------------
(***************************************************************************)
(* What each kind of step keeps.  A step that leaves the document alone    *)
(* and moves one operation keeps everything that is said of the others.    *)
(***************************************************************************)
\* All but the moved operation; the conjuncts of Inv for one caller.
Sound(c) ==
    /\ op[c].at \in Holding \cup {"lock"} => op[c].lock = lockFile /\ lockFile # NoInode
    /\ op[c].at = "called" => op[c].lock = NoInode
    /\ op[c].at \in Changing => op[c].request.kind # "read"
    /\ op[c].at \in {"written", "synced"} => op[c].request.kind = "write"
    /\ op[c].at = "published" =>
         doc = IF op[c].request.kind = "write" THEN op[c].request.data ELSE Absent
    /\ op[c].at \in {"checked", "written", "synced"} => Expected(op[c].request)
    /\ ParentOpen(c) => handle[op[c].store] # "closed"

Alone(c) == \A d \in Callers \ {c} :
    op[c].at \in Holding /\ op[d].at \in Holding =>
        ~Exclusive(op[c].request) /\ ~Exclusive(op[d].request)

LEMMA InvIsSound ==
    Inv <=> StoreTypeOK /\ \A c \in Callers : Sound(c) /\ Alone(c)
  BY DEF Inv, LocksAgree, Exclusion, Stages, CheckedIsCurrent, CloseWaits, Sound, Alone

LEMMA InvIsSoundNext ==
    Inv' <=> StoreTypeOK' /\ \A c \in Callers : Sound(c)' /\ Alone(c)'
  BY DEF Inv, LocksAgree, Exclusion, Stages, CheckedIsCurrent, CloseWaits, Sound, Alone

\* One operation moves, files and handles stay.
LEMMA OneMoves ==
    ASSUME Inv, NEW c \in Callers, NEW o \in Operations, Becomes(c, o),
           UNCHANGED <<doc, durable, lockFile, handle>>,
           Sound(c)', Alone(c)'
    PROVE  Inv'
  <1>1. /\ op' \in [Callers -> Operations] /\ op'[c] = o
        /\ \A d \in Callers \ {c} : op'[d] = op[d]
    BY BecomesFacts DEF Inv
  <1>2. StoreTypeOK'
    BY <1>1 DEF Inv, StoreTypeOK
  <1>3. ASSUME NEW d \in Callers
        PROVE  Sound(d)' /\ Alone(d)'
    <2>1. CASE d = c
      BY <2>1
    <2>2. CASE d # c
      <3>1. op'[d] = op[d] /\ Sound(d) /\ Alone(d)
        BY <1>1, <2>2, InvIsSound
      <3>2. Sound(d)'
        BY <3>1 DEF Sound, Expected, ParentOpen
      <3>3. Alone(d)'
        BY <3>1, <1>1, <2>2 DEF Alone
      <3> QED
        BY <3>2, <3>3
    <2> QED
      BY <2>1, <2>2
  <1> QED
    BY <1>2, <1>3, InvIsSoundNext

\* An operation that does not hold the lock afterwards disturbs nobody.
LEMMA MovesOutside ==
    ASSUME Inv, NEW c \in Callers, NEW o \in Operations, Becomes(c, o),
           UNCHANGED <<doc, durable, lockFile, handle>>,
           o.at \notin Holding \cup {"lock", "called"},
           (o.at # "idle" /\ (o.at = "answered" => o.lock # NoInode))
               => handle[o.store] # "closed"
    PROVE  Inv'
  <1>1. op'[c] = o
    BY BecomesFacts DEF Inv
  <1>2. Sound(c)'
    BY <1>1 DEF Sound, ParentOpen, Holding, Changing
  <1>3. Alone(c)'
    BY <1>1 DEF Alone
  <1> QED
    BY <1>2, <1>3, OneMoves

\* An operation that moves on while it holds the lock.
LEMMA MovesHolding ==
    ASSUME Inv, NEW c \in Callers, NEW from \in Holding, NEW to \in Holding,
           Goto(c, from, to), UNCHANGED <<doc, durable, lockFile, handle>>,
           to # "published",
           to \in Changing => op[c].request.kind # "read",
           to \in {"written", "synced"} => op[c].request.kind = "write",
           to \in {"checked", "written", "synced"} => Expected(op[c].request)
    PROVE  Inv'
  <1>1. /\ op[c] \in Live /\ op[c].at = from
        /\ Becomes(c, MovedTo(op[c], to, op[c].lock))
    BY GotoMoves DEF Inv, Holding, Places, Before
  <1> DEFINE o == MovedTo(op[c], to, op[c].lock)
  <1>2. op[c].lock \in Callers \cup {NoInode} /\ to \in Places
    BY <1>1 DEF Live, Holding, Places, Before
  <1>3. o \in Operations /\ o.at = to /\ o.request = op[c].request
        /\ o.store = op[c].store /\ o.lock = op[c].lock
    BY <1>1, <1>2, MovedIsLive, MovedFields
  <1>4. op'[c] = o /\ \A d \in Callers \ {c} : op'[d] = op[d]
    BY <1>1, <1>3, BecomesFacts DEF Inv
  <1>5. Sound(c) /\ Alone(c)
    BY InvIsSound
  <1>6. Sound(c)'
    BY <1>1, <1>3, <1>4, <1>5 DEF Sound, ParentOpen, Holding, Expected
  <1>7. Alone(c)'
    BY <1>1, <1>3, <1>4, <1>5 DEF Alone
  <1> QED
    BY <1>1, <1>3, <1>6, <1>7, OneMoves

\* An answer, given where the operation stands.
LEMMA Replies ==
    ASSUME Inv, NEW c \in Callers, op[c].at \in Places, NEW a \in Answers, Reply(c, a),
           UNCHANGED <<doc, durable, lockFile, handle>>
    PROVE  Inv'
  <1>1. /\ op[c] \in Live /\ Becomes(c, AnswerOp(op[c], a))
        /\ AnswerOp(op[c], a) \in Operations
    BY ReplyMoves DEF Inv
  <1>2. op[c].lock # NoInode => handle[op[c].store] # "closed"
    BY InvIsSound DEF Sound, ParentOpen, Places, Before
  <1> QED
    BY <1>1, <1>2, AnswerFields, MovesOutside DEF Holding

-----------------------------------------------------------------------------
(***************************************************************************)
(* The steps.                                                              *)
(***************************************************************************)
LEMMA InvInit == Init => Inv
  BY DistinctDocuments DEF Init, Inv, StoreTypeOK, LocksAgree, Exclusion, Stages, CheckedIsCurrent,
     CloseWaits, ParentOpen, Idle, Operations, Holding, Changing, Documents

LEMMA BeginStep ==
    ASSUME Inv, NEW c \in Callers, Begin(c)
    PROVE  Inv'
  <1>1. PICK s \in Stores, r \in Requests :
            Becomes(c, [at |-> "called", request |-> r, store |-> s, lock |-> NoInode])
    BY DEF Begin, Becomes
  <1> DEFINE o == [at |-> "called", request |-> r, store |-> s, lock |-> NoInode]
  <1>2. o \in Operations /\ o.at = "called" /\ o.lock = NoInode
    BY DEF Operations, Before
  <1>3. op'[c] = o
    BY <1>1, <1>2, BecomesFacts DEF Inv
  <1>4. Sound(c)' /\ Alone(c)'
    BY <1>2, <1>3 DEF Sound, Alone, ParentOpen, Holding, Changing
  <1> QED
    BY <1>1, <1>2, <1>4, OneMoves DEF Begin

LEMMA OpenParentStep ==
    ASSUME Inv, NEW c \in Callers, OpenParent(c)
    PROVE  Inv'
  <1>1. CASE handle[op[c].store] = "open" /\ Goto(c, "called", "opened")
    <2>1. op[c] \in Live /\ Becomes(c, MovedTo(op[c], "opened", op[c].lock))
      BY <1>1, GotoMoves DEF Inv, Places, Before
    <2>2. MovedTo(op[c], "opened", op[c].lock) \in Operations
      BY <2>1, MovedIsLive DEF Live, Places, Before
    <2> QED
      BY <1>1, <2>1, <2>2, MovedFields, MovesOutside DEF OpenParent, Holding
  <1>2. CASE handle[op[c].store] = "closed" /\ Reply(c, [kind |-> "closed"])
    BY <1>2, Replies DEF OpenParent, Places, Before, Answers
  <1> QED
    BY <1>1, <1>2 DEF OpenParent

\* Steps towards the lock, which keep or lose nothing.
LEMMA ApproachStep ==
    ASSUME Inv, NEW c \in Callers, PrepareLock(c) \/ DiscardLock(c)
    PROVE  Inv'
  <1>1. PICK from \in {"opened", "candidate"}, to \in {"candidate", "reopen"} :
            Goto(c, from, to)
    BY DEF PrepareLock, DiscardLock
  <1>2. /\ op[c] \in Live /\ op[c].at = from
        /\ Becomes(c, MovedTo(op[c], to, op[c].lock))
    BY <1>1, GotoMoves DEF Inv, Places, Before
  <1>3. MovedTo(op[c], to, op[c].lock) \in Operations
    BY <1>2, MovedIsLive DEF Live, Places, Before
  <1>4. handle[op[c].store] # "closed"
    BY <1>2, InvIsSound DEF Sound, ParentOpen
  <1>5. UNCHANGED <<doc, durable, lockFile, handle>>
    BY DEF PrepareLock, DiscardLock
  <1> QED
    BY <1>2, <1>3, <1>4, <1>5, MovedFields, MovesOutside DEF Holding

LEMMA OpenLockStep ==
    ASSUME Inv, NEW c \in Callers, OpenLock(c)
    PROVE  Inv'
  <1>1. lockFile \in Callers /\ op[c].at \in {"opened", "reopen"}
    BY DEF OpenLock, Inv, StoreTypeOK
  <1>2. op[c] \in Live /\ Becomes(c, MovedTo(op[c], "lock", lockFile))
    BY <1>1, LockMoves DEF OpenLock, Inv, Places, Before
  <1> DEFINE o == MovedTo(op[c], "lock", lockFile)
  <1>3. "lock" \in Places
    BY DEF Places, Before
  <1>4. o \in Operations /\ o.at = "lock" /\ o.lock = lockFile /\ o.store = op[c].store
    BY <1>1, <1>2, <1>3, MovedIsLive, MovedFields
  <1>5. op'[c] = o
    BY <1>2, <1>4, BecomesFacts DEF Inv
  <1>6. handle[op[c].store] # "closed"
    BY <1>1, InvIsSound DEF Sound, ParentOpen
  <1>7. Sound(c)' /\ Alone(c)'
    BY <1>4, <1>5, <1>6 DEF OpenLock, Sound, Alone, ParentOpen, Holding, Changing
  <1> QED
    BY <1>2, <1>4, <1>7, OneMoves DEF OpenLock

\* The first candidate becomes the lock file, at a time when nobody has one.
LEMMA PublishLockStep ==
    ASSUME Inv, NEW c \in Callers, PublishLock(c)
    PROVE  Inv'
  <1>1. op[c] \in Live /\ Becomes(c, MovedTo(op[c], "lock", c))
    BY LockMoves DEF PublishLock, Inv, Places, Before
  <1> DEFINE o == MovedTo(op[c], "lock", c)
  <1>2. "lock" \in Places
    BY DEF Places, Before
  <1>3. o \in Operations /\ o.at = "lock" /\ o.lock = c /\ o.store = op[c].store
    BY <1>1, <1>2, MovedIsLive, MovedFields
  <1>4. /\ op' \in [Callers -> Operations] /\ op'[c] = o
        /\ \A d \in Callers \ {c} : op'[d] = op[d]
    BY <1>1, <1>3, BecomesFacts DEF Inv
  <1>5. StoreTypeOK'
    BY <1>4 DEF PublishLock, Inv, StoreTypeOK
  <1>6. c # NoInode
    BY NoInodeIsNoCaller
  <1>7. handle[op[c].store] # "closed"
    BY InvIsSound DEF PublishLock, Sound, ParentOpen
  <1>8. Sound(c)' /\ Alone(c)'
    BY <1>3, <1>4, <1>6, <1>7 DEF PublishLock, Sound, Alone, ParentOpen, Holding, Changing
  <1>9. ASSUME NEW d \in Callers \ {c}
        PROVE  Sound(d)' /\ Alone(d)'
    <2>1. op'[d] = op[d] /\ Sound(d) /\ op[d].at \notin Holding \cup {"lock"}
      BY <1>4, InvIsSound DEF PublishLock, Sound
    <2> QED
      BY <2>1 DEF PublishLock, Sound, Alone, Expected, ParentOpen
  <1> QED
    BY <1>5, <1>8, <1>9, InvIsSoundNext

\* Compatible admits a reader beside readers, a writer alone.
LEMMA LockStep ==
    ASSUME Inv, NEW c \in Callers, Lock(c)
    PROVE  Inv'
  <1>1. /\ op[c] \in Live /\ op[c].at = "lock"
        /\ Becomes(c, MovedTo(op[c], "locked", op[c].lock))
    BY GotoMoves DEF Lock, Inv, Places, Before
  <1> DEFINE o == MovedTo(op[c], "locked", op[c].lock)
  <1>2. "locked" \in Places /\ op[c].lock \in Callers \cup {NoInode}
    BY <1>1 DEF Live, Places, Before
  <1>3. o \in Operations /\ o.at = "locked" /\ o.request = op[c].request
        /\ o.lock = op[c].lock /\ o.store = op[c].store
    BY <1>1, <1>2, MovedIsLive, MovedFields
  <1>4. op'[c] = o /\ \A d \in Callers \ {c} : op'[d] = op[d]
    BY <1>1, <1>3, BecomesFacts DEF Inv
  <1>5. Sound(c)'
    BY <1>1, <1>3, <1>4, InvIsSound DEF Lock, Sound, ParentOpen, Holding, Changing
  <1>6. Alone(c)'
    <2> SUFFICES ASSUME NEW d \in Callers \ {c}, op[d].at \in Holding
                 PROVE  ~Exclusive(op[c].request) /\ ~Exclusive(op[d].request)
      BY <1>3, <1>4 DEF Alone
    <2>1. op[d].lock = lockFile /\ op[c].lock = lockFile
      BY <1>1, InvIsSound DEF Sound
    <2> QED
      BY <2>1 DEF Lock, Compatible, Holds
  <1> QED
    BY <1>1, <1>3, <1>5, <1>6, OneMoves DEF Lock

LEMMA CheckStep ==
    ASSUME Inv, NEW c \in Callers, Check(c)
    PROVE  Inv'
  <1>1. CASE Expected(op[c].request)
    BY <1>1, MovesHolding DEF Check, Holding
  <1>2. CASE ~Expected(op[c].request)
    BY <1>2, Replies DEF Check, Places, Before, Answers
  <1> QED
    BY <1>1, <1>2

LEMMA WriteTempStep ==
    ASSUME Inv, NEW c \in Callers, WriteTemp(c)
    PROVE  Inv'
  BY MovesHolding, InvIsSound DEF WriteTemp, Sound, Holding, Changing

LEMMA SyncTempStep ==
    ASSUME Inv, NEW c \in Callers, SyncTemp(c)
    PROVE  Inv'
  BY MovesHolding, InvIsSound DEF SyncTemp, Goto, Sound, Holding, Changing

LEMMA ReadStep ==
    ASSUME Inv, NEW c \in Callers, ReadLocked(c)
    PROVE  Inv'
  <1>1. [kind |-> "document", document |-> doc] \in Answers
    BY DEF Inv, StoreTypeOK, Answers
  <1> QED
    BY <1>1, Replies DEF ReadLocked, Places, Before

LEMMA FailStep ==
    ASSUME Inv, NEW c \in Callers, Fail(c)
    PROVE  Inv'
  BY Replies DEF Fail, Places, Answers

\* Rename and unlink: the holder changes the document, and nobody else has
\* checked it.
LEMMA PublishStep ==
    ASSUME Inv, NEW c \in Callers, NEW from \in {"checked", "synced"},
           Goto(c, from, "published"), UNCHANGED <<lockFile, handle>>,
           op[c].request.kind # "read",
           doc' = IF op[c].request.kind = "write" THEN op[c].request.data ELSE Absent,
           doc' \in Documents, durable' = durable \cup {doc'}
    PROVE  Inv'
  <1>1. /\ op[c] \in Live /\ op[c].at = from
        /\ Becomes(c, MovedTo(op[c], "published", op[c].lock))
    BY GotoMoves DEF Inv, Places, Before
  <1> DEFINE o == MovedTo(op[c], "published", op[c].lock)
  <1>2. "published" \in Places /\ op[c].lock \in Callers \cup {NoInode}
    BY <1>1 DEF Live, Places, Before
  <1>3. o \in Operations /\ o.at = "published" /\ o.request = op[c].request
        /\ o.lock = op[c].lock /\ o.store = op[c].store
    BY <1>1, <1>2, MovedIsLive, MovedFields
  <1>4. /\ op' \in [Callers -> Operations] /\ op'[c] = o
        /\ \A d \in Callers \ {c} : op'[d] = op[d]
    BY <1>1, <1>3, BecomesFacts DEF Inv
  <1>5. StoreTypeOK'
    BY <1>4 DEF Inv, StoreTypeOK
  <1>6. Sound(c) /\ Alone(c)
    BY InvIsSound
  <1>7. Sound(c)'
    BY <1>1, <1>3, <1>4, <1>6 DEF Sound, ParentOpen, Holding, Changing
  <1>8. Alone(c)'
    BY <1>1, <1>3, <1>4, <1>6 DEF Alone, Holding
  <1>9. ASSUME NEW d \in Callers \ {c}
        PROVE  Sound(d)' /\ Alone(d)'
    <2>1. op'[d] = op[d] /\ Sound(d) /\ Alone(d)
      BY <1>4, InvIsSound
    <2>2. op[d].at \notin Holding
      BY <1>1, <1>6 DEF Alone, Exclusive, Holding
    <2>3. Sound(d)'
      BY <2>1, <2>2 DEF Sound, ParentOpen, Holding
    <2>4. Alone(d)'
      BY <2>1, <2>2 DEF Alone
    <2> QED
      BY <2>3, <2>4
  <1> QED
    BY <1>5, <1>7, <1>8, <1>9, InvIsSoundNext

LEMMA RenameStep ==
    ASSUME Inv, NEW c \in Callers, Rename(c)
    PROVE  Inv'
  <1>1. op[c] \in Live /\ op[c].at = "synced"
    BY GotoMoves DEF Rename, Inv, Places, Before
  <1>2. op[c].request.kind = "write"
    BY <1>1, InvIsSound DEF Sound
  <1>3. op[c].request.data \in Documents
    BY <1>1, <1>2 DEF Live, Requests, Documents
  <1> QED
    BY <1>1, <1>2, <1>3, PublishStep DEF Rename, Replaced

LEMMA UnlinkStep ==
    ASSUME Inv, NEW c \in Callers, Unlink(c)
    PROVE  Inv'
  BY PublishStep DEF Unlink, Documents

\* The directory fsync leaves one document a crash may find.
LEMMA SyncDirectoryStep ==
    ASSUME Inv, NEW c \in Callers, SyncDirectory(c) \/ SyncDirectoryFails(c)
    PROVE  Inv'
  <1>1. PICK a \in Answers : Reply(c, a)
    BY DEF SyncDirectory, SyncDirectoryFails, Answers
  <1>2. op[c].at = "published" /\ UNCHANGED <<doc, lockFile, handle>>
        /\ durable' \in {durable, {doc}}
    BY DEF SyncDirectory, SyncDirectoryFails
  <1>3. /\ op[c] \in Live /\ Becomes(c, AnswerOp(op[c], a))
        /\ AnswerOp(op[c], a) \in Operations
    BY <1>1, <1>2, ReplyMoves DEF Inv, Places
  <1>4. /\ op' \in [Callers -> Operations] /\ op'[c] = AnswerOp(op[c], a)
        /\ \A d \in Callers \ {c} : op'[d] = op[d]
    BY <1>3, BecomesFacts DEF Inv
  <1>5. StoreTypeOK'
    BY <1>2, <1>4 DEF Inv, StoreTypeOK
  <1>6. ASSUME NEW d \in Callers
        PROVE  Sound(d)' /\ Alone(d)'
    <2>1. Sound(d) /\ Alone(d)
      BY InvIsSound
    <2>2. CASE d = c
      BY <1>2, <1>4, <2>1, <2>2, AnswerFields
         DEF Sound, Alone, ParentOpen, Holding, Changing
    <2>3. CASE d # c
      <3>1. op'[d] = op[d]
        BY <1>4, <2>3
      <3>2. Sound(d)'
        BY <1>2, <2>1, <3>1 DEF Sound, ParentOpen, Expected
      <3>3. Alone(d)'
        BY <1>4, <2>1, <3>1, AnswerFields DEF Alone, Holding
      <3> QED
        BY <3>2, <3>3
    <2> QED
      BY <2>2, <2>3
  <1> QED
    BY <1>5, <1>6, InvIsSoundNext

LEMMA ReturnStep ==
    ASSUME Inv, NEW c \in Callers, Return(c)
    PROVE  Inv'
  <1>1. Idle \in Operations /\ Idle.at = "idle"
    BY DEF Operations, Idle
  <1> QED
    BY <1>1, MovesOutside DEF Return, Becomes, Holding

\* Handles open and close; only an unused one closes.
LEMMA HandleStep ==
    ASSUME Inv, NEW s \in Stores, Close(s) \/ CloseLocked(s) \/ Open(s)
    PROVE  Inv'
  <1>1. /\ UNCHANGED <<doc, durable, lockFile, op>>
        /\ \E to \in {"open", "closing", "closed"} : handle' = [handle EXCEPT ![s] = to]
        /\ handle'[s] = "closed" => ~InUse(s)
    BY DEF Close, CloseLocked, Open, Inv, StoreTypeOK
  <1>2. StoreTypeOK'
    BY <1>1 DEF Inv, StoreTypeOK
  <1>3. ASSUME NEW c \in Callers
        PROVE  Sound(c)' /\ Alone(c)'
    <2>1. Sound(c) /\ Alone(c)
      BY InvIsSound
    <2>2. ParentOpen(c) => handle'[op[c].store] # "closed"
      BY <1>1, <2>1 DEF Sound, InUse, Inv, StoreTypeOK
    <2>3. Sound(c)'
      BY <1>1, <2>1, <2>2 DEF Sound, ParentOpen, Expected
    <2>4. Alone(c)'
      BY <1>1, <2>1 DEF Alone
    <2> QED
      BY <2>3, <2>4
  <1> QED
    BY <1>2, <1>3, InvIsSoundNext

LEMMA IdleIsSound ==
    ASSUME NEW c \in Callers, op[c] = Idle
    PROVE  Sound(c) /\ Alone(c)
  BY DEF Idle, Sound, Alone, ParentOpen, Holding, Changing

\* A process dies, and the operations through its handle with it.
LEMMA CrashStep ==
    ASSUME Inv, NEW s \in Stores, Crash(s)
    PROVE  Inv'
  <1>1. \A c \in Callers : op'[c] = Idle \/ (op'[c] = op[c] /\ op[c] # Idle /\ op[c].store # s)
    BY DEF Crash, Inv, StoreTypeOK
  <1>2. Idle \in Operations
    BY DEF Operations
  <1>3. StoreTypeOK'
    BY <1>2 DEF Crash, Inv, StoreTypeOK
  <1>4. ASSUME NEW c \in Callers
        PROVE  Sound(c)' /\ Alone(c)'
    <2>1. CASE op'[c] = Idle
      BY <2>1 DEF Idle, Sound, Alone, ParentOpen, Holding, Changing
    <2>2. CASE op'[c] = op[c] /\ op[c].store # s
      <3>1. Sound(c) /\ Alone(c)
        BY InvIsSound
      <3>2. Sound(c)'
        BY <2>2, <3>1 DEF Crash, Sound, ParentOpen, Expected, Inv, StoreTypeOK
      <3>3. Alone(c)'
        <4> SUFFICES ASSUME NEW d \in Callers \ {c},
                            op'[c].at \in Holding, op'[d].at \in Holding
                     PROVE  ~Exclusive(op'[c].request) /\ ~Exclusive(op'[d].request)
          BY DEF Alone
        <4>1. op'[d] = op[d]
          BY <1>1 DEF Idle, Holding
        <4> QED
          BY <2>2, <3>1, <4>1 DEF Alone
      <3> QED
        BY <3>2, <3>3
    <2> QED
      BY <1>1, <2>1, <2>2
  <1> QED
    BY <1>3, <1>4, InvIsSoundNext

LEMMA MachineCrashStep ==
    ASSUME Inv, MachineCrash
    PROVE  Inv'
  <1>1. Idle \in Operations
    BY DEF Operations
  <1>2. StoreTypeOK'
    BY <1>1 DEF MachineCrash, Inv, StoreTypeOK
  <1>3. \A c \in Callers : Sound(c)' /\ Alone(c)'
    BY DEF MachineCrash, Idle, Sound, Alone, ParentOpen, Holding, Changing
  <1> QED
    BY <1>2, <1>3, InvIsSoundNext

LEMMA InvStep == Inv /\ [Next]_vars => Inv'
  <1> SUFFICES ASSUME Inv, [Next]_vars
               PROVE  Inv'
    OBVIOUS
  <1>1. CASE UNCHANGED vars
    BY <1>1 DEF vars, Inv, StoreTypeOK, LocksAgree, Exclusion, Stages, CheckedIsCurrent, CloseWaits,
       Expected, ParentOpen
  <1>2. ASSUME NEW c \in Callers,
               \/ Begin(c) \/ OpenParent(c) \/ OpenLock(c) \/ PrepareLock(c)
               \/ PublishLock(c) \/ DiscardLock(c) \/ Lock(c) \/ ReadLocked(c) \/ Check(c)
               \/ WriteTemp(c) \/ SyncTemp(c) \/ Rename(c) \/ Unlink(c)
               \/ SyncDirectory(c) \/ SyncDirectoryFails(c) \/ Fail(c) \/ Return(c)
        PROVE  Inv'
    BY <1>2, BeginStep, OpenParentStep, OpenLockStep, ApproachStep, PublishLockStep, LockStep,
       ReadStep, CheckStep, WriteTempStep, SyncTempStep, RenameStep, UnlinkStep,
       SyncDirectoryStep, FailStep, ReturnStep
  <1>3. ASSUME NEW s \in Stores, Close(s) \/ CloseLocked(s) \/ Open(s) \/ Crash(s)
        PROVE  Inv'
    BY <1>3, HandleStep, CrashStep
  <1>4. CASE MachineCrash
    BY <1>4, MachineCrashStep
  <1> QED
    BY <1>1, <1>2, <1>3, <1>4 DEF Next

\* Whatever callers, handles and crashes do, the inductive invariant holds.
LEMMA InvHolds == Spec => []Inv
  BY InvInit, InvStep, PTL DEF Spec

-----------------------------------------------------------------------------
\* The store's variables keep their types: the document is never torn, also
\* not after a machine crash, because write syncs before it renames.
THEOREM TypeCorrect == Spec => []StoreTypeOK
  <1>1. Inv => StoreTypeOK
    BY DEF Inv
  <1> QED
    BY <1>1, InvHolds, PTL

\* The revision check still holds when the document is replaced, for any number
\* of writers, first users that race to create the lock file included.
THEOREM ChecksStayCurrent == Spec => []CheckedIsCurrent
  <1>1. Inv => CheckedIsCurrent
    BY DEF Inv
  <1> QED
    BY <1>1, InvHolds, PTL

\* Store.Close never closes the root under an operation.
THEOREM CloseIsSafe == Spec => []CloseWaits
  <1>1. Inv => CloseWaits
    BY DEF Inv
  <1> QED
    BY <1>1, InvHolds, PTL

-----------------------------------------------------------------------------
(***************************************************************************)
(* The store implements the checked document.                              *)
(***************************************************************************)
call == [c \in Callers |-> Progress(c)]

\* What one operation is to the abstract document.
LEMMA ProgressKinds ==
    ASSUME StoreTypeOK, NEW c \in Callers
    PROVE  /\ op[c].at = "idle" => Progress(c) = Checked!Idle
           /\ op[c].at \in Before => Progress(c) = Checked!Pending(op[c].request)
           /\ op[c].at = "published" => Progress(c) = Checked!Effective(op[c].request)
           /\ op[c].at = "answered"
                => Progress(c) = Checked!Answered(op[c].request, op[c].answer)
  BY DEF Progress, Before, Checked!Idle, Checked!Pending, Checked!Effective, Checked!Answered

LEMMA ProgressKindsNext ==
    ASSUME StoreTypeOK', NEW c \in Callers
    PROVE  /\ op'[c].at = "idle" => Progress(c)' = Checked!Idle
           /\ op'[c].at \in Before => Progress(c)' = Checked!Pending(op'[c].request)
           /\ op'[c].at = "published" => Progress(c)' = Checked!Effective(op'[c].request)
           /\ op'[c].at = "answered"
                => Progress(c)' = Checked!Answered(op'[c].request, op'[c].answer)
  BY DEF Progress, Before, Checked!Idle, Checked!Pending, Checked!Effective, Checked!Answered

\* A step of one operation changes one abstract call.
LEMMA OneCallMoves ==
    ASSUME StoreTypeOK, NEW c \in Callers, NEW o \in Operations, Becomes(c, o)
    PROVE  call' = [call EXCEPT ![c] = Progress(c)']
  <1>1. \A d \in Callers \ {c} : op'[d] = op[d]
    BY BecomesFacts
  <1>2. \A d \in Callers \ {c} : Progress(d)' = Progress(d)
    BY <1>1 DEF Progress
  <1> QED
    BY <1>2 DEF call

\* What happens on the way to the document is invisible.
LEMMA Invisible ==
    ASSUME Inv, StoreTypeOK', NEW c \in Callers, NEW o \in Live, o.at \in Before,
           Becomes(c, o), op[c].at \in Before, o.request = op[c].request,
           UNCHANGED <<doc, durable>>
    PROVE  UNCHANGED <<doc, durable, call>>
  <1>1. o \in Operations
    BY DEF Live, Operations, Places
  <1>2. op'[c] = o
    BY <1>1, BecomesFacts DEF Inv
  <1>3. Progress(c)' = Progress(c)
    BY <1>2, ProgressKinds, ProgressKindsNext DEF Inv
  <1>4. call' = [call EXCEPT ![c] = Progress(c)]
    BY <1>1, <1>3, OneCallMoves DEF Inv
  <1> QED
    BY <1>4 DEF call

LEMMA GotoIsInvisible ==
    ASSUME Inv, StoreTypeOK', NEW c \in Callers, NEW from \in Before, NEW to \in Before,
           Goto(c, from, to), UNCHANGED <<doc, durable>>
    PROVE  UNCHANGED <<doc, durable, call>>
  <1>1. from \in Places /\ to \in Places
    BY DEF Places
  <1>2. /\ op[c] \in Live /\ op[c].at = from
        /\ Becomes(c, MovedTo(op[c], to, op[c].lock))
    BY <1>1, GotoMoves DEF Inv
  <1>3. MovedTo(op[c], to, op[c].lock) \in Live
    BY <1>1, <1>2, MovedIsLive DEF Live
  <1> QED
    BY <1>2, <1>3, MovedFields, Invisible

LEMMA WaitIsInvisible ==
    ASSUME Inv, StoreTypeOK', NEW c \in Callers, OpenLock(c) \/ PublishLock(c)
    PROVE  UNCHANGED <<doc, durable, call>>
  <1>1. PICK lock \in Callers : WaitFor(c, lock)
    BY DEF OpenLock, PublishLock, Inv, StoreTypeOK
  <1>2. op[c].at \in Before /\ op[c].at \in Places /\ UNCHANGED <<doc, durable>>
    BY DEF OpenLock, PublishLock, Before, Places
  <1>3. op[c] \in Live /\ Becomes(c, MovedTo(op[c], "lock", lock))
    BY <1>1, <1>2, LockMoves DEF Inv
  <1>4. "lock" \in Before /\ "lock" \in Places
    BY DEF Before, Places
  <1>5. MovedTo(op[c], "lock", lock) \in Live
    BY <1>3, <1>4, MovedIsLive
  <1> QED
    BY <1>2, <1>3, <1>4, <1>5, MovedFields, Invisible

\* An answer before the document changed: a refusal, or what was read.
LEMMA EarlyAnswer ==
    ASSUME Inv, StoreTypeOK', NEW c \in Callers, op[c].at \in Before, NEW a \in Answers,
           Reply(c, a), UNCHANGED <<doc, durable>>
    PROVE  /\ call[c] = Checked!Pending(op[c].request)
           /\ call' = [call EXCEPT ![c] = Checked!Answered(op[c].request, a)]
  <1>1. /\ op[c] \in Live /\ Becomes(c, AnswerOp(op[c], a))
        /\ AnswerOp(op[c], a) \in Operations
    BY ReplyMoves DEF Inv, Places
  <1>2. op'[c] = AnswerOp(op[c], a)
    BY <1>1, BecomesFacts DEF Inv
  <1>3. Progress(c)' = Checked!Answered(op[c].request, a)
    BY <1>2, AnswerFields, ProgressKindsNext
  <1>4. call' = [call EXCEPT ![c] = Checked!Answered(op[c].request, a)]
    BY <1>1, <1>3, OneCallMoves DEF Inv
  <1> QED
    BY <1>4, ProgressKinds DEF Inv, call

LEMMA RefusalRefines ==
    ASSUME Inv, StoreTypeOK', NEW c \in Callers, op[c].at \in Before,
           NEW k \in {"closed", "failed", "conflict"}, Reply(c, [kind |-> k]),
           k = "conflict" => op[c].request.kind # "read" /\ ~Expected(op[c].request),
           UNCHANGED <<doc, durable>>
    PROVE  Checked!Refuse(c)
  <1>1. [kind |-> k] \in Answers
    BY DEF Answers
  <1>2. /\ call[c] = Checked!Pending(op[c].request)
        /\ call' = [call EXCEPT ![c] = Checked!Answered(op[c].request, [kind |-> k])]
    BY <1>1, EarlyAnswer
  <1>3. call[c].at = "pending" /\ call[c].request = op[c].request
    BY <1>2 DEF Checked!Pending
  <1>4. Checked!Answer(c, [kind |-> k])
    BY <1>2, <1>3 DEF Checked!Answer, call
  <1>5. k = "conflict" =>
            call[c].request.kind # "read" /\ ~Checked!Matches(call[c].request)
    BY <1>3 DEF Checked!Matches, Expected
  <1> QED
    BY <1>3, <1>4, <1>5 DEF Checked!Refuse, call

LEMMA ReadRefines ==
    ASSUME Inv, StoreTypeOK', NEW c \in Callers, ReadLocked(c)
    PROVE  Checked!Read(c)
  <1>1. [kind |-> "document", document |-> doc] \in Answers
    BY DEF Inv, StoreTypeOK, Answers
  <1>2. /\ call[c] = Checked!Pending(op[c].request)
        /\ call' = [call EXCEPT ![c] =
                Checked!Answered(op[c].request, [kind |-> "document", document |-> doc])]
    BY <1>1, EarlyAnswer DEF ReadLocked, Before
  <1>3. call[c].at = "pending" /\ call[c].request = op[c].request
    BY <1>2 DEF Checked!Pending
  <1> QED
    BY <1>2, <1>3 DEF ReadLocked, Checked!Read, Checked!Answer, call

\* The rename, or the unlink, is the instant at which a mutation takes effect.
LEMMA PublishRefines ==
    ASSUME Inv, StoreTypeOK', NEW c \in Callers, Rename(c) \/ Unlink(c)
    PROVE  Checked!Publish(c)
  <1>1. PICK from \in {"synced", "checked"} : Goto(c, from, "published")
    BY DEF Rename, Unlink
  <1>2. /\ op[c] \in Live /\ op[c].at = from
        /\ Becomes(c, MovedTo(op[c], "published", op[c].lock))
    BY <1>1, GotoMoves DEF Inv, Places, Before
  <1>3. "published" \in Places /\ op[c].lock \in Callers \cup {NoInode}
    BY <1>2 DEF Live, Places
  <1>4. MovedTo(op[c], "published", op[c].lock) \in Operations
    BY <1>2, <1>3, MovedIsLive
  <1>5. op'[c].at = "published" /\ op'[c].request = op[c].request
    BY <1>2, <1>4, BecomesFacts, MovedFields DEF Inv
  <1>6. call' = [call EXCEPT ![c] = Checked!Effective(op[c].request)]
    BY <1>2, <1>4, <1>5, OneCallMoves, ProgressKindsNext DEF Inv
  <1>7. call[c] = Checked!Pending(op[c].request)
    BY <1>2, ProgressKinds DEF Inv, Before, call
  <1>8. call[c].at = "pending" /\ call[c].request = op[c].request
    BY <1>7 DEF Checked!Pending
  <1>9. Expected(op[c].request)
    BY <1>2, InvIsSound DEF Sound
  <1>10. /\ op[c].request.kind # "read"
         /\ doc' = IF op[c].request.kind = "write" THEN op[c].request.data ELSE Absent
         /\ durable' = durable \cup {doc'}
    BY <1>2, InvIsSound DEF Sound, Changing, Rename, Unlink, Replaced, Goto
  <1> QED
    BY <1>6, <1>8, <1>9, <1>10
       DEF Checked!Publish, Checked!Matches, Checked!Outcome, Expected, call

\* The answer after the directory fsync, or after its failure.
LEMMA ConfirmRefines ==
    ASSUME Inv, StoreTypeOK', NEW c \in Callers, SyncDirectory(c) \/ SyncDirectoryFails(c)
    PROVE  Checked!Confirm(c)
  <1>1. PICK a \in Answers :
            /\ Reply(c, a) /\ doc' = doc
            /\ \/ durable' = {doc} /\ a = [kind |-> "ok"]
               \/ durable' = durable /\ a = [kind |-> "unsynced"]
    BY DEF SyncDirectory, SyncDirectoryFails, Answers
  <1>2. op[c].at = "published"
    BY DEF SyncDirectory, SyncDirectoryFails
  <1>3. /\ op[c] \in Live /\ Becomes(c, AnswerOp(op[c], a))
        /\ AnswerOp(op[c], a) \in Operations
    BY <1>1, <1>2, ReplyMoves DEF Inv, Places
  <1>4. op'[c] = AnswerOp(op[c], a)
    BY <1>3, BecomesFacts DEF Inv
  <1>5. Progress(c)' = Checked!Answered(op[c].request, a)
    BY <1>4, AnswerFields, ProgressKindsNext
  <1>6. call' = [call EXCEPT ![c] = Checked!Answered(op[c].request, a)]
    BY <1>3, <1>5, OneCallMoves DEF Inv
  <1>7. call[c] = Checked!Effective(op[c].request)
    BY <1>2, ProgressKinds DEF Inv, call
  <1>8. call[c].at = "effective" /\ call[c].request = op[c].request
    BY <1>7 DEF Checked!Effective
  <1>9. Checked!Answer(c, a)
    BY <1>6, <1>8 DEF Checked!Answer, call
  <1>10. doc = Checked!Outcome(call[c].request)
    BY <1>2, <1>8, InvIsSound DEF Sound, Checked!Outcome
  <1> QED
    BY <1>1, <1>8, <1>9, <1>10 DEF Checked!Confirm, call

LEMMA BeginRefines ==
    ASSUME Inv, StoreTypeOK', NEW c \in Callers, Begin(c)
    PROVE  Checked!Call(c)
  <1>1. PICK s \in Stores, r \in Requests :
            Becomes(c, [at |-> "called", request |-> r, store |-> s, lock |-> NoInode])
    BY DEF Begin, Becomes
  <1> DEFINE o == [at |-> "called", request |-> r, store |-> s, lock |-> NoInode]
  <1>2. o \in Operations /\ o.at = "called" /\ o.request = r
    BY DEF Operations, Before
  <1>3. op'[c] = o
    BY <1>1, <1>2, BecomesFacts DEF Inv
  <1>4. Progress(c)' = Checked!Pending(r)
    BY <1>2, <1>3, ProgressKindsNext DEF Before
  <1>5. call' = [call EXCEPT ![c] = Checked!Pending(r)]
    BY <1>1, <1>2, <1>4, OneCallMoves DEF Inv
  <1>6. call[c] = Checked!Idle
    BY ProgressKinds DEF Begin, Idle, Inv, call
  <1>7. r \in Checked!Requests
    BY DEF Requests, Checked!Requests, Documents, Checked!Documents
  <1> QED
    BY <1>5, <1>6, <1>7 DEF Begin, Checked!Call, call

LEMMA ReturnRefines ==
    ASSUME Inv, StoreTypeOK', NEW c \in Callers, Return(c)
    PROVE  Checked!Return(c)
  <1>1. Idle \in Operations /\ Idle.at = "idle" /\ Becomes(c, Idle)
    BY DEF Operations, Idle, Return, Becomes
  <1>2. op'[c] = Idle
    BY <1>1, BecomesFacts DEF Inv
  <1>3. Progress(c)' = Checked!Idle
    BY <1>1, <1>2, ProgressKindsNext
  <1>4. call' = [call EXCEPT ![c] = Checked!Idle]
    BY <1>1, <1>3, OneCallMoves DEF Inv
  <1>5. call[c].at = "answered"
    BY ProgressKinds DEF Return, Inv, call, Checked!Answered
  <1> QED
    BY <1>4, <1>5 DEF Return, Checked!Return, call

LEMMA CrashRefines ==
    ASSUME Inv, StoreTypeOK', NEW s \in Stores, Crash(s)
    PROVE  Checked!ProcessCrash
  <1> DEFINE gone == {c \in Callers : op[c] # Idle /\ op[c].store = s}
  <1>1. ASSUME NEW c \in Callers
        PROVE  Progress(c)' = IF c \in gone THEN Checked!Idle ELSE call[c]
    <2>1. CASE c \in gone
      BY <2>1, ProgressKindsNext DEF Crash, Idle
    <2>2. CASE c \notin gone
      <3>1. op'[c] = op[c]
        BY <2>2 DEF Crash
      <3>2. Progress(c)' = Progress(c)
        BY <3>1 DEF Progress
      <3> QED
        BY <2>2, <3>2 DEF call
    <2> QED
      BY <2>1, <2>2
  <1>2. call' = [c \in Callers |-> IF c \in gone THEN Checked!Idle ELSE call[c]]
    BY <1>1 DEF call
  <1>3. gone \in SUBSET Callers
    OBVIOUS
  <1> QED
    BY <1>2, <1>3 DEF Crash, Checked!ProcessCrash, call

LEMMA MachineCrashRefines ==
    ASSUME Inv, StoreTypeOK', MachineCrash
    PROVE  Checked!MachineCrash
  <1>1. ASSUME NEW c \in Callers
        PROVE  Progress(c)' = Checked!Idle
    BY ProgressKindsNext DEF MachineCrash, Idle
  <1>2. call' = [c \in Callers |-> Checked!Idle]
    BY <1>1 DEF call
  <1> QED
    BY <1>2 DEF MachineCrash, Checked!MachineCrash, call

\* Every step of the store is a step of the checked document, or none.
LEMMA StepRefines ==
    ASSUME Inv, Inv', [Next]_vars
    PROVE  Checked!Next \/ UNCHANGED <<doc, durable, call>>
  <1> StoreTypeOK'
    BY DEF Inv
  <1>1. CASE UNCHANGED vars
    BY <1>1 DEF vars, call, Progress
  <1>2. ASSUME NEW c \in Callers,
               \/ PrepareLock(c) \/ DiscardLock(c) \/ Lock(c) \/ WriteTemp(c) \/ SyncTemp(c)
               \/ OpenLock(c) \/ PublishLock(c)
        PROVE  UNCHANGED <<doc, durable, call>>
    BY <1>2, GotoIsInvisible, WaitIsInvisible
       DEF PrepareLock, DiscardLock, Lock, WriteTemp, SyncTemp, Before
  <1>3. ASSUME NEW c \in Callers, OpenParent(c)
        PROVE  Checked!Refuse(c) \/ UNCHANGED <<doc, durable, call>>
    BY <1>3, GotoIsInvisible, RefusalRefines DEF OpenParent, Before
  <1>4. ASSUME NEW c \in Callers, Check(c)
        PROVE  Checked!Refuse(c) \/ UNCHANGED <<doc, durable, call>>
    BY <1>4, GotoIsInvisible, RefusalRefines DEF Check, Before
  <1>5. ASSUME NEW c \in Callers, Fail(c)
        PROVE  Checked!Refuse(c)
    BY <1>5, RefusalRefines DEF Fail
  <1>6. ASSUME NEW c \in Callers,
               \/ Begin(c) \/ ReadLocked(c) \/ Rename(c) \/ Unlink(c)
               \/ SyncDirectory(c) \/ SyncDirectoryFails(c) \/ Return(c)
        PROVE  Checked!Next
    BY <1>6, BeginRefines, ReadRefines, PublishRefines, ConfirmRefines, ReturnRefines
       DEF Checked!Next
  <1>7. ASSUME NEW s \in Stores, Close(s) \/ CloseLocked(s) \/ Open(s) \/ Crash(s)
        PROVE  Checked!ProcessCrash \/ UNCHANGED <<doc, durable, call>>
    <2>1. CASE Close(s) \/ CloseLocked(s) \/ Open(s)
      <3>1. UNCHANGED <<doc, durable, op>>
        BY <2>1 DEF Close, CloseLocked, Open
      <3>2. \A c \in Callers : Progress(c)' = Progress(c)
        BY <3>1 DEF Progress
      <3> QED
        BY <3>1, <3>2 DEF call
    <2> QED
      BY <1>7, <2>1, CrashRefines
  <1>8. CASE MachineCrash
    BY <1>8, MachineCrashRefines DEF Checked!Next
  <1> QED
    BY <1>1, <1>2, <1>3, <1>4, <1>5, <1>6, <1>7, <1>8 DEF Next, Checked!Next

LEMMA InitRefines == Init => Checked!Init
  <1> SUFFICES ASSUME Init PROVE Checked!Init
    OBVIOUS
  <1>1. StoreTypeOK
    BY InvInit DEF Inv
  <1>2. \A c \in Callers : op[c].at = "idle"
    BY DEF Init, Idle
  <1>3. call = [c \in Callers |-> Checked!Idle]
    BY <1>1, <1>2, ProgressKinds DEF call
  <1> QED
    BY <1>3 DEF Init, Checked!Init, Documents, Checked!Documents, call

\* Every behaviour of the store is one of an atomic checked document: a call
\* takes effect at one instant while its expectation holds, its answer tells
\* what happened, and an answered success survives a machine crash.
THEOREM StoreImplementsCheckedDocument == Spec => ImplementsCheckedDocument
  <1>1. Inv /\ Inv' /\ [Next]_vars => [Checked!Next]_<<doc, durable, call>>
    BY StepRefines
  <1> QED
    BY <1>1, InitRefines, InvHolds, PTL DEF Spec, ImplementsCheckedDocument, Checked!Spec, call
=============================================================================
