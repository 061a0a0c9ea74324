----------------------------- MODULE SegmentLog -----------------------------
(***************************************************************************)
(* diagnostics.Recorder and its segmented event log.  An operation holds   *)
(* Recorder.mu and makes its storage calls one at a time; `step` names the *)
(* call that is next.  Every call may fail before or after its effect, the *)
(* process may end between any two and the machine may lose power.         *)
(***************************************************************************)
EXTENDS SegmentFiles

CONSTANTS Sizes, MaxEvents, MaxBytes, SegmentTarget,
          ImportCounts,            \* how many events a legacy log may hold
          LastId, MaxFailures, MaxCrashes   \* bounds

ASSUME RetentionAssumption ==
    /\ MaxEvents \in Nat \ {0} /\ MaxBytes \in Nat \ {0}
    /\ SegmentTarget \in Nat \ {0} /\ Sizes \subseteq Nat \ {0}
    /\ LastId \in Nat /\ ImportCounts \subseteq 0..LastId

VARIABLES
    status,    \* "down", "importing", "opening", "open", "closed"
    writable,  \* Health.Writable
    segs,      \* Recorder.segments: ordinals to [ids, dirty]
    records,   \* Recorder.records: what readers of the recorder are shown
    step,      \* the next storage call of the operation that holds the mutex
    at,        \* the segment that call is about, 0 for none
    todo,      \* the events a file being filled is still to get
    staged,    \* the records retention was decided for
    cut,       \* retention drops the staged records up to this one
    legacy,    \* the events of the legacy log
    size,      \* the size of each event
    lastId,    \* identity of the latest event
    aged,      \* events up to this one are older than MaxAge
    dropped,   \* events a retention decision gave up
    safe,      \* events an operation reported durable
    failures, crashes

opVars == <<step, at, todo, staged, cut>>
worldVars == <<legacy, size, lastId, aged, failures, crashes>>
vars == <<diskVars, active, status, writable, segs, records, opVars, dropped, safe,
          worldVars>>

-----------------------------------------------------------------------------
Bytes(s) == MapThenSumSet(LAMBDA e : size[e], s)

From(s, c) == {e \in s : e > c}

\* retentionDecision: the oldest records go while one is too old or they are
\* too many or too large.
Goes(s) ==
    s # {} /\ \/ \E e \in s : e <= aged
              \/ Cardinality(s) > MaxEvents
              \/ Bytes(s) > MaxBytes

Cut(s) ==
    CHOOSE c \in 0..LastId :
        ~Goes(From(s, c)) /\ \A b \in 0..(c - 1) : Goes(From(s, b))

\* The size an append may not take a segment beyond, unless it is empty.
Rotates(ids, e) ==
    ids # {} /\ Bytes(ids \cup {e}) > Min({SegmentTarget, MaxBytes})

NoSegments == [o \in {} |-> NoFile]
NewSegment == [ids |-> {}, dirty |-> FALSE]
Latest(s) == Max(DOMAIN s)

\* trimSegments: a segment expires with all before it, the last one never does;
\* of the others those are rewritten that lose events or were left torn.
Expires(s, o) ==
    o # Latest(s) /\ \A p \in DOMAIN s : p <= o => From(s[p].ids, cut) = {}
Expired(s) == {o \in DOMAIN s : Expires(s, o)}
Boundaries(s) ==
    {o \in DOMAIN s : ~Expires(s, o) /\ (s[o].dirty \/ From(s[o].ids, cut) # s[o].ids)}

\* readSegment of every segment.
Loaded ==
    [o \in Segments(entry) |->
        [ids |-> file[entry[o]].ids, dirty |-> file[entry[o]].tail # "whole"]]

Corrupt == ~InOrder(entry) \/ \E o \in Segments(entry) : file[entry[o]].tail = "partial"

\* identicalSuffix, of what retention keeps of the live and the legacy log.
Reconciles ==
    LET live == From(IdsIn(entry), Cut(IdsIn(entry)))
        prior == From(legacy, Cut(legacy))
    IN  ~Corrupt /\ live \subseteq prior /\ \A x \in live : From(prior, x) \subseteq live

\* "live diagnostics directory has no segments", "... conflict ..." otherwise.
AcceptsLive == Segments(entry) # {} /\ (root.legacy => Reconciles)

\* What a reader that knows the layout finds: the events of the segments, those
\* of the legacy log as long as nothing has replaced it.
Readable ==
    IF root.dir = "live" THEN IdsIn(entry) ELSE IF root.legacy THEN legacy ELSE {}

-----------------------------------------------------------------------------
Idle == step = "idle"

Begin(first, o, found) ==
    /\ step' = first /\ at' = o
    /\ staged' = found /\ cut' = Cut(found)
    /\ dropped' = dropped \cup (found \ From(found, Cut(found)))

\* Open, of the root as an earlier recorder or an older release left it: a new
\* Recorder, of a root that has no live directory ...
OpenImports ==
    /\ status \in {"down", "closed"} /\ Idle /\ root.dir # "live"
    /\ LET found == IF root.legacy THEN legacy ELSE {} IN
         /\ todo' = From(found, Cut(found))
         /\ CASE root.dir = "none" -> Begin("makeStage", 0, found)
              [] root.dir = "stage" /\ Segments(entry) = {} -> Begin("removeStage", 0, found)
              [] root.dir = "stage" /\ Segments(entry) # {} ->
                     Begin("discard", Min(Segments(entry)), found)
    /\ status' = "importing" /\ writable' = TRUE /\ active' = NoFile
    /\ segs' = NoSegments /\ records' = {}
    /\ UNCHANGED <<diskVars, safe, worldVars>>

\* ... and of one that has.
OpenLive ==
    /\ status \in {"down", "closed"} /\ Idle /\ root.dir = "live" /\ AcceptsLive
    /\ Begin("secure", Min(Segments(entry)), IdsIn(entry)) /\ todo' = {}
    /\ status' = "opening" /\ writable' = TRUE /\ active' = NoFile
    /\ segs' = Loaded /\ records' = {}
    /\ UNCHANGED <<diskVars, safe, worldVars>>

\* record: append, then drop what retention no longer keeps.
Record ==
    /\ status = "open" /\ Idle /\ writable /\ lastId < LastId
    /\ size[lastId + 1] <= MaxBytes
    /\ lastId' = lastId + 1
    /\ IF Rotates(segs[Latest(segs)].ids, lastId + 1)
         THEN /\ Latest(segs) + 1 \in Ordinals
              /\ Begin("rotateSync", Latest(segs) + 1, records \cup {lastId + 1})
         ELSE Begin("append", 0, records \cup {lastId + 1})
    /\ UNCHANGED <<diskVars, active, status, writable, segs, records, todo, safe,
                   legacy, size, aged, failures, crashes>>

Cleanup ==
    /\ status = "open" /\ Idle /\ writable
    /\ From(records, Cut(records)) # records
    /\ Begin("cleanupSync", 0, records)
    /\ UNCHANGED <<diskVars, active, status, writable, segs, records, todo, safe, worldVars>>

\* Close, also of a recorder that can no longer write.
Close ==
    /\ status = "open" /\ Idle /\ active # NoFile
    /\ status' = "closed" /\ step' = "closeSync"
    /\ UNCHANGED <<diskVars, active, writable, segs, records, at, todo, staged, cut,
                   dropped, safe, worldVars>>

CloseWithoutFile ==
    /\ status = "open" /\ Idle /\ active = NoFile
    /\ status' = "closed" /\ safe' = safe \cup records
    /\ UNCHANGED <<diskVars, active, writable, segs, records, opVars, dropped, worldVars>>

-----------------------------------------------------------------------------
\* What each storage call does to the disk ...
WriteSteps == {"stageWrite", "copy", "append"}

Target ==
    CASE step \in {"secure", "stageWrite", "stageSync"} -> entry[at]
      [] step \in {"copy", "syncCopy"} -> entry[Temp]
      [] step \in {"append", "rotateSync", "appendSync", "cleanupSync", "closeSync"} -> active

Effect ==
    \/ /\ step \in {"secure", "stageSync", "syncCopy", "rotateSync", "appendSync",
                    "cleanupSync", "closeSync"}
       /\ SyncFile(Target)
    \/ /\ step \in {"secureDir", "syncTemp", "syncStage", "syncRename", "syncExpired",
                    "appendSyncDir"}
       /\ SyncDir
    \/ step \in {"secureRoot", "syncDiscard", "syncPublish", "syncLegacy"} /\ SyncRoot
    \/ step \in {"stageCreate", "rotateCreate"} /\ Create(at)
    \/ step = "temporary" /\ Create(Temp)
    \/ step \in WriteSteps /\ Write(Target, IF step = "append" THEN lastId ELSE Min(todo))
    \/ step = "rename" /\ RenameTemp(at)
    \/ step \in {"discard", "expire"} /\ Unlink(at)
    \/ step = "removeTemp" /\ Unlink(Temp)
    \/ step = "unlinkLegacy" /\ RemoveLegacy
    \/ step = "makeStage" /\ MakeStage
    \/ step = "removeStage" /\ RemoveStage
    \/ step = "publish" /\ PublishStage
    \/ step \in {"openActive", "reopen", "rotateClose", "reclose", "closeFile"}
       /\ UNCHANGED diskVars

\* ... and, when it succeeds, to the recorder's file.
Descriptor ==
    active' = CASE step \in {"rotateCreate", "reopen"} -> entry'[at]
                [] step = "openActive" -> entry[Latest(segs)]
                [] step \in {"rotateClose", "reclose", "closeFile"} -> NoFile
                [] OTHER -> active

-----------------------------------------------------------------------------
Goto(next, o) ==
    /\ step' = next /\ at' = o
    /\ UNCHANGED <<status, records, staged, cut, safe>>

\* The last call: the recorder publishes what the operation was for.
Done(s, durable) ==
    /\ step' = "idle" /\ at' = 0 /\ todo' = {} /\ staged' = {} /\ cut' = 0
    /\ segs' = s /\ records' = From(staged, cut)
    /\ status' = IF status \in {"importing", "opening"} THEN "open" ELSE status
    /\ safe' = IF durable THEN safe \cup From(staged, cut) ELSE safe

\* trimSegments: rewrite, oldest first, then remove.
Trim(s) ==
    \/ /\ Boundaries(s) # {}
       /\ LET o == Min(Boundaries(s)) IN
            Goto("temporary", o) /\ segs' = s /\ todo' = From(s[o].ids, cut)
    \/ /\ Boundaries(s) = {} /\ Expired(s) # {}
       /\ Goto("expire", Min(Expired(s))) /\ segs' = s /\ todo' = {}
    \/ Boundaries(s) = {} /\ Expired(s) = {} /\ Done(s, TRUE)

\* The end of record: trim when retention drops anything.
Retain(s) == IF From(staged, cut) = staged THEN Done(s, TRUE) ELSE Trim(s)

\* Calls that simply follow one another.
After == [unlinkLegacy |-> "syncLegacy", removeTemp |-> "syncTemp",
          syncTemp |-> "openActive", removeStage |-> "syncDiscard",
          syncDiscard |-> "makeStage", syncStage |-> "publish",
          publish |-> "syncPublish", syncCopy |-> "rename", reclose |-> "reopen",
          rotateSync |-> "rotateClose", rotateClose |-> "rotateCreate",
          closeSync |-> "closeFile"]

FollowingCall == step \in DOMAIN After /\ Goto(After[step], at) /\ UNCHANGED <<segs, todo>>

\* Survivor data and namespace are made durable before anything is removed; the
\* root too, for an Open that unlinked the legacy log and failed after that.
SecureSegment ==
    /\ step = "secure" /\ UNCHANGED <<segs, todo>>
    /\ LET rest == {o \in DOMAIN segs : o > at} IN
       IF rest = {} THEN Goto("secureDir", 0) ELSE Goto("secure", Min(rest))

\* A mistake: the root is taken to be durable as it is found.
SecureDirectoryOnly ==
    /\ step = "secureDir" /\ UNCHANGED <<segs, todo>>
    /\ Goto(IF root.legacy THEN "unlinkLegacy"
            ELSE IF Temp \in DOMAIN entry THEN "removeTemp" ELSE "openActive", 0)

SecureDirectory == step = "secureDir" /\ Goto("secureRoot", 0) /\ UNCHANGED <<segs, todo>>

\* removeLegacy, removal of the temporaries, then the active segment is opened.
AfterLegacy == Goto(IF Temp \in DOMAIN entry THEN "removeTemp" ELSE "openActive", 0)

SecureRoot ==
    /\ step \in {"secureRoot", "syncPublish"} /\ UNCHANGED <<segs, todo>>
    /\ IF root.legacy THEN Goto("unlinkLegacy", 0) ELSE AfterLegacy

LegacyRemoved == step = "syncLegacy" /\ AfterLegacy /\ UNCHANGED <<segs, todo>>

ActiveOpened ==
    /\ step = "openActive"
    /\ IF status = "importing" THEN Done(segs, TRUE) ELSE Trim(segs)

\* discardStage.
Discard ==
    /\ step = "discard" /\ UNCHANGED <<segs, todo>>
    /\ LET rest == Segments(entry) \ {at} IN
       IF rest = {} THEN Goto("removeStage", 0) ELSE Goto("discard", Min(rest))

\* publishSegments, in the staging directory, of what retention keeps: a segment
\* is complete and synchronized before the next one is created.
StageMade == step = "makeStage" /\ Goto("stageCreate", 1) /\ UNCHANGED <<segs, todo>>

StageCreated ==
    /\ step = "stageCreate" /\ segs' = With(segs, at, NewSegment) /\ UNCHANGED todo
    /\ Goto(IF todo = {} THEN "stageSync" ELSE "stageWrite", at)

StageWritten ==
    /\ step = "stageWrite"
    /\ LET ids == segs[at].ids \cup {Min(todo)}
           rest == todo \ {Min(todo)}
       IN  /\ segs' = [segs EXCEPT ![at].ids = ids] /\ todo' = rest
           /\ Goto(IF rest = {} \/ Rotates(ids, Min(rest)) THEN "stageSync"
                   ELSE "stageWrite", at)

StageSynced ==
    /\ step = "stageSync" /\ UNCHANGED <<segs, todo>>
    /\ IF todo = {} THEN Goto("syncStage", at)
       ELSE at + 1 \in Ordinals /\ Goto("stageCreate", at + 1)

\* appendSegment.
Rotated ==
    /\ step = "rotateCreate" /\ segs' = With(segs, at, NewSegment) /\ UNCHANGED todo
    /\ Goto("append", at)

Appends ==
    /\ step = "append"
    /\ LET s == [segs EXCEPT ![Latest(segs)].ids = @ \cup {lastId}] IN
       IF at # 0 \/ From(staged, cut) # staged
         THEN Goto("appendSync", at) /\ segs' = s /\ UNCHANGED todo
         ELSE Done(s, FALSE)

AppendSynced ==
    /\ step = "appendSync"
    /\ IF at # 0 THEN Goto("appendSyncDir", at) /\ UNCHANGED <<segs, todo>> ELSE Retain(segs)

RotationSynced == step = "appendSyncDir" /\ Retain(segs)

CleanupSynced == step = "cleanupSync" /\ Trim(segs)

\* replaceSegment for a boundary that has to be rewritten.
TemporaryMade ==
    /\ step = "temporary" /\ UNCHANGED <<segs, todo>>
    /\ Goto(IF todo = {} THEN "syncCopy" ELSE "copy", at)

\* A mistake: the temporary file is renamed before its data is on disk.
CopiedUnsynced ==
    /\ step = "copy" /\ UNCHANGED segs /\ todo' = todo \ {Min(todo)}
    /\ Goto(IF todo' = {} THEN "rename" ELSE "copy", at)

Copied ==
    /\ step = "copy" /\ UNCHANGED segs /\ todo' = todo \ {Min(todo)}
    /\ Goto(IF todo' = {} THEN "syncCopy" ELSE "copy", at)

\* The count the code sets when it returns; nothing reads it in between.
Renamed ==
    /\ step = "rename" /\ UNCHANGED todo /\ Goto("syncRename", at)
    /\ segs' = [segs EXCEPT ![at] = [ids |-> From(segs[at].ids, cut), dirty |-> FALSE]]

\* A mistake: the recorder goes on writing to the file it has replaced.
ReplacedKeepsFile == step = "syncRename" /\ Trim(segs)

Replaced ==
    /\ step = "syncRename"
    /\ IF at = Latest(segs) THEN Goto("reclose", at) /\ UNCHANGED <<segs, todo>>
       ELSE Trim(segs)

Reopened == step = "reopen" /\ Trim(segs)

\* Only then are whole expired files unlinked.
Removed ==
    /\ step = "expire" /\ UNCHANGED todo
    /\ LET s == Without(segs, at) IN
         /\ segs' = s
         /\ IF Expired(s) = {} THEN Goto("syncExpired", 0) ELSE Goto("expire", Min(Expired(s)))

RemovalSynced == step = "syncExpired" /\ Done(segs, TRUE)

FileClosed ==
    /\ step = "closeFile" /\ step' = "idle" /\ safe' = safe \cup records
    /\ UNCHANGED <<at, todo, staged, cut, status, segs, records>>

Advance ==
    \/ FollowingCall
    \/ SecureSegment \/ SecureDirectory \/ SecureRoot \/ LegacyRemoved \/ ActiveOpened
    \/ Discard \/ StageMade \/ StageCreated \/ StageWritten \/ StageSynced
    \/ Rotated \/ Appends \/ AppendSynced \/ RotationSynced \/ CleanupSynced
    \/ TemporaryMade \/ Copied \/ Renamed \/ Replaced \/ Reopened
    \/ Removed \/ RemovalSynced \/ FileClosed

\* One storage call of the operation that holds the mutex.
StorageCall ==
    /\ ~Idle /\ Effect /\ Descriptor /\ Advance
    /\ UNCHANGED <<writable, dropped, worldVars>>

\* A failing call may have had its effect, or part of it.
FailedEffect ==
    \/ UNCHANGED diskVars
    \/ Effect
    \/ step \in WriteSteps /\ WritePart(Target)

\* Recorder.fail; the error of an Open leaves no recorder.  A file that could
\* not be closed is given up, and Close closes one it could not synchronize.
StorageFails ==
    /\ ~Idle /\ failures < MaxFailures /\ failures' = failures + 1
    /\ FailedEffect
    /\ step' = "idle" /\ at' = 0 /\ todo' = {} /\ staged' = {} /\ cut' = 0
    /\ writable' = FALSE
    /\ IF status \in {"importing", "opening"}
         THEN status' = "down" /\ segs' = NoSegments /\ records' = {} /\ active' = NoFile
         ELSE /\ UNCHANGED <<status, segs, records>>
              /\ active' = IF step \in {"rotateClose", "reclose", "closeSync", "closeFile"}
                             THEN NoFile ELSE active
    /\ UNCHANGED <<dropped, safe, legacy, size, lastId, aged, crashes>>

\* Events grow old between operations.
Age ==
    /\ Idle /\ aged < lastId /\ aged' = aged + 1
    /\ UNCHANGED <<diskVars, active, status, writable, segs, records, opVars, dropped,
                   safe, legacy, size, lastId, failures, crashes>>

RecorderEnds ==
    /\ crashes < MaxCrashes /\ crashes' = crashes + 1
    /\ status' = "down" /\ writable' = FALSE /\ active' = NoFile
    /\ segs' = NoSegments /\ records' = {}
    /\ step' = "idle" /\ at' = 0 /\ todo' = {} /\ staged' = {} /\ cut' = 0
    /\ UNCHANGED <<dropped, safe, legacy, size, lastId, aged, failures>>

ProcessDies == status # "down" /\ RecorderEnds /\ UNCHANGED diskVars

PowerFails == PowerLost /\ RecorderEnds

-----------------------------------------------------------------------------
Init ==
    /\ legacy \in {1..n : n \in ImportCounts} /\ size \in [1..LastId -> Sizes]
    /\ file = [i \in FileIds |-> Empty]
    /\ root = [dir |-> "none", legacy |-> legacy # {}] /\ rootKept = {root}
    /\ entry = NoEntries /\ entryKept = {NoEntries} /\ active = NoFile
    /\ status = "down" /\ writable = FALSE /\ segs = NoSegments /\ records = {}
    /\ step = "idle" /\ at = 0 /\ todo = {} /\ staged = {} /\ cut = 0
    /\ lastId = Cardinality(legacy) /\ aged = 0 /\ dropped = {} /\ safe = legacy
    /\ failures = 0 /\ crashes = 0

Next ==
    \/ OpenImports \/ OpenLive
    \/ Record \/ Cleanup \/ Close \/ CloseWithoutFile
    \/ StorageCall \/ StorageFails
    \/ Age \/ ProcessDies \/ PowerFails

Spec == Init /\ [][Next]_vars

-----------------------------------------------------------------------------
\* The recorder's state and the disk's are of the shapes the code gives them.
Files == [ids : SUBSET (1..lastId), kept : SUBSET (1..lastId),
          tail : {"whole", "bare", "partial"}]
Roots == [dir : {"none", "stage", "live"}, legacy : BOOLEAN]
Steps == {"idle", "secure", "secureDir", "secureRoot", "unlinkLegacy", "syncLegacy",
          "removeTemp", "syncTemp", "openActive", "discard", "removeStage", "syncDiscard",
          "makeStage", "stageCreate", "stageWrite", "stageSync", "syncStage", "publish",
          "syncPublish", "rotateSync", "rotateClose", "rotateCreate", "append",
          "appendSync", "appendSyncDir", "cleanupSync", "temporary", "copy", "syncCopy",
          "rename", "syncRename", "reclose", "reopen", "expire", "syncExpired",
          "closeSync", "closeFile"}

TypeOK ==
    /\ status \in {"down", "importing", "opening", "open", "closed"} /\ writable \in BOOLEAN
    /\ step \in Steps /\ at \in 0..MaxOrdinal /\ lastId \in 0..LastId
    /\ file \in [FileIds -> Files] /\ \A i \in FileIds : file[i].kept \subseteq file[i].ids
    /\ rootKept \subseteq Roots /\ root \in rootKept /\ entry \in entryKept
    /\ \A dir \in entryKept :
          /\ dir = [n \in DOMAIN dir |-> dir[n]]
          /\ DOMAIN dir \subseteq 0..MaxOrdinal /\ \A n \in DOMAIN dir : dir[n] \in FileIds
    /\ active \in FileIds \cup {NoFile}
    /\ segs = [o \in DOMAIN segs |-> segs[o]] /\ DOMAIN segs \subseteq Ordinals
    /\ \A o \in DOMAIN segs : segs[o] \in [ids : SUBSET (1..lastId), dirty : BOOLEAN]
    /\ records \subseteq 1..lastId /\ staged \subseteq 1..lastId /\ todo \subseteq 1..lastId
    /\ legacy \subseteq 1..lastId /\ cut \in 0..LastId

\* What an operation reported durable (Open, a rotation, a retention pass,
\* Close) is still found after any failure, process death or power failure,
\* until retention has decided to drop it: segments are replaced, imported and
\* removed in an order that never leaves a moment without a copy.
DurableEventsSurvive == safe \ dropped \subseteq Readable

\* Accepted events are immediately readable in the files, and stay so while
\* retention rewrites them; between operations the files hold exactly the
\* records the recorder serves, none of them torn or out of order.
PublishedIsReadable ==
    status \in {"open", "closed"} =>
        /\ records \ dropped \subseteq Readable
        /\ Idle /\ writable => Readable = records /\ ~Corrupt

\* Whatever was interrupted, what is left has the shape the code gives it and a
\* later Open reconciles it: the legacy log never comes back beside a live
\* directory it disagrees with, and a live directory always has a segment.
OpenNeverRefuses ==
    /\ TypeOK
    /\ status \in {"down", "closed"} /\ Idle /\ root.dir = "live" => AcceptsLive
=============================================================================
