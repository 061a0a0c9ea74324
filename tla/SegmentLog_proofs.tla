-------------------------- MODULE SegmentLog_proofs --------------------------
(***************************************************************************)
(* No durable event is lost, what is published is readable, and every      *)
(* later Open accepts what it finds: for any number of files, segments,    *)
(* events, failures and crashes.                                           *)
(*                                                                         *)
(* The invariant says, for every directory and root a power failure may    *)
(* leave, what is on disk in it, and, for the operation that holds         *)
(* Recorder.mu, how far it is: a power failure then finds at any moment    *)
(* what it needs.                                                          *)
(***************************************************************************)
EXTENDS SegmentLog, FiniteSetTheorems, WellFoundedInduction, TLAPS

-----------------------------------------------------------------------------
(***************************************************************************)
(* Least and greatest elements, and what retention keeps.                  *)
(***************************************************************************)
\* Natural numbers are well-founded.
LEMMA LeastElement ==
    ASSUME NEW S, S \subseteq Nat, S # {}
    PROVE  \E x \in S : \A y \in S : x <= y
<1>1. PICK x \in S : \A y \in S : ~(<<y, x>> \in OpToRel(<, Nat))
  BY NatLessThanWellFounded, WFMin
<1>2. ASSUME NEW y \in S
      PROVE  x <= y
  <2>1. ~(y < x)
    BY <1>1, <1>2 DEF OpToRel
  <2> QED BY <2>1
<1> QED BY <1>2

\* Min is the least element.
LEMMA MinIs ==
    ASSUME NEW S, S \subseteq Nat, S # {}
    PROVE  Min(S) \in S /\ \A y \in S : Min(S) <= y
BY LeastElement DEF Min

\* Max of a bounded set is its greatest element.
LEMMA MaxIs ==
    ASSUME NEW n \in Nat, NEW S, S \subseteq 0..n, S # {}
    PROVE  Max(S) \in S /\ \A y \in S : y <= Max(S)
<1> DEFINE T == {n - x : x \in S}
<1>1. T \subseteq Nat
  <2> SUFFICES ASSUME NEW x \in S PROVE n - x \in Nat
    OBVIOUS
  <2>1. x \in 0..n
    OBVIOUS
  <2> QED BY <2>1
<1>2. T # {}
  OBVIOUS
<1>3. PICK t \in T : \A u \in T : t <= u
  <2> HIDE DEF T
  <2> QED BY <1>1, <1>2, LeastElement
<1>4. PICK x \in S : t = n - x
  OBVIOUS
<1>5. ASSUME NEW y \in S
      PROVE  x >= y
  <2>1. t <= n - y
    BY <1>3, <1>5
  <2>2. x \in 0..n /\ y \in 0..n
    OBVIOUS
  <2> QED BY <1>4, <2>1, <2>2
<1>6. \A y \in S : Max(S) >= y
  BY <1>5 DEF Max
<1>7. Max(S) \in S
  BY <1>5 DEF Max
<1> QED BY <1>6, <1>7

\* The latest segment is the one with the greatest ordinal.
LEMMA LatestIs ==
    ASSUME NEW s, DOMAIN s \subseteq Ordinals, DOMAIN s # {}
    PROVE  Latest(s) \in DOMAIN s /\ \A o \in DOMAIN s : o <= Latest(s)
BY MaxIs, FilesAssumption DEF Latest, Ordinals

\* retentionDecision always has an answer, and the smallest there is.
LEMMA CutIs ==
    ASSUME NEW S, S \subseteq 1..LastId
    PROVE  /\ Cut(S) \in 0..LastId
           /\ ~Goes(From(S, Cut(S)))
           /\ \A b \in 0..(Cut(S) - 1) : Goes(From(S, b))
<1> DEFINE T == {c \in 0..LastId : ~Goes(From(S, c))}
<1>1. From(S, LastId) = {}
  <2> SUFFICES ASSUME NEW e \in S, e > LastId PROVE FALSE
    BY DEF From
  <2>1. e \in 1..LastId
    OBVIOUS
  <2> QED BY <2>1, RetentionAssumption
<1>2. LastId \in T
  BY <1>1, RetentionAssumption DEF Goes
<1>3. PICK c \in T : \A d \in T : c <= d
  <2>1. T \subseteq Nat /\ T # {}
    BY <1>2
  <2> HIDE DEF T
  <2> QED BY <2>1, LeastElement
<1>4. c \in 0..LastId /\ ~Goes(From(S, c))
  OBVIOUS
<1>5. ASSUME NEW b \in 0..(c - 1)
      PROVE  Goes(From(S, b))
  <2>1. b \in 0..LastId /\ ~(c <= b)
    BY <1>4, RetentionAssumption
  <2>2. b \notin T
    BY <1>3, <2>1
  <2> QED BY <2>1, <2>2
<1> QED BY <1>4, <1>5 DEF Cut

\* Retention takes only away.
LEMMA FromIs ==
    ASSUME NEW S, NEW c
    PROVE  From(S, c) \subseteq S /\ From(From(S, c), c) = From(S, c)
BY DEF From

-----------------------------------------------------------------------------
(***************************************************************************)
(* The inductive invariant.                                                *)
(***************************************************************************)
\* The directory has been published; a power failure keeps this one directory; a
\* segment has nothing that is not synchronized.
Live == root.dir = "live"
Quiet == entryKept = {entry}
Synced(o) == file[entry[o]].kept = file[entry[o]].ids

\* The calls, by what the operation is about.
Clearing == {"discard", "removeStage", "syncDiscard", "makeStage"}
Building == {"stageCreate", "stageWrite", "stageSync"}
Staging == Clearing \cup Building \cup {"syncStage", "publish"}
Securing == {"secure", "secureDir", "secureRoot"}
Legacying == {"unlinkLegacy", "syncLegacy"}
Clear == {"removeTemp", "syncTemp"}
Copying == {"copy", "syncCopy", "rename"}
Replacing == {"syncRename", "reclose", "reopen"}
Trimming == {"temporary", "expire", "syncExpired"} \cup Copying \cup Replacing
Rotating == {"rotateSync", "rotateClose", "rotateCreate"}
Appending == Rotating \cup {"append", "appendSync", "appendSyncDir"}
Closing == {"closeSync", "closeFile"}

\* Which operation makes which call, and whether the directory is live by then.
StatusInv ==
    /\ writable => status # "down"
    /\ step \notin {"idle"} \cup Closing => writable
    /\ step = "idle" => status \in {"down", "open", "closed"}
    /\ step \in Staging \cup {"syncPublish"} => status = "importing"
    /\ step \in Legacying \cup {"openActive"} => status \in {"importing", "opening"}
    /\ step \in Securing \cup Clear => status = "opening"
    /\ step \in Trimming => status \in {"opening", "open"}
    /\ step \in Appending \cup {"cleanupSync"} => status = "open"
    /\ step \in Closing => status = "closed"
    /\ step \in Staging => ~Live
    /\ step \notin Staging \cup {"idle"} => Live
    /\ status \in {"open", "closed"} => Live

\* When no power failure can take the live directory back, or bring the legacy
\* log back.
Rooted == status \in {"open", "closed"} \/ step \in Legacying \cup Clear \cup {"openActive"} \cup Trimming
Unlinked == status \in {"open", "closed"} \/ step \in Clear \cup {"openActive"} \cup Trimming

\* A root that a power failure may leave without the live directory has the legacy
\* log, and nothing is durable then that is not in it.
RootCore ==
    /\ ~Live => \A r \in rootKept : r.dir # "live"
    /\ \A r \in rootKept : r.dir # "live" => r.legacy \/ legacy = {}
    /\ (\E r \in rootKept : r.dir # "live") => safe \subseteq legacy

RootInv ==
    /\ RootCore
    /\ step = "syncLegacy" => ~root.legacy
    /\ Rooted => \A r \in rootKept : r.dir = "live"
    /\ Unlinked => \A r \in rootKept : ~r.legacy

\* What the disk is made of.
DiskType ==
    /\ file \in [FileIds -> Files] /\ \A i \in FileIds : file[i].kept \subseteq file[i].ids
    /\ rootKept \subseteq Roots /\ root \in rootKept /\ entry \in entryKept
    /\ \A dir \in entryKept :
          /\ dir = [n \in DOMAIN dir |-> dir[n]]
          /\ DOMAIN dir \subseteq 0..MaxOrdinal /\ \A n \in DOMAIN dir : dir[n] \in FileIds

\* No file has two names.
Distinct == \A dir \in entryKept : \A n, m \in DOMAIN dir : dir[n] = dir[m] => n = m

\* The segments are those published from the legacy log: its end, all on disk.
AsImported(dir) ==
    /\ \A n \in Segments(dir) : file[dir[n]].tail = "whole" /\ file[dir[n]].kept = file[dir[n]].ids
    /\ \E c \in 0..LastId : IdsIn(dir) = From(legacy, c)

\* Every directory that may be left has a segment, in order; and as long as the
\* legacy log may be left, it is as it was imported.
DirInv == Live => \A dir \in entryKept :
    /\ Segments(dir) # {} /\ InOrder(dir)
    /\ (\E r \in rootKept : r.legacy) => AsImported(dir)

\* What was reported durable is on disk in every directory that may be left.
Durable == Live => \A dir \in entryKept : safe \ dropped \subseteq KeptIn(dir)

\* What is on disk of a directory once file `a` is synchronized: all of that
\* file, of every other file what was synchronized before.
Part(f, i, a) == IF i = a THEN f[i].ids ELSE f[i].kept
SecuredIn(f, dir, a) == UNION {Part(f, dir[n], a) : n \in Segments(dir)}

\* What the records show is on disk once the open file is synchronized; so the
\* last call of Close may report it durable.
Promise ==
    /\ status = "open" \/ step = "closeSync" =>
         \A dir \in entryKept : records \ dropped \subseteq SecuredIn(file, dir, active)
    /\ step = "closeFile" => \A dir \in entryKept : records \ dropped \subseteq KeptIn(dir)
    /\ status = "closed" => \A dir \in entryKept : records \ dropped \subseteq IdsIn(dir)

\* The events of the recorder's segments, and how the segments stand to the disk.
HeldIn(s) == UNION {s[o].ids : o \in DOMAIN s}
Mapped == /\ DOMAIN segs = Segments(entry)
          /\ \A o \in DOMAIN segs : /\ file[entry[o]].ids = segs[o].ids
                                    /\ ~segs[o].dirty => file[entry[o]].tail = "whole"
NoneDirty == \A o \in DOMAIN segs : ~segs[o].dirty
AllSynced == \A o \in DOMAIN segs : Synced(o)
OlderSynced == \A o \in DOMAIN segs : o # Latest(segs) => Synced(o)
\* The segments have of the staged records at least those retention keeps; what it
\* does not keep is given up.
Covers(s) == HeldIn(s) \subseteq staged /\ From(HeldIn(s), cut) = From(staged, cut)
GaveUp == staged \ From(staged, cut) \subseteq dropped
\* Appends go to the latest segment.
OnLatest == active = entry[Latest(segs)]

\* Of the legacy log, what retention keeps is in the stage or still to do.
ImportInv ==
    /\ step \in Staging => staged = legacy /\ GaveUp
    /\ step \in Clearing => todo = From(staged, cut) /\ segs = NoSegments
    /\ step \in Building \cup {"syncStage", "publish"} =>
         /\ Mapped /\ NoneDirty /\ Temp \notin DOMAIN entry
         /\ HeldIn(segs) \cup todo = From(staged, cut)
         /\ \A x \in HeldIn(segs), y \in todo : x < y
         /\ \A o, p \in DOMAIN segs : o < p => \A x \in segs[o].ids, y \in segs[p].ids : x < y
    /\ step = "stageCreate" => DOMAIN segs = 1..(at - 1) /\ at \in Ordinals /\ AllSynced
    /\ step \in {"stageWrite", "stageSync"} =>
         DOMAIN segs = 1..at /\ at \in Ordinals /\ \A o \in 1..(at - 1) : Synced(o)
    /\ step = "stageWrite" => todo # {}
    /\ step \in {"syncStage", "publish"} => todo = {} /\ AllSynced /\ DOMAIN segs # {}
    /\ step = "publish" => Quiet
    /\ status = "importing" /\ step \notin Staging =>
         /\ Mapped /\ NoneDirty /\ AllSynced /\ Quiet /\ Temp \notin DOMAIN entry
         /\ HeldIn(segs) = From(staged, cut) /\ GaveUp

\* Open of a live directory synchronizes segment by segment, then the directory.
OpenInv ==
    status = "opening" =>
      /\ Mapped /\ Covers(segs) /\ GaveUp
      /\ step = "secure" => at \in DOMAIN segs /\ \A o \in DOMAIN segs : o < at => Synced(o)
      /\ step # "secure" => AllSynced
      /\ step \in {"secureRoot", "removeTemp", "openActive"} \cup Legacying => Quiet

\* A boundary segment is replaced only by a synchronized copy of what is kept of it;
\* a segment goes only when all its events are given up.
TrimInv ==
    /\ step \in Trimming =>
         /\ Mapped /\ AllSynced /\ Covers(segs) /\ GaveUp
         /\ step \notin Replacing => OnLatest
    /\ step \in {"temporary", "reclose", "reopen"} => Quiet
    /\ step \in {"temporary"} \cup Copying \cup Replacing => at \in DOMAIN segs
    /\ step = "temporary" => todo = From(segs[at].ids, cut)
    /\ step \in Copying =>
         /\ Temp \in DOMAIN entry /\ file[entry[Temp]].tail = "whole"
         /\ file[entry[Temp]].ids \cup todo = From(segs[at].ids, cut)
         /\ \A dir \in entryKept : \A n \in Segments(dir) : dir[n] # entry[Temp]
    /\ step = "copy" => todo # {}
    /\ step \in {"syncCopy", "rename"} => todo = {}
    /\ step = "rename" => Synced(Temp)
    /\ step = "syncRename" /\ at # Latest(segs) => OnLatest
    /\ step \in {"reclose", "reopen"} => at = Latest(segs)
    /\ step \in {"expire", "syncExpired"} => Boundaries(segs) = {}
    /\ step = "expire" => at \in Expired(segs)
    /\ step = "syncExpired" => Expired(segs) = {}

\* An append writes a new event to the latest segment; all others are on disk.
AppendInv ==
    /\ step \in Appending => Mapped /\ NoneDirty /\ OlderSynced /\ GaveUp
    /\ step \in Rotating \cup {"append"} =>
         /\ HeldIn(segs) = records /\ staged = records \cup {lastId}
         /\ \A dir \in entryKept : lastId \notin IdsIn(dir)
    /\ step \in Rotating => Quiet /\ at = Latest(segs) + 1 /\ at \in Ordinals
    /\ step \in {"rotateClose", "rotateCreate", "appendSyncDir"} => AllSynced
    /\ step \in {"append", "appendSync"} /\ at = 0 => Quiet
    /\ step \in {"appendSync", "appendSyncDir"} => HeldIn(segs) = staged
    /\ step \in Appending \ {"rotateCreate"} => OnLatest
    /\ step = "append" => \A dir \in entryKept : \A n \in Segments(dir) :
                              dir[n] = active => \A m \in Segments(dir) : m <= n

\* Between operations the segments hold the records.
RestInv ==
    /\ writable /\ step \in {"idle", "cleanupSync"} \cup Closing =>
         /\ Mapped /\ NoneDirty /\ OlderSynced /\ Quiet /\ HeldIn(segs) = records
         /\ status = "open" \/ step = "closeSync" => OnLatest
    /\ step = "cleanupSync" => staged = records /\ GaveUp
    /\ step = "closeSync" => active # NoFile

\* The inductive invariant.
IInv == TypeOK /\ StatusInv /\ RootInv /\ Distinct /\ DirInv /\ Durable /\ Promise
        /\ ImportInv /\ OpenInv /\ TrimInv /\ AppendInv /\ RestInv
-----------------------------------------------------------------------------
(***************************************************************************)
(* What a change of the disk keeps.                                        *)
(***************************************************************************)
\* The part of the invariant that speaks of the disk alone.
Disk == DiskType /\ Distinct /\ DirInv

\* Every directory a power failure may leave after a step has what one had that
\* it might have left before, save what retention gave up.
Lossless ==
    \A a \in FileIds \cup {NoFile} : \A dir \in entryKept' : \E d \in entryKept :
        SecuredIn(file, d, a) \ dropped \subseteq SecuredIn(file', dir, a)

\* When no file is open, on disk is what was synchronized.
LEMMA KeptIsSecured ==
    ASSUME NEW f, NEW dir, \A n \in Segments(dir) : dir[n] \in FileIds
    PROVE  SecuredIn(f, dir, NoFile) = UNION {f[dir[n]].kept : n \in Segments(dir)}
<1>1. \A n \in Segments(dir) : Part(f, dir[n], NoFile) = f[dir[n]].kept
  BY FilesAssumption DEF Part
<1> QED BY <1>1 DEF SecuredIn

\* When every segment is synchronized, on disk is all of it, whichever file is open.
LEMMA AllIsSecured ==
    ASSUME NEW f, NEW dir, NEW a, \A n \in Segments(dir) : f[dir[n]].kept = f[dir[n]].ids
    PROVE  SecuredIn(f, dir, a) = UNION {f[dir[n]].ids : n \in Segments(dir)}
<1>1. \A n \in Segments(dir) : Part(f, dir[n], a) = f[dir[n]].ids
  BY DEF Part
<1> QED BY <1>1 DEF SecuredIn

\* A file is synchronized.
LEMMA SyncFileKeeps ==
    ASSUME Disk, NEW i \in FileIds, SyncFile(i), UNCHANGED <<lastId, legacy>>
    PROVE  Disk' /\ Lossless
<1> USE DEF Disk, SyncFile
<1>1. /\ \A j \in FileIds : /\ file'[j].ids = file[j].ids
                            /\ file'[j].tail = file[j].tail
                            /\ file'[j].kept = IF j = i THEN file[j].ids ELSE file[j].kept
      /\ file' \in [FileIds -> Files]
  BY DEF DiskType, Files
<1>2. DiskType'
  BY <1>1 DEF DiskType, Files, Roots
<1>3. Distinct'
  BY DEF Distinct
<1>4. \A dir \in entryKept : \A n \in Segments(dir) : dir[n] \in FileIds
  BY DEF DiskType, Segments
<1>5. DirInv'
  <2>1. ASSUME NEW dir \in entryKept
        PROVE  IdsIn(dir)' = IdsIn(dir) /\ (InOrder(dir) => InOrder(dir)')
               /\ (AsImported(dir) => AsImported(dir)')
    <3>1. IdsIn(dir)' = IdsIn(dir)
      BY <1>1, <1>4 DEF IdsIn
    <3>2. InOrder(dir) => InOrder(dir)'
      BY <1>1, <1>4 DEF InOrder
    <3>3. AsImported(dir) => AsImported(dir)'
      BY <1>1, <1>4, <3>1 DEF AsImported
    <3> QED BY <3>1, <3>2, <3>3
  <2> QED BY <2>1 DEF DirInv, Live
<1>6. Lossless
  <2> SUFFICES ASSUME NEW a \in FileIds \cup {NoFile}, NEW dir \in entryKept
               PROVE  SecuredIn(file, dir, a) \ dropped \subseteq SecuredIn(file', dir, a)
    BY DEF Lossless
  <2>1. \A n \in Segments(dir) : Part(file, dir[n], a) \subseteq Part(file', dir[n], a)
    BY <1>1, <1>4 DEF Part, DiskType
  <2> QED BY <2>1 DEF SecuredIn
<1> QED BY <1>2, <1>3, <1>5, <1>6

\* The directory is synchronized.
LEMMA SyncDirKeeps ==
    ASSUME Disk, SyncDir, UNCHANGED <<lastId, legacy>>
    PROVE  Disk' /\ Lossless
<1> USE DEF Disk, SyncDir
<1>1. DiskType'
  BY DEF DiskType, Files, Roots
<1>2. Distinct'
  BY DEF Distinct, DiskType
<1>3. DirInv'
  <2>1. IdsIn(entry)' = IdsIn(entry) /\ (InOrder(entry) => InOrder(entry)')
        /\ (AsImported(entry) => AsImported(entry)')
    BY DEF IdsIn, InOrder, AsImported
  <2>2. entry \in entryKept
    BY DEF DiskType
  <2> QED BY <2>1, <2>2 DEF DirInv, Live
<1>4. Lossless
  BY DEF Lossless, DiskType
<1> QED BY <1>1, <1>2, <1>3, <1>4

\* The root is synchronized, or nothing on disk changes.
LEMMA RootStepKeeps ==
    ASSUME Disk, UNCHANGED <<file, entry, entryKept, lastId, legacy>>,
           root' \in rootKept' /\ rootKept' \subseteq Roots, Live' = Live,
           (\E r \in rootKept' : r.legacy) => \E r \in rootKept : r.legacy
    PROVE  Disk' /\ Lossless
<1> USE DEF Disk
<1>1. DiskType'
  BY DEF DiskType, Files
<1>2. Distinct'
  BY DEF Distinct
<1>3. DirInv'
  BY DEF DirInv, InOrder, AsImported, IdsIn
<1>4. Lossless
  BY DEF Lossless
<1> QED BY <1>1, <1>2, <1>3, <1>4

\* What a step leaves of a directory whose files it does not touch.
LEMMA SameFiles ==
    ASSUME NEW dir, \A n \in Segments(dir) : file'[dir[n]] = file[dir[n]],
           UNCHANGED legacy
    PROVE  /\ IdsIn(dir)' = IdsIn(dir) /\ InOrder(dir)' = InOrder(dir)
           /\ AsImported(dir)' = AsImported(dir)
           /\ \A a : SecuredIn(file', dir, a) = SecuredIn(file, dir, a)
<1>1. IdsIn(dir)' = IdsIn(dir)
  BY DEF IdsIn
<1>2. InOrder(dir)' = InOrder(dir)
  BY DEF InOrder
<1>3. AsImported(dir)' = AsImported(dir)
  BY <1>1 DEF AsImported
<1>4. ASSUME NEW a
      PROVE  SecuredIn(file', dir, a) = SecuredIn(file, dir, a)
  <2>1. \A n \in Segments(dir) : Part(file', dir[n], a) = Part(file, dir[n], a)
    BY DEF Part
  <2> QED BY <2>1 DEF SecuredIn
<1> QED BY <1>1, <1>2, <1>3, <1>4

\* The legacy log cannot come back.
NoLegacy == \A r \in rootKept : ~r.legacy

\* A new file is none of those any directory names.
LEMMA Created ==
    ASSUME DiskType, NEW place, Create(place)
    PROVE  \E new \in FileIds :
             /\ entry' = With(entry, place, new) /\ file' = [file EXCEPT ![new] = Empty]
             /\ entryKept' = entryKept \cup {entry'} /\ new # active
             /\ \A dir \in entryKept : \A n \in DOMAIN dir : dir[n] # new
<1> DEFINE new == CHOOSE i \in Free : TRUE
<1>1. new \in Free
  BY DEF Create
<1>2. entry' = With(entry, place, new) /\ file' = [file EXCEPT ![new] = Empty]
      /\ entryKept' = entryKept \cup {entry'}
  BY DEF Create, SetEntry
<1> HIDE DEF new
<1>3. new \in FileIds /\ new # active /\ \A dir \in entryKept : \A n \in DOMAIN dir : dir[n] # new
  BY <1>1 DEF Free, InUse
<1> QED BY <1>2, <1>3

\* A file is created under a name that no segment has.
LEMMA CreateKeeps ==
    ASSUME Disk, NEW place \in 0..MaxOrdinal, Create(place), place \notin Segments(entry),
           Live => NoLegacy, UNCHANGED <<lastId, legacy>>
    PROVE  /\ Disk' /\ Lossless
           /\ \A dir \in entryKept : \A n \in DOMAIN dir : file'[dir[n]] = file[dir[n]]
           /\ place \in DOMAIN entry' /\ file'[entry'[place]] = Empty
           /\ DOMAIN entry' = DOMAIN entry \cup {place}
           /\ \A n \in DOMAIN entry \ {place} : entry'[n] = entry[n]
           /\ \A dir \in entryKept : \A n \in DOMAIN dir : dir[n] # entry'[place]
           /\ entry'[place] # active /\ entry'[place] \in FileIds
           /\ \A i \in FileIds \ {entry'[place]} : file'[i] = file[i]
<1> USE DEF Disk
<1>1. PICK new \in FileIds :
             /\ entry' = With(entry, place, new) /\ file' = [file EXCEPT ![new] = Empty]
             /\ entryKept' = entryKept \cup {entry'} /\ new # active
             /\ \A dir \in entryKept : \A n \in DOMAIN dir : dir[n] # new
  BY Created
<1>2. UNCHANGED <<root, rootKept>>
  BY DEF Create
<1>3. \A dir \in entryKept : \A n \in DOMAIN dir : file'[dir[n]] = file[dir[n]]
  BY <1>1 DEF DiskType
<1>4. file \in [FileIds -> Files] /\ entry \in entryKept
  BY DEF DiskType
<1>5. /\ DOMAIN entry' = DOMAIN entry \cup {place} /\ entry'[place] = new
      /\ \A n \in DOMAIN entry \ {place} : entry'[n] = entry[n]
      /\ entry' = [n \in DOMAIN entry' |-> entry'[n]]
  BY <1>1 DEF With
<1>6. Empty \in Files /\ Empty.ids = {} /\ Empty.kept = {} /\ Empty.tail = "whole"
  BY DEF Empty, Files
<1>7. file'[new] = Empty /\ \A i \in FileIds \ {new} : file'[i] = file[i]
  BY <1>1, <1>4
<1>8. DiskType'
  <2>1. file' \in [FileIds -> Files] /\ \A i \in FileIds : file'[i].kept \subseteq file'[i].ids
    BY <1>1, <1>4, <1>6, <1>7 DEF DiskType, Files
  <2>2. ASSUME NEW dir \in entryKept'
        PROVE  /\ dir = [n \in DOMAIN dir |-> dir[n]]
               /\ DOMAIN dir \subseteq 0..MaxOrdinal /\ \A n \in DOMAIN dir : dir[n] \in FileIds
    <3>1. CASE dir \in entryKept
      BY <3>1 DEF DiskType
    <3>2. CASE dir = entry'
      BY <3>2, <1>1, <1>4, <1>5 DEF DiskType
    <3> QED BY <1>1, <3>1, <3>2
  <2> QED BY <2>1, <2>2, <1>1, <1>2 DEF DiskType, Files
<1>9. Distinct'
  BY <1>1, <1>4, <1>5 DEF Distinct
<1>10. \A dir \in entryKept : \A n \in Segments(dir) : file'[dir[n]] = file[dir[n]]
  BY <1>3 DEF Segments
<1>11. /\ Segments(entry) \subseteq Segments(entry')
       /\ \A n \in Segments(entry) : entry'[n] = entry[n] /\ file'[entry'[n]] = file[entry[n]]
       /\ \A n \in Segments(entry') : n \notin Segments(entry) => file'[entry'[n]].ids = {}
  BY <1>4, <1>5, <1>6, <1>7, <1>10 DEF Segments
<1>12. DirInv'
  <2>1. CASE Live
    <3>1. \A dir \in entryKept : Segments(dir) # {} /\ InOrder(dir)'
      BY <2>1, <1>10, SameFiles DEF DirInv
    <3>2. Segments(entry') # {} /\ InOrder(entry)
      BY <2>1, <1>4, <1>11 DEF DirInv
    <3>3. InOrder(entry)'
      BY <3>2, <1>11 DEF InOrder
    <3> QED BY <3>1, <3>2, <3>3, <1>1, <1>2, <2>1 DEF DirInv, NoLegacy
  <2> QED BY <2>1, <1>2 DEF DirInv, Live
<1>13. Lossless
  <2> SUFFICES ASSUME NEW a \in FileIds \cup {NoFile}, NEW dir \in entryKept'
               PROVE  \E d \in entryKept :
                        SecuredIn(file, d, a) \ dropped \subseteq SecuredIn(file', dir, a)
    BY DEF Lossless
  <2>1. CASE dir \in entryKept
    BY <2>1, <1>10, SameFiles
  <2>2. CASE dir = entry'
    <3>1. \A n \in Segments(entry) : Part(file, entry[n], a) = Part(file', entry'[n], a)
      BY <1>11 DEF Part
    <3>2. SecuredIn(file, entry, a) \subseteq SecuredIn(file', entry', a)
      BY <3>1, <1>11 DEF SecuredIn
    <3> QED BY <2>2, <3>2, <1>4
  <2> QED BY <2>1, <2>2, <1>1
<1> QED BY <1>1, <1>3, <1>5, <1>7, <1>8, <1>9, <1>12, <1>13

\* A line is appended to a file whose lines are all whole: to a temporary, or,
\* with an event that is nowhere yet, to the last segment of every directory.
LEMMA Written ==
    ASSUME DiskType, NEW i \in FileIds, NEW e \in 1..lastId, Write(i, e), file[i].tail = "whole"
    PROVE  /\ file' \in [FileIds -> [ids : SUBSET (1..lastId), kept : SUBSET (1..lastId),
                                     tail : {"whole", "bare", "partial"}]]
           /\ file'[i].ids = file[i].ids \cup {e} /\ file'[i].kept = file[i].kept
           /\ file'[i].tail = "whole"
           /\ \A j \in FileIds \ {i} : file'[j] = file[j]
<1>1. file \in [FileIds -> Files] /\ file[i] \in Files
  BY DEF DiskType
<1>2. file' = [file EXCEPT ![i] = [file[i] EXCEPT !.ids = file[i].ids \cup {e}]]
  BY DEF Write, Appended
<1>3. [file[i] EXCEPT !.ids = file[i].ids \cup {e}] \in Files
  BY <1>1 DEF Files
<1> QED BY <1>1, <1>2, <1>3 DEF Files

\* The disk after such a write.
LEMMA WriteKeeps ==
    ASSUME Disk, NEW i \in FileIds, NEW e \in 1..lastId, Write(i, e), file[i].tail = "whole",
           Live => /\ NoLegacy
                   /\ \A dir \in entryKept : \A n \in Segments(dir) : dir[n] = i =>
                        e \notin IdsIn(dir) /\ \A m \in Segments(dir) :
                           m <= n /\ \A x \in file[dir[m]].ids : x < e,
           UNCHANGED <<lastId, legacy>>
    PROVE  Disk' /\ Lossless
<1> USE DEF Disk
<1>1. /\ file' \in [FileIds -> Files]
      /\ file'[i].ids = file[i].ids \cup {e} /\ file'[i].kept = file[i].kept
      /\ file'[i].tail = "whole"
      /\ \A j \in FileIds \ {i} : file'[j] = file[j]
      /\ UNCHANGED <<root, rootKept, entry, entryKept>>
  BY Written DEF Write, Files
<1>2. \A dir \in entryKept : \A n \in Segments(dir) : dir[n] \in FileIds /\ n \in 0..MaxOrdinal
  BY DEF DiskType, Segments
<1>3. DiskType'
  BY <1>1 DEF DiskType, Files
<1>4. Distinct'
  BY <1>1 DEF Distinct
<1>5. DirInv'
  <2> SUFFICES ASSUME Live, NEW dir \in entryKept PROVE Segments(dir) # {} /\ InOrder(dir)'
    BY <1>1 DEF DirInv, Live, NoLegacy
  <2>1. Segments(dir) # {} /\ InOrder(dir)
    BY DEF DirInv
  <2>2. ASSUME NEW n \in Segments(dir), NEW m \in Segments(dir), n < m,
               NEW x \in file'[dir[n]].ids, NEW y \in file'[dir[m]].ids
        PROVE  x < y
    <3>1. CASE dir[m] = i
      <4>1. dir[n] # i
        BY <3>1, <2>2, <1>2
      <4>2. x \in file[dir[n]].ids
        BY <4>1, <1>1, <1>2
      <4>3. y = e \/ y \in file[dir[m]].ids
        BY <3>1, <1>1
      <4> QED BY <3>1, <4>2, <4>3, <2>1, <2>2 DEF InOrder
    <3>2. CASE dir[n] = i
      BY <3>2, <2>2, <1>2
    <3>3. CASE dir[n] # i /\ dir[m] # i
      BY <3>3, <2>1, <2>2, <1>1, <1>2 DEF InOrder
    <3> QED BY <3>1, <3>2, <3>3
  <2>3. InOrder(dir)'
    BY <2>2 DEF InOrder
  <2> QED BY <2>1, <2>3
<1>6. Lossless
  <2> SUFFICES ASSUME NEW a \in FileIds \cup {NoFile}, NEW dir \in entryKept
               PROVE  SecuredIn(file, dir, a) \ dropped \subseteq SecuredIn(file', dir, a)
    BY <1>1 DEF Lossless
  <2>1. \A n \in Segments(dir) : Part(file, dir[n], a) \subseteq Part(file', dir[n], a)
    BY <1>1, <1>2 DEF Part
  <2> QED BY <2>1 DEF SecuredIn
<1> QED BY <1>3, <1>4, <1>5, <1>6

\* A torn line: the file has the events it had.
LEMMA WritePartKeeps ==
    ASSUME Disk, NEW i \in FileIds, WritePart(i), Live => NoLegacy, UNCHANGED <<lastId, legacy>>
    PROVE  Disk' /\ Lossless
<1> USE DEF Disk
<1>1. /\ file' \in [FileIds -> Files]
      /\ \A j \in FileIds : file'[j].ids = file[j].ids /\ file'[j].kept = file[j].kept
      /\ UNCHANGED <<root, rootKept, entry, entryKept>>
  BY DEF WritePart, DiskType, Files
<1>2. \A dir \in entryKept : \A n \in Segments(dir) : dir[n] \in FileIds
  BY DEF DiskType, Segments
<1>3. DiskType'
  BY <1>1 DEF DiskType, Files
<1>4. Distinct'
  BY <1>1 DEF Distinct
<1>5. DirInv'
  <2> SUFFICES ASSUME Live, NEW dir \in entryKept PROVE Segments(dir) # {} /\ InOrder(dir)'
    BY <1>1 DEF DirInv, Live, NoLegacy
  <2>1. Segments(dir) # {} /\ InOrder(dir)
    BY DEF DirInv
  <2> QED BY <2>1, <1>1, <1>2 DEF InOrder
<1>6. Lossless
  <2> SUFFICES ASSUME NEW a \in FileIds \cup {NoFile}, NEW dir \in entryKept
               PROVE  SecuredIn(file, dir, a) \ dropped \subseteq SecuredIn(file', dir, a)
    BY <1>1 DEF Lossless
  <2>1. \A n \in Segments(dir) : Part(file, dir[n], a) \subseteq Part(file', dir[n], a)
    BY <1>1, <1>2 DEF Part
  <2> QED BY <2>1 DEF SecuredIn
<1> QED BY <1>3, <1>4, <1>5, <1>6

\* A segment gives way to a synchronized copy without the events given up.
LEMMA RenameKeeps ==
    ASSUME Disk, NEW o \in Segments(entry), RenameTemp(o), Temp \in DOMAIN entry, Synced(Temp),
           file[entry[Temp]].ids \subseteq file[entry[o]].ids,
           file[entry[o]].ids \ file[entry[Temp]].ids \subseteq dropped,
           Live => NoLegacy, UNCHANGED <<lastId, legacy>>
    PROVE  /\ Disk' /\ Lossless /\ DOMAIN entry' = DOMAIN entry \ {Temp}
           /\ Segments(entry') = Segments(entry)
           /\ entry'[o] = entry[Temp] /\ \A n \in Segments(entry) \ {o} : entry'[n] = entry[n]
           /\ UNCHANGED <<file, root, rootKept>> /\ entryKept' = entryKept \cup {entry'}
<1> USE DEF Disk
<1>1. /\ entry' = [Without(entry, Temp) EXCEPT ![o] = entry[Temp]]
      /\ entryKept' = entryKept \cup {entry'} /\ UNCHANGED <<file, root, rootKept>>
  BY DEF RenameTemp, SetEntry
<1>2. file \in [FileIds -> Files] /\ entry \in entryKept /\ o # Temp /\ o \in DOMAIN entry
  BY DEF DiskType, Segments
<1>3. /\ DOMAIN entry' = DOMAIN entry \ {Temp} /\ Segments(entry') = Segments(entry)
      /\ entry'[o] = entry[Temp] /\ \A n \in Segments(entry) \ {o} : entry'[n] = entry[n]
      /\ entry' = [n \in DOMAIN entry' |-> entry'[n]]
  BY <1>1, <1>2 DEF Without, Segments
<1>4. DiskType'
  <2>1. ASSUME NEW dir \in entryKept'
        PROVE  /\ dir = [n \in DOMAIN dir |-> dir[n]]
               /\ DOMAIN dir \subseteq 0..MaxOrdinal /\ \A n \in DOMAIN dir : dir[n] \in FileIds
    <3>1. CASE dir \in entryKept
      BY <3>1 DEF DiskType
    <3>2. CASE dir = entry'
      <4>1. \A n \in DOMAIN entry' : n = o \/ n \in Segments(entry) \ {o}
        BY <1>3 DEF Segments
      <4> QED BY <4>1, <3>2, <1>2, <1>3 DEF DiskType, Segments
    <3> QED BY <1>1, <3>1, <3>2
  <2> QED BY <2>1, <1>1 DEF DiskType, Files
<1>5. Distinct'
  <2>1. \A n, m \in DOMAIN entry' : entry'[n] = entry'[m] => n = m
    BY <1>2, <1>3 DEF Distinct, Segments
  <2> QED BY <2>1, <1>1 DEF Distinct
<1>6. DirInv'
  <2>1. CASE Live
    <3>1. Segments(entry) # {} /\ InOrder(entry)
      BY <2>1, <1>2 DEF DirInv
    <3>2. \A n \in Segments(entry) : file'[entry'[n]].ids \subseteq file[entry[n]].ids
      BY <1>1, <1>3
    <3>3. InOrder(entry)'
      BY <3>1, <3>2, <1>3 DEF InOrder
    <3>4. \A dir \in entryKept : Segments(dir) # {} /\ InOrder(dir)'
      BY <2>1, <1>1 DEF DirInv, InOrder
    <3> QED BY <3>1, <3>3, <3>4, <1>1, <1>3, <2>1 DEF DirInv, NoLegacy
  <2> QED BY <2>1, <1>1 DEF DirInv, Live
<1>7. Lossless
  <2> SUFFICES ASSUME NEW a \in FileIds \cup {NoFile}, NEW dir \in entryKept'
               PROVE  \E d \in entryKept :
                        SecuredIn(file, d, a) \ dropped \subseteq SecuredIn(file', dir, a)
    BY DEF Lossless
  <2>1. CASE dir \in entryKept
    BY <2>1, <1>1
  <2>2. CASE dir = entry'
    <3>1. \A n \in Segments(entry) \ {o} : Part(file, entry[n], a) = Part(file', entry'[n], a)
      BY <1>1, <1>3 DEF Part
    <3>2. Part(file, entry[o], a) \subseteq file[entry[o]].ids
      BY <1>2 DEF DiskType, Part
    <3>3. Part(file', entry'[o], a) = file[entry[Temp]].ids
      BY <1>1, <1>3 DEF Part, Synced
    <3>4. \A n \in Segments(entry) :
            Part(file, entry[n], a) \ dropped \subseteq Part(file', entry'[n], a)
      BY <3>1, <3>2, <3>3
    <3>5. SecuredIn(file, entry, a) \ dropped \subseteq SecuredIn(file', entry', a)
      BY <3>4, <1>3 DEF SecuredIn
    <3> QED BY <2>2, <3>5, <1>2
  <2> QED BY <2>1, <2>2, <1>1
<1> QED BY <1>1, <1>3, <1>4, <1>5, <1>6, <1>7

\* A temporary, or a segment of events given up that is not the only one.
LEMMA UnlinkKeeps ==
    ASSUME Disk, NEW place, Unlink(place),
           Live /\ place # Temp =>
             /\ NoLegacy /\ place \in DOMAIN entry /\ file[entry[place]].ids \subseteq dropped
             /\ Segments(entry) \ {place} # {},
           UNCHANGED <<lastId, legacy>>
    PROVE  /\ Disk' /\ (Live => Lossless) /\ DOMAIN entry' = DOMAIN entry \ {place}
           /\ Segments(entry') = Segments(entry) \ {place}
           /\ \A n \in DOMAIN entry' : entry'[n] = entry[n]
           /\ UNCHANGED <<file, root, rootKept>> /\ entryKept' = entryKept \cup {entry'}
<1> USE DEF Disk
<1>1. /\ entry' = Without(entry, place)
      /\ entryKept' = entryKept \cup {entry'} /\ UNCHANGED <<file, root, rootKept>>
  BY DEF Unlink, SetEntry
<1>2. file \in [FileIds -> Files] /\ entry \in entryKept
  BY DEF DiskType
<1>3. /\ DOMAIN entry' = DOMAIN entry \ {place} /\ Segments(entry') = Segments(entry) \ {place}
      /\ \A n \in DOMAIN entry' : entry'[n] = entry[n]
      /\ entry' = [n \in DOMAIN entry' |-> entry'[n]]
  BY <1>1 DEF Without, Segments
<1>4. DiskType'
  BY <1>1, <1>2, <1>3 DEF DiskType, Files
<1>5. Distinct'
  BY <1>1, <1>2, <1>3 DEF Distinct
<1>6. \A dir \in entryKept : \A n \in Segments(dir) : file'[dir[n]] = file[dir[n]]
  BY <1>1
<1>7. /\ Segments(entry') \subseteq Segments(entry)
      /\ \A n \in Segments(entry') : entry'[n] = entry[n] /\ file'[entry'[n]] = file[entry[n]]
      /\ Segments(entry) = Segments(entry') \/ place \in Segments(entry)
  BY <1>1, <1>3 DEF Segments
<1>8. DirInv'
  <2>1. CASE Live
    <3>1. Segments(entry) # {} /\ InOrder(entry)
      BY <2>1, <1>2 DEF DirInv
    <3>2. InOrder(entry)'
      BY <3>1, <1>7 DEF InOrder
    <3>3. \A dir \in entryKept : Segments(dir) # {} /\ InOrder(dir)'
               /\ ((\E r \in rootKept : r.legacy) => AsImported(dir)')
      BY <2>1, <1>6, SameFiles DEF DirInv
    <3>4. Segments(entry') # {}
      BY <3>1, <2>1, <1>3 DEF Segments
    <3>5. (\E r \in rootKept : r.legacy) => AsImported(entry)'
      <4> SUFFICES ASSUME \E r \in rootKept : r.legacy PROVE AsImported(entry)'
        OBVIOUS
      <4>1. place = Temp
        BY <2>1 DEF NoLegacy
      <4>2. Segments(entry') = Segments(entry)
        BY <4>1, <1>3 DEF Segments
      <4>3. IdsIn(entry)' = IdsIn(entry)
        BY <4>2, <1>7 DEF IdsIn
      <4>4. AsImported(entry)
        BY <2>1, <1>2 DEF DirInv
      <4> QED BY <4>2, <4>3, <4>4, <1>7 DEF AsImported
    <3> QED BY <3>2, <3>3, <3>4, <3>5, <1>1, <2>1 DEF DirInv
  <2> QED BY <2>1, <1>1 DEF DirInv, Live
<1>9. Live => Lossless
  <2> SUFFICES ASSUME Live, NEW a \in FileIds \cup {NoFile}, NEW dir \in entryKept'
               PROVE  \E d \in entryKept :
                        SecuredIn(file, d, a) \ dropped \subseteq SecuredIn(file', dir, a)
    BY DEF Lossless
  <2>1. CASE dir \in entryKept
    BY <2>1, <1>1
  <2>2. CASE dir = entry'
    <3>1. \A n \in Segments(entry') : Part(file, entry[n], a) = Part(file', entry'[n], a)
      BY <1>7 DEF Part
    <3>2. ASSUME NEW n \in Segments(entry), n \notin Segments(entry')
          PROVE  Part(file, entry[n], a) \subseteq dropped
      <4>1. n = place /\ place # Temp
        BY <3>2, <1>3 DEF Segments
      <4>2. file[entry[n]].kept \subseteq file[entry[n]].ids
        BY <3>2, <1>2 DEF DiskType, Segments
      <4> QED BY <4>1, <4>2 DEF Part
    <3>3. SecuredIn(file, entry, a) \ dropped \subseteq SecuredIn(file', entry', a)
      BY <3>1, <3>2 DEF SecuredIn
    <3> QED BY <2>2, <3>3, <1>2
  <2> QED BY <2>1, <2>2, <1>1
<1> QED BY <1>1, <1>3, <1>4, <1>5, <1>8, <1>9

\* What was durable is still on disk after a step that loses nothing.
LEMMA LosslessKeepsDurable ==
    ASSUME Disk, Disk', Durable, Lossless, Live, UNCHANGED <<safe, dropped>>
    PROVE  Durable'
<1> SUFFICES ASSUME NEW dir \in entryKept' PROVE safe \ dropped \subseteq KeptIn(dir)'
  BY DEF Durable
<1>1. PICK d \in entryKept :
        SecuredIn(file, d, NoFile) \ dropped \subseteq SecuredIn(file', dir, NoFile)
  BY DEF Lossless
<1>2. \A n \in Segments(d) : d[n] \in FileIds
  BY DEF Disk, DiskType, Segments
<1>3. \A n \in Segments(dir) : dir[n] \in FileIds
  BY DEF Disk, DiskType, Segments
<1>4. SecuredIn(file, d, NoFile) = KeptIn(d)
  BY <1>2, KeptIsSecured DEF KeptIn
<1>5. SecuredIn(file', dir, NoFile) = KeptIn(dir)'
  BY <1>3, KeptIsSecured DEF KeptIn
<1> QED BY <1>1, <1>4, <1>5 DEF Durable

\* The parts of the invariant.
LEMMA Parts ==
    ASSUME IInv
    PROVE  /\ TypeOK /\ StatusInv /\ RootInv /\ Distinct /\ DirInv /\ Durable /\ Promise
           /\ ImportInv /\ OpenInv /\ TrimInv /\ AppendInv /\ RestInv
           /\ DiskType /\ Disk
BY DEF IInv, TypeOK, DiskType, Disk

\* The calls that synchronize a file, and those that touch the root.
SyncSteps == {"secure", "stageSync", "syncCopy", "rotateSync", "appendSync", "cleanupSync",
              "closeSync"}

\* The last segment of a live directory is there.
LEMMA LatestThere ==
    ASSUME IInv, Mapped, Live
    PROVE  /\ DOMAIN segs # {} /\ Latest(segs) \in DOMAIN segs
           /\ \A o \in DOMAIN segs : o <= Latest(segs) /\ o \in Ordinals
           /\ entry[Latest(segs)] \in FileIds
<1>1. DOMAIN segs = Segments(entry) /\ entry \in entryKept /\ DOMAIN segs \subseteq Ordinals
  BY Parts DEF Mapped, TypeOK
<1>2. DOMAIN segs # {}
  BY <1>1, Parts DEF DirInv
<1>3. Latest(segs) \in DOMAIN segs /\ \A o \in DOMAIN segs : o <= Latest(segs)
  BY <1>1, <1>2, LatestIs
<1>4. entry[Latest(segs)] \in FileIds
  BY <1>1, <1>3, Parts DEF TypeOK, Segments
<1> QED BY <1>1, <1>2, <1>3, <1>4

\* The file that a call writes or synchronizes.
LEMMA TargetIs ==
    ASSUME IInv, step \in SyncSteps \cup WriteSteps
    PROVE  /\ Target \in FileIds
           /\ step \in {"secure", "stageWrite", "stageSync"} =>
                Target = entry[at] /\ at \in DOMAIN segs /\ at \in Segments(entry)
           /\ step \in {"copy", "syncCopy"} => Target = entry[Temp] /\ Temp \in DOMAIN entry
           /\ step \in {"append", "rotateSync", "appendSync", "cleanupSync", "closeSync"} =>
                Target = active
           /\ step \in {"append", "rotateSync", "appendSync", "cleanupSync"} =>
                OnLatest /\ active \in FileIds
           /\ step \in WriteSteps => file[Target].tail = "whole"
<1> USE Parts
<1>0. entry \in entryKept /\ \A n \in DOMAIN entry : entry[n] \in FileIds
  BY DEF TypeOK
<1>1. CASE step = "secure"
  BY <1>0, <1>1 DEF Target, StatusInv, Securing, OpenInv, Mapped, Segments, WriteSteps, SyncSteps
<1>2. CASE step \in {"stageWrite", "stageSync"}
  <2>1. Mapped /\ NoneDirty /\ DOMAIN segs = 1..at /\ at \in Ordinals
    BY <1>2 DEF ImportInv, Building
  <2>2. at \in DOMAIN segs
    BY <2>1, FilesAssumption DEF Ordinals
  <2> QED BY <1>0, <1>2, <2>1, <2>2 DEF Target, Mapped, NoneDirty, Segments, WriteSteps, SyncSteps
<1>3. CASE step \in {"copy", "syncCopy"}
  BY <1>0, <1>3 DEF Target, TrimInv, Copying, WriteSteps, SyncSteps
<1>4. CASE step \in {"append", "rotateSync", "appendSync", "cleanupSync"}
  <2>1. Live /\ status = "open" /\ writable
    BY <1>4 DEF StatusInv, Appending, Rotating, Staging, Clearing, Building, Closing
  <2>2. Mapped /\ NoneDirty /\ OnLatest
    BY <1>4, <2>1 DEF AppendInv, RestInv, Appending, Rotating, Closing
  <2>3. DOMAIN segs = Segments(entry) /\ Latest(segs) \in DOMAIN segs
        /\ entry[Latest(segs)] \in FileIds
    BY <2>1, <2>2, LatestThere DEF Mapped
  <2> QED BY <1>4, <2>2, <2>3 DEF Target, OnLatest, Mapped, NoneDirty, WriteSteps, SyncSteps
<1>5. CASE step = "closeSync"
  BY <1>5 DEF Target, RestInv, TypeOK, WriteSteps, SyncSteps
<1> QED BY <1>1, <1>2, <1>3, <1>4, <1>5 DEF SyncSteps, WriteSteps

\* What retention takes from a part of what it was decided for is given up.
LEMMA GivenUp ==
    ASSUME GaveUp, NEW ids, ids \subseteq staged
    PROVE  ids \ From(ids, cut) \subseteq dropped
BY DEF GaveUp, From

\* From the removal of the temporaries on, Open has left the legacy log behind.
LEMMA NoLegacyNow ==
    ASSUME IInv, status \in {"open", "closed"} \/ step \in Trimming \cup Clear \cup {"openActive"}
    PROVE  NoLegacy /\ Live
<1>1. NoLegacy
  BY Parts DEF RootInv, RootCore, Unlinked, NoLegacy
<1>2. Live
  BY Parts DEF StatusInv, Trimming, Copying, Replacing, Clear, Staging, Clearing, Building
<1> QED BY <1>1, <1>2

\* The stage becomes the live directory when all that retention keeps is in it.
LEMMA PublishKeeps ==
    ASSUME IInv, step = "publish", PublishStage, UNCHANGED <<lastId, legacy, safe, dropped>>
    PROVE  Disk' /\ Durable'
<1> USE Parts
<1>1. /\ UNCHANGED <<file, entry, entryKept>> /\ root' = [root EXCEPT !.dir = "live"]
      /\ rootKept' = rootKept \cup {root'}
  BY DEF PublishStage, SetRoot
<1>2. /\ staged = legacy /\ GaveUp /\ Mapped /\ NoneDirty /\ HeldIn(segs) = From(staged, cut)
      /\ AllSynced /\ DOMAIN segs # {} /\ Quiet
      /\ \A o, p \in DOMAIN segs : o < p => \A x \in segs[o].ids, y \in segs[p].ids : x < y
  BY DEF ImportInv, Staging, Building, Clearing
<1>3. ~Live
  BY DEF StatusInv, Staging
<1>4. DiskType'
  BY <1>1 DEF DiskType, Files, Roots, TypeOK
<1>5. Distinct'
  BY <1>1 DEF Distinct
<1>6. /\ Segments(entry) = DOMAIN segs
      /\ \A o \in DOMAIN segs : /\ file[entry[o]].ids = segs[o].ids
                                /\ file[entry[o]].kept = segs[o].ids
                                /\ file[entry[o]].tail = "whole"
  BY <1>2 DEF Mapped, NoneDirty, AllSynced, Synced
<1>7. IdsIn(entry) = HeldIn(segs) /\ KeptIn(entry) = HeldIn(segs)
  BY <1>6 DEF IdsIn, KeptIn, HeldIn
<1>8. InOrder(entry)
  BY <1>2, <1>6 DEF InOrder
<1>9. AsImported(entry)
  BY <1>2, <1>6, <1>7 DEF AsImported, TypeOK
<1>10. IdsIn(entry)' = IdsIn(entry) /\ KeptIn(entry)' = KeptIn(entry)
       /\ InOrder(entry)' = InOrder(entry) /\ AsImported(entry)' = AsImported(entry)
       /\ entryKept' = {entry'} /\ entry' = entry
  BY <1>1, <1>2 DEF IdsIn, KeptIn, InOrder, AsImported, Quiet
<1>11. DirInv'
  BY <1>2, <1>6, <1>8, <1>9, <1>10 DEF DirInv
<1>12. safe \subseteq legacy
  BY <1>3 DEF RootInv, RootCore, Live, DiskType, TypeOK
<1>13. safe \ dropped \subseteq HeldIn(segs)
  BY <1>2, <1>12 DEF GaveUp
<1>14. Durable'
  BY <1>7, <1>10, <1>13 DEF Durable
<1> QED BY <1>4, <1>5, <1>11, <1>14 DEF Disk

\* Without a live directory nothing is asked of the staging directory.
LEMMA NotLiveKeeps ==
    ASSUME Distinct, DiskType', entryKept' \subseteq entryKept \/ entryKept' = {NoEntries}, ~Live'
    PROVE  Disk' /\ Durable'
<1>1. Distinct'
  BY DEF Distinct, NoEntries
<1> QED BY <1>1 DEF Disk, DirInv, Durable

\* No storage call but the publication changes which directory is live, and none loses
\* what is on disk.
LEMMA EffectKeepsDisk ==
    ASSUME IInv, ~Idle, Effect, step # "publish", UNCHANGED <<lastId, legacy>>
    PROVE  Disk' /\ (Live => Lossless) /\ Live' = Live
<1> USE Parts
<1>1. CASE step \in SyncSteps
  <2>1. SyncFile(Target) /\ Target \in FileIds
    BY <1>1, TargetIs DEF Effect, SyncSteps, WriteSteps
  <2> QED BY <2>1, SyncFileKeeps DEF Live, SyncFile
<1>2. CASE step \in {"secureDir", "syncTemp", "syncStage", "syncRename", "syncExpired",
                    "appendSyncDir"}
  <2>1. SyncDir
    BY <1>2 DEF Effect, WriteSteps
  <2> QED BY <2>1, SyncDirKeeps DEF Live, SyncDir
<1>3. CASE step \in {"secureRoot", "syncDiscard", "syncPublish", "syncLegacy"}
  <2>1. SyncRoot
    BY <1>3 DEF Effect, WriteSteps
  <2>2. UNCHANGED <<file, entry, entryKept>> /\ root' = root /\ rootKept' = {root}
        /\ root \in rootKept /\ rootKept \subseteq Roots
    BY <2>1 DEF SyncRoot, DiskType
  <2>3. Live' = Live
    BY <2>2 DEF Live
  <2> QED BY <2>2, <2>3, RootStepKeeps
<1>4. CASE step = "unlinkLegacy"
  <2>1. RemoveLegacy
    BY <1>4 DEF Effect, WriteSteps
  <2>2. UNCHANGED <<file, entry, entryKept>> /\ root' = [root EXCEPT !.legacy = FALSE]
        /\ rootKept' = rootKept \cup {root'}
        /\ root \in rootKept /\ rootKept \subseteq Roots
    BY <2>1 DEF RemoveLegacy, SetRoot, DiskType
  <2>3. Live' = Live /\ root' \in Roots /\ ~root'.legacy
    BY <2>2 DEF Live, Roots
  <2>4. root' \in rootKept' /\ rootKept' \subseteq Roots
        /\ ((\E r \in rootKept' : r.legacy) => \E r \in rootKept : r.legacy)
    BY <2>2, <2>3
  <2> QED BY <2>2, <2>3, <2>4, RootStepKeeps
<1>5. CASE step = "stageCreate"
  <2>1. Create(at) /\ at \in 0..MaxOrdinal /\ ~Live
    BY <1>5 DEF Effect, WriteSteps, TypeOK, StatusInv, Staging, Building
  <2>2. at \notin Segments(entry)
    BY <1>5, FilesAssumption DEF ImportInv, Building, Mapped, Ordinals
  <2> QED BY <2>1, <2>2, CreateKeeps DEF Create, Live
<1>6. CASE step \in {"rotateCreate", "temporary"}
  <2> DEFINE place == IF step = "temporary" THEN Temp ELSE at
  <2>1. Create(place) /\ place \in 0..MaxOrdinal
    BY <1>6, FilesAssumption DEF Effect, WriteSteps, TypeOK, Temp
  <2>2. NoLegacy /\ Live
    BY <1>6, NoLegacyNow DEF StatusInv, Appending, Rotating, Trimming
  <2>3. CASE step = "temporary"
    BY <2>1, <2>2, <2>3, CreateKeeps DEF Segments, Create, Live
  <2>4. CASE step = "rotateCreate"
    <3>1. Mapped /\ at = Latest(segs) + 1
      BY <2>4 DEF AppendInv, Appending, Rotating
    <3>2. at \notin Segments(entry)
      BY <3>1, <2>2, LatestThere DEF Mapped, Ordinals
    <3> QED BY <2>1, <2>2, <2>4, <3>2, CreateKeeps DEF Create, Live
  <2> QED BY <1>6, <2>3, <2>4
<1>7. CASE step \in WriteSteps
  <2> DEFINE e == IF step = "append" THEN lastId ELSE Min(todo)
  <2>1. Write(Target, e) /\ Target \in FileIds /\ file[Target].tail = "whole"
    BY <1>7, TargetIs DEF Effect, WriteSteps
  <2>2. Live' = Live
    BY <2>1 DEF Write, Live
  <2>3. CASE step = "append"
    <3>1. \A dir \in entryKept : lastId \notin IdsIn(dir)
      BY <2>3 DEF AppendInv
    <3>2. lastId \in 1..lastId
      BY <2>3 DEF AppendInv, GaveUp, TypeOK, Rotating, Appending
    <3>3. NoLegacy
      BY <2>3, NoLegacyNow DEF StatusInv, Appending
    <3>4. Target = active
      BY <2>3, TargetIs DEF WriteSteps
    <3>5. \A dir \in entryKept : \A n \in Segments(dir) : dir[n] = active =>
            \A m \in Segments(dir) : m <= n
      BY <2>3 DEF AppendInv
    <3>6. ASSUME NEW dir \in entryKept, NEW m \in Segments(dir), NEW x \in file[dir[m]].ids
          PROVE  x < lastId
      <4>1. x \in 1..lastId
        BY <3>6 DEF TypeOK, Files, Segments
      <4>2. x # lastId
        BY <3>1, <3>6 DEF IdsIn
      <4> QED BY <4>1, <4>2 DEF TypeOK
    <3>7. Write(Target, lastId)
      BY <2>1, <2>3
    <3> HIDE DEF e
    <3> QED BY <2>1, <2>2, <3>1, <3>2, <3>3, <3>4, <3>5, <3>6, <3>7, WriteKeeps
  <2>4. CASE step \in {"copy", "stageWrite"}
    <3>1. todo # {} /\ todo \subseteq 1..lastId /\ todo \subseteq Nat
      BY <2>4 DEF ImportInv, TrimInv, TypeOK
    <3>2. Min(todo) \in 1..lastId
      BY <3>1, MinIs
    <3>3. Write(Target, Min(todo))
      BY <2>1, <2>4
    <3>4. Live => NoLegacy /\ \A dir \in entryKept : \A n \in Segments(dir) : dir[n] # Target
      <4>1. CASE step = "copy"
        <5>1. NoLegacy
          BY <4>1, NoLegacyNow DEF Trimming, Copying
        <5>2. Target = entry[Temp]
          BY <4>1, TargetIs DEF WriteSteps
        <5> QED BY <4>1, <5>1, <5>2 DEF TrimInv, Copying
      <4>2. CASE step = "stageWrite"
        BY <4>2 DEF StatusInv, Staging, Building
      <4> QED BY <2>4, <4>1, <4>2
    <3> HIDE DEF e
    <3> QED BY <2>1, <2>2, <3>2, <3>3, <3>4, WriteKeeps
  <2> QED BY <1>7, <2>3, <2>4 DEF WriteSteps
<1>8. CASE step = "rename"
  <2>1. RenameTemp(at)
    BY <1>8 DEF Effect, WriteSteps
  <2>2. /\ Mapped /\ Covers(segs) /\ GaveUp /\ at \in DOMAIN segs /\ Temp \in DOMAIN entry
        /\ file[entry[Temp]].ids = From(segs[at].ids, cut) /\ Synced(Temp)
    BY <1>8 DEF TrimInv, Trimming, Copying
  <2>3. at \in Segments(entry) /\ file[entry[at]].ids = segs[at].ids
    BY <2>2 DEF Mapped
  <2>4. segs[at].ids \subseteq staged
    BY <2>2 DEF Covers, HeldIn
  <2>5. segs[at].ids \ From(segs[at].ids, cut) \subseteq dropped
    BY <2>2, <2>4, GivenUp
  <2>6. NoLegacy
    BY <1>8, NoLegacyNow DEF Trimming, Copying
  <2>7. From(segs[at].ids, cut) \subseteq segs[at].ids
    BY DEF From
  <2>8. Live' = Live
    BY <2>1 DEF RenameTemp, Live
  <2> QED BY <2>1, <2>2, <2>3, <2>5, <2>6, <2>7, <2>8, RenameKeeps
<1>9. CASE step = "removeTemp"
  <2>1. Unlink(Temp)
    BY <1>9 DEF Effect, WriteSteps
  <2> QED BY <2>1, UnlinkKeeps DEF Unlink, Live
<1>10. CASE step = "discard"
  <2>1. Unlink(at) /\ ~Live
    BY <1>10 DEF Effect, WriteSteps, StatusInv, Staging, Clearing
  <2> QED BY <2>1, UnlinkKeeps DEF Unlink, Live
<1>11. CASE step = "expire"
  <2>1. Unlink(at)
    BY <1>11 DEF Effect, WriteSteps
  <2>2. Mapped /\ Covers(segs) /\ GaveUp /\ at \in Expired(segs)
    BY <1>11 DEF TrimInv, Trimming
  <2>3. NoLegacy /\ Live
    BY <1>11, NoLegacyNow DEF Trimming
  <2>4. at \in DOMAIN segs /\ at # Latest(segs) /\ From(segs[at].ids, cut) = {}
    <3>1. at \in DOMAIN segs /\ Expires(segs, at)
      BY <2>2 DEF Expired
    <3>2. at <= at
      BY DEF TypeOK
    <3> QED BY <3>1, <3>2 DEF Expires
  <2>5. segs[at].ids \ From(segs[at].ids, cut) \subseteq dropped
    BY <2>2, <2>4, GivenUp DEF Covers, HeldIn
  <2>6. Latest(segs) \in DOMAIN segs
    BY <2>2, <2>3, LatestThere
  <2>7. at \in DOMAIN entry /\ file[entry[at]].ids \subseteq dropped
        /\ Segments(entry) \ {at} # {}
    BY <2>2, <2>4, <2>5, <2>6 DEF Mapped, Segments
  <2>8. Live' = Live
    BY <2>1 DEF Unlink, Live
  <2> QED BY <2>1, <2>3, <2>7, <2>8, UnlinkKeeps
<1>12. CASE step \in {"openActive", "reopen", "rotateClose", "reclose", "closeFile"}
  <2>1. UNCHANGED diskVars
    BY <1>12 DEF Effect, WriteSteps
  <2>2. root' \in rootKept' /\ rootKept' \subseteq Roots /\ Live' = Live /\ rootKept' = rootKept
        /\ UNCHANGED <<file, entry, entryKept>>
    BY <2>1 DEF diskVars, DiskType, Live
  <2> QED BY <2>2, RootStepKeeps
<1>13. CASE step \in {"makeStage", "removeStage"}
  <2>1. MakeStage \/ RemoveStage
    BY <1>13 DEF Effect, WriteSteps
  <2>2. ~Live
    BY <1>13 DEF StatusInv, Staging, Clearing
  <2>3. root' \in Roots /\ root'.dir # "live" /\ rootKept' = rootKept \cup {root'} /\ file' = file
        /\ \/ entry' = NoEntries /\ entryKept' = {NoEntries}
           \/ entry' = entry /\ entryKept' = entryKept
    BY <2>1 DEF MakeStage, RemoveStage, SetRoot, DiskType, Roots
  <2>4. DiskType'
    <3>1. NoEntries = [n \in DOMAIN NoEntries |-> NoEntries[n]] /\ DOMAIN NoEntries = {}
      BY DEF NoEntries
    <3>2. \A dir \in entryKept' :
            /\ dir = [n \in DOMAIN dir |-> dir[n]]
            /\ DOMAIN dir \subseteq 0..MaxOrdinal /\ \A n \in DOMAIN dir : dir[n] \in FileIds
      BY <2>3, <3>1 DEF DiskType
    <3> QED BY <2>3, <3>2 DEF DiskType, Files
  <2>5. ~Live'
    BY <2>3 DEF Live
  <2>6. Live' = Live
    BY <2>2, <2>3 DEF Live
  <2>7. Disk'
    BY <2>3, <2>4, <2>5, NotLiveKeeps
  <2> QED BY <2>2, <2>6, <2>7
<1>14. step \in Steps \ {"idle", "publish"}
  BY DEF TypeOK, Idle
<1>15. \/ step \in SyncSteps \cup WriteSteps
       \/ step \in {"secureDir", "syncTemp", "syncStage", "syncRename", "syncExpired",
                   "appendSyncDir"}
       \/ step \in {"secureRoot", "syncDiscard", "syncPublish", "syncLegacy"}
       \/ step \in {"unlinkLegacy", "stageCreate", "rename", "removeTemp", "discard", "expire"}
       \/ step \in {"rotateCreate", "temporary"}
       \/ step \in {"openActive", "reopen", "rotateClose", "reclose", "closeFile"}
       \/ step \in {"makeStage", "removeStage"}
  BY ONLY <1>14 DEF Steps, SyncSteps, WriteSteps
<1> QED BY ONLY <1>1, <1>2, <1>3, <1>4, <1>5, <1>6, <1>7, <1>8, <1>9, <1>10, <1>11, <1>12,
                <1>13, <1>15

-----------------------------------------------------------------------------
(***************************************************************************)
(* The steps of an operation.                                              *)
(***************************************************************************)
\* Every call has its effect, goes on, and keeps what is on disk.
LEMMA Base ==
    ASSUME IInv, StorageCall
    PROVE  /\ ~Idle /\ step \in Steps \ {"idle"}
           /\ UNCHANGED <<writable, dropped, legacy, size, lastId, aged, failures, crashes>>
           /\ Effect /\ Descriptor /\ Advance
           /\ step # "publish" => Disk' /\ (Live => Lossless) /\ Live' = Live
<1>1. /\ ~Idle /\ Effect /\ Descriptor /\ Advance
      /\ UNCHANGED <<writable, dropped, legacy, size, lastId, aged, failures, crashes>>
  BY DEF StorageCall, worldVars
<1>2. step # "publish" => Disk' /\ (Live => Lossless) /\ Live' = Live
  BY <1>1, EffectKeepsDisk
<1> QED BY <1>1, <1>2, Parts DEF Idle, TypeOK

\* The effects on the disk other than those on the root leave the root alone.
RootSteps == {"secureRoot", "syncDiscard", "syncPublish", "syncLegacy", "unlinkLegacy",
              "makeStage", "removeStage", "publish"}

\* The other calls leave the root alone.
LEMMA RootAlone ==
    ASSUME Effect, step \notin RootSteps
    PROVE  UNCHANGED <<root, rootKept>>
BY DEF Effect, RootSteps, SyncFile, SyncDir, Create, Write, RenameTemp, Unlink, diskVars, WriteSteps

\* Types after a call in the middle of an operation.
LEMMA GotoType ==
    ASSUME TypeOK, Disk', UNCHANGED <<writable, records, legacy, lastId, segs, staged, cut, status>>,
           step' \in Steps, at' \in 0..MaxOrdinal, todo' \subseteq 1..lastId,
           active' \in FileIds \cup {NoFile}
    PROVE  TypeOK'
BY DEF TypeOK, Disk, DiskType, Files, Roots

\* The records stay on disk, or in the open file.
LEMMA PromiseKeeps ==
    ASSUME Promise, Lossless, UNCHANGED <<status, records, dropped, active>>, Disk,
           TypeOK, status # "closed", step' \notin Closing
    PROVE  Promise'
<1> SUFFICES ASSUME status = "open", NEW dir \in entryKept'
             PROVE  records \ dropped \subseteq SecuredIn(file', dir, active)
  BY DEF Promise, Closing
<1>1. PICK d \in entryKept :
        SecuredIn(file, d, active) \ dropped \subseteq SecuredIn(file', dir, active)
  BY DEF Lossless, TypeOK
<1> QED BY <1>1 DEF Promise

\* A file is synchronized: what is known of the segments stays so.
LEMMA SyncFileIs ==
    ASSUME DiskType, NEW i \in FileIds, SyncFile(i)
    PROVE  /\ \A j \in FileIds : /\ file'[j].ids = file[j].ids
                                 /\ file'[j].tail = file[j].tail
                                 /\ file'[j].kept = IF j = i THEN file[j].ids ELSE file[j].kept
           /\ UNCHANGED <<root, rootKept, entry, entryKept>>
BY DEF SyncFile, DiskType, Files

\* ... and the segment that file is has become synchronized.
LEMMA SyncFileMaps ==
    ASSUME IInv, NEW i \in FileIds, SyncFile(i), UNCHANGED segs
    PROVE  /\ Mapped => Mapped'
           /\ NoneDirty => NoneDirty'
           /\ \A o \in Segments(entry) : Synced(o) \/ entry[o] = i => Synced(o)'
           /\ Quiet => Quiet'
           /\ \A dir \in entryKept : IdsIn(dir)' = IdsIn(dir)
<1>1. /\ \A j \in FileIds : /\ file'[j].ids = file[j].ids
                            /\ file'[j].tail = file[j].tail
                            /\ file'[j].kept = IF j = i THEN file[j].ids ELSE file[j].kept
      /\ UNCHANGED <<root, rootKept, entry, entryKept>>
  BY Parts, SyncFileIs
<1>2. \A dir \in entryKept : \A o \in Segments(dir) : dir[o] \in FileIds
  BY Parts DEF TypeOK, Segments
<1>3. entry \in entryKept
  BY Parts DEF TypeOK
<1>4. Mapped => Mapped'
  BY <1>1, <1>2, <1>3 DEF Mapped
<1>5. \A o \in Segments(entry) : Synced(o) \/ entry[o] = i => Synced(o)'
  BY <1>1, <1>2, <1>3 DEF Synced
<1>6. \A dir \in entryKept : IdsIn(dir)' = IdsIn(dir)
  BY <1>1, <1>2 DEF IdsIn
<1> QED BY <1>1, <1>4, <1>5, <1>6 DEF NoneDirty, Quiet

\* Which call follows which.
LEMMA FollowingIs ==
    ASSUME FollowingCall
    PROVE  /\ \/ step = "unlinkLegacy" /\ step' = "syncLegacy"
              \/ step = "removeTemp" /\ step' = "syncTemp"
              \/ step = "syncTemp" /\ step' = "openActive"
              \/ step = "removeStage" /\ step' = "syncDiscard"
              \/ step = "syncDiscard" /\ step' = "makeStage"
              \/ step = "syncStage" /\ step' = "publish"
              \/ step = "publish" /\ step' = "syncPublish"
              \/ step = "syncCopy" /\ step' = "rename"
              \/ step = "reclose" /\ step' = "reopen"
              \/ step = "rotateSync" /\ step' = "rotateClose"
              \/ step = "rotateClose" /\ step' = "rotateCreate"
              \/ step = "closeSync" /\ step' = "closeFile"
           /\ at' = at /\ UNCHANGED <<status, records, staged, cut, safe, segs, todo>>
<1>1. step \in DOMAIN After /\ step' = After[step]
  BY DEF FollowingCall, Goto
<1>2. at' = at /\ UNCHANGED <<status, records, staged, cut, safe, segs, todo>>
  BY DEF FollowingCall, Goto
<1> QED BY <1>1, <1>2 DEF After

SegsTyped(s) ==
    /\ s = [o \in DOMAIN s |-> s[o]] /\ DOMAIN s \subseteq Ordinals
    /\ \A o \in DOMAIN s : s[o] \in [ids : SUBSET (1..lastId), dirty : BOOLEAN]

\* The last call of an operation leaves the recorder at rest.
LEMMA DoneRests ==
    ASSUME IInv, StorageCall, NEW s, NEW durable \in BOOLEAN, Done(s, durable),
           status \in {"importing", "opening", "open"}, Disk', Live', UNCHANGED <<root, rootKept>>,
           NoLegacy, \A r \in rootKept : r.dir = "live", SegsTyped(s),
           Mapped', NoneDirty', OlderSynced', Quiet', OnLatest', durable => AllSynced',
           HeldIn(s) = From(staged, cut), safe \ dropped \subseteq KeptIn(entry)'
    PROVE  IInv'
<1> USE Parts
<1>1. /\ step' = "idle" /\ at' = 0 /\ todo' = {} /\ staged' = {} /\ cut' = 0
      /\ segs' = s /\ records' = From(staged, cut)
      /\ status' = "open" /\ (durable => safe' = safe \cup From(staged, cut))
      /\ (~durable => safe' = safe)
  BY DEF Done
<1>2. UNCHANGED <<writable, dropped, legacy, size, lastId, aged, failures, crashes>>
  BY Base
<1>3. entryKept' = {entry'} /\ DOMAIN s = Segments(entry')
  BY <1>1 DEF Quiet, Mapped
<1>4. \A o \in Segments(entry') : /\ entry'[o] \in FileIds /\ file'[entry'[o]].ids = s[o].ids
                                  /\ file'[entry'[o]].kept \subseteq file'[entry'[o]].ids
  BY <1>1, <1>3 DEF Mapped, Disk, DiskType, Segments
<1>5. Latest(s) \in DOMAIN s
  <2>1. Segments(entry') # {}
    BY <1>3 DEF Disk, DirInv
  <2> QED BY <2>1, <1>3, LatestIs DEF SegsTyped
<1>6. active' = entry'[Latest(s)] /\ active' \in FileIds
  BY <1>1, <1>3, <1>4, <1>5 DEF OnLatest
<1>7. \A n \in Segments(entry') : Part(file', entry'[n], active') = s[n].ids
  <2> SUFFICES ASSUME NEW n \in Segments(entry') PROVE Part(file', entry'[n], active') = s[n].ids
    OBVIOUS
  <2>1. CASE n = Latest(s)
    BY <2>1, <1>4, <1>6 DEF Part
  <2>2. CASE n # Latest(s)
    BY <2>2, <1>1, <1>3, <1>4 DEF Part, OlderSynced, Synced
  <2> QED BY <2>1, <2>2
<1>8. SecuredIn(file', entry', active') = HeldIn(s)
  BY <1>3, <1>7 DEF SecuredIn, HeldIn
<1>9. TypeOK'
  <2>1. From(staged, cut) \subseteq 1..lastId
    BY DEF From, TypeOK
  <2> QED BY <1>1, <1>2, <1>6, <2>1, FilesAssumption, RetentionAssumption
          DEF TypeOK, Disk, DiskType, SegsTyped, Steps, Files, Roots
<1>10. StatusInv'
  BY <1>1, <1>2 DEF StatusInv, Staging, Clearing, Building, Securing, Legacying, Clear,
     Trimming, Copying, Replacing, Appending, Rotating, Closing
<1>11. RootInv'
  BY <1>1, <1>2 DEF RootInv, RootCore, Rooted, Unlinked, NoLegacy
<1>12. Durable'
  <2>1. KeptIn(entry)' = UNION {file'[entry'[n]].kept : n \in Segments(entry')}
    BY DEF KeptIn
  <2>2. durable => KeptIn(entry)' = HeldIn(s)
    BY <1>1, <1>3, <1>4, <2>1 DEF AllSynced, Synced, HeldIn
  <2>3. safe' \ dropped \subseteq KeptIn(entry)'
    BY <1>1, <2>2
  <2> QED BY <1>2, <1>3, <2>3 DEF Durable
<1>13. Promise'
  BY <1>1, <1>3, <1>8 DEF Promise
<1>14. ImportInv' /\ OpenInv' /\ TrimInv' /\ AppendInv'
  BY <1>1 DEF ImportInv, OpenInv, TrimInv, AppendInv, Staging, Clearing, Building, Securing,
     Legacying, Clear, Trimming, Copying, Replacing, Appending, Rotating
<1>15. RestInv'
  BY <1>1 DEF RestInv, Closing
<1> QED BY <1>9, <1>10, <1>11, <1>12, <1>13, <1>14, <1>15 DEF IInv, Disk

\* trimSegments goes on with segments that are all on disk.
LEMMA TrimGoesOn ==
    ASSUME IInv, StorageCall, NEW s, Trim(s),
           status \in {"opening", "open"}, writable, Disk', Live', UNCHANGED <<root, rootKept>>,
           NoLegacy, \A r \in rootKept : r.dir = "live", SegsTyped(s),
           Mapped', AllSynced', Quiet', OnLatest', Covers(s), GaveUp,
           safe \ dropped \subseteq HeldIn(s), status = "open" => records \ dropped \subseteq HeldIn(s)
    PROVE  IInv'
<1> USE Parts
<1>1. segs' = s
  BY DEF Trim, Done
<1>2. UNCHANGED <<writable, dropped, legacy, size, lastId, aged, failures, crashes>>
  BY Base
<1>3. entryKept' = {entry'} /\ DOMAIN s = Segments(entry')
  BY <1>1 DEF Quiet, Mapped
<1>4. \A o \in Segments(entry') : /\ entry'[o] \in FileIds /\ file'[entry'[o]].ids = s[o].ids
                                  /\ file'[entry'[o]].kept = s[o].ids
  BY <1>1, <1>3 DEF Mapped, Disk, DiskType, Segments, AllSynced, Synced
<1>5. KeptIn(entry)' = HeldIn(s)
  BY <1>3, <1>4 DEF KeptIn, HeldIn
<1>6. CASE Boundaries(s) = {} /\ Expired(s) = {}
  <2>1. Done(s, TRUE)
    BY <1>6 DEF Trim
  <2>2. \A o \in DOMAIN s : ~s[o].dirty /\ From(s[o].ids, cut) = s[o].ids
    BY <1>6 DEF Boundaries, Expired
  <2>3. NoneDirty'
    BY <2>2, <1>1 DEF NoneDirty
  <2>4. HeldIn(s) = From(HeldIn(s), cut)
    BY <2>2 DEF HeldIn, From
  <2>5. HeldIn(s) = From(staged, cut)
    BY <2>4 DEF Covers
  <2>6. OlderSynced'
    BY DEF OlderSynced, AllSynced
  <2>7. safe \ dropped \subseteq KeptIn(entry)'
    BY <1>5
  <2> QED BY <2>1, <2>3, <2>5, <2>6, <2>7, DoneRests
<1>7. CASE Boundaries(s) # {} \/ Expired(s) # {}
  <2> DEFINE o == IF Boundaries(s) # {} THEN Min(Boundaries(s)) ELSE Min(Expired(s))
  <2>1. /\ UNCHANGED <<status, records, staged, cut, safe>> /\ at' = o
        /\ Boundaries(s) # {} => step' = "temporary" /\ todo' = From(s[o].ids, cut)
        /\ Boundaries(s) = {} => step' = "expire" /\ todo' = {}
    BY <1>7 DEF Trim, Goto
  <2>2. Boundaries(s) \subseteq DOMAIN s /\ Expired(s) \subseteq DOMAIN s
        /\ DOMAIN s \subseteq Nat
    BY DEF Boundaries, Expired, SegsTyped, Ordinals
  <2>3. /\ o \in DOMAIN s /\ (Boundaries(s) = {} => o \in Expired(s))
    BY <1>7, <2>2, MinIs
  <2> HIDE DEF o
  <2>4. step' \in {"temporary", "expire"}
    BY <2>1
  <2>5. todo' \subseteq 1..lastId
    <3>1. s[o].ids \subseteq 1..lastId
      BY <2>3 DEF SegsTyped
    <3> QED BY <2>1, <3>1 DEF From
  <2>6. active' \in FileIds
    <3>1. Latest(s) \in DOMAIN s
      BY <2>3, LatestIs DEF SegsTyped
    <3> QED BY <3>1, <1>1, <1>3, <1>4 DEF OnLatest
  <2>7. TypeOK'
    BY <1>1, <1>2, <2>1, <2>3, <2>4, <2>5, <2>6
       DEF TypeOK, Disk, DiskType, SegsTyped, Steps, Files, Roots, Ordinals
  <2>8. StatusInv'
    BY <1>2, <2>1, <2>4 DEF StatusInv, Staging, Clearing, Building, Securing, Legacying, Clear,
       Trimming, Copying, Replacing, Appending, Rotating, Closing
  <2>9. RootInv'
    BY <1>2, <2>1, <2>4 DEF RootInv, RootCore, Rooted, Unlinked, NoLegacy
  <2>10. Durable'
    BY <1>2, <1>3, <1>5, <2>1 DEF Durable
  <2>11. Promise'
    <3>1. SecuredIn(file', entry', active') = HeldIn(s)
      <4>1. \A n \in Segments(entry') : Part(file', entry'[n], active') = s[n].ids
        BY <1>4 DEF Part
      <4> QED BY <1>3, <4>1 DEF SecuredIn, HeldIn
    <3> QED BY <1>2, <1>3, <2>1, <2>4, <3>1 DEF Promise
  <2>12. ImportInv'
    BY <2>1, <2>4 DEF ImportInv, Staging, Clearing, Building
  <2>13. Covers(segs)' /\ GaveUp'
    BY <1>1, <1>2, <2>1 DEF Covers, GaveUp, HeldIn, From
  <2>14. OpenInv'
    BY <2>4, <2>13 DEF OpenInv, Legacying
  <2>15. Boundaries(segs)' = Boundaries(s) /\ Expired(segs)' = Expired(s)
    BY <1>1, <2>1 DEF Boundaries, Expired, Expires, From
  <2>16. TrimInv'
    BY <1>1, <2>1, <2>3, <2>4, <2>13, <2>15 DEF TrimInv, Copying, Replacing, From
  <2>17. AppendInv' /\ RestInv'
    BY <2>4 DEF AppendInv, RestInv, Appending, Rotating, Closing
  <2> QED BY <2>7, <2>8, <2>9, <2>10, <2>11, <2>12, <2>14, <2>16, <2>17 DEF IInv, Disk
<1> QED BY <1>6, <1>7

\* What the call that is next does to the disk ...
LEMMA EffectIs ==
    ASSUME StorageCall
    PROVE  /\ step \in SyncSteps => SyncFile(Target)
           /\ step \in {"secureDir", "syncTemp", "syncStage", "syncRename", "syncExpired",
                        "appendSyncDir"} => SyncDir
           /\ step \in {"secureRoot", "syncDiscard", "syncPublish", "syncLegacy"} => SyncRoot
           /\ step \in {"stageCreate", "rotateCreate"} => Create(at)
           /\ step = "temporary" => Create(Temp)
           /\ step \in {"copy", "stageWrite"} => Write(Target, Min(todo))
           /\ step = "append" => Write(Target, lastId)
           /\ step = "rename" => RenameTemp(at)
           /\ step \in {"discard", "expire"} => Unlink(at)
           /\ step = "removeTemp" => Unlink(Temp)
           /\ step = "unlinkLegacy" => RemoveLegacy
           /\ step = "makeStage" => MakeStage
           /\ step = "removeStage" => RemoveStage
           /\ step = "publish" => PublishStage
           /\ step \in {"openActive", "reopen", "rotateClose", "reclose", "closeFile"} =>
                UNCHANGED diskVars
<1>1. Effect
  BY DEF StorageCall
<1> QED BY <1>1 DEF Effect, SyncSteps, WriteSteps

\* ... and to the open file.
LEMMA FileIs ==
    ASSUME StorageCall
    PROVE  /\ step \in {"rotateCreate", "reopen"} => active' = entry'[at]
           /\ step = "openActive" => active' = entry[Latest(segs)]
           /\ step \in {"rotateClose", "reclose", "closeFile"} => active' = NoFile
           /\ step \notin {"rotateCreate", "reopen", "openActive", "rotateClose", "reclose",
                           "closeFile"} => active' = active
<1>1. Descriptor
  BY DEF StorageCall
<1> QED BY <1>1 DEF Descriptor

\* Which operations a recorder has that is not closed.
LEMMA NotClosed ==
    ASSUME IInv, step \notin {"idle"} \cup Closing
    PROVE  status # "closed" /\ writable /\ (status = "open" => Live)
BY Parts DEF StatusInv, TypeOK, Steps, Staging, Clearing, Building, Securing, Legacying, Clear,
   Trimming, Copying, Replacing, Appending, Rotating, Closing

\* A call in the middle of an operation keeps what is said of the disk.
LEMMA Going ==
    ASSUME IInv, StorageCall, step # "publish", step \notin Closing, step' \notin Closing,
           UNCHANGED <<status, records, safe, active>>
    PROVE  Disk' /\ Durable' /\ Promise' /\ Live' = Live
<1> USE Parts
<1>1. /\ Disk' /\ (Live => Lossless) /\ Live' = Live /\ dropped' = dropped
      /\ step \notin {"idle"} \cup Closing
  BY Base
<1>2. status # "closed" /\ (status = "open" => Live)
  BY <1>1, NotClosed
<1>3. CASE Live
  BY <1>1, <1>2, <1>3, LosslessKeepsDurable, PromiseKeeps
<1>4. CASE ~Live
  BY <1>1, <1>2, <1>4 DEF Durable, Promise, Closing
<1> QED BY <1>1, <1>3, <1>4

\* A call that leaves the root alone keeps what is said of the root.
LEMMA RootGoes ==
    ASSUME IInv, StorageCall, step \notin RootSteps, UNCHANGED <<status, safe>>,
           Rooted' => Rooted, Unlinked' => Unlinked, step' # "syncLegacy"
    PROVE  RootInv'
<1>1. UNCHANGED <<root, rootKept, legacy>>
  BY Base, RootAlone
<1> QED BY <1>1, Parts DEF RootInv, RootCore, Live

\* The segments still hold what was durable, and what the records show.
LEMMA StillHeld ==
    ASSUME IInv, Lossless, Disk', Quiet', Mapped', Live
    PROVE  /\ safe \ dropped \subseteq KeptIn(entry)' /\ safe \ dropped \subseteq HeldIn(segs')
           /\ status = "open" => records \ dropped \subseteq HeldIn(segs')
<1> USE Parts
<1>1. entry' \in entryKept' /\ \A n \in Segments(entry') : entry'[n] \in FileIds
      /\ file'[entry'[n]].kept \subseteq file'[entry'[n]].ids
  BY DEF Disk, DiskType, Segments
<1>2. \A n \in Segments(entry') : file'[entry'[n]].ids \subseteq HeldIn(segs')
  BY DEF Mapped, HeldIn
<1>3. SecuredIn(file', entry', NoFile) = KeptIn(entry)'
  BY <1>1, KeptIsSecured DEF KeptIn
<1>4. PICK d \in entryKept :
        SecuredIn(file, d, NoFile) \ dropped \subseteq SecuredIn(file', entry', NoFile)
  BY <1>1 DEF Lossless
<1>5. SecuredIn(file, d, NoFile) = KeptIn(d)
  <2>1. \A n \in Segments(d) : d[n] \in FileIds
    BY DEF TypeOK, Segments
  <2> QED BY <2>1, KeptIsSecured DEF KeptIn
<1>6. safe \ dropped \subseteq KeptIn(entry)'
  BY <1>3, <1>4, <1>5 DEF Durable
<1>7. KeptIn(entry)' \subseteq HeldIn(segs')
  BY <1>1, <1>2 DEF KeptIn
<1>8. ASSUME status = "open"
      PROVE  records \ dropped \subseteq HeldIn(segs')
  <2>1. PICK c \in entryKept :
        SecuredIn(file, c, active) \ dropped \subseteq SecuredIn(file', entry', active)
    BY <1>1 DEF Lossless, TypeOK
  <2>2. SecuredIn(file', entry', active) \subseteq HeldIn(segs')
    BY <1>1, <1>2 DEF SecuredIn, Part
  <2> QED BY <1>8, <2>1, <2>2 DEF Promise
<1> QED BY <1>6, <1>7, <1>8

-----------------------------------------------------------------------------
(***************************************************************************)
(* Open of a live directory.                                               *)
(***************************************************************************)
\* The calls of Open that secure one segment after the other.
LEMMA SecureSegmentKeeps ==
    ASSUME IInv, StorageCall, SecureSegment
    PROVE  IInv'
<1> USE Parts
<1> DEFINE rest == {o \in DOMAIN segs : o > at}
<1>1. /\ step = "secure" /\ UNCHANGED <<segs, todo, status, records, staged, cut, safe>>
      /\ rest = {} => step' = "secureDir" /\ at' = 0
      /\ rest # {} => step' = "secure" /\ at' = Min(rest)
  BY DEF SecureSegment, Goto
<1>2. status = "opening" /\ Live
  BY <1>1 DEF StatusInv, Securing, Staging, Clearing, Building
<1>3. Mapped /\ Covers(segs) /\ GaveUp /\ at \in DOMAIN segs /\ \A o \in DOMAIN segs : o < at => Synced(o)
  BY <1>1, <1>2 DEF OpenInv
<1>4. SyncFile(entry[at]) /\ entry[at] \in FileIds /\ active' = active
  BY <1>1, EffectIs, TargetIs, FileIs DEF SyncSteps
<1>5. UNCHANGED <<writable, dropped, legacy, size, lastId, aged, failures, crashes>>
  BY Base
<1>6. step' \in {"secure", "secureDir"} /\ at' \in 0..MaxOrdinal /\ DOMAIN segs \subseteq 0..MaxOrdinal
      /\ rest \subseteq Nat
  <2>1. DOMAIN segs \subseteq Ordinals /\ Ordinals \subseteq 0..MaxOrdinal /\ Ordinals \subseteq Nat
        /\ 0 \in 0..MaxOrdinal
    BY FilesAssumption DEF TypeOK, Ordinals
  <2>2. rest # {} => Min(rest) \in rest
    BY <2>1, MinIs
  <2> QED BY <1>1, <2>1, <2>2
<1>7. Disk' /\ Durable' /\ Promise' /\ Live' = Live
  BY <1>1, <1>4, <1>6, Going DEF Closing
<1>8. TypeOK'
  BY <1>1, <1>4, <1>5, <1>6, <1>7, GotoType DEF Steps, TypeOK
<1>9. StatusInv'
  BY <1>1, <1>2, <1>5, <1>6, <1>7 DEF StatusInv, Staging, Clearing, Building, Securing, Legacying, Clear,
     Trimming, Copying, Replacing, Appending, Rotating, Closing
<1>10. RootInv'
  BY <1>1, <1>2, <1>6, RootGoes DEF RootSteps, Rooted, Unlinked, Legacying, Clear, Trimming, Copying, Replacing
<1>11. Mapped' /\ \A o \in DOMAIN segs : o <= at => Synced(o)'
  <2>1. \A o \in DOMAIN segs : o <= at => o < at \/ o = at
    <3> SUFFICES ASSUME NEW o \in DOMAIN segs, o <= at PROVE o < at \/ o = at
      OBVIOUS
    <3>1. o \in 0..MaxOrdinal /\ at \in 0..MaxOrdinal
      BY <1>6 DEF TypeOK
    <3> QED BY <3>1
  <2> QED BY <1>1, <1>3, <1>4, <2>1, SyncFileMaps DEF Mapped
<1>12. Covers(segs)' /\ GaveUp'
  BY <1>1, <1>3, <1>5 DEF Covers, GaveUp, HeldIn, From
<1>13. OpenInv'
  <2>1. CASE rest = {}
    <3>1. \A o \in DOMAIN segs : o <= at
      BY <2>1, <1>6 DEF TypeOK
    <3>2. AllSynced'
      BY <1>1, <1>11, <3>1 DEF AllSynced
    <3> QED BY <1>1, <1>11, <1>12, <2>1, <3>2 DEF OpenInv, Legacying
  <2>2. CASE rest # {}
    <3>1. at' \in rest /\ \A o \in rest : at' <= o
      BY <1>1, <1>6, <2>2, MinIs
    <3>2. \A o \in DOMAIN segs : o < at' => o <= at
      BY <3>1, <1>6 DEF TypeOK
    <3> QED BY <1>1, <1>11, <1>12, <2>2, <3>1, <3>2 DEF OpenInv, Legacying
  <2> QED BY <2>1, <2>2
<1>14. ImportInv' /\ TrimInv' /\ AppendInv' /\ RestInv'
  BY <1>1, <1>2, <1>6 DEF ImportInv, TrimInv, AppendInv, RestInv, Staging, Clearing, Building,
     Trimming, Copying, Replacing, Appending, Rotating, Closing
<1> QED BY <1>7, <1>8, <1>9, <1>10, <1>13, <1>14 DEF IInv, Disk

\* When neither files nor segments change, how they agree does not.
LEMMA FilesStay ==
    ASSUME UNCHANGED <<file, entry, segs>>
    PROVE  /\ Mapped' = Mapped /\ NoneDirty' = NoneDirty /\ AllSynced' = AllSynced
           /\ OlderSynced' = OlderSynced
           /\ \A o \in DOMAIN entry : Synced(o)' = Synced(o)
           /\ HeldIn(segs)' = HeldIn(segs)
BY DEF Mapped, NoneDirty, AllSynced, OlderSynced, Synced, HeldIn

\* Nor does what retention decided.
LEMMA DecisionStays ==
    ASSUME UNCHANGED <<segs, staged, cut, dropped>>
    PROVE  (Covers(segs) => Covers(segs)') /\ (GaveUp => GaveUp')
BY DEF Covers, GaveUp, HeldIn, From

\* The staging directory is live, or an Open of a live one secures it.
OpenGoes == Securing \cup Legacying \cup Clear \cup {"syncPublish", "openActive"}

\* What is to be shown of a call of Open to conclude that it keeps the invariant.
LEMMA OpenStep ==
    ASSUME IInv, StorageCall, step \in OpenGoes \ {"openActive"}, step' \in OpenGoes,
           UNCHANGED <<segs, todo, status, records, staged, cut, safe>>, at' \in 0..MaxOrdinal,
           RootInv', OpenInv', status = "importing" => ImportInv',
           step' \in Securing \cup Clear => status = "opening",
           step' \in {"syncPublish"} => status = "importing"
    PROVE  IInv'
<1> USE Parts
<1>1. /\ step \notin {"idle", "publish", "rotateCreate", "reopen", "openActive", "rotateClose",
                      "reclose", "closeFile"}
      /\ step \notin Closing /\ step' \notin Closing /\ step' \in Steps
  BY DEF OpenGoes, Securing, Legacying, Clear, Closing, Steps
<1>2. active' = active
  BY <1>1, FileIs
<1>3. UNCHANGED <<writable, dropped, legacy, size, lastId, aged, failures, crashes>>
  BY Base
<1>4. Disk' /\ Durable' /\ Promise' /\ Live' = Live
  BY <1>1, <1>2, Going
<1>5. TypeOK'
  BY <1>1, <1>2, <1>3, <1>4, GotoType DEF TypeOK
<1>6. status \in {"importing", "opening"} /\ Live /\ writable
  BY <1>1, NotClosed DEF StatusInv, OpenGoes, Securing, Legacying, Clear, Staging, Clearing, Building
<1>7. StatusInv'
  BY <1>3, <1>4, <1>6 DEF StatusInv, OpenGoes, Securing, Legacying, Clear, Staging, Clearing,
     Building, Trimming, Copying, Replacing, Appending, Rotating, Closing
<1>8. ImportInv'
  BY <1>6 DEF ImportInv, OpenGoes, Securing, Legacying, Clear, Staging, Clearing, Building
<1>9. TrimInv' /\ AppendInv' /\ RestInv'
  BY DEF TrimInv, AppendInv, RestInv, OpenGoes, Securing, Legacying, Clear, Trimming, Copying,
     Replacing, Appending, Rotating, Closing
<1> QED BY <1>4, <1>5, <1>7, <1>8, <1>9 DEF IInv, Disk

\* What is established of the segments while Open goes on to its last steps.
LEMMA OpenSettled ==
    ASSUME IInv, StorageCall, step \in OpenGoes \ {"openActive"}, step' \in OpenGoes \ Securing,
           UNCHANGED <<segs, todo, status, records, staged, cut, safe>>,
           UNCHANGED file, Segments(entry') = Segments(entry),
           \A n \in Segments(entry) : entry'[n] = entry[n],
           status = "opening" => AllSynced /\ (step' \notin {"syncTemp"} => Quiet'),
           status = "importing" => Temp \notin DOMAIN entry' /\ Quiet'
    PROVE  OpenInv' /\ (status = "importing" => ImportInv')
<1> USE Parts
<1>1. dropped' = dropped /\ legacy' = legacy
  BY Base
<1>2. /\ Mapped => Mapped'
      /\ NoneDirty => NoneDirty'
      /\ HeldIn(segs)' = HeldIn(segs)
  BY DEF Mapped, NoneDirty, HeldIn
<1>3. Mapped /\ AllSynced => AllSynced'
  BY DEF Mapped, AllSynced, Synced
<1>4. OpenInv'
  <2>1. status = "opening" => Mapped /\ Covers(segs) /\ GaveUp
    BY DEF OpenInv
  <2> QED BY <1>1, <1>2, <1>3, <2>1, DecisionStays DEF OpenInv, OpenGoes, Securing, Legacying, Clear
<1>5. ASSUME status = "importing"
      PROVE  ImportInv'
  <2>1. step \notin Staging /\ step' \notin Staging
    BY DEF OpenGoes, Securing, Legacying, Clear, Staging, Clearing, Building
  <2>2. Mapped /\ NoneDirty /\ AllSynced /\ HeldIn(segs) = From(staged, cut) /\ GaveUp
    BY <1>5, <2>1 DEF ImportInv
  <2> QED BY <1>1, <1>2, <1>3, <1>5, <2>1, <2>2, DecisionStays DEF ImportInv, Staging, Clearing, Building, From
<1> QED BY <1>4, <1>5

\* The directory is secured.
LEMMA SecureDirectoryKeeps ==
    ASSUME IInv, StorageCall, SecureDirectory
    PROVE  IInv'
<1> USE Parts
<1>1. /\ step = "secureDir" /\ UNCHANGED <<segs, todo, status, records, staged, cut, safe>>
      /\ step' = "secureRoot" /\ at' = 0
  BY DEF SecureDirectory, Goto
<1>2. status = "opening"
  BY <1>1 DEF StatusInv, Securing
<1>3. SyncDir
  BY <1>1, EffectIs
<1>4. Mapped /\ AllSynced /\ Covers(segs) /\ GaveUp
  BY <1>1, <1>2 DEF OpenInv
<1>5. UNCHANGED <<file, entry, root, rootKept>> /\ Quiet'
  BY <1>3 DEF SyncDir, Quiet
<1>6. RootInv'
  BY <1>1, <1>2, RootGoes DEF RootSteps, Rooted, Unlinked, Legacying, Clear, Trimming, Copying, Replacing
<1>7. OpenInv'
  BY <1>1, <1>4, <1>5, Base, FilesStay, DecisionStays DEF OpenInv
<1>8. 0 \in 0..MaxOrdinal
  BY FilesAssumption
<1> QED BY <1>1, <1>2, <1>6, <1>7, <1>8, OpenStep DEF OpenGoes, Securing, Clear

\* What the steps that synchronize the root, or remove the legacy log, go on with.
LEMMA SecureRootKeeps ==
    ASSUME IInv, StorageCall, SecureRoot
    PROVE  IInv'
<1> USE Parts
<1>1. /\ step \in {"secureRoot", "syncPublish"}
      /\ UNCHANGED <<segs, todo, status, records, staged, cut, safe>> /\ at' = 0
      /\ root.legacy => step' = "unlinkLegacy"
      /\ ~root.legacy /\ Temp \in DOMAIN entry => step' = "removeTemp"
      /\ ~root.legacy /\ Temp \notin DOMAIN entry => step' = "openActive"
  BY DEF SecureRoot, AfterLegacy, Goto
<1>2. SyncRoot
  BY <1>1, EffectIs
<1>3. UNCHANGED <<file, entry, entryKept, root>> /\ rootKept' = {root}
  BY <1>2 DEF SyncRoot
<1>4. Live /\ legacy' = legacy
  BY <1>1, Base DEF StatusInv, Securing, Staging, Clearing, Building
<1>5. RootInv'
  <2>1. step' \notin {"syncLegacy"} /\ (Unlinked' => ~root.legacy)
    <3>1. status \in {"importing", "opening"}
      BY <1>1 DEF StatusInv, Securing
    <3> QED BY <1>1, <3>1 DEF Unlinked, Clear, Trimming, Copying, Replacing
  <2> QED BY <1>1, <1>3, <1>4, <2>1 DEF RootInv, RootCore, Live
<1>6. status = "importing" => step = "syncPublish" /\ Temp \notin DOMAIN entry /\ Quiet
  BY <1>1 DEF StatusInv, Securing, ImportInv, Staging, Clearing, Building
<1>7. status = "opening" => step = "secureRoot" /\ AllSynced /\ Quiet
  BY <1>1 DEF StatusInv, Securing, OpenInv
<1>8. status \in {"importing", "opening"}
  BY <1>1 DEF StatusInv, Securing
<1>9. step' \in {"unlinkLegacy", "removeTemp", "openActive"}
  BY <1>1
<1>10. Quiet => Quiet'
  BY <1>3 DEF Quiet
<1>11. step \in OpenGoes \ {"openActive"} /\ step' \in OpenGoes \ Securing /\ step' # "syncTemp"
  BY <1>1, <1>9 DEF OpenGoes, Securing, Legacying, Clear
<1>12. OpenInv' /\ (status = "importing" => ImportInv')
  BY <1>1, <1>3, <1>6, <1>7, <1>10, <1>11, OpenSettled
<1>13. 0 \in 0..MaxOrdinal /\ (step' \in Securing \cup Clear => status = "opening")
       /\ step' # "syncPublish"
  BY <1>1, <1>6, <1>8, <1>9, FilesAssumption DEF Securing, Clear
<1> QED BY <1>1, <1>5, <1>11, <1>12, <1>13, OpenStep

\* The legacy log is unlinked: the live directory has what is kept of it.
LEMMA UnlinkLegacyKeeps ==
    ASSUME IInv, StorageCall, step = "unlinkLegacy", FollowingCall
    PROVE  IInv'
<1> USE Parts
<1>1. /\ UNCHANGED <<segs, todo, status, records, staged, cut, safe>> /\ at' = at
      /\ step' = "syncLegacy"
  BY FollowingIs
<1>2. RemoveLegacy
  BY EffectIs
<1>3. UNCHANGED <<file, entry, entryKept>> /\ root' = [root EXCEPT !.legacy = FALSE]
      /\ rootKept' = rootKept \cup {root'}
  BY <1>2 DEF RemoveLegacy, SetRoot
<1>4. root \in Roots /\ Live /\ legacy' = legacy /\ status \in {"importing", "opening"}
      /\ \A r \in rootKept : r.dir = "live"
  BY Base DEF StatusInv, Legacying, Staging, Clearing, Building, TypeOK, RootInv, Rooted
<1>5. RootInv'
  <2>1. ~root'.legacy /\ root'.dir = "live"
    BY <1>3, <1>4 DEF Roots, Live
  <2>2. \A r \in rootKept' : r.dir = "live"
    BY <1>3, <1>4, <2>1
  <2>3. ~Unlinked'
    BY <1>1, <1>4 DEF Unlinked, Clear, Trimming, Copying, Replacing
  <2> QED BY <1>1, <1>4, <2>1, <2>2, <2>3 DEF RootInv, RootCore, Live
<1>6. status = "importing" => Temp \notin DOMAIN entry /\ Quiet
  BY DEF ImportInv, Staging, Clearing, Building
<1>7. status = "opening" => AllSynced /\ Quiet
  BY DEF OpenInv, Legacying
<1>8. Quiet => Quiet'
  BY <1>3 DEF Quiet
<1>9. step \in OpenGoes \ {"openActive"} /\ step' \in OpenGoes \ Securing
      /\ step' \notin Securing \cup Clear /\ step' # "syncPublish"
  BY <1>1 DEF OpenGoes, Securing, Legacying, Clear
<1>10. OpenInv' /\ (status = "importing" => ImportInv')
  BY <1>1, <1>3, <1>6, <1>7, <1>8, <1>9, OpenSettled
<1>11. at' \in 0..MaxOrdinal
  BY <1>1 DEF TypeOK
<1> QED BY <1>1, <1>5, <1>9, <1>10, <1>11, OpenStep

\* The root is synchronized after that: the legacy log cannot come back.
LEMMA LegacyRemovedKeeps ==
    ASSUME IInv, StorageCall, LegacyRemoved
    PROVE  IInv'
<1> USE Parts
<1>1. /\ step = "syncLegacy"
      /\ UNCHANGED <<segs, todo, status, records, staged, cut, safe>> /\ at' = 0
      /\ Temp \in DOMAIN entry => step' = "removeTemp"
      /\ Temp \notin DOMAIN entry => step' = "openActive"
  BY DEF LegacyRemoved, AfterLegacy, Goto
<1>2. SyncRoot
  BY <1>1, EffectIs
<1>3. UNCHANGED <<file, entry, entryKept, root>> /\ rootKept' = {root}
  BY <1>2 DEF SyncRoot
<1>4. Live /\ legacy' = legacy /\ ~root.legacy /\ status \in {"importing", "opening"}
  BY <1>1, Base DEF StatusInv, Legacying, Staging, Clearing, Building, RootInv
<1>5. RootInv'
  BY <1>1, <1>3, <1>4 DEF RootInv, RootCore, Live
<1>6. status = "importing" => Temp \notin DOMAIN entry /\ Quiet
  BY <1>1 DEF ImportInv, Staging, Clearing, Building
<1>7. status = "opening" => AllSynced /\ Quiet
  BY <1>1 DEF OpenInv, Legacying
<1>8. Quiet => Quiet'
  BY <1>3 DEF Quiet
<1>9. step \in OpenGoes \ {"openActive"} /\ step' \in OpenGoes \ Securing
      /\ step' \notin {"syncPublish", "syncTemp"} /\ step' \notin Securing
  BY <1>1 DEF OpenGoes, Securing, Legacying, Clear
<1>10. OpenInv' /\ (status = "importing" => ImportInv')
  BY <1>1, <1>3, <1>6, <1>7, <1>8, <1>9, OpenSettled
<1>11. 0 \in 0..MaxOrdinal /\ (step' \in Securing \cup Clear => status = "opening")
  BY <1>1, <1>4, <1>6, FilesAssumption DEF Clear, Securing
<1> QED BY <1>1, <1>5, <1>9, <1>10, <1>11, OpenStep

\* A temporary that an earlier recorder left is removed.
LEMMA RemoveTempKeeps ==
    ASSUME IInv, StorageCall, step = "removeTemp", FollowingCall
    PROVE  IInv'
<1> USE Parts
<1>1. /\ UNCHANGED <<segs, todo, status, records, staged, cut, safe>> /\ at' = at
      /\ step' = "syncTemp"
  BY FollowingIs
<1>2. Unlink(Temp)
  BY EffectIs
<1>4. UNCHANGED <<lastId, legacy>>
  BY Base
<1>5. /\ Segments(entry') = Segments(entry) \ {Temp}
      /\ \A n \in DOMAIN entry' : entry'[n] = entry[n]
      /\ UNCHANGED <<file, root, rootKept>>
  BY <1>2, <1>4, UnlinkKeeps
<1>6. Segments(entry') = Segments(entry) /\ \A n \in Segments(entry) : entry'[n] = entry[n]
  BY <1>5 DEF Segments
<1>7. status = "opening" /\ AllSynced
  BY DEF StatusInv, Clear, OpenInv
<1>8. step \in OpenGoes \ {"openActive"} /\ step' \in OpenGoes \ Securing
      /\ step' # "syncPublish"
  BY <1>1 DEF OpenGoes, Securing, Legacying, Clear
<1>9. OpenInv'
  BY <1>1, <1>5, <1>6, <1>7, <1>8, OpenSettled
<1>10. RootInv'
  BY <1>1, <1>7, RootGoes DEF RootSteps, Rooted, Unlinked, Clear
<1>11. at' \in 0..MaxOrdinal
  BY <1>1 DEF TypeOK
<1> QED BY <1>1, <1>7, <1>8, <1>9, <1>10, <1>11, OpenStep

\* The directory is synchronized after that.
LEMMA SyncTempKeeps ==
    ASSUME IInv, StorageCall, step = "syncTemp", FollowingCall
    PROVE  IInv'
<1> USE Parts
<1>1. /\ UNCHANGED <<segs, todo, status, records, staged, cut, safe>> /\ at' = at
      /\ step' = "openActive"
  BY FollowingIs
<1>2. SyncDir
  BY EffectIs
<1>3. UNCHANGED <<file, entry, root, rootKept>> /\ Quiet'
  BY <1>2 DEF SyncDir, Quiet
<1>4. status = "opening" /\ AllSynced
  BY DEF StatusInv, Clear, OpenInv
<1>5. step \in OpenGoes \ {"openActive"} /\ step' \in OpenGoes \ Securing
      /\ step' # "syncPublish" /\ step' \notin Securing \cup Clear
  BY <1>1 DEF OpenGoes, Securing, Legacying, Clear
<1>6. OpenInv'
  BY <1>1, <1>3, <1>4, <1>5, OpenSettled
<1>7. RootInv'
  BY <1>1, <1>4, RootGoes DEF RootSteps, Rooted, Unlinked, Clear
<1>8. at' \in 0..MaxOrdinal
  BY <1>1 DEF TypeOK
<1> QED BY <1>1, <1>4, <1>5, <1>6, <1>7, <1>8, OpenStep

\* The type of the segments.
LEMMA SegsAreTyped ==
    ASSUME TypeOK PROVE SegsTyped(segs)
BY DEF TypeOK, SegsTyped

\* The active segment is opened: an import is done, a recovery goes on to retention.
LEMMA ActiveOpenedKeeps ==
    ASSUME IInv, StorageCall, ActiveOpened
    PROVE  IInv'
<1> USE Parts
<1>1. step = "openActive" /\ IF status = "importing" THEN Done(segs, TRUE) ELSE Trim(segs)
  BY DEF ActiveOpened
<1>2. UNCHANGED diskVars /\ active' = entry[Latest(segs)]
  BY <1>1, EffectIs, FileIs
<1>3. segs' = segs
  BY <1>1 DEF Done, Trim
<1>4. status \in {"importing", "opening"} /\ writable
  BY <1>1 DEF StatusInv, Closing
<1>5. NoLegacy /\ Live /\ \A r \in rootKept : r.dir = "live"
  BY <1>1, NoLegacyNow DEF RootInv, Rooted
<1>6. Mapped /\ AllSynced /\ Quiet /\ GaveUp
  BY <1>1, <1>4 DEF ImportInv, OpenInv, Staging, Clearing, Building
<1>7. UNCHANGED <<file, root, rootKept, entry, entryKept>>
  BY <1>2 DEF diskVars
<1>8. Mapped' /\ AllSynced' /\ Quiet' /\ OnLatest'
  BY <1>2, <1>3, <1>6, <1>7, FilesStay DEF Quiet, OnLatest
<1>9. Disk' /\ Lossless /\ Live'
  BY <1>1, <1>5, Base
<1>10. safe \ dropped \subseteq KeptIn(entry)' /\ safe \ dropped \subseteq HeldIn(segs)
       /\ (status = "open" => records \ dropped \subseteq HeldIn(segs))
  BY <1>3, <1>5, <1>8, <1>9, StillHeld
<1>11. CASE status = "importing"
  <2>1. Done(segs, TRUE)
    BY <1>1, <1>11
  <2>2. NoneDirty /\ HeldIn(segs) = From(staged, cut)
    BY <1>1, <1>11 DEF ImportInv, Staging, Clearing, Building
  <2>3. NoneDirty' /\ OlderSynced'
    BY <1>3, <1>7, <1>8, <2>2, FilesStay DEF OlderSynced, AllSynced
  <2> QED BY <1>4, <1>5, <1>7, <1>8, <1>9, <1>10, <2>1, <2>2, <2>3, DoneRests, SegsAreTyped
<1>12. CASE status = "opening"
  <2>1. Trim(segs) /\ Covers(segs)
    BY <1>1, <1>12 DEF OpenInv
  <2> QED BY <1>4, <1>5, <1>6, <1>7, <1>8, <1>9, <1>10, <1>12, <2>1, TrimGoesOn, SegsAreTyped
<1> QED BY <1>4, <1>11, <1>12

-----------------------------------------------------------------------------
(***************************************************************************)
(* Open of a root without a live directory: the stage is built and         *)
(* published.                                                              *)
(***************************************************************************)
\* What is to be shown of a call that fills the stage.
LEMMA StageStep ==
    ASSUME IInv, StorageCall, step \in Staging \ {"publish"}, step' \in Staging,
           UNCHANGED <<status, records, staged, cut, safe>>, SegsTyped(segs'),
           at' \in 0..MaxOrdinal, todo' \subseteq 1..lastId, ImportInv'
    PROVE  IInv'
<1> USE Parts
<1>1. /\ step \notin {"idle", "publish", "rotateCreate", "reopen", "openActive", "rotateClose",
                      "reclose", "closeFile"}
      /\ step \notin Closing /\ step' \notin Closing /\ step' \in Steps
  BY DEF Staging, Clearing, Building, Closing, Steps
<1>2. active' = active
  BY <1>1, FileIs
<1>3. UNCHANGED <<writable, dropped, legacy, size, lastId, aged, failures, crashes>>
  BY Base
<1>4. Disk' /\ Durable' /\ Promise' /\ Live' = Live
  BY <1>1, <1>2, Going
<1>5. status = "importing" /\ ~Live /\ writable
  BY <1>1 DEF StatusInv
<1>6. TypeOK'
  BY <1>1, <1>2, <1>3, <1>4 DEF TypeOK, Disk, DiskType, SegsTyped, Files, Roots
<1>7. StatusInv'
  BY <1>3, <1>4, <1>5 DEF StatusInv, Securing, Legacying, Clear, Staging, Clearing,
     Building, Trimming, Copying, Replacing, Appending, Rotating, Closing
<1>8. RootInv'
  <2>1. root \in rootKept /\ \A r \in rootKept : r.dir # "live" /\ (r.legacy \/ legacy = {})
        /\ rootKept \subseteq Roots
    BY <1>5 DEF RootInv, RootCore, TypeOK
  <2>2. safe \subseteq legacy
    BY <2>1 DEF RootInv, RootCore
  <2>3. \A r \in rootKept' : r.dir # "live" /\ (r.legacy \/ legacy = {})
    <3>1. CASE step \notin RootSteps
      BY <2>1, <3>1, RootAlone, Base
    <3>2. CASE step = "syncDiscard"
      <4>1. rootKept' = {root}
        BY <3>2, EffectIs DEF SyncRoot
      <4> QED BY <2>1, <4>1
    <3>3. CASE step \in {"makeStage", "removeStage"}
      <4>1. MakeStage \/ RemoveStage
        BY <3>3, EffectIs
      <4>2. rootKept' = rootKept \cup {root'} /\ root'.dir # "live" /\ root'.legacy = root.legacy
        BY <2>1, <4>1 DEF MakeStage, RemoveStage, SetRoot, Roots
      <4> QED BY <2>1, <4>2
    <3> QED BY <3>1, <3>2, <3>3 DEF RootSteps, Staging, Clearing, Building
  <2> QED BY <1>3, <1>5, <2>2, <2>3 DEF RootInv, RootCore, Rooted, Unlinked, Staging, Clearing, Building,
          Legacying, Clear, Trimming, Copying, Replacing
<1>9. OpenInv' /\ TrimInv' /\ AppendInv' /\ RestInv'
  BY <1>5 DEF OpenInv, TrimInv, AppendInv, RestInv, Staging, Clearing, Building, Trimming, Copying,
     Replacing, Appending, Rotating, Closing
<1> QED BY <1>4, <1>6, <1>7, <1>8, <1>9 DEF IInv, Disk

\* An old staging directory is cleared: nothing of it counts.
LEMMA ClearingStep ==
    ASSUME IInv, StorageCall, step \in Clearing, step' \in Clearing,
           UNCHANGED <<status, records, staged, cut, safe, segs, todo>>, at' \in 0..MaxOrdinal
    PROVE  IInv'
<1> USE Parts
<1>1. staged = legacy /\ GaveUp /\ todo = From(staged, cut) /\ segs = NoSegments
      /\ status = "importing"
  BY DEF ImportInv, Staging, StatusInv
<1>2. dropped' = dropped /\ legacy' = legacy
  BY Base
<1>3. ImportInv'
  BY <1>1, <1>2, DecisionStays DEF ImportInv, Staging, Clearing, Building, From
<1>4. todo' \subseteq 1..lastId /\ SegsTyped(segs')
  BY SegsAreTyped DEF TypeOK
<1> QED BY <1>3, <1>4, StageStep DEF Staging, Clearing

\* A segment of the old stage is unlinked.
LEMMA DiscardKeeps ==
    ASSUME IInv, StorageCall, Discard
    PROVE  IInv'
<1> DEFINE rest == Segments(entry) \ {at}
<1>1. /\ step = "discard" /\ UNCHANGED <<segs, todo, status, records, staged, cut, safe>>
      /\ rest = {} => step' = "removeStage" /\ at' = 0
      /\ rest # {} => step' = "discard" /\ at' = Min(rest)
  BY DEF Discard, Goto
<1>2. rest \subseteq 0..MaxOrdinal /\ rest \subseteq Nat
  BY Parts, FilesAssumption DEF TypeOK, Segments
<1>3. at' \in 0..MaxOrdinal
  BY <1>1, <1>2, MinIs, FilesAssumption
<1> QED BY <1>1, <1>3, ClearingStep DEF Clearing

\* The old stage is removed.
LEMMA StageRemovedKeeps ==
    ASSUME IInv, StorageCall, step \in {"removeStage", "syncDiscard"}, FollowingCall
    PROVE  IInv'
<1>1. /\ UNCHANGED <<segs, todo, status, records, staged, cut, safe>> /\ at' = at
      /\ step' \in {"syncDiscard", "makeStage"}
  BY FollowingIs
<1> QED BY <1>1, Parts, ClearingStep DEF Clearing, TypeOK

\* A new stage has no segments yet.
LEMMA StageMadeKeeps ==
    ASSUME IInv, StorageCall, StageMade
    PROVE  IInv'
<1> USE Parts
<1>1. /\ step = "makeStage" /\ step' = "stageCreate" /\ at' = 1
      /\ UNCHANGED <<status, records, staged, cut, safe, segs, todo>>
  BY DEF StageMade, Goto
<1>2. staged = legacy /\ GaveUp /\ todo = From(staged, cut) /\ segs = NoSegments
      /\ status = "importing"
  BY <1>1 DEF ImportInv, Staging, Clearing, StatusInv
<1>3. dropped' = dropped /\ legacy' = legacy
  BY Base
<1>4. entry' = NoEntries
  BY <1>1, EffectIs DEF MakeStage
<1>5. DOMAIN segs' = {} /\ DOMAIN entry' = {}
  BY <1>1, <1>2, <1>4 DEF NoSegments, NoEntries
<1>6. Mapped' /\ NoneDirty' /\ AllSynced' /\ HeldIn(segs)' = {}
  BY <1>5 DEF Mapped, NoneDirty, AllSynced, HeldIn, Segments
<1>7. 1 \in Ordinals /\ 1..0 = {} /\ 1 - 1 = 0 /\ 1 \in 0..MaxOrdinal
  BY FilesAssumption DEF Ordinals
<1>8. ImportInv'
  BY <1>1, <1>2, <1>3, <1>5, <1>6, <1>7, DecisionStays
     DEF ImportInv, Staging, Clearing, Building, From
<1>9. todo' \subseteq 1..lastId /\ SegsTyped(segs')
  BY <1>1, SegsAreTyped DEF TypeOK
<1> QED BY <1>1, <1>7, <1>8, <1>9, StageStep DEF Staging, Clearing, Building

\* What holds while the stage is filled.
LEMMA BuildingHas ==
    ASSUME IInv, step \in Building \cup {"syncStage", "publish"}
    PROVE  /\ status = "importing" /\ staged = legacy /\ GaveUp
           /\ Mapped /\ NoneDirty /\ Temp \notin DOMAIN entry
           /\ HeldIn(segs) \cup todo = From(staged, cut)
           /\ \A x \in HeldIn(segs), y \in todo : x < y
           /\ \A o, p \in DOMAIN segs : o < p => \A x \in segs[o].ids, y \in segs[p].ids : x < y
           /\ step \notin Clearing /\ step \in Staging
BY Parts DEF ImportInv, StatusInv, Staging, Building, Clearing

\* A segment of the stage is created.
LEMMA StageCreatedKeeps ==
    ASSUME IInv, StorageCall, StageCreated
    PROVE  IInv'
<1> USE Parts
<1>1. /\ step = "stageCreate" /\ segs' = With(segs, at, NewSegment) /\ at' = at
      /\ UNCHANGED <<status, records, staged, cut, safe, todo>>
      /\ todo = {} => step' = "stageSync"
      /\ todo # {} => step' = "stageWrite"
  BY DEF StageCreated, Goto
<1>2. DOMAIN segs = 1..(at - 1) /\ at \in Ordinals /\ AllSynced
  BY <1>1 DEF ImportInv
<1>3. /\ status = "importing" /\ staged = legacy /\ GaveUp
      /\ Mapped /\ NoneDirty /\ Temp \notin DOMAIN entry
      /\ HeldIn(segs) \cup todo = From(staged, cut)
      /\ \A x \in HeldIn(segs), y \in todo : x < y
      /\ \A o, p \in DOMAIN segs : o < p => \A x \in segs[o].ids, y \in segs[p].ids : x < y
  BY <1>1, BuildingHas DEF Building
<1>4. dropped' = dropped /\ legacy' = legacy /\ lastId' = lastId
  BY Base
<1>5. Create(at) /\ ~Live
  BY <1>1, EffectIs DEF StatusInv, Staging, Building
<1>6. at \in 0..MaxOrdinal /\ at \in Nat \ {0} /\ at \notin DOMAIN segs /\ 1..at = DOMAIN segs \cup {at}
      /\ at \notin Segments(entry)
  BY <1>2, <1>3, FilesAssumption DEF Ordinals, Mapped
<1>7. /\ \A dir \in entryKept : \A n \in DOMAIN dir : file'[dir[n]] = file[dir[n]]
      /\ file'[entry'[at]] = Empty
      /\ DOMAIN entry' = DOMAIN entry \cup {at}
      /\ \A n \in DOMAIN entry \ {at} : entry'[n] = entry[n]
  BY <1>4, <1>5, <1>6, CreateKeeps
<1>8. entry \in entryKept
  BY DEF TypeOK
<1>9. /\ DOMAIN segs' = DOMAIN segs \cup {at} /\ segs'[at] = NewSegment
      /\ \A o \in DOMAIN segs : segs'[o] = segs[o]
      /\ segs' = [o \in DOMAIN segs' |-> segs'[o]]
  BY <1>1, <1>6 DEF With
<1>10. Segments(entry') = DOMAIN segs' /\ Temp \notin DOMAIN entry'
  BY <1>3, <1>6, <1>7, <1>9 DEF Mapped, Segments, Temp
<1>11. \A o \in DOMAIN segs : entry'[o] = entry[o] /\ file'[entry'[o]] = file[entry[o]]
  BY <1>3, <1>6, <1>7, <1>8 DEF Mapped, Segments
<1>12. NewSegment.ids = {} /\ ~NewSegment.dirty /\ Empty.ids = {} /\ Empty.tail = "whole"
       /\ Empty.kept = {} /\ NewSegment \in [ids : SUBSET (1..lastId), dirty : BOOLEAN]
  BY DEF NewSegment, Empty
<1>13. Mapped' /\ NoneDirty'
  BY <1>3, <1>7, <1>9, <1>10, <1>11, <1>12 DEF Mapped, NoneDirty
<1>14. HeldIn(segs)' = HeldIn(segs)
  BY <1>9, <1>12 DEF HeldIn
<1>15. \A o \in 1..(at - 1) : Synced(o)'
  BY <1>2, <1>11 DEF AllSynced, Synced
<1>16. \A o, p \in DOMAIN segs' : o < p => \A x \in segs'[o].ids, y \in segs'[p].ids : x < y
  BY <1>3, <1>9, <1>12
<1>17. GaveUp'
  BY <1>1, <1>3, <1>4 DEF GaveUp, From
<1>18. step' \in {"stageWrite", "stageSync"} /\ (step' = "stageWrite" => todo' # {})
  BY <1>1
<1>19. ImportInv'
  BY <1>1, <1>2, <1>3, <1>4, <1>6, <1>9, <1>10, <1>13, <1>14, <1>15, <1>16, <1>17, <1>18
     DEF ImportInv, Staging, Clearing, Building, From
<1>20. SegsTyped(segs')
  BY <1>2, <1>9, <1>12, SegsAreTyped DEF SegsTyped
<1>21. todo' \subseteq 1..lastId
  BY <1>1 DEF TypeOK
<1> QED BY <1>1, <1>6, <1>18, <1>19, <1>20, <1>21, StageStep DEF Staging, Building

\* The next event that retention keeps is written to it.
LEMMA StageWrittenKeeps ==
    ASSUME IInv, StorageCall, StageWritten
    PROVE  IInv'
<1> USE Parts
<1> DEFINE m == Min(todo)
           ids == segs[at].ids \cup {m}
<1>1. /\ step = "stageWrite" /\ at' = at
      /\ segs' = [segs EXCEPT ![at].ids = ids] /\ todo' = todo \ {m}
      /\ UNCHANGED <<status, records, staged, cut, safe>>
      /\ step' \in {"stageSync", "stageWrite"}
      /\ todo \ {m} = {} => step' = "stageSync"
  BY DEF StageWritten, Goto
<1>2. DOMAIN segs = 1..at /\ at \in Ordinals /\ todo # {} /\ \A o \in 1..(at - 1) : Synced(o)
  BY <1>1 DEF ImportInv
<1>3. /\ status = "importing" /\ staged = legacy /\ GaveUp
      /\ Mapped /\ NoneDirty /\ Temp \notin DOMAIN entry
      /\ HeldIn(segs) \cup todo = From(staged, cut)
      /\ \A x \in HeldIn(segs), y \in todo : x < y
      /\ \A o, p \in DOMAIN segs : o < p => \A x \in segs[o].ids, y \in segs[p].ids : x < y
  BY <1>1, BuildingHas DEF Building
<1>4. dropped' = dropped /\ legacy' = legacy /\ lastId' = lastId
  BY Base
<1>5. todo \subseteq 1..lastId /\ lastId \in Nat /\ at \in Nat /\ at \in DOMAIN segs
  BY <1>2, FilesAssumption, RetentionAssumption DEF TypeOK, Ordinals
<1>6. m \in todo /\ \A y \in todo : m <= y
  <2>1. todo \subseteq Nat
    BY <1>5
  <2> QED BY <1>2, <2>1, MinIs
<1>7. m \in 1..lastId /\ \A y \in todo' : m < y
  <2>1. \A y \in todo : y \in Nat
    BY <1>5
  <2> QED BY <1>1, <1>5, <1>6, <2>1
<1> HIDE DEF m
<1>8. Write(entry[at], m) /\ entry[at] \in FileIds /\ file[entry[at]].tail = "whole"
  BY <1>1, EffectIs, TargetIs DEF WriteSteps, m
<1>9. /\ file'[entry[at]].ids = file[entry[at]].ids \cup {m}
      /\ file'[entry[at]].tail = "whole"
      /\ \A j \in FileIds \ {entry[at]} : file'[j] = file[j]
      /\ UNCHANGED <<entry, entryKept>>
  BY <1>7, <1>8, Written DEF Write
<1>10. \A o \in DOMAIN segs \ {at} : entry[o] \in FileIds \ {entry[at]}
  BY <1>3, <1>5 DEF Mapped, Distinct, TypeOK, Segments
<1>11. /\ DOMAIN segs' = DOMAIN segs /\ segs'[at].ids = ids /\ segs'[at].dirty = segs[at].dirty
       /\ \A o \in DOMAIN segs \ {at} : segs'[o] = segs[o]
       /\ SegsTyped(segs')
  <2>1. SegsTyped(segs)
    BY SegsAreTyped
  <2>2. segs[at] \in [ids : SUBSET (1..lastId), dirty : BOOLEAN]
    BY <2>1, <1>5 DEF SegsTyped
  <2>3. [segs[at] EXCEPT !.ids = ids] \in [ids : SUBSET (1..lastId), dirty : BOOLEAN]
    BY <2>2, <1>7
  <2>4. segs' = [segs EXCEPT ![at] = [segs[at] EXCEPT !.ids = ids]]
    BY <1>1, <2>1 DEF SegsTyped
  <2> QED BY <1>5, <2>1, <2>2, <2>3, <2>4 DEF SegsTyped
<1>12. Mapped' /\ NoneDirty'
  BY <1>3, <1>5, <1>9, <1>10, <1>11 DEF Mapped, NoneDirty
<1>13. HeldIn(segs)' = HeldIn(segs) \cup {m}
  BY <1>5, <1>11 DEF HeldIn
<1>14. \A o \in 1..(at - 1) : Synced(o)'
  <2>1. \A o \in 1..(at - 1) : o \in DOMAIN segs \ {at}
    BY <1>2, <1>5
  <2> QED BY <2>1, <1>2, <1>9, <1>10 DEF Synced
<1>15. \A x \in HeldIn(segs)', y \in todo' : x < y
  BY <1>1, <1>3, <1>7, <1>13
<1>16. ASSUME NEW o \in DOMAIN segs', NEW p \in DOMAIN segs', o < p,
              NEW x \in segs'[o].ids, NEW y \in segs'[p].ids
       PROVE  x < y
  <2>1. o \in 1..at /\ p \in 1..at /\ o # at
    BY <1>2, <1>5, <1>11, <1>16
  <2>2. x \in segs[o].ids /\ x \in HeldIn(segs)
    BY <1>11, <1>16, <2>1 DEF HeldIn
  <2>3. y = m \/ y \in segs[p].ids
    BY <1>11, <1>16
  <2> QED BY <1>3, <1>6, <1>11, <1>16, <2>2, <2>3
<1>17. GaveUp'
  BY <1>1, <1>3, <1>4 DEF GaveUp, From
<1>18. HeldIn(segs)' \cup todo' = From(staged, cut)
  BY <1>1, <1>3, <1>6, <1>13
<1>19. ImportInv'
  BY <1>1, <1>2, <1>3, <1>4, <1>9, <1>11, <1>12, <1>14, <1>15, <1>16, <1>17, <1>18
     DEF ImportInv, Staging, Clearing, Building, From
<1>20. todo' \subseteq 1..lastId
  BY <1>1 DEF TypeOK
<1> QED BY <1>1, <1>11, <1>19, <1>20, StageStep DEF Staging, Building, TypeOK

\* It is synchronized before the next one is created.
LEMMA StageSyncedKeeps ==
    ASSUME IInv, StorageCall, StageSynced
    PROVE  IInv'
<1> USE Parts
<1>1. /\ step = "stageSync" /\ UNCHANGED <<status, records, staged, cut, safe, segs, todo>>
      /\ todo = {} => step' = "syncStage" /\ at' = at
      /\ todo # {} => step' = "stageCreate" /\ at' = at + 1 /\ at + 1 \in Ordinals
  BY DEF StageSynced, Goto
<1>2. DOMAIN segs = 1..at /\ at \in Ordinals /\ \A o \in 1..(at - 1) : Synced(o)
  BY <1>1 DEF ImportInv
<1>3. /\ status = "importing" /\ staged = legacy /\ GaveUp
      /\ Mapped /\ NoneDirty /\ Temp \notin DOMAIN entry
      /\ HeldIn(segs) \cup todo = From(staged, cut)
      /\ \A x \in HeldIn(segs), y \in todo : x < y
      /\ \A o, p \in DOMAIN segs : o < p => \A x \in segs[o].ids, y \in segs[p].ids : x < y
  BY <1>1, BuildingHas DEF Building
<1>4. dropped' = dropped /\ legacy' = legacy /\ lastId' = lastId
  BY Base
<1>5. SyncFile(entry[at]) /\ entry[at] \in FileIds
  BY <1>1, EffectIs, TargetIs DEF SyncSteps
<1>6. entry' = entry
  BY <1>5 DEF SyncFile
<1>7. at \in Nat \ {0} /\ DOMAIN segs # {} /\ Ordinals \subseteq 0..MaxOrdinal
  BY <1>2, FilesAssumption DEF Ordinals
<1>8. Mapped' /\ NoneDirty' /\ AllSynced'
  <2>1. \A o \in DOMAIN segs : o \in 1..(at - 1) \/ o = at
    BY <1>2, <1>7
  <2> QED BY <1>1, <1>2, <1>3, <1>5, <2>1, SyncFileMaps DEF AllSynced, Mapped
<1>9. HeldIn(segs)' = HeldIn(segs)
  BY <1>1 DEF HeldIn
<1>10. GaveUp'
  BY <1>1, <1>3, <1>4 DEF GaveUp, From
<1>11. ImportInv'
  <2>1. CASE todo = {}
    BY <1>1, <1>3, <1>4, <1>6, <1>7, <1>8, <1>9, <1>10, <2>1
       DEF ImportInv, Staging, Clearing, Building, From
  <2>2. CASE todo # {}
    <3>1. (at + 1) - 1 = at
      BY <1>7
    <3> QED BY <1>1, <1>2, <1>3, <1>4, <1>6, <1>7, <1>8, <1>9, <1>10, <2>2, <3>1
       DEF ImportInv, Staging, Clearing, Building, From
  <2> QED BY <2>1, <2>2
<1>12. SegsTyped(segs') /\ todo' \subseteq 1..lastId /\ at' \in 0..MaxOrdinal
       /\ step' \in {"syncStage", "stageCreate"}
  BY <1>1, <1>7, SegsAreTyped DEF TypeOK
<1> QED BY <1>1, <1>11, <1>12, StageStep DEF Staging, Building

\* The stage is synchronized: every segment and its name are on disk.
LEMMA StageKeptKeeps ==
    ASSUME IInv, StorageCall, step = "syncStage", FollowingCall
    PROVE  IInv'
<1> USE Parts
<1>1. /\ UNCHANGED <<segs, todo, status, records, staged, cut, safe>> /\ at' = at
      /\ step' = "publish"
  BY FollowingIs
<1>2. SyncDir
  BY EffectIs
<1>3. UNCHANGED <<file, entry>> /\ Quiet'
  BY <1>2 DEF SyncDir, Quiet
<1>4. /\ status = "importing" /\ staged = legacy /\ GaveUp
      /\ Mapped /\ NoneDirty /\ Temp \notin DOMAIN entry
      /\ HeldIn(segs) \cup todo = From(staged, cut)
      /\ \A x \in HeldIn(segs), y \in todo : x < y
      /\ \A o, p \in DOMAIN segs : o < p => \A x \in segs[o].ids, y \in segs[p].ids : x < y
  BY BuildingHas
<1>5. todo = {} /\ AllSynced /\ DOMAIN segs # {}
  BY DEF ImportInv
<1>6. dropped' = dropped /\ legacy' = legacy
  BY Base
<1>7. ImportInv'
  BY <1>1, <1>3, <1>4, <1>5, <1>6, FilesStay, DecisionStays
     DEF ImportInv, Staging, Clearing, Building, From
<1>8. SegsTyped(segs') /\ todo' \subseteq 1..lastId /\ at' \in 0..MaxOrdinal
  BY <1>1, SegsAreTyped DEF TypeOK
<1> QED BY <1>1, <1>7, <1>8, StageStep DEF Staging, Building

\* The stage is renamed to the live directory.
LEMMA PublishedKeeps ==
    ASSUME IInv, StorageCall, step = "publish", FollowingCall
    PROVE  IInv'
<1> USE Parts
<1>1. /\ UNCHANGED <<segs, todo, status, records, staged, cut, safe>> /\ at' = at
      /\ step' = "syncPublish"
  BY FollowingIs
<1>2. PublishStage /\ active' = active
  BY EffectIs, FileIs
<1>3. UNCHANGED <<writable, dropped, legacy, size, lastId, aged, failures, crashes>>
  BY Base
<1>4. Disk' /\ Durable'
  BY <1>1, <1>2, <1>3, PublishKeeps
<1>5. UNCHANGED <<file, entry, entryKept>> /\ root' = [root EXCEPT !.dir = "live"]
      /\ rootKept' = rootKept \cup {root'} /\ root \in Roots /\ root \in rootKept
  BY <1>2 DEF PublishStage, SetRoot, TypeOK
<1>6. Live' /\ root'.legacy = root.legacy
  BY <1>5 DEF Live, Roots
<1>7. status = "importing" /\ writable /\ ~Live
  BY DEF StatusInv, Staging
<1>8. TypeOK'
  BY <1>1, <1>2, <1>3, <1>4, GotoType DEF TypeOK, Steps
<1>9. StatusInv'
  BY <1>1, <1>3, <1>6, <1>7 DEF StatusInv, Securing, Legacying, Clear, Staging, Clearing,
     Building, Trimming, Copying, Replacing, Appending, Rotating, Closing
<1>10. RootInv'
  <2>1. (\A r \in rootKept : r.dir # "live") /\ safe \subseteq legacy
    BY <1>5, <1>7 DEF RootInv, RootCore
  <2>2. ~Rooted' /\ ~Unlinked'
    BY <1>1, <1>7 DEF Rooted, Unlinked, Legacying, Clear, Trimming, Copying, Replacing
  <2> QED BY <1>1, <1>3, <1>5, <1>6, <2>1, <2>2 DEF RootInv, RootCore, Live
<1>11. Promise'
  BY <1>1, <1>7 DEF Promise
<1>12. /\ staged = legacy /\ GaveUp /\ Mapped /\ NoneDirty /\ Temp \notin DOMAIN entry
       /\ HeldIn(segs) \cup todo = From(staged, cut)
  BY BuildingHas
<1>13. todo = {} /\ AllSynced /\ Quiet
  BY DEF ImportInv
<1>14. entryKept' = {entry'}
  BY <1>5, <1>13 DEF Quiet
<1>15. ImportInv'
  <2>1. HeldIn(segs)' = From(staged, cut)
    BY <1>1, <1>12, <1>13 DEF HeldIn
  <2>2. Mapped' /\ NoneDirty' /\ AllSynced' /\ Quiet'
    BY <1>1, <1>5, <1>12, <1>13, <1>14, FilesStay DEF Quiet
  <2>3. GaveUp'
    BY <1>1, <1>3, <1>12 DEF GaveUp, From
  <2> QED BY <1>1, <1>5, <1>12, <2>1, <2>2, <2>3 DEF ImportInv, Staging, Clearing, Building, From
<1>16. OpenInv' /\ TrimInv' /\ AppendInv' /\ RestInv'
  BY <1>1, <1>7 DEF OpenInv, TrimInv, AppendInv, RestInv, Trimming, Copying,
     Replacing, Appending, Rotating, Closing
<1> QED BY <1>4, <1>8, <1>9, <1>10, <1>11, <1>15, <1>16 DEF IInv, Disk

-----------------------------------------------------------------------------
(***************************************************************************)
(* record and Cleanup, up to retention.                                    *)
(***************************************************************************)
\* What is to be shown of a call of record, Cleanup or retention.
LEMMA RunStep ==
    ASSUME IInv, StorageCall, step \in Appending \cup Trimming, step' \in Appending \cup Trimming,
           step' \in Trimming => step \in Trimming, step' \in Appending => step \in Appending,
           UNCHANGED <<status, records, staged, cut, safe>>, SegsTyped(segs'),
           at' \in 0..MaxOrdinal, todo' \subseteq 1..lastId, active' \in FileIds \cup {NoFile},
           Promise', OpenInv', TrimInv', AppendInv'
    PROVE  IInv'
<1> USE Parts
<1>1. /\ step \notin {"idle", "publish"} /\ step \notin Closing /\ step' \notin Closing
      /\ step' \in Steps /\ step \notin RootSteps
  BY DEF Appending, Rotating, Trimming, Copying, Replacing, Closing, Steps, RootSteps
<1>2. UNCHANGED <<writable, dropped, legacy, size, lastId, aged, failures, crashes>>
  BY Base
<1>3. Live /\ writable /\ status \in {"opening", "open"} /\ (step \in Appending => status = "open")
  BY DEF StatusInv, Appending, Rotating, Trimming, Copying, Replacing, Staging, Clearing,
     Building, Closing
<1>4. Disk' /\ Lossless /\ Live' = Live
  BY <1>1, <1>3, Base
<1>5. Durable'
  BY <1>2, <1>3, <1>4, LosslessKeepsDurable
<1>6. TypeOK'
  BY <1>1, <1>2, <1>4 DEF TypeOK, Disk, DiskType, SegsTyped, Files, Roots
<1>7. StatusInv'
  BY <1>2, <1>3, <1>4 DEF StatusInv, Securing, Legacying, Clear, Staging, Clearing,
     Building, Trimming, Copying, Replacing, Appending, Rotating, Closing
<1>8. RootInv'
  BY <1>1, <1>3, RootGoes DEF Rooted, Unlinked, Legacying, Clear, Trimming, Copying, Replacing,
     Appending, Rotating
<1>9. ImportInv' /\ RestInv'
  BY <1>3 DEF ImportInv, RestInv, Securing, Legacying, Clear, Staging, Clearing,
     Building, Trimming, Copying, Replacing, Appending, Rotating, Closing
<1> QED BY <1>4, <1>5, <1>6, <1>7, <1>8, <1>9 DEF IInv, Disk

\* With every segment on disk it does not matter which file is open.
LEMMA PromiseAnyFile ==
    ASSUME IInv, Lossless, Mapped, AllSynced, Quiet, active' \in FileIds \cup {NoFile},
           UNCHANGED <<status, records, dropped>>, status # "closed", step' \notin Closing
    PROVE  Promise'
<1> USE Parts
<1> SUFFICES ASSUME status = "open", NEW dir \in entryKept'
             PROVE  records \ dropped \subseteq SecuredIn(file', dir, active')
  BY DEF Promise, Closing
<1>1. SecuredIn(file, entry, active') \ dropped \subseteq SecuredIn(file', dir, active')
  BY DEF Lossless, Quiet
<1>2. \A n \in Segments(entry) : file[entry[n]].kept = file[entry[n]].ids
  BY DEF Mapped, AllSynced, Synced
<1>3. SecuredIn(file, entry, active') = SecuredIn(file, entry, active)
  BY <1>2, AllIsSecured
<1>4. records \ dropped \subseteq SecuredIn(file, entry, active)
  BY DEF Promise, TypeOK
<1> QED BY <1>1, <1>3, <1>4

\* What holds while an event is appended.
LEMMA AppendingHas ==
    ASSUME IInv, step \in Appending
    PROVE  /\ Mapped /\ NoneDirty /\ OlderSynced /\ GaveUp
           /\ status = "open" /\ writable /\ Live /\ NoLegacy
           /\ DOMAIN segs = Segments(entry) /\ entry \in entryKept
           /\ Latest(segs) \in DOMAIN segs
           /\ \A o \in DOMAIN segs : o <= Latest(segs) /\ o \in Ordinals /\ entry[o] \in FileIds
           /\ step # "rotateCreate" => OnLatest /\ active \in FileIds
           /\ step \in Rotating \cup {"append"} =>
                /\ HeldIn(segs) = records /\ staged = records \cup {lastId}
                /\ \A dir \in entryKept : lastId \notin IdsIn(dir)
           /\ \A r \in rootKept : r.dir = "live"
<1> USE Parts
<1>1. status = "open" /\ writable /\ Live
  BY DEF StatusInv, Appending, Rotating, Staging, Clearing, Building, Closing
<1>2. Mapped /\ NoneDirty /\ OlderSynced /\ GaveUp /\ (step # "rotateCreate" => OnLatest)
      /\ (step \in Rotating \cup {"append"} =>
                /\ HeldIn(segs) = records /\ staged = records \cup {lastId}
                /\ \A dir \in entryKept : lastId \notin IdsIn(dir))
  BY DEF AppendInv, Appending
<1>3. DOMAIN segs = Segments(entry) /\ entry \in entryKept
      /\ \A o \in DOMAIN segs : entry[o] \in FileIds
  BY <1>2 DEF Mapped, TypeOK, Segments
<1>4. Latest(segs) \in DOMAIN segs /\ \A o \in DOMAIN segs : o <= Latest(segs) /\ o \in Ordinals
  BY <1>1, <1>2, LatestThere
<1> QED BY <1>1, <1>2, <1>3, <1>4, NoLegacyNow DEF OnLatest, RootInv, Rooted

\* The full segment is synchronized.
LEMMA RotateSyncKeeps ==
    ASSUME IInv, StorageCall, step = "rotateSync", FollowingCall
    PROVE  IInv'
<1> USE Parts
<1>1. /\ UNCHANGED <<segs, todo, status, records, staged, cut, safe>> /\ at' = at
      /\ step' = "rotateClose"
  BY FollowingIs
<1>2. SyncFile(active) /\ active \in FileIds /\ active' = active
  BY EffectIs, TargetIs, FileIs DEF SyncSteps
<1>3. UNCHANGED <<writable, dropped, legacy, size, lastId, aged, failures, crashes>>
  BY Base
<1>4. /\ Mapped /\ NoneDirty /\ OlderSynced /\ GaveUp /\ OnLatest
      /\ status = "open" /\ Live
      /\ DOMAIN segs = Segments(entry) /\ HeldIn(segs) = records /\ staged = records \cup {lastId}
      /\ \A dir \in entryKept : lastId \notin IdsIn(dir)
  BY AppendingHas DEF Appending, Rotating
<1>5. Quiet /\ at = Latest(segs) + 1 /\ at \in Ordinals
  BY DEF AppendInv, Rotating
<1>6. Promise'
  BY <1>1, <1>2, Going DEF Closing
<1>7. UNCHANGED <<entry, entryKept>>
  BY <1>2 DEF SyncFile
<1>8. Mapped' /\ NoneDirty' /\ AllSynced' /\ OlderSynced' /\ Quiet'
  <2>1. \A o \in DOMAIN segs : Synced(o) \/ entry[o] = active
    BY <1>4 DEF OlderSynced, OnLatest
  <2>2. Mapped' /\ NoneDirty' /\ Quiet' /\ \A o \in DOMAIN segs : Synced(o)'
    BY <1>1, <1>2, <1>4, <1>5, <2>1, SyncFileMaps
  <2> QED BY <1>1, <2>2 DEF AllSynced, OlderSynced
<1>9. \A dir \in entryKept' : lastId \notin IdsIn(dir)'
  BY <1>1, <1>2, <1>4, <1>7, SyncFileMaps
<1>10. GaveUp' /\ OnLatest' /\ HeldIn(segs)' = HeldIn(segs)
  BY <1>1, <1>2, <1>3, <1>4, <1>7, DecisionStays DEF OnLatest, HeldIn
<1>11. AppendInv'
  BY <1>1, <1>3, <1>4, <1>5, <1>8, <1>9, <1>10 DEF AppendInv, Appending, Rotating
<1>12. OpenInv' /\ TrimInv'
  BY <1>1, <1>4 DEF OpenInv, TrimInv, Trimming, Copying, Replacing
<1>13. step \in Appending /\ step' \in Appending /\ step' \notin Trimming
  BY <1>1 DEF Appending, Rotating, Trimming, Copying, Replacing
<1> QED BY <1>1, <1>2, <1>6, <1>11, <1>12, <1>13, RunStep, SegsAreTyped DEF TypeOK

\* It is closed.
LEMMA RotateCloseKeeps ==
    ASSUME IInv, StorageCall, step = "rotateClose", FollowingCall
    PROVE  IInv'
<1> USE Parts
<1>1. /\ UNCHANGED <<segs, todo, status, records, staged, cut, safe>> /\ at' = at
      /\ step' = "rotateCreate"
  BY FollowingIs
<1>2. UNCHANGED <<file, entry, entryKept>> /\ active' = NoFile
  BY EffectIs, FileIs DEF diskVars
<1>3. UNCHANGED <<writable, dropped, legacy, size, lastId, aged, failures, crashes>>
  BY Base
<1>4. /\ Mapped /\ NoneDirty /\ OlderSynced /\ GaveUp
      /\ status = "open" /\ Live
      /\ HeldIn(segs) = records /\ staged = records \cup {lastId}
      /\ \A dir \in entryKept : lastId \notin IdsIn(dir)
  BY AppendingHas DEF Appending, Rotating
<1>5. Quiet /\ at = Latest(segs) + 1 /\ at \in Ordinals /\ AllSynced
  BY DEF AppendInv, Rotating
<1>6. Lossless
  BY <1>4, Base
<1>7. Promise'
  BY <1>1, <1>2, <1>3, <1>4, <1>5, <1>6, PromiseAnyFile DEF Closing
<1>8. Mapped' /\ NoneDirty' /\ AllSynced' /\ OlderSynced' /\ Quiet' /\ HeldIn(segs)' = HeldIn(segs)
  BY <1>1, <1>2, <1>4, <1>5, FilesStay DEF Quiet
<1>9. \A dir \in entryKept' : lastId \notin IdsIn(dir)'
  BY <1>2, <1>4 DEF IdsIn
<1>10. GaveUp'
  BY <1>1, <1>3, <1>4, DecisionStays
<1>11. AppendInv'
  BY <1>1, <1>3, <1>4, <1>5, <1>8, <1>9, <1>10 DEF AppendInv, Appending, Rotating
<1>12. OpenInv' /\ TrimInv'
  BY <1>1, <1>4 DEF OpenInv, TrimInv, Trimming, Copying, Replacing
<1>13. step \in Appending /\ step' \in Appending /\ step' \notin Trimming
  BY <1>1 DEF Appending, Rotating, Trimming, Copying, Replacing
<1> QED BY <1>1, <1>2, <1>7, <1>11, <1>12, <1>13, RunStep, SegsAreTyped DEF TypeOK

\* The next segment is created and open.
LEMMA RotatedKeeps ==
    ASSUME IInv, StorageCall, Rotated
    PROVE  IInv'
<1> USE Parts
<1>1. /\ step = "rotateCreate" /\ segs' = With(segs, at, NewSegment) /\ at' = at
      /\ step' = "append" /\ UNCHANGED <<todo, status, records, staged, cut, safe>>
  BY DEF Rotated, Goto
<1>2. Create(at) /\ active' = entry'[at]
  BY <1>1, EffectIs, FileIs
<1>3. UNCHANGED <<writable, dropped, legacy, size, lastId, aged, failures, crashes>>
  BY Base
<1>4. /\ Mapped /\ NoneDirty /\ GaveUp /\ status = "open" /\ Live /\ NoLegacy
      /\ DOMAIN segs = Segments(entry) /\ entry \in entryKept
      /\ Latest(segs) \in DOMAIN segs
      /\ \A o \in DOMAIN segs : o <= Latest(segs) /\ o \in Ordinals
      /\ HeldIn(segs) = records /\ staged = records \cup {lastId}
      /\ \A dir \in entryKept : lastId \notin IdsIn(dir)
  BY <1>1, AppendingHas DEF Appending, Rotating
<1>5. Quiet /\ at = Latest(segs) + 1 /\ at \in Ordinals /\ AllSynced
  BY <1>1 DEF AppendInv, Rotating
<1>6. /\ at \in 0..MaxOrdinal /\ at \notin DOMAIN segs /\ at # 0
      /\ \A o \in DOMAIN segs : o <= at
  BY <1>4, <1>5, FilesAssumption DEF Ordinals
<1>7. /\ \A dir \in entryKept : \A n \in DOMAIN dir : file'[dir[n]] = file[dir[n]]
      /\ file'[entry'[at]] = Empty
      /\ DOMAIN entry' = DOMAIN entry \cup {at}
      /\ \A n \in DOMAIN entry \ {at} : entry'[n] = entry[n]
      /\ \A dir \in entryKept : \A n \in DOMAIN dir : dir[n] # entry'[at]
      /\ entry'[at] \in FileIds
  BY <1>2, <1>3, <1>4, <1>6, CreateKeeps
<1>8. /\ DOMAIN segs' = DOMAIN segs \cup {at} /\ segs'[at] = NewSegment
      /\ \A o \in DOMAIN segs : segs'[o] = segs[o]
      /\ segs' = [o \in DOMAIN segs' |-> segs'[o]]
  BY <1>1, <1>6 DEF With
<1>9. NewSegment.ids = {} /\ ~NewSegment.dirty /\ Empty.ids = {} /\ Empty.tail = "whole"
       /\ Empty.kept = {} /\ NewSegment \in [ids : SUBSET (1..lastId), dirty : BOOLEAN]
  BY DEF NewSegment, Empty
<1>10. Segments(entry') = DOMAIN segs'
  BY <1>4, <1>6, <1>7, <1>8 DEF Segments, Temp
<1>11. \A o \in DOMAIN segs : entry'[o] = entry[o] /\ file'[entry'[o]] = file[entry[o]]
  BY <1>4, <1>6, <1>7 DEF Segments
<1>12. SegsTyped(segs')
  BY <1>5, <1>8, <1>9, SegsAreTyped DEF SegsTyped
<1>13. Latest(segs') = at
  <2>1. Latest(segs') \in DOMAIN segs' /\ \A o \in DOMAIN segs' : o <= Latest(segs')
    BY <1>8, <1>12, LatestIs DEF SegsTyped
  <2>2. at \in Int /\ Latest(segs') \in Int /\ Latest(segs') <= at /\ at <= Latest(segs')
    BY <1>6, <1>8, <1>12, <2>1 DEF SegsTyped, Ordinals
  <2> QED BY <2>2
<1>14. Mapped' /\ NoneDirty' /\ AllSynced' /\ OlderSynced' /\ OnLatest'
  <2>1. Mapped'
    BY <1>4, <1>7, <1>8, <1>9, <1>10, <1>11 DEF Mapped
  <2>2. NoneDirty'
    BY <1>4, <1>8, <1>9 DEF NoneDirty
  <2>3. AllSynced'
    BY <1>5, <1>7, <1>8, <1>9, <1>11 DEF AllSynced, Synced
  <2> QED BY <1>2, <1>13, <2>1, <2>2, <2>3 DEF OlderSynced, AllSynced, OnLatest
<1>15. HeldIn(segs)' = HeldIn(segs)
  BY <1>8, <1>9 DEF HeldIn
<1>16. entryKept' = {entry, entry'}
  <2>1. entryKept' = entryKept \cup {entry'}
    BY <1>2 DEF Create, SetEntry
  <2> QED BY <1>5, <2>1 DEF Quiet
<1>17. \A dir \in entryKept' : lastId \notin IdsIn(dir)'
  <2>1. lastId \notin IdsIn(entry)
    BY <1>4
  <2>2. \A n \in Segments(entry) : file'[entry[n]] = file[entry[n]]
    BY <1>4, <1>7 DEF Segments
  <2>3. lastId \notin UNION {file'[entry[n]].ids : n \in Segments(entry)}
    BY <2>1, <2>2 DEF IdsIn
  <2>4. lastId \notin UNION {file'[entry'[n]].ids : n \in Segments(entry')}
    BY <1>4, <1>7, <1>8, <1>9, <1>10, <1>11, <2>1 DEF IdsIn
  <2> QED BY <1>3, <1>16, <2>3, <2>4 DEF IdsIn
<1>18. \A dir \in entryKept' : \A n \in Segments(dir) :
         dir[n] = active' => \A m \in Segments(dir) : m <= n
  <2>1. \A n \in Segments(entry) : entry[n] # active'
    BY <1>2, <1>4, <1>7 DEF Segments
  <2>2. \A n \in Segments(entry') : entry'[n] = active' => n = at
    BY <1>2, <1>4, <1>7, <1>8, <1>10, <1>11, <2>1
  <2>3. \A m \in Segments(entry') : m <= at
    BY <1>6, <1>8, <1>10
  <2> QED BY <1>16, <2>1, <2>2, <2>3
<1>19. GaveUp'
  BY <1>1, <1>3, <1>4 DEF GaveUp, From
<1>20. AppendInv'
  BY <1>1, <1>3, <1>4, <1>6, <1>14, <1>15, <1>17, <1>18, <1>19 DEF AppendInv, Appending, Rotating
<1>21. OpenInv' /\ TrimInv'
  BY <1>1, <1>4 DEF OpenInv, TrimInv, Trimming, Copying, Replacing
<1>22. step \in Appending /\ step' \in Appending /\ step' \notin Trimming
  BY <1>1 DEF Appending, Rotating, Trimming, Copying, Replacing
<1>23. Lossless
  BY <1>1, <1>4, Base
<1>24. Promise'
  BY <1>1, <1>2, <1>3, <1>4, <1>5, <1>7, <1>23, PromiseAnyFile DEF Closing
<1>25. todo' \subseteq 1..lastId
  BY <1>1 DEF TypeOK
<1> QED BY <1>1, <1>2, <1>6, <1>7, <1>12, <1>20, <1>21, <1>22, <1>24, <1>25, RunStep

\* The operation has everything on disk and retention decides how it ends.
LEMMA SettledGoes ==
    ASSUME IInv, StorageCall, status = "open", writable, Live, step \notin RootSteps, GaveUp,
           NoLegacy, \A r \in rootKept : r.dir = "live",
           \/ Trim(segs)
           \/ Done(segs, TRUE) /\ From(staged, cut) = staged,
           HeldIn(segs) = staged, Mapped', NoneDirty', AllSynced', Quiet', OnLatest'
    PROVE  IInv'
<1> USE Parts
<1>1. segs' = segs
  BY DEF Trim, Done
<1>2. step # "publish"
  BY DEF RootSteps
<1>3. Disk' /\ Lossless /\ Live' /\ UNCHANGED <<root, rootKept>>
  BY <1>2, Base, RootAlone
<1>4. /\ safe \ dropped \subseteq KeptIn(entry)' /\ safe \ dropped \subseteq HeldIn(segs)
      /\ records \ dropped \subseteq HeldIn(segs)
  BY <1>1, <1>3, StillHeld
<1>5. Covers(segs) /\ SegsTyped(segs)
  BY SegsAreTyped DEF Covers
<1>6. CASE Trim(segs)
  BY <1>3, <1>4, <1>5, <1>6, TrimGoesOn
<1>7. CASE Done(segs, TRUE) /\ From(staged, cut) = staged
  <2>1. OlderSynced'
    BY DEF OlderSynced, AllSynced
  <2> QED BY <1>3, <1>4, <1>5, <1>7, <2>1, DoneRests
<1> QED BY <1>6, <1>7

\* The event is written: at the end of the records, and to a file without torn lines.
LEMMA AppendsKeeps ==
    ASSUME IInv, StorageCall, Appends
    PROVE  IInv'
<1> USE Parts
<1> DEFINE last == Latest(segs)
           s == [segs EXCEPT ![last].ids = @ \cup {lastId}]
<1>1. /\ step = "append"
      /\ \/ /\ at # 0 \/ From(staged, cut) # staged
            /\ step' = "appendSync" /\ at' = at /\ segs' = s
            /\ UNCHANGED <<todo, status, records, staged, cut, safe>>
         \/ at = 0 /\ From(staged, cut) = staged /\ Done(s, FALSE)
  BY DEF Appends, Goto
<1>2. segs' = s
  BY <1>1 DEF Done
<1>3. Write(active, lastId) /\ active' = active /\ active \in FileIds /\ file[active].tail = "whole"
  BY <1>1, EffectIs, TargetIs, FileIs DEF WriteSteps
<1>4. UNCHANGED <<writable, dropped, legacy, size, lastId, aged, failures, crashes>>
  BY Base
<1>5. /\ Mapped /\ NoneDirty /\ OlderSynced /\ GaveUp /\ status = "open" /\ Live /\ NoLegacy
      /\ writable /\ OnLatest
      /\ DOMAIN segs = Segments(entry) /\ entry \in entryKept /\ last \in DOMAIN segs
      /\ HeldIn(segs) = records /\ staged = records \cup {lastId}
      /\ \A r \in rootKept : r.dir = "live"
  BY <1>1, AppendingHas DEF Appending, Rotating
<1>6. at = 0 => Quiet
  BY <1>1 DEF AppendInv
<1>7. lastId \in 1..lastId
  BY <1>5 DEF TypeOK
<1>8. /\ file'[active].ids = file[active].ids \cup {lastId}
      /\ file'[active].tail = "whole" /\ file'[active].kept = file[active].kept
      /\ \A j \in FileIds \ {active} : file'[j] = file[j]
      /\ UNCHANGED <<root, rootKept, entry, entryKept>>
  BY <1>3, <1>7, Written DEF Write
<1>9. active = entry[last] /\ \A o \in DOMAIN segs \ {last} : entry[o] \in FileIds \ {active}
  BY <1>5 DEF OnLatest, Distinct, TypeOK, Segments
<1>10. /\ DOMAIN segs' = DOMAIN segs /\ segs'[last].ids = segs[last].ids \cup {lastId}
       /\ segs'[last].dirty = segs[last].dirty
       /\ \A o \in DOMAIN segs \ {last} : segs'[o] = segs[o]
       /\ SegsTyped(segs') /\ Latest(segs') = last
  <2> HIDE DEF last
  <2>1. SegsTyped(segs)
    BY SegsAreTyped
  <2>2. segs[last] \in [ids : SUBSET (1..lastId), dirty : BOOLEAN]
    BY <2>1, <1>5 DEF SegsTyped
  <2>3. [segs[last] EXCEPT !.ids = segs[last].ids \cup {lastId}]
          \in [ids : SUBSET (1..lastId), dirty : BOOLEAN]
    BY <2>2, <1>7
  <2>4. segs' = [segs EXCEPT ![last] = [segs[last] EXCEPT !.ids = segs[last].ids \cup {lastId}]]
    BY <1>2, <2>1 DEF SegsTyped
  <2>5. DOMAIN segs' = DOMAIN segs /\ segs'[last].ids = segs[last].ids \cup {lastId}
       /\ segs'[last].dirty = segs[last].dirty
       /\ (\A o \in DOMAIN segs \ {last} : segs'[o] = segs[o])
       /\ SegsTyped(segs')
    BY <1>5, <2>1, <2>2, <2>3, <2>4 DEF SegsTyped
  <2> QED BY <2>5 DEF Latest, last
<1> HIDE DEF s, last
<1>11. Mapped' /\ NoneDirty' /\ OnLatest' /\ OlderSynced'
  <2>1. Mapped'
    BY <1>5, <1>8, <1>9, <1>10 DEF Mapped
  <2>2. NoneDirty'
    BY <1>5, <1>10 DEF NoneDirty
  <2>3. OnLatest'
    BY <1>3, <1>8, <1>9, <1>10 DEF OnLatest
  <2>4. OlderSynced'
    BY <1>5, <1>8, <1>9, <1>10 DEF OlderSynced, Synced, last
  <2> QED BY <2>1, <2>2, <2>3, <2>4
<1>12. HeldIn(segs)' = staged
  <2>1. HeldIn(segs)' = HeldIn(segs) \cup {lastId}
    BY <1>5, <1>10 DEF HeldIn
  <2> QED BY <2>1, <1>5
<1>13. Quiet => Quiet'
  BY <1>8 DEF Quiet
<1>14. CASE step' = "appendSync"
  <2>1. /\ at' = at /\ UNCHANGED <<todo, status, records, staged, cut, safe>>
    BY <1>1, <1>14 DEF Done
  <2>2. GaveUp'
    BY <1>4, <1>5, <2>1 DEF GaveUp, From
  <2>3. AppendInv'
    BY <1>6, <1>11, <1>12, <1>13, <1>14, <2>1, <2>2 DEF AppendInv, Appending, Rotating
  <2>4. OpenInv' /\ TrimInv'
    BY <1>5, <1>14, <2>1 DEF OpenInv, TrimInv, Trimming, Copying, Replacing
  <2>5. step \in Appending /\ step' \in Appending /\ step' \notin Trimming /\ step # "publish"
        /\ step \notin Closing /\ step' \notin Closing
    BY <1>1, <1>14 DEF Appending, Rotating, Trimming, Copying, Replacing, Closing
  <2>6. Promise'
    BY <1>3, <2>1, <2>5, Going
  <2> QED BY <1>3, <1>10, <2>1, <2>3, <2>4, <2>5, <2>6, RunStep DEF TypeOK
<1>15. CASE step' # "appendSync"
  <2>1. at = 0 /\ From(staged, cut) = staged /\ Done(s, FALSE)
    BY <1>1, <1>15
  <2>2. Disk' /\ Lossless /\ Live'
    BY <1>1, <1>5, Base
  <2>3. Quiet'
    BY <1>6, <1>13, <2>1
  <2>4. safe \ dropped \subseteq KeptIn(entry)'
    BY <1>5, <1>11, <2>2, <2>3, StillHeld
  <2>5. HeldIn(s) = From(staged, cut)
    BY <1>2, <1>12, <2>1
  <2>6. SegsTyped(s)
    BY <1>2, <1>10
  <2> QED BY <1>5, <1>8, <1>11, <2>1, <2>2, <2>3, <2>4, <2>5, <2>6, DoneRests
<1> QED BY <1>14, <1>15

\* Its segment is synchronized.
LEMMA AppendSyncedKeeps ==
    ASSUME IInv, StorageCall, AppendSynced
    PROVE  IInv'
<1> USE Parts
<1>1. /\ step = "appendSync"
      /\ \/ /\ at # 0 /\ step' = "appendSyncDir" /\ at' = at
            /\ UNCHANGED <<segs, todo, status, records, staged, cut, safe>>
         \/ at = 0 /\ Retain(segs)
  BY DEF AppendSynced, Goto
<1>2. segs' = segs
  BY <1>1 DEF Retain, Trim, Done
<1>3. SyncFile(active) /\ active' = active /\ active \in FileIds
  BY <1>1, EffectIs, TargetIs, FileIs DEF SyncSteps
<1>4. UNCHANGED <<writable, dropped, legacy, size, lastId, aged, failures, crashes>>
  BY Base
<1>5. /\ Mapped /\ NoneDirty /\ OlderSynced /\ GaveUp /\ status = "open" /\ Live /\ NoLegacy
      /\ writable /\ OnLatest /\ DOMAIN segs = Segments(entry)
      /\ \A r \in rootKept : r.dir = "live"
  BY <1>1, AppendingHas DEF Appending, Rotating
<1>6. HeldIn(segs) = staged /\ (at = 0 => Quiet)
  BY <1>1 DEF AppendInv
<1>7. Mapped' /\ NoneDirty' /\ AllSynced' /\ OnLatest' /\ OlderSynced'
  <2>1. \A o \in DOMAIN segs : Synced(o) \/ entry[o] = active
    BY <1>5 DEF OlderSynced, OnLatest
  <2>2. Mapped' /\ NoneDirty' /\ \A o \in DOMAIN segs : Synced(o)'
    BY <1>2, <1>3, <1>5, <2>1, SyncFileMaps
  <2>3. OnLatest'
    BY <1>2, <1>3, <1>5 DEF OnLatest, SyncFile
  <2> QED BY <1>2, <2>2, <2>3 DEF AllSynced, OlderSynced
<1>8. Quiet => Quiet'
  BY <1>3 DEF SyncFile, Quiet
<1>9. CASE at # 0 /\ step' = "appendSyncDir" /\ at' = at
            /\ UNCHANGED <<segs, todo, status, records, staged, cut, safe>>
  <2>1. GaveUp' /\ HeldIn(segs)' = staged
    BY <1>4, <1>5, <1>6, <1>9, DecisionStays
  <2>2. AppendInv'
    BY <1>7, <1>9, <2>1 DEF AppendInv, Appending, Rotating
  <2>3. OpenInv' /\ TrimInv'
    BY <1>5, <1>9 DEF OpenInv, TrimInv, Trimming, Copying, Replacing
  <2>4. step \in Appending /\ step' \in Appending /\ step' \notin Trimming /\ step # "publish"
        /\ step \notin Closing /\ step' \notin Closing
    BY <1>1, <1>9 DEF Appending, Rotating, Trimming, Copying, Replacing, Closing
  <2>5. Promise'
    BY <1>3, <1>9, <2>4, Going
  <2> QED BY <1>3, <1>9, <2>2, <2>3, <2>4, <2>5, RunStep, SegsAreTyped DEF TypeOK
<1>10. CASE at = 0 /\ Retain(segs)
  <2>1. Trim(segs) \/ (Done(segs, TRUE) /\ From(staged, cut) = staged)
    BY <1>10 DEF Retain
  <2>2. step \notin RootSteps
    BY <1>1 DEF RootSteps
  <2> QED BY <1>5, <1>6, <1>7, <1>8, <1>10, <2>1, <2>2, SettledGoes
<1> QED BY <1>1, <1>9, <1>10

\* The directory of a rotation is synchronized.
LEMMA RotationSyncedKeeps ==
    ASSUME IInv, StorageCall, RotationSynced
    PROVE  IInv'
<1> USE Parts
<1>1. step = "appendSyncDir" /\ Retain(segs)
  BY DEF RotationSynced
<1>2. segs' = segs
  BY <1>1 DEF Retain, Trim, Done
<1>3. SyncDir /\ active' = active
  BY <1>1, EffectIs, FileIs
<1>4. /\ Mapped /\ NoneDirty /\ GaveUp /\ status = "open" /\ Live /\ NoLegacy
      /\ writable /\ OnLatest /\ \A r \in rootKept : r.dir = "live"
  BY <1>1, AppendingHas DEF Appending, Rotating
<1>5. HeldIn(segs) = staged /\ AllSynced
  BY <1>1 DEF AppendInv
<1>6. UNCHANGED <<file, entry>> /\ Quiet'
  BY <1>3 DEF SyncDir, Quiet
<1>7. Mapped' /\ NoneDirty' /\ AllSynced' /\ OnLatest'
  BY <1>2, <1>3, <1>4, <1>5, <1>6, FilesStay DEF OnLatest
<1>8. Trim(segs) \/ (Done(segs, TRUE) /\ From(staged, cut) = staged)
  BY <1>1 DEF Retain
<1>9. step \notin RootSteps
  BY <1>1 DEF RootSteps
<1> QED BY <1>4, <1>5, <1>6, <1>7, <1>8, <1>9, SettledGoes

\* Cleanup synchronizes the open file before retention.
LEMMA CleanupSyncedKeeps ==
    ASSUME IInv, StorageCall, CleanupSynced
    PROVE  IInv'
<1> USE Parts
<1>1. step = "cleanupSync" /\ Trim(segs)
  BY DEF CleanupSynced
<1>2. segs' = segs
  BY <1>1 DEF Trim, Done
<1>3. SyncFile(active) /\ active' = active /\ active \in FileIds
  BY <1>1, EffectIs, TargetIs, FileIs DEF SyncSteps
<1>4. status = "open" /\ writable /\ Live
  BY <1>1 DEF StatusInv, Closing, Staging, Clearing, Building
<1>5. NoLegacy /\ \A r \in rootKept : r.dir = "live"
  BY <1>4, NoLegacyNow DEF RootInv, Rooted
<1>6. Mapped /\ NoneDirty /\ OlderSynced /\ Quiet /\ HeldIn(segs) = staged /\ OnLatest /\ GaveUp
  BY <1>1, <1>4 DEF RestInv
<1>7. Mapped' /\ NoneDirty' /\ AllSynced' /\ OnLatest' /\ Quiet'
  <2>1. \A o \in DOMAIN segs : (Synced(o) \/ entry[o] = active) /\ o \in Segments(entry)
    BY <1>6 DEF OlderSynced, OnLatest, Mapped
  <2>2. Mapped' /\ NoneDirty' /\ Quiet' /\ \A o \in DOMAIN segs : Synced(o)'
    BY <1>2, <1>3, <1>6, <2>1, SyncFileMaps
  <2>3. OnLatest'
    BY <1>2, <1>3, <1>6 DEF OnLatest, SyncFile
  <2> QED BY <1>2, <2>2, <2>3 DEF AllSynced
<1>8. step \notin RootSteps
  BY <1>1 DEF RootSteps
<1> QED BY <1>1, <1>4, <1>5, <1>6, <1>7, <1>8, SettledGoes

-----------------------------------------------------------------------------
(***************************************************************************)
(* trimSegments, one call at a time.                                       *)
(***************************************************************************)
\* What holds while trimSegments is under way.
LEMMA TrimHas ==
    ASSUME IInv, step \in Trimming
    PROVE  /\ Mapped /\ AllSynced /\ Covers(segs) /\ GaveUp /\ (step \notin Replacing => OnLatest)
           /\ status \in {"opening", "open"} /\ writable /\ Live /\ NoLegacy
           /\ \A r \in rootKept : r.dir = "live"
           /\ DOMAIN segs = Segments(entry) /\ entry \in entryKept /\ SegsTyped(segs)
           /\ Latest(segs) \in DOMAIN segs
           /\ \A o \in DOMAIN segs : o <= Latest(segs) /\ o \in Ordinals /\ entry[o] \in FileIds
           /\ step \notin RootSteps /\ step \notin Closing \cup Appending
           /\ step \notin {"publish", "rotateCreate", "openActive", "rotateClose", "closeFile"}
<1> USE Parts
<1>1. /\ step \notin RootSteps /\ step \notin Closing \cup Appending
      /\ step \notin {"publish", "rotateCreate", "openActive", "rotateClose", "closeFile", "idle"}
  BY DEF Trimming, Copying, Replacing, RootSteps, Closing, Appending, Rotating
<1>2. status \in {"opening", "open"} /\ writable
  BY <1>1 DEF StatusInv
<1>3. Mapped /\ AllSynced /\ Covers(segs) /\ GaveUp /\ (step \notin Replacing => OnLatest)
  BY DEF TrimInv
<1>4. NoLegacy /\ Live /\ \A r \in rootKept : r.dir = "live"
  BY NoLegacyNow DEF RootInv, Rooted
<1>5. DOMAIN segs = Segments(entry) /\ entry \in entryKept
      /\ \A o \in DOMAIN segs : entry[o] \in FileIds
  BY <1>3 DEF Mapped, TypeOK, Segments
<1>6. Latest(segs) \in DOMAIN segs /\ \A o \in DOMAIN segs : o <= Latest(segs) /\ o \in Ordinals
  BY <1>3, <1>4, LatestThere
<1> QED BY <1>1, <1>2, <1>3, <1>4, <1>5, <1>6, SegsAreTyped

\* What is to be shown of a call of trimSegments.
LEMMA TrimStep ==
    ASSUME IInv, StorageCall, step \in Trimming, step' \in Trimming,
           UNCHANGED <<status, records, staged, cut, safe>>, SegsTyped(segs'),
           at' \in 0..MaxOrdinal, todo' \subseteq 1..lastId, active' \in FileIds \cup {NoFile},
           active' = active \/ Promise', Mapped', AllSynced', Covers(segs)', TrimInv'
    PROVE  IInv'
<1> USE Parts
<1>1. dropped' = dropped
  BY Base
<1>2. GaveUp'
  BY <1>1, TrimHas DEF GaveUp, From
<1>3. step' \notin Appending \cup Closing \cup Securing \cup Legacying \cup Clear
      /\ step' \notin {"openActive", "secure", "secureRoot", "removeTemp"} /\ step \notin Closing
  BY TrimHas DEF Trimming, Copying, Replacing, Closing, Appending, Rotating, Securing, Legacying, Clear
<1>4. OpenInv'
  BY <1>2, <1>3 DEF OpenInv
<1>5. AppendInv'
  BY <1>3 DEF AppendInv, Appending
<1>6. Promise'
  BY <1>3, TrimHas, Going
<1> QED BY <1>3, <1>4, <1>5, <1>6, RunStep

\* The temporary is created.
LEMMA TemporaryMadeKeeps ==
    ASSUME IInv, StorageCall, TemporaryMade
    PROVE  IInv'
<1> USE Parts
<1>1. /\ step = "temporary" /\ UNCHANGED <<segs, todo, status, records, staged, cut, safe>>
      /\ at' = at /\ step' \in {"syncCopy", "copy"} /\ (step' = "syncCopy" <=> todo = {})
  BY DEF TemporaryMade, Goto
<1>2. Create(Temp) /\ active' = active
  BY <1>1, EffectIs, FileIs
<1>3. step \in Trimming /\ step \notin Replacing
  BY <1>1 DEF Trimming, Replacing
<1>4. /\ Mapped /\ AllSynced /\ Covers(segs) /\ GaveUp /\ OnLatest /\ NoLegacy
      /\ DOMAIN segs = Segments(entry) /\ entry \in entryKept /\ SegsTyped(segs)
      /\ Latest(segs) \in DOMAIN segs
  BY <1>3, TrimHas
<1>5. Quiet /\ at \in DOMAIN segs /\ todo = From(segs[at].ids, cut)
  BY <1>1 DEF TrimInv
<1>6. UNCHANGED <<legacy, lastId, dropped>> /\ Temp \in 0..MaxOrdinal /\ Temp \notin Segments(entry)
  BY Base, FilesAssumption DEF Temp, Segments
<1>7. /\ \A dir \in entryKept : \A n \in DOMAIN dir : file'[dir[n]] = file[dir[n]]
      /\ Temp \in DOMAIN entry' /\ file'[entry'[Temp]] = Empty
      /\ DOMAIN entry' = DOMAIN entry \cup {Temp}
      /\ \A n \in DOMAIN entry \ {Temp} : entry'[n] = entry[n]
      /\ \A dir \in entryKept : \A n \in DOMAIN dir : dir[n] # entry'[Temp]
  BY <1>2, <1>4, <1>6, CreateKeeps
<1>8. entryKept' = entryKept \cup {entry'}
  BY <1>2 DEF Create, SetEntry
<1>9. /\ Segments(entry') = Segments(entry)
      /\ \A o \in Segments(entry) : entry'[o] = entry[o] /\ file'[entry'[o]] = file[entry[o]]
      /\ \A o \in Segments(entry) : entry[o] # entry'[Temp]
  BY <1>4, <1>7 DEF Segments
<1>10. Mapped' /\ AllSynced' /\ OnLatest'
  <2>1. Mapped'
    BY <1>1, <1>4, <1>9 DEF Mapped
  <2>2. AllSynced'
    BY <1>1, <1>4, <1>9 DEF AllSynced, Synced
  <2>3. OnLatest'
    BY <1>1, <1>2, <1>4, <1>9 DEF OnLatest
  <2> QED BY <2>1, <2>2, <2>3
<1>11. \A dir \in entryKept' : \A n \in Segments(dir) : dir[n] # entry'[Temp]
  BY <1>7, <1>8, <1>9 DEF Segments
<1>12. file'[entry'[Temp]].tail = "whole" /\ file'[entry'[Temp]].ids = {}
  BY <1>7 DEF Empty
<1>13. Covers(segs)' /\ GaveUp'
  BY <1>1, <1>4, <1>6, DecisionStays
<1>14. TrimInv'
  BY <1>1, <1>5, <1>7, <1>10, <1>11, <1>12, <1>13 DEF TrimInv, Trimming, Copying, Replacing, From
<1>15. step' \in Trimming
  BY <1>1 DEF Trimming, Copying
<1> QED BY <1>1, <1>2, <1>3, <1>4, <1>10, <1>13, <1>14, <1>15, TrimStep DEF TypeOK

\* What holds while a boundary segment is copied.
LEMMA CopyingHas ==
    ASSUME IInv, step \in Copying
    PROVE  /\ step \in Trimming /\ step \notin Replacing /\ at \in DOMAIN segs
           /\ Temp \in DOMAIN entry /\ file[entry[Temp]].tail = "whole"
           /\ file[entry[Temp]].ids \cup todo = From(segs[at].ids, cut)
           /\ \A dir \in entryKept : \A n \in Segments(dir) : dir[n] # entry[Temp]
           /\ entry[Temp] \in FileIds
<1>1. step \in Trimming /\ step \notin Replacing
  BY DEF Trimming, Copying, Replacing
<1> QED BY <1>1, Parts DEF TrimInv, TypeOK

\* An event that is kept is copied.
LEMMA CopiedKeeps ==
    ASSUME IInv, StorageCall, Copied
    PROVE  IInv'
<1> USE Parts
<1> DEFINE m == Min(todo)
<1>1. /\ step = "copy" /\ UNCHANGED <<segs, status, records, staged, cut, safe>>
      /\ todo' = todo \ {m} /\ at' = at /\ step' \in {"syncCopy", "copy"}
      /\ (step' = "syncCopy" <=> todo' = {})
  BY DEF Copied, Goto
<1>2. todo # {} /\ todo \subseteq 1..lastId
  BY <1>1 DEF TrimInv, TypeOK
<1>3. m \in todo
  <2>1. todo \subseteq Nat
    BY <1>2
  <2> QED BY <1>2, <2>1, MinIs
<1>4. Write(Target, m) /\ active' = active
  BY <1>1, EffectIs, FileIs
<1> HIDE DEF m
<1>5. /\ step \in Trimming /\ step \notin Replacing /\ at \in DOMAIN segs
      /\ Temp \in DOMAIN entry /\ file[entry[Temp]].tail = "whole"
      /\ file[entry[Temp]].ids \cup todo = From(segs[at].ids, cut)
      /\ \A dir \in entryKept : \A n \in Segments(dir) : dir[n] # entry[Temp]
      /\ entry[Temp] \in FileIds
  BY <1>1, CopyingHas DEF Copying
<1>6. Target = entry[Temp]
  BY <1>1, TargetIs DEF WriteSteps
<1>7. /\ file'[entry[Temp]].ids = file[entry[Temp]].ids \cup {m}
      /\ file'[entry[Temp]].tail = "whole"
      /\ \A j \in FileIds \ {entry[Temp]} : file'[j] = file[j]
      /\ UNCHANGED <<entry, entryKept>>
  BY <1>2, <1>3, <1>4, <1>5, <1>6, Written DEF Write
<1>8. /\ Mapped /\ AllSynced /\ Covers(segs) /\ GaveUp /\ OnLatest
      /\ DOMAIN segs = Segments(entry) /\ entry \in entryKept /\ SegsTyped(segs)
      /\ \A o \in DOMAIN segs : entry[o] \in FileIds
  BY <1>5, TrimHas
<1>9. \A o \in DOMAIN segs : file'[entry[o]] = file[entry[o]]
  BY <1>5, <1>7, <1>8
<1>10. Mapped' /\ AllSynced' /\ OnLatest'
  BY <1>1, <1>4, <1>7, <1>8, <1>9 DEF Mapped, AllSynced, Synced, OnLatest
<1>11. UNCHANGED <<legacy, lastId, dropped>>
  BY Base
<1>12. Covers(segs)' /\ GaveUp'
  BY <1>1, <1>8, <1>11, DecisionStays
<1>13. file'[entry'[Temp]].ids \cup todo' = From(segs[at].ids, cut)
  BY <1>1, <1>3, <1>5, <1>7
<1>14. TrimInv'
  BY <1>1, <1>5, <1>7, <1>10, <1>12, <1>13 DEF TrimInv, Trimming, Copying, Replacing, From
<1>15. step' \in Trimming /\ todo' \subseteq 1..lastId
  BY <1>1, <1>2 DEF Trimming, Copying
<1> QED BY <1>1, <1>4, <1>5, <1>8, <1>10, <1>12, <1>14, <1>15, TrimStep DEF TypeOK

\* The copy is synchronized.
LEMMA CopySyncedKeeps ==
    ASSUME IInv, StorageCall, step = "syncCopy", FollowingCall
    PROVE  IInv'
<1> USE Parts
<1>1. /\ UNCHANGED <<segs, todo, status, records, staged, cut, safe>> /\ at' = at
      /\ step' = "rename"
  BY FollowingIs
<1>2. SyncFile(entry[Temp]) /\ active' = active
  BY EffectIs, TargetIs, FileIs DEF SyncSteps
<1>3. /\ step \in Trimming /\ step \notin Replacing /\ at \in DOMAIN segs
      /\ Temp \in DOMAIN entry /\ file[entry[Temp]].tail = "whole"
      /\ file[entry[Temp]].ids \cup todo = From(segs[at].ids, cut)
      /\ \A dir \in entryKept : \A n \in Segments(dir) : dir[n] # entry[Temp]
      /\ entry[Temp] \in FileIds
  BY CopyingHas DEF Copying
<1>4. todo = {}
  BY DEF TrimInv
<1>5. /\ Mapped /\ AllSynced /\ Covers(segs) /\ GaveUp /\ OnLatest
      /\ DOMAIN segs = Segments(entry) /\ SegsTyped(segs)
  BY <1>3, TrimHas
<1>6. /\ file'[entry[Temp]].ids = file[entry[Temp]].ids
      /\ file'[entry[Temp]].kept = file[entry[Temp]].ids
      /\ file'[entry[Temp]].tail = "whole"
      /\ UNCHANGED <<entry, entryKept>>
  BY <1>2, <1>3, SyncFileIs
<1>7. Mapped' /\ AllSynced' /\ OnLatest'
  BY <1>1, <1>2, <1>3, <1>5, <1>6, SyncFileMaps DEF AllSynced, OnLatest
<1>8. UNCHANGED <<legacy, lastId, dropped>>
  BY Base
<1>9. Covers(segs)' /\ GaveUp'
  BY <1>1, <1>5, <1>8, DecisionStays
<1>10. Synced(Temp)'
  BY <1>6 DEF Synced
<1>11. TrimInv'
  BY <1>1, <1>3, <1>4, <1>6, <1>7, <1>9, <1>10 DEF TrimInv, Trimming, Copying, Replacing, From
<1>12. step' \in Trimming
  BY <1>1 DEF Trimming, Copying
<1> QED BY <1>1, <1>2, <1>3, <1>5, <1>7, <1>9, <1>11, <1>12, TrimStep DEF TypeOK

\* It takes the place of its segment.
LEMMA RenamedKeeps ==
    ASSUME IInv, StorageCall, Renamed
    PROVE  IInv'
<1> USE Parts
<1> DEFINE kept == [ids |-> From(segs[at].ids, cut), dirty |-> FALSE]
<1>1. /\ step = "rename" /\ UNCHANGED <<todo, status, records, staged, cut, safe>>
      /\ at' = at /\ step' = "syncRename" /\ segs' = [segs EXCEPT ![at] = kept]
  BY DEF Renamed, Goto
<1>2. RenameTemp(at) /\ active' = active
  BY <1>1, EffectIs, FileIs
<1>3. /\ step \in Trimming /\ step \notin Replacing /\ at \in DOMAIN segs
      /\ Temp \in DOMAIN entry /\ file[entry[Temp]].tail = "whole"
      /\ file[entry[Temp]].ids \cup todo = From(segs[at].ids, cut)
  BY <1>1, CopyingHas DEF Copying
<1>4. todo = {} /\ Synced(Temp)
  BY <1>1 DEF TrimInv
<1>5. /\ Mapped /\ AllSynced /\ Covers(segs) /\ GaveUp /\ OnLatest /\ NoLegacy
      /\ DOMAIN segs = Segments(entry) /\ SegsTyped(segs) /\ Latest(segs) \in DOMAIN segs
  BY <1>3, TrimHas
<1>6. UNCHANGED <<legacy, lastId, dropped>>
  BY Base
<1>7. /\ Segments(entry') = Segments(entry)
      /\ entry'[at] = entry[Temp] /\ \A n \in Segments(entry) \ {at} : entry'[n] = entry[n]
      /\ UNCHANGED file
  <2>1. at \in Segments(entry) /\ file[entry[at]].ids = segs[at].ids
    BY <1>3, <1>5 DEF Mapped
  <2>2. segs[at].ids \subseteq staged
    BY <1>3, <1>5 DEF Covers, HeldIn
  <2>3. segs[at].ids \ From(segs[at].ids, cut) \subseteq dropped
    BY <1>5, <2>2, GivenUp
  <2>4. From(segs[at].ids, cut) \subseteq segs[at].ids
    BY DEF From
  <2> QED BY <1>2, <1>3, <1>4, <1>5, <1>6, <2>1, <2>3, <2>4, RenameKeeps
<1>8. /\ DOMAIN segs' = DOMAIN segs /\ segs'[at] = kept
      /\ \A o \in DOMAIN segs \ {at} : segs'[o] = segs[o]
      /\ SegsTyped(segs')
  <2>1. kept \in [ids : SUBSET (1..lastId), dirty : BOOLEAN]
    BY <1>3, <1>5 DEF SegsTyped, From
  <2> HIDE DEF kept
  <2> QED BY <1>1, <1>3, <1>5, <2>1 DEF SegsTyped
<1>9. Mapped' /\ AllSynced'
  <2>1. file'[entry'[at]].ids = kept.ids /\ file'[entry'[at]].tail = "whole"
        /\ file'[entry'[at]].kept = kept.ids
    BY <1>3, <1>4, <1>7 DEF Synced
  <2> HIDE DEF kept
  <2> QED BY <1>5, <1>7, <1>8, <2>1 DEF Mapped, AllSynced, Synced
<1>10. From(kept.ids, cut) = kept.ids /\ kept.ids \subseteq segs[at].ids
       /\ kept.ids = From(segs[at].ids, cut)
  BY DEF From
<1>11. Covers(segs)'
  <2> HIDE DEF kept
  <2>1. HeldIn(segs') \subseteq HeldIn(segs)
    BY <1>3, <1>8, <1>10 DEF HeldIn
  <2>2. ASSUME NEW x \in From(HeldIn(segs), cut)
        PROVE  x \in From(HeldIn(segs'), cut)
    <3>1. PICK o \in DOMAIN segs : x \in segs[o].ids /\ x > cut
      BY DEF From, HeldIn
    <3>2. x \in segs'[o].ids
      BY <1>8, <1>10, <3>1 DEF From
    <3> QED BY <1>8, <3>1, <3>2 DEF From, HeldIn
  <2>3. From(HeldIn(segs'), cut) = From(HeldIn(segs), cut)
    BY <2>1, <2>2 DEF From
  <2> QED BY <1>1, <1>5, <2>1, <2>3 DEF Covers
<1>12. Latest(segs') = Latest(segs)
  BY <1>8 DEF Latest
<1>13. at # Latest(segs) => OnLatest'
  BY <1>2, <1>5, <1>7, <1>12 DEF OnLatest
<1>14. GaveUp'
  BY <1>1, <1>5, <1>6 DEF GaveUp, From
<1>15. TrimInv'
  BY <1>1, <1>3, <1>8, <1>9, <1>11, <1>12, <1>13, <1>14 DEF TrimInv, Trimming, Copying, Replacing
<1>16. step' \in Trimming
  BY <1>1 DEF Trimming, Replacing
<1> QED BY <1>1, <1>2, <1>3, <1>8, <1>9, <1>11, <1>15, <1>16, TrimStep DEF TypeOK

\* The directory is synchronized after that.
LEMMA ReplacedKeeps ==
    ASSUME IInv, StorageCall, Replaced
    PROVE  IInv'
<1> USE Parts
<1>1. /\ step = "syncRename"
      /\ \/ /\ at = Latest(segs) /\ step' = "reclose" /\ at' = at
            /\ UNCHANGED <<segs, todo, status, records, staged, cut, safe>>
         \/ at # Latest(segs) /\ Trim(segs)
  BY DEF Replaced, Goto
<1>2. segs' = segs
  BY <1>1 DEF Trim, Done
<1>3. SyncDir /\ active' = active
  BY <1>1, EffectIs, FileIs
<1>4. step \in Trimming /\ at \in DOMAIN segs /\ (at # Latest(segs) => OnLatest)
  BY <1>1 DEF Trimming, Replacing, TrimInv
<1>5. /\ Mapped /\ AllSynced /\ Covers(segs) /\ GaveUp /\ SegsTyped(segs)
      /\ status \in {"opening", "open"} /\ writable /\ Live /\ NoLegacy
      /\ \A r \in rootKept : r.dir = "live"
      /\ step # "publish"
  BY <1>4, TrimHas
<1>6. UNCHANGED <<file, entry, root, rootKept>> /\ Quiet'
  BY <1>3 DEF SyncDir, Quiet
<1>7. Mapped' /\ AllSynced'
  BY <1>2, <1>5, <1>6, FilesStay
<1>8. CASE at = Latest(segs) /\ step' = "reclose" /\ at' = at
           /\ UNCHANGED <<segs, todo, status, records, staged, cut, safe>>
  <2>1. UNCHANGED dropped
    BY Base
  <2>2. Covers(segs)' /\ GaveUp'
    BY <1>5, <1>8, <2>1, DecisionStays
  <2>3. TrimInv'
    BY <1>4, <1>6, <1>7, <1>8, <2>2 DEF TrimInv, Trimming, Copying, Replacing
  <2>4. step' \in Trimming
    BY <1>8 DEF Trimming, Replacing
  <2> QED BY <1>3, <1>4, <1>5, <1>7, <1>8, <2>2, <2>3, <2>4, TrimStep DEF TypeOK
<1>9. CASE at # Latest(segs) /\ Trim(segs)
  <2>1. OnLatest'
    BY <1>2, <1>3, <1>4, <1>6, <1>9 DEF OnLatest
  <2>2. Disk' /\ Lossless /\ Live'
    BY <1>5, Base
  <2>3. safe \ dropped \subseteq HeldIn(segs) /\ (status = "open" => records \ dropped \subseteq HeldIn(segs))
    BY <1>2, <1>5, <1>6, <1>7, <2>2, StillHeld
  <2> QED BY <1>5, <1>6, <1>7, <1>9, <2>1, <2>2, <2>3, TrimGoesOn
<1> QED BY <1>1, <1>8, <1>9

\* The file that was replaced is closed.
LEMMA ReclosedKeeps ==
    ASSUME IInv, StorageCall, step = "reclose", FollowingCall
    PROVE  IInv'
<1> USE Parts
<1>1. /\ UNCHANGED <<segs, todo, status, records, staged, cut, safe>> /\ at' = at
      /\ step' = "reopen"
  BY FollowingIs
<1>2. UNCHANGED <<file, entry, entryKept>> /\ active' = NoFile
  BY EffectIs, FileIs DEF diskVars
<1>3. step \in Trimming /\ at \in DOMAIN segs /\ Quiet /\ at = Latest(segs)
  BY DEF Trimming, Replacing, TrimInv
<1>4. /\ Mapped /\ AllSynced /\ Covers(segs) /\ GaveUp /\ SegsTyped(segs)
      /\ status \in {"opening", "open"} /\ Live /\ step # "publish"
  BY <1>3, TrimHas
<1>5. Mapped' /\ AllSynced' /\ Quiet'
  BY <1>1, <1>2, <1>3, <1>4, FilesStay DEF Quiet
<1>6. UNCHANGED dropped /\ Lossless
  BY <1>4, Base
<1>7. Covers(segs)' /\ GaveUp'
  BY <1>1, <1>4, <1>6, DecisionStays
<1>8. TrimInv'
  BY <1>1, <1>3, <1>5, <1>7 DEF TrimInv, Trimming, Copying, Replacing
<1>9. Promise'
  BY <1>1, <1>2, <1>3, <1>4, <1>6, PromiseAnyFile DEF Closing
<1>10. step' \in Trimming
  BY <1>1 DEF Trimming, Replacing
<1> QED BY <1>1, <1>2, <1>3, <1>4, <1>5, <1>7, <1>8, <1>9, <1>10, TrimStep DEF TypeOK

\* The copy is opened in its place.
LEMMA ReopenedKeeps ==
    ASSUME IInv, StorageCall, Reopened
    PROVE  IInv'
<1> USE Parts
<1>1. step = "reopen" /\ Trim(segs)
  BY DEF Reopened
<1>2. segs' = segs
  BY <1>1 DEF Trim, Done
<1>3. UNCHANGED <<file, entry, entryKept, root, rootKept>> /\ active' = entry'[at]
  BY <1>1, EffectIs, FileIs DEF diskVars
<1>4. step \in Trimming /\ at \in DOMAIN segs /\ Quiet /\ at = Latest(segs)
  BY <1>1 DEF Trimming, Replacing, TrimInv
<1>5. /\ Mapped /\ AllSynced /\ Covers(segs) /\ GaveUp /\ SegsTyped(segs)
      /\ status \in {"opening", "open"} /\ writable /\ Live /\ NoLegacy
      /\ \A r \in rootKept : r.dir = "live"
      /\ step # "publish"
  BY <1>4, TrimHas
<1>6. Mapped' /\ AllSynced' /\ Quiet' /\ OnLatest'
  BY <1>2, <1>3, <1>4, <1>5, FilesStay DEF Quiet, OnLatest
<1>7. Disk' /\ Lossless /\ Live'
  BY <1>5, Base
<1>8. safe \ dropped \subseteq HeldIn(segs) /\ (status = "open" => records \ dropped \subseteq HeldIn(segs))
  BY <1>2, <1>5, <1>6, <1>7, StillHeld
<1> QED BY <1>1, <1>3, <1>5, <1>6, <1>7, <1>8, TrimGoesOn

\* An expired segment is unlinked.
LEMMA RemovedKeeps ==
    ASSUME IInv, StorageCall, Removed
    PROVE  IInv'
<1> USE Parts
<1> DEFINE s == Without(segs, at)
<1>1. /\ step = "expire" /\ UNCHANGED <<todo, status, records, staged, cut, safe>>
      /\ segs' = s
      /\ Expired(s) = {} => step' = "syncExpired" /\ at' = 0
      /\ Expired(s) # {} => step' = "expire" /\ at' = Min(Expired(s))
  BY DEF Removed, Goto
<1>2. Unlink(at) /\ active' = active
  BY <1>1, EffectIs, FileIs
<1>3. step \in Trimming /\ step \notin Replacing /\ Boundaries(segs) = {} /\ at \in Expired(segs)
  BY <1>1 DEF Trimming, Replacing, TrimInv
<1>4. /\ Mapped /\ AllSynced /\ Covers(segs) /\ GaveUp /\ SegsTyped(segs) /\ OnLatest
      /\ DOMAIN segs = Segments(entry)
      /\ status \in {"opening", "open"} /\ writable /\ Live /\ NoLegacy
      /\ Latest(segs) \in DOMAIN segs /\ \A o \in DOMAIN segs : o <= Latest(segs) /\ o \in Ordinals
      /\ step # "publish"
  BY <1>3, TrimHas
<1>5. at \in DOMAIN segs /\ at # Latest(segs) /\ From(segs[at].ids, cut) = {}
  <2>1. at \in DOMAIN segs /\ Expires(segs, at)
    BY <1>3 DEF Expired
  <2>2. at <= at
    BY DEF TypeOK
  <2> QED BY <2>1, <2>2 DEF Expires
<1>6. UNCHANGED <<lastId, legacy, dropped>>
  BY Base
<1>7. /\ entry' = Without(entry, at) /\ UNCHANGED file
  BY <1>2 DEF Unlink, SetEntry
<1>8. /\ DOMAIN s = DOMAIN segs \ {at} /\ \A o \in DOMAIN s : s[o] = segs[o]
      /\ Segments(entry') = DOMAIN s /\ \A o \in DOMAIN s : entry'[o] = entry[o]
      /\ s = [o \in DOMAIN s |-> s[o]]
  BY <1>4, <1>7 DEF Without, Segments
<1> HIDE DEF s
<1>9. SegsTyped(segs')
  BY <1>1, <1>4, <1>8 DEF SegsTyped
<1>10. Latest(s) = Latest(segs)
  <2>1. DOMAIN s \subseteq Ordinals /\ Latest(segs) \in DOMAIN s
    BY <1>4, <1>5, <1>8 DEF SegsTyped
  <2>2. Latest(s) \in DOMAIN s /\ \A o \in DOMAIN s : o <= Latest(s)
    BY <2>1, LatestIs
  <2>3. Latest(s) \in Int /\ Latest(segs) \in Int /\ Latest(s) <= Latest(segs) /\ Latest(segs) <= Latest(s)
    BY <1>4, <1>8, <2>1, <2>2 DEF Ordinals
  <2> QED BY <2>3
<1>11. Mapped' /\ AllSynced' /\ OnLatest'
  <2>1. Mapped' /\ AllSynced'
    BY <1>1, <1>4, <1>7, <1>8 DEF Mapped, AllSynced, Synced
  <2>2. OnLatest'
    BY <1>1, <1>2, <1>4, <1>5, <1>8, <1>10 DEF OnLatest
  <2> QED BY <2>1, <2>2
<1>12. Covers(segs)'
  <2>1. HeldIn(s) \subseteq HeldIn(segs)
    BY <1>8 DEF HeldIn
  <2>2. ASSUME NEW x \in From(HeldIn(segs), cut)
        PROVE  x \in From(HeldIn(s), cut)
    <3>1. PICK o \in DOMAIN segs : x \in segs[o].ids /\ x > cut
      BY DEF From, HeldIn
    <3>2. o # at
      BY <1>5, <3>1 DEF From
    <3> QED BY <1>8, <3>1, <3>2 DEF From, HeldIn
  <2>3. From(HeldIn(s), cut) = From(HeldIn(segs), cut)
    BY <2>1, <2>2 DEF From
  <2> QED BY <1>1, <1>4, <2>1, <2>3 DEF Covers
<1>13. GaveUp'
  BY <1>1, <1>4, <1>6 DEF GaveUp, From
<1>14. Boundaries(s) = {}
  <2> SUFFICES ASSUME NEW o \in DOMAIN s, ~Expires(s, o) PROVE ~s[o].dirty /\ From(s[o].ids, cut) = s[o].ids
    BY DEF Boundaries
  <2>1. ~Expires(segs, o)
    BY <1>8, <1>10 DEF Expires
  <2>2. o \in DOMAIN segs /\ s[o] = segs[o]
    BY <1>8
  <2> QED BY <1>3, <2>1, <2>2 DEF Boundaries
<1>15. Boundaries(segs)' = {} /\ Expired(segs)' = Expired(s)
  BY <1>1, <1>14 DEF Boundaries, Expired, Expires, From
<1>16. Expired(s) \subseteq DOMAIN s /\ Expired(s) \subseteq Nat /\ at' \in 0..MaxOrdinal
       /\ (step' = "expire" => at' \in Expired(s))
  <2>1. Expired(s) \subseteq DOMAIN s
    BY DEF Expired
  <2>2. DOMAIN s \subseteq Ordinals /\ Ordinals \subseteq Nat /\ Ordinals \subseteq 0..MaxOrdinal
    BY <1>1, <1>9, FilesAssumption DEF SegsTyped, Ordinals
  <2>3. Expired(s) \subseteq Nat /\ Expired(s) \subseteq 0..MaxOrdinal /\ 0 \in 0..MaxOrdinal
    <3>1. Expired(s) \subseteq Ordinals
      BY ONLY <2>1, <2>2
    <3>2. 0 \in 0..MaxOrdinal
      BY FilesAssumption
    <3> QED BY ONLY <2>2, <3>1, <3>2
  <2>4. CASE Expired(s) = {}
    BY <1>1, <2>1, <2>3, <2>4
  <2>5. CASE Expired(s) # {}
    <3>1. Min(Expired(s)) \in Expired(s)
      BY <2>3, <2>5, MinIs
    <3> QED BY <1>1, <2>1, <2>3, <2>5, <3>1
  <2> QED BY <2>4, <2>5
<1>17. step' \in {"expire", "syncExpired"} /\ (step' = "syncExpired" => Expired(s) = {})
  BY <1>1
<1>18. TrimInv'
  BY <1>11, <1>12, <1>13, <1>15, <1>16, <1>17 DEF TrimInv, Trimming, Copying, Replacing
<1>19. step' \in Trimming
  BY <1>17 DEF Trimming
<1> QED BY <1>1, <1>2, <1>3, <1>9, <1>11, <1>12, <1>16, <1>18, <1>19, TrimStep DEF TypeOK

\* The directory is synchronized after the last one.
LEMMA RemovalSyncedKeeps ==
    ASSUME IInv, StorageCall, RemovalSynced
    PROVE  IInv'
<1> USE Parts
<1>1. step = "syncExpired" /\ Done(segs, TRUE)
  BY DEF RemovalSynced
<1>2. segs' = segs
  BY <1>1 DEF Done
<1>3. SyncDir /\ active' = active
  BY <1>1, EffectIs, FileIs
<1>4. step \in Trimming /\ step \notin Replacing /\ Boundaries(segs) = {} /\ Expired(segs) = {}
  BY <1>1 DEF Trimming, Replacing, TrimInv
<1>5. /\ Mapped /\ AllSynced /\ Covers(segs) /\ GaveUp /\ SegsTyped(segs) /\ OnLatest
      /\ status \in {"opening", "open"} /\ writable /\ Live /\ NoLegacy
      /\ \A r \in rootKept : r.dir = "live"
      /\ step # "publish"
  BY <1>4, TrimHas
<1>6. UNCHANGED <<file, entry, root, rootKept>> /\ Quiet'
  BY <1>3 DEF SyncDir, Quiet
<1>7. Mapped' /\ AllSynced' /\ OnLatest' /\ OlderSynced'
  BY <1>2, <1>3, <1>5, <1>6, FilesStay DEF OnLatest, OlderSynced, AllSynced
<1>8. \A o \in DOMAIN segs : ~segs[o].dirty /\ From(segs[o].ids, cut) = segs[o].ids
  BY <1>4 DEF Boundaries, Expired
<1>9. NoneDirty'
  BY <1>2, <1>8 DEF NoneDirty
<1>10. HeldIn(segs) = From(staged, cut)
  <2>1. HeldIn(segs) = From(HeldIn(segs), cut)
    BY <1>8 DEF HeldIn, From
  <2> QED BY <1>5, <2>1 DEF Covers
<1>11. Disk' /\ Lossless /\ Live'
  BY <1>5, Base
<1>12. safe \ dropped \subseteq KeptIn(entry)'
  BY <1>5, <1>6, <1>7, <1>11, StillHeld
<1> QED BY <1>1, <1>5, <1>6, <1>7, <1>9, <1>10, <1>11, <1>12, DoneRests

-----------------------------------------------------------------------------
(***************************************************************************)
(* Close.                                                                  *)
(***************************************************************************)
\* What is on disk is in the files.
LEMMA IdsAreThere ==
    ASSUME DiskType, NEW dir \in entryKept, NEW a
    PROVE  SecuredIn(file, dir, a) \subseteq IdsIn(dir) /\ KeptIn(dir) \subseteq IdsIn(dir)
<1>1. \A n \in Segments(dir) : Part(file, dir[n], a) \subseteq file[dir[n]].ids
      /\ file[dir[n]].kept \subseteq file[dir[n]].ids
  BY DEF DiskType, Part, Segments
<1> QED BY <1>1 DEF SecuredIn, IdsIn, KeptIn

\* What holds while Close is under way.
LEMMA ClosingHas ==
    ASSUME IInv, step \in Closing
    PROVE  status = "closed" /\ Live /\ NoLegacy /\ step \notin RootSteps /\ step # "publish"
           /\ \A r \in rootKept : r.dir = "live"
<1>1. status = "closed"
  BY Parts DEF StatusInv
<1> QED BY <1>1, Parts, NoLegacyNow DEF Closing, RootSteps, RootInv, Rooted

\* The open file is synchronized: all that the records show is on disk.
LEMMA CloseSyncedKeeps ==
    ASSUME IInv, StorageCall, step = "closeSync", FollowingCall
    PROVE  IInv'
<1> USE Parts
<1>1. /\ UNCHANGED <<segs, todo, status, records, staged, cut, safe>> /\ at' = at
      /\ step' = "closeFile"
  BY FollowingIs
<1>2. SyncFile(active) /\ active \in FileIds /\ active' = active
  BY EffectIs, TargetIs, FileIs DEF SyncSteps
<1>3. UNCHANGED <<writable, dropped, legacy, size, lastId, aged, failures, crashes>>
  BY Base
<1>4. status = "closed" /\ Live /\ step \notin RootSteps
  BY ClosingHas DEF Closing
<1>5. Disk' /\ Lossless /\ Live' = Live
  BY <1>4, Base
<1>6. Durable'
  BY <1>1, <1>3, <1>4, <1>5, LosslessKeepsDurable
<1>7. TypeOK'
  BY <1>1, <1>2, <1>3, <1>5, GotoType DEF TypeOK, Steps
<1>8. StatusInv'
  BY <1>1, <1>3, <1>4, <1>5 DEF StatusInv, Securing, Legacying, Clear, Staging, Clearing,
     Building, Trimming, Copying, Replacing, Appending, Rotating, Closing
<1>9. RootInv'
  BY <1>1, <1>4, RootGoes DEF Rooted, Unlinked
<1>10. Promise'
  <2>1. entryKept' = entryKept
    BY <1>2 DEF SyncFile
  <2>2. ASSUME NEW dir \in entryKept
        PROVE  records \ dropped \subseteq KeptIn(dir)'
    <3>1. records \ dropped \subseteq SecuredIn(file, dir, active)
      BY <2>2 DEF Promise
    <3>2. \A n \in Segments(dir) : Part(file, dir[n], active) = file'[dir[n]].kept
      BY <1>2, SyncFileIs DEF Part, TypeOK, Segments
    <3>3. SecuredIn(file, dir, active) = KeptIn(dir)'
      BY <3>2 DEF SecuredIn, KeptIn
    <3> QED BY <3>1, <3>3
  <2>3. ASSUME NEW dir \in entryKept
        PROVE  KeptIn(dir)' \subseteq IdsIn(dir)'
    <3>1. \A n \in Segments(dir) : file'[dir[n]].kept \subseteq file'[dir[n]].ids
      BY <1>5, <2>1 DEF Disk, DiskType, Segments
    <3> QED BY <3>1 DEF KeptIn, IdsIn
  <2> QED BY <1>1, <1>3, <1>4, <2>1, <2>2, <2>3 DEF Promise
<1>11. RestInv'
  <2>1. CASE writable
    <3>1. Mapped /\ NoneDirty /\ OlderSynced /\ Quiet /\ HeldIn(segs) = records
      BY <2>1 DEF RestInv, Closing
    <3>2. Mapped' /\ NoneDirty' /\ Quiet'
      BY <1>1, <1>2, <3>1, SyncFileMaps
    <3>3. OlderSynced'
      BY <1>1, <1>2, <3>1, SyncFileMaps DEF OlderSynced, Mapped
    <3> QED BY <1>1, <1>4, <3>1, <3>2, <3>3 DEF RestInv, Closing, HeldIn
  <2>2. CASE ~writable
    BY <1>1, <1>3, <2>2 DEF RestInv
  <2> QED BY <2>1, <2>2
<1>12. ImportInv' /\ OpenInv' /\ TrimInv' /\ AppendInv'
  BY <1>1, <1>4 DEF ImportInv, OpenInv, TrimInv, AppendInv, Staging, Clearing,
     Building, Trimming, Copying, Replacing, Appending, Rotating
<1> QED BY <1>5, <1>6, <1>7, <1>8, <1>9, <1>10, <1>11, <1>12 DEF IInv, Disk

\* It is closed, and Close reports the records durable.
LEMMA FileClosedKeeps ==
    ASSUME IInv, StorageCall, FileClosed
    PROVE  IInv'
<1> USE Parts
<1>1. /\ step = "closeFile" /\ step' = "idle" /\ safe' = safe \cup records
      /\ UNCHANGED <<at, todo, staged, cut, status, segs, records>>
  BY DEF FileClosed
<1>2. UNCHANGED diskVars /\ active' = NoFile
  BY <1>1, EffectIs, FileIs
<1>3. UNCHANGED <<writable, dropped, legacy, size, lastId, aged, failures, crashes>>
  BY Base
<1>4. status = "closed" /\ Live /\ \A r \in rootKept : r.dir = "live"
  BY <1>1, ClosingHas DEF Closing
<1>5. UNCHANGED <<file, root, rootKept, entry, entryKept>>
  BY <1>2 DEF diskVars
<1>6. Disk' /\ Live' = Live
  BY <1>1, Base
<1>7. TypeOK'
  BY <1>1, <1>2, <1>3, <1>6 DEF TypeOK, Disk, DiskType, Files, Roots, Steps
<1>8. StatusInv'
  BY <1>1, <1>3, <1>4, <1>6 DEF StatusInv, Securing, Legacying, Clear, Staging, Clearing,
     Building, Trimming, Copying, Replacing, Appending, Rotating, Closing
<1>9. RootInv'
  BY <1>1, <1>3, <1>4, <1>5, <1>6 DEF RootInv, RootCore, Rooted, Unlinked
<1>10. Durable' /\ Promise'
  BY <1>1, <1>3, <1>4, <1>5 DEF Durable, Promise, KeptIn, IdsIn
<1>11. RestInv'
  <2>1. CASE writable
    <3>1. Mapped /\ NoneDirty /\ OlderSynced /\ Quiet /\ HeldIn(segs) = records
      BY <1>1, <2>1 DEF RestInv, Closing
    <3>2. Mapped' /\ NoneDirty' /\ OlderSynced' /\ Quiet' /\ HeldIn(segs)' = HeldIn(segs)
      BY <1>1, <1>5, <3>1, FilesStay DEF Quiet
    <3> QED BY <1>1, <1>4, <3>1, <3>2 DEF RestInv
  <2>2. CASE ~writable
    BY <1>1, <1>3, <2>2 DEF RestInv
  <2> QED BY <2>1, <2>2
<1>12. ImportInv' /\ OpenInv' /\ TrimInv' /\ AppendInv'
  BY <1>1, <1>4 DEF ImportInv, OpenInv, TrimInv, AppendInv, Staging, Clearing,
     Building, Trimming, Copying, Replacing, Appending, Rotating
<1> QED BY <1>6, <1>7, <1>8, <1>9, <1>10, <1>11, <1>12 DEF IInv, Disk

\* Every call of every operation.
LEMMA StorageCallKeeps ==
    ASSUME IInv, StorageCall
    PROVE  IInv'
<1>1. CASE FollowingCall
  BY <1>1, FollowingIs, UnlinkLegacyKeeps, RemoveTempKeeps, SyncTempKeeps, StageRemovedKeeps,
     StageKeptKeeps, PublishedKeeps, CopySyncedKeeps, ReclosedKeeps, RotateSyncKeeps,
     RotateCloseKeeps, CloseSyncedKeeps
<1>2. CASE SecureSegment \/ SecureDirectory \/ SecureRoot \/ LegacyRemoved \/ ActiveOpened
  BY <1>2, SecureSegmentKeeps, SecureDirectoryKeeps, SecureRootKeeps, LegacyRemovedKeeps,
     ActiveOpenedKeeps
<1>3. CASE Discard \/ StageMade \/ StageCreated \/ StageWritten \/ StageSynced
  BY <1>3, DiscardKeeps, StageMadeKeeps, StageCreatedKeeps, StageWrittenKeeps, StageSyncedKeeps
<1>4. CASE Rotated \/ Appends \/ AppendSynced \/ RotationSynced \/ CleanupSynced
  BY <1>4, RotatedKeeps, AppendsKeeps, AppendSyncedKeeps, RotationSyncedKeeps, CleanupSyncedKeeps
<1>5. CASE TemporaryMade \/ Copied \/ Renamed \/ Replaced \/ Reopened
  BY <1>5, TemporaryMadeKeeps, CopiedKeeps, RenamedKeeps, ReplacedKeeps, ReopenedKeeps
<1>6. CASE Removed \/ RemovalSynced \/ FileClosed
  BY <1>6, RemovedKeeps, RemovalSyncedKeeps, FileClosedKeeps
<1> QED BY <1>1, <1>2, <1>3, <1>4, <1>5, <1>6 DEF StorageCall, Advance

-----------------------------------------------------------------------------
(***************************************************************************)
(* The operations begin.                                                   *)
(***************************************************************************)
\* An operation begins with retention's decision.
LEMMA Begun ==
    ASSUME NEW first, NEW o, NEW found, Begin(first, o, found), found \subseteq 1..LastId
    PROVE  /\ step' = first /\ at' = o /\ staged' = found /\ cut' \in 0..LastId
           /\ dropped \subseteq dropped' /\ GaveUp'
BY CutIs DEF Begin, GaveUp, From

\* Nothing is lost when more is given up.
LEMMA GivingUpKeeps ==
    ASSUME Durable, Promise, UNCHANGED <<diskVars, safe, records, active>>, dropped \subseteq dropped',
           status' = status \/ status' \in {"importing", "opening"}, step' \notin Closing
    PROVE  Durable' /\ Promise'
BY DEF Durable, Promise, diskVars, Live, KeptIn, IdsIn, SecuredIn, Part, Closing

\* What is said of the disk alone stays so.
LEMMA DiskStays ==
    ASSUME Distinct, DirInv, UNCHANGED <<file, root, rootKept, entry, entryKept, legacy>>
    PROVE  Distinct' /\ DirInv' /\ Live' = Live
<1>1. \A dir \in entryKept : InOrder(dir)' = InOrder(dir) /\ AsImported(dir)' = AsImported(dir)
  BY SameFiles
<1>2. Live' = Live
  BY DEF Live
<1>3. DirInv'
  BY <1>1, <1>2 DEF DirInv
<1>4. Distinct'
  BY DEF Distinct
<1> QED BY <1>2, <1>3, <1>4

\* Open of a root without a live directory.
LEMMA OpenImportsKeeps ==
    ASSUME IInv, OpenImports
    PROVE  IInv'
<1> USE Parts
<1>1. /\ root.dir # "live" /\ UNCHANGED <<diskVars, safe>>
      /\ UNCHANGED <<legacy, size, lastId, aged, failures, crashes>>
      /\ status' = "importing" /\ writable' = TRUE /\ active' = NoFile
      /\ segs' = NoSegments /\ records' = {}
  BY DEF OpenImports, worldVars
<1>2. ~Live /\ root \in rootKept /\ rootKept \subseteq Roots /\ root \in Roots
  BY <1>1 DEF Live, TypeOK
<1>3. (IF root.legacy THEN legacy ELSE {}) = legacy
  BY <1>2 DEF RootInv, RootCore, Live
<1>4. /\ todo' = From(legacy, Cut(legacy))
      /\ \/ Begin("makeStage", 0, legacy)
         \/ Begin("removeStage", 0, legacy)
         \/ Segments(entry) # {} /\ Begin("discard", Min(Segments(entry)), legacy)
  BY <1>1, <1>2, <1>3 DEF OpenImports, Roots
<1>5. legacy \subseteq 1..LastId
  BY RetentionAssumption DEF TypeOK
<1>6. /\ staged' = legacy /\ cut' \in 0..LastId /\ cut' = Cut(legacy) /\ GaveUp'
      /\ step' \in {"makeStage", "removeStage", "discard"} /\ at' \in 0..MaxOrdinal
  <2>1. Segments(entry) \subseteq Nat /\ Segments(entry) \subseteq 0..MaxOrdinal /\ 0 \in 0..MaxOrdinal
    BY FilesAssumption DEF TypeOK, Segments
  <2>2. Segments(entry) # {} => Min(Segments(entry)) \in 0..MaxOrdinal
    BY <2>1, MinIs
  <2> QED BY <1>4, <1>5, <2>1, <2>2, Begun DEF Begin
<1>7. UNCHANGED <<file, root, rootKept, entry, entryKept>>
  BY <1>1 DEF diskVars
<1>8. TypeOK'
  <2>1. todo' \subseteq 1..lastId
    BY <1>4 DEF From, TypeOK
  <2>2. segs' = [o \in DOMAIN segs' |-> segs'[o]] /\ DOMAIN segs' = {}
    BY <1>1 DEF NoSegments
  <2> QED BY <1>1, <1>6, <1>7, <2>1, <2>2 DEF TypeOK, Files, Roots, Steps
<1>9. StatusInv'
  BY <1>1, <1>2, <1>6, <1>7 DEF StatusInv, Live, Securing, Legacying, Clear, Staging, Clearing,
     Building, Trimming, Copying, Replacing, Appending, Rotating, Closing
<1>10. RootInv'
  BY <1>1, <1>6, <1>7 DEF RootInv, RootCore, Live, Rooted, Unlinked, Legacying, Clear, Trimming,
     Copying, Replacing
<1>11. Distinct' /\ DirInv' /\ Durable' /\ Promise'
  BY <1>1, <1>2, <1>6, <1>7 DEF Distinct, DirInv, Durable, Live, Promise
<1>12. ImportInv'
  BY <1>1, <1>4, <1>6 DEF ImportInv, Staging, Clearing, Building, From
<1>13. OpenInv' /\ TrimInv' /\ AppendInv' /\ RestInv'
  BY <1>1, <1>6 DEF OpenInv, TrimInv, AppendInv, RestInv, Trimming, Copying, Replacing,
     Appending, Rotating, Closing
<1> QED BY <1>8, <1>9, <1>10, <1>11, <1>12, <1>13 DEF IInv

\* Open of a root with one.
LEMMA OpenLiveKeeps ==
    ASSUME IInv, OpenLive
    PROVE  IInv'
<1> USE Parts
<1>1. /\ Live /\ UNCHANGED <<diskVars, safe>>
      /\ UNCHANGED <<legacy, size, lastId, aged, failures, crashes>>
      /\ Segments(entry) # {} /\ Begin("secure", Min(Segments(entry)), IdsIn(entry)) /\ todo' = {}
      /\ status' = "opening" /\ writable' = TRUE /\ active' = NoFile
      /\ segs' = Loaded /\ records' = {}
  BY DEF OpenLive, worldVars, Live, AcceptsLive
<1>2. Segments(entry) \subseteq Nat /\ Segments(entry) \subseteq Ordinals
      /\ Ordinals \subseteq 0..MaxOrdinal
      /\ \A n \in Segments(entry) : entry[n] \in FileIds /\ file[entry[n]] \in Files
  BY FilesAssumption DEF TypeOK, Segments, Ordinals, Temp
<1>3. IdsIn(entry) \subseteq 1..lastId /\ IdsIn(entry) \subseteq 1..LastId
  <2>1. IdsIn(entry) \subseteq 1..lastId
    BY <1>2 DEF IdsIn, Files
  <2> QED BY <2>1, RetentionAssumption DEF TypeOK
<1>4. Min(Segments(entry)) \in Segments(entry) /\ \A n \in Segments(entry) : Min(Segments(entry)) <= n
  BY <1>1, <1>2, MinIs
<1>5. /\ staged' = IdsIn(entry) /\ cut' \in 0..LastId /\ GaveUp' /\ dropped \subseteq dropped'
      /\ step' = "secure" /\ at' = Min(Segments(entry)) /\ at' \in 0..MaxOrdinal
      /\ at' \in Segments(entry)
  BY <1>1, <1>2, <1>3, <1>4, Begun
<1>6. UNCHANGED <<file, root, rootKept, entry, entryKept>>
  BY <1>1 DEF diskVars
<1>7. /\ DOMAIN segs' = Segments(entry) /\ segs' = [o \in DOMAIN segs' |-> segs'[o]]
      /\ \A o \in Segments(entry) : /\ segs'[o].ids = file[entry[o]].ids
                                    /\ segs'[o].dirty = (file[entry[o]].tail # "whole")
                                    /\ segs'[o] \in [ids : SUBSET (1..lastId), dirty : BOOLEAN]
  BY <1>1, <1>2 DEF Loaded, Files
<1>8. Mapped'
  BY <1>6, <1>7 DEF Mapped
<1>9. HeldIn(segs)' = IdsIn(entry)
  BY <1>7 DEF HeldIn, IdsIn
<1>10. TypeOK'
  BY <1>1, <1>2, <1>3, <1>5, <1>6, <1>7 DEF TypeOK, Files, Roots, Steps
<1>11. StatusInv'
  BY <1>1, <1>5, <1>6 DEF StatusInv, Live, Securing, Legacying, Clear, Staging, Clearing,
     Building, Trimming, Copying, Replacing, Appending, Rotating, Closing
<1>12. RootInv'
  BY <1>1, <1>5, <1>6 DEF RootInv, RootCore, Live, Rooted, Unlinked, Legacying, Clear, Trimming,
     Copying, Replacing
<1>13. Distinct' /\ DirInv'
  BY <1>1, <1>6, DiskStays
<1>14. Durable'
  BY <1>1, <1>5, <1>6 DEF Durable, Live, KeptIn
<1>15. Promise'
  BY <1>1, <1>5 DEF Promise
<1>16. OpenInv'
  <2>1. Covers(segs)'
    BY <1>5, <1>9 DEF Covers
  <2>2. \A o \in DOMAIN segs' : ~(o < at')
    BY <1>2, <1>4, <1>5, <1>7
  <2> QED BY <1>5, <1>7, <1>8, <2>1, <2>2 DEF OpenInv, Legacying
<1>17. ImportInv' /\ TrimInv' /\ AppendInv' /\ RestInv'
  BY <1>1, <1>5 DEF ImportInv, TrimInv, AppendInv, RestInv, Staging, Clearing, Building, Trimming,
     Copying, Replacing, Appending, Rotating, Closing
<1> QED BY <1>10, <1>11, <1>12, <1>13, <1>14, <1>15, <1>16, <1>17 DEF IInv

\* What holds of an open recorder between operations.
LEMMA RestHas ==
    ASSUME IInv, status = "open", Idle
    PROVE  /\ Live /\ \A r \in rootKept : r.dir = "live" /\ ~r.legacy
           /\ writable => /\ Mapped /\ NoneDirty /\ OlderSynced /\ Quiet /\ HeldIn(segs) = records
                          /\ OnLatest /\ DOMAIN segs = Segments(entry) /\ entry \in entryKept
                          /\ Latest(segs) \in DOMAIN segs /\ active \in FileIds
                          /\ \A o \in DOMAIN segs : o <= Latest(segs) /\ o \in Ordinals
<1> USE Parts
<1>1. Live /\ \A r \in rootKept : r.dir = "live" /\ ~r.legacy
  BY DEF StatusInv, RootInv, Rooted, Unlinked
<1>2. ASSUME writable
      PROVE  /\ Mapped /\ NoneDirty /\ OlderSynced /\ Quiet /\ HeldIn(segs) = records
             /\ OnLatest
  BY <1>2 DEF RestInv, Idle
<1>3. ASSUME writable
      PROVE  /\ DOMAIN segs = Segments(entry) /\ entry \in entryKept
             /\ Latest(segs) \in DOMAIN segs /\ active \in FileIds
             /\ \A o \in DOMAIN segs : o <= Latest(segs) /\ o \in Ordinals
  BY <1>1, <1>2, <1>3, LatestThere DEF Mapped, OnLatest, TypeOK
<1> QED BY <1>1, <1>2, <1>3

\* record.
LEMMA RecordKeeps ==
    ASSUME IInv, Record
    PROVE  IInv'
<1> USE Parts
<1>1. /\ status = "open" /\ Idle /\ writable /\ lastId < LastId
      /\ lastId' = lastId + 1
      /\ UNCHANGED <<diskVars, active, status, writable, segs, records, todo, safe,
                     legacy, size, aged, failures, crashes>>
      /\ \/ /\ Latest(segs) + 1 \in Ordinals
            /\ Begin("rotateSync", Latest(segs) + 1, records \cup {lastId + 1})
         \/ Begin("append", 0, records \cup {lastId + 1})
  BY DEF Record
<1>2. lastId \in Nat /\ lastId' \in 1..LastId /\ 1..lastId \subseteq 1..lastId' /\ lastId' \in 1..lastId'
      /\ lastId' \in 0..LastId /\ lastId' \notin 1..lastId
  BY <1>1, RetentionAssumption DEF TypeOK
<1>3. records \cup {lastId + 1} \subseteq 1..LastId
  BY <1>1, <1>2, RetentionAssumption DEF TypeOK
<1>4. /\ staged' = records \cup {lastId'} /\ cut' \in 0..LastId /\ GaveUp' /\ dropped \subseteq dropped'
      /\ \/ step' = "rotateSync" /\ at' = Latest(segs) + 1 /\ at' \in Ordinals
         \/ step' = "append" /\ at' = 0
  BY <1>1, <1>3, Begun
<1>5. UNCHANGED <<file, root, rootKept, entry, entryKept>>
  BY <1>1 DEF diskVars
<1>6. /\ Live /\ (\A r \in rootKept : r.dir = "live" /\ ~r.legacy)
      /\ Mapped /\ NoneDirty /\ OlderSynced /\ Quiet /\ HeldIn(segs) = records
      /\ OnLatest /\ DOMAIN segs = Segments(entry) /\ entry \in entryKept
      /\ Latest(segs) \in DOMAIN segs /\ \A o \in DOMAIN segs : o <= Latest(segs) /\ o \in Ordinals
  BY <1>1, RestHas
<1>7. Files \subseteq Files'
  <2>1. SUBSET (1..lastId) \subseteq SUBSET (1..lastId')
    BY <1>2
  <2> QED BY <2>1 DEF Files
<1>8. TypeOK'
  <2>1. at' \in 0..MaxOrdinal /\ step' \in Steps
    BY <1>4, FilesAssumption DEF Ordinals, Steps
  <2>2. \A o \in DOMAIN segs : segs[o] \in [ids : SUBSET (1..lastId'), dirty : BOOLEAN]
    BY <1>2 DEF TypeOK
  <2>3. file' \in [FileIds -> Files']
    BY <1>5, <1>7 DEF TypeOK
  <2>4. staged' \subseteq 1..lastId' /\ records \subseteq 1..lastId' /\ todo \subseteq 1..lastId'
        /\ legacy \subseteq 1..lastId'
    BY <1>2, <1>4 DEF TypeOK
  <2> QED BY <1>1, <1>2, <1>4, <1>5, <2>1, <2>2, <2>3, <2>4 DEF TypeOK, Roots
<1>9. StatusInv'
  BY <1>1, <1>4, <1>5, <1>6 DEF StatusInv, Live, Securing, Legacying, Clear, Staging, Clearing,
     Building, Trimming, Copying, Replacing, Appending, Rotating, Closing
<1>10. RootInv'
  BY <1>1, <1>4, <1>5 DEF RootInv, RootCore, Live, Rooted, Unlinked
<1>11. Distinct' /\ DirInv'
  BY <1>1, <1>5, DiskStays
<1>12. Durable' /\ Promise'
  BY <1>1, <1>4, GivingUpKeeps DEF Closing
<1>13. AppendInv'
  <2>1. Mapped' /\ NoneDirty' /\ OlderSynced' /\ HeldIn(segs)' = records' /\ Quiet' /\ OnLatest'
    BY <1>1, <1>5, <1>6, FilesStay DEF Quiet, OnLatest
  <2>2. \A dir \in entryKept' : lastId' \notin IdsIn(dir)'
    <3>1. \A n \in Segments(entry) : file[entry[n]].ids \subseteq 1..lastId
      BY <1>6 DEF TypeOK, Files, Segments
    <3>2. lastId' \notin IdsIn(entry)
      BY <1>2, <3>1 DEF IdsIn
    <3> QED BY <1>5, <1>6, <3>2 DEF Quiet, IdsIn
  <2>3. \A dir \in entryKept' : \A n \in Segments(dir) :
           dir[n] = active' => \A m \in Segments(dir) : m <= n
    <3>1. \A n \in Segments(entry) : entry[n] = active => n = Latest(segs)
      BY <1>6 DEF OnLatest, Distinct, Segments
    <3> QED BY <1>1, <1>5, <1>6, <3>1 DEF Quiet
  <2> QED BY <1>1, <1>4, <2>1, <2>2, <2>3 DEF AppendInv, Appending, Rotating
<1>14. ImportInv' /\ OpenInv' /\ TrimInv' /\ RestInv'
  BY <1>1, <1>4 DEF ImportInv, OpenInv, TrimInv, RestInv, Staging, Clearing, Building, Trimming,
     Copying, Replacing, Closing
<1> QED BY <1>8, <1>9, <1>10, <1>11, <1>12, <1>13, <1>14 DEF IInv

\* Cleanup.
LEMMA CleanupKeeps ==
    ASSUME IInv, Cleanup
    PROVE  IInv'
<1> USE Parts
<1>1. /\ status = "open" /\ Idle /\ writable
      /\ UNCHANGED <<diskVars, active, status, writable, segs, records, todo, safe,
                     legacy, size, lastId, aged, failures, crashes>>
      /\ Begin("cleanupSync", 0, records)
  BY DEF Cleanup, worldVars
<1>2. records \subseteq 1..LastId
  BY RetentionAssumption DEF TypeOK
<1>3. /\ staged' = records /\ cut' \in 0..LastId /\ GaveUp' /\ dropped \subseteq dropped'
      /\ step' = "cleanupSync" /\ at' = 0
  BY <1>1, <1>2, Begun
<1>4. UNCHANGED <<file, root, rootKept, entry, entryKept>>
  BY <1>1 DEF diskVars
<1>5. /\ Live /\ (\A r \in rootKept : r.dir = "live" /\ ~r.legacy)
      /\ Mapped /\ NoneDirty /\ OlderSynced /\ Quiet /\ HeldIn(segs) = records /\ OnLatest
  BY <1>1, RestHas
<1>6. TypeOK'
  BY <1>1, <1>3, <1>4, FilesAssumption DEF TypeOK, Files, Roots, Steps
<1>7. StatusInv'
  BY <1>1, <1>3, <1>4, <1>5 DEF StatusInv, Live, Securing, Legacying, Clear, Staging, Clearing,
     Building, Trimming, Copying, Replacing, Appending, Rotating, Closing
<1>8. RootInv'
  BY <1>1, <1>3, <1>4 DEF RootInv, RootCore, Live, Rooted, Unlinked
<1>9. Distinct' /\ DirInv'
  BY <1>1, <1>4, DiskStays
<1>10. Durable' /\ Promise'
  BY <1>1, <1>3, GivingUpKeeps DEF Closing
<1>11. RestInv'
  <2>1. Mapped' /\ NoneDirty' /\ OlderSynced' /\ HeldIn(segs)' = records' /\ Quiet' /\ OnLatest'
    BY <1>1, <1>4, <1>5, FilesStay DEF Quiet, OnLatest
  <2> QED BY <1>1, <1>3, <2>1 DEF RestInv, Closing
<1>12. ImportInv' /\ OpenInv' /\ TrimInv' /\ AppendInv'
  BY <1>1, <1>3 DEF ImportInv, OpenInv, TrimInv, AppendInv, Staging, Clearing, Building, Trimming,
     Copying, Replacing, Appending, Rotating
<1> QED BY <1>6, <1>7, <1>8, <1>9, <1>10, <1>11, <1>12 DEF IInv

\* Close.
LEMMA CloseKeeps ==
    ASSUME IInv, Close
    PROVE  IInv'
<1> USE Parts
<1>1. /\ status = "open" /\ Idle /\ active # NoFile /\ status' = "closed" /\ step' = "closeSync"
      /\ UNCHANGED <<diskVars, active, writable, segs, records, at, todo, staged, cut,
                     dropped, safe, legacy, size, lastId, aged, failures, crashes>>
  BY DEF Close, worldVars
<1>2. UNCHANGED <<file, root, rootKept, entry, entryKept>>
  BY <1>1 DEF diskVars
<1>3. Live /\ \A r \in rootKept : r.dir = "live" /\ ~r.legacy
  BY <1>1, RestHas
<1>4. TypeOK'
  BY <1>1, <1>2 DEF TypeOK, Files, Roots, Steps
<1>5. StatusInv'
  BY <1>1, <1>2, <1>3 DEF StatusInv, Live, Securing, Legacying, Clear, Staging, Clearing,
     Building, Trimming, Copying, Replacing, Appending, Rotating, Closing
<1>6. RootInv'
  BY <1>1, <1>2, <1>3 DEF RootInv, RootCore, Live, Rooted, Unlinked
<1>7. Distinct' /\ DirInv' /\ Durable'
  <2>1. Durable'
    BY <1>1, <1>2 DEF Durable, Live, KeptIn
  <2> QED BY <1>1, <1>2, <2>1, DiskStays
<1>8. Promise'
  <2>1. \A dir \in entryKept : records \ dropped \subseteq SecuredIn(file, dir, active)
                               /\ records \ dropped \subseteq IdsIn(dir)
    BY <1>1, IdsAreThere DEF Promise
  <2> QED BY <1>1, <1>2, <2>1 DEF Promise, IdsIn
<1>9. RestInv'
  <2>1. CASE writable
    <3>1. Mapped /\ NoneDirty /\ OlderSynced /\ Quiet /\ HeldIn(segs) = records /\ OnLatest
      BY <1>1, <2>1, RestHas
    <3>2. Mapped' /\ NoneDirty' /\ OlderSynced' /\ HeldIn(segs)' = records' /\ Quiet' /\ OnLatest'
      BY <1>1, <1>2, <3>1, FilesStay DEF Quiet, OnLatest
    <3> QED BY <1>1, <3>2 DEF RestInv, Closing
  <2>2. CASE ~writable
    BY <1>1, <2>2 DEF RestInv
  <2> QED BY <2>1, <2>2
<1>10. ImportInv' /\ OpenInv' /\ TrimInv' /\ AppendInv'
  BY <1>1 DEF ImportInv, OpenInv, TrimInv, AppendInv, Staging, Clearing, Building, Trimming,
     Copying, Replacing, Appending, Rotating
<1> QED BY <1>4, <1>5, <1>6, <1>7, <1>8, <1>9, <1>10 DEF IInv

\* Close of a recorder whose file was given up.
LEMMA CloseWithoutFileKeeps ==
    ASSUME IInv, CloseWithoutFile
    PROVE  IInv'
<1> USE Parts
<1>1. /\ status = "open" /\ Idle /\ active = NoFile /\ status' = "closed"
      /\ safe' = safe \cup records
      /\ UNCHANGED <<diskVars, active, writable, segs, records, step, at, todo, staged, cut,
                     dropped, legacy, size, lastId, aged, failures, crashes>>
  BY DEF CloseWithoutFile, worldVars, opVars
<1>2. UNCHANGED <<file, root, rootKept, entry, entryKept>> /\ step' = "idle"
  BY <1>1 DEF diskVars, Idle
<1>3. (Live /\ \A r \in rootKept : r.dir = "live" /\ ~r.legacy) /\ ~writable
  BY <1>1, RestHas, FilesAssumption
<1>4. TypeOK'
  BY <1>1, <1>2 DEF TypeOK, Files, Roots, Steps
<1>5. StatusInv'
  BY <1>1, <1>2, <1>3 DEF StatusInv, Live, Securing, Legacying, Clear, Staging, Clearing,
     Building, Trimming, Copying, Replacing, Appending, Rotating, Closing
<1>6. RootInv'
  BY <1>1, <1>2, <1>3 DEF RootInv, RootCore, Live, Rooted, Unlinked
<1>7. Distinct' /\ DirInv'
  BY <1>1, <1>2, DiskStays
<1>8. Durable' /\ Promise'
  <2>1. ASSUME NEW dir \in entryKept
        PROVE  records \ dropped \subseteq KeptIn(dir) /\ KeptIn(dir) \subseteq IdsIn(dir)
    <3>1. records \ dropped \subseteq SecuredIn(file, dir, NoFile)
      BY <1>1, <2>1 DEF Promise
    <3>2. \A n \in Segments(dir) : dir[n] \in FileIds
      BY <2>1 DEF TypeOK, Segments
    <3>3. SecuredIn(file, dir, NoFile) = KeptIn(dir)
      BY <3>2, KeptIsSecured DEF KeptIn
    <3> QED BY <2>1, <3>1, <3>3, IdsAreThere
  <2> QED BY <1>1, <1>2, <2>1 DEF Durable, Promise, Live, KeptIn, IdsIn
<1>9. ImportInv' /\ OpenInv' /\ TrimInv' /\ AppendInv' /\ RestInv'
  BY <1>1, <1>2, <1>3 DEF ImportInv, OpenInv, TrimInv, AppendInv, RestInv, Staging, Clearing,
     Building, Trimming, Copying, Replacing, Appending, Rotating
<1> QED BY <1>4, <1>5, <1>6, <1>7, <1>8, <1>9 DEF IInv

-----------------------------------------------------------------------------
(***************************************************************************)
(* A storage call fails, before its effect, after it or with a part of it. *)
(***************************************************************************)
\* The disk after a failed call.
LEMMA FailureKeepsDisk ==
    ASSUME IInv, ~Idle, FailedEffect, UNCHANGED <<lastId, legacy, safe, dropped>>
    PROVE  Disk' /\ Durable' /\ (Live => Lossless /\ Live')
<1> USE Parts
<1>1. CASE UNCHANGED diskVars
  <2>1. UNCHANGED <<file, root, rootKept, entry, entryKept>> /\ Live' = Live
    BY <1>1 DEF diskVars, Live
  <2>2. Disk' /\ Lossless
    BY <2>1, RootStepKeeps DEF DiskType
  <2>3. CASE Live
    BY <2>1, <2>2, <2>3, LosslessKeepsDurable
  <2>4. CASE ~Live
    BY <2>1, <2>2, <2>4 DEF Durable
  <2> QED BY <2>1, <2>2, <2>3, <2>4
<1>2. CASE Effect /\ step = "publish"
  <2>1. PublishStage
    BY <1>2 DEF Effect, WriteSteps
  <2>2. ~Live
    BY <1>2 DEF StatusInv, Staging
  <2> QED BY <1>2, <2>1, <2>2, PublishKeeps
<1>3. CASE Effect /\ step # "publish"
  <2>1. Disk' /\ (Live => Lossless) /\ Live' = Live
    BY <1>3, EffectKeepsDisk
  <2>2. CASE Live
    BY <2>1, <2>2, LosslessKeepsDurable
  <2>3. CASE ~Live
    BY <2>1, <2>3 DEF Durable
  <2> QED BY <2>1, <2>2, <2>3
<1>4. CASE step \in WriteSteps /\ WritePart(Target)
  <2>1. Target \in FileIds
    BY <1>4, TargetIs
  <2>2. Live => NoLegacy
    <3>1. CASE step = "append"
      BY <3>1, NoLegacyNow DEF StatusInv, Appending
    <3>2. CASE step = "copy"
      BY <3>2, NoLegacyNow DEF Trimming, Copying
    <3>3. CASE step = "stageWrite"
      BY <3>3 DEF StatusInv, Staging, Building
    <3> QED BY <1>4, <3>1, <3>2, <3>3 DEF WriteSteps
  <2>3. Disk' /\ Lossless
    BY <1>4, <2>1, <2>2, WritePartKeeps
  <2>4. Live' = Live
    BY <1>4 DEF WritePart, Live
  <2>5. CASE Live
    BY <2>3, <2>4, <2>5, LosslessKeepsDurable
  <2>6. CASE ~Live
    BY <2>3, <2>4, <2>6 DEF Durable
  <2> QED BY <2>3, <2>4, <2>5, <2>6
<1> QED BY <1>1, <1>2, <1>3, <1>4 DEF FailedEffect

\* The root after a failed call.
LEMMA FailureKeepsRoot ==
    ASSUME IInv, ~Idle, FailedEffect, UNCHANGED <<legacy, safe>>
    PROVE  RootCore' /\ (step \notin RootSteps => UNCHANGED <<root, rootKept>>)
<1> USE Parts
<1>1. CASE UNCHANGED <<root, rootKept>>
  BY <1>1 DEF RootInv, RootCore, Live
<1>2. CASE Effect /\ step \notin RootSteps
  BY <1>1, <1>2, RootAlone
<1>3. root \in rootKept /\ rootKept \subseteq Roots
  BY DEF TypeOK
<1>4. CASE Effect /\ step \in {"secureRoot", "syncDiscard", "syncPublish", "syncLegacy"}
  <2>1. root' = root /\ rootKept' = {root}
    BY <1>4 DEF Effect, WriteSteps, SyncRoot
  <2> QED BY <1>3, <1>4, <2>1 DEF RootInv, RootCore, Live, RootSteps
<1>5. CASE Effect /\ step = "unlinkLegacy"
  <2>1. root' = [root EXCEPT !.legacy = FALSE] /\ rootKept' = rootKept \cup {root'}
    BY <1>5 DEF Effect, WriteSteps, RemoveLegacy, SetRoot
  <2>2. \A r \in rootKept : r.dir = "live"
    BY <1>5 DEF RootInv, Rooted, Legacying
  <2>3. root'.dir = "live"
    BY <1>3, <2>1, <2>2 DEF Roots
  <2>4. \A r \in rootKept' : r.dir = "live"
    BY <2>1, <2>2, <2>3
  <2> QED BY <1>5, <2>3, <2>4 DEF RootCore, Live, RootSteps
<1>6. CASE Effect /\ step \in {"makeStage", "removeStage", "publish"}
  <2>1. rootKept' = rootKept \cup {root'} /\ root'.legacy = root.legacy
    BY <1>3, <1>6 DEF Effect, WriteSteps, MakeStage, RemoveStage, PublishStage, SetRoot, Roots
  <2>2. step # "publish" => root'.dir # "live"
    BY <1>3, <1>6 DEF Effect, WriteSteps, MakeStage, RemoveStage, SetRoot, Roots
  <2>3. step = "publish" => root'.dir = "live"
    BY <1>3, <1>6 DEF Effect, WriteSteps, PublishStage, SetRoot, Roots
  <2>4. ~Live
    BY <1>6 DEF StatusInv, Staging, Clearing
  <2>5. root.dir # "live" /\ (root.legacy \/ legacy = {}) /\ safe \subseteq legacy
        /\ \A r \in rootKept : r.dir # "live" /\ (r.legacy \/ legacy = {})
    BY <1>3, <2>4 DEF RootInv, RootCore, Live
  <2>6. RootCore'
    BY <1>6, <2>1, <2>2, <2>3, <2>5 DEF RootCore, Live
  <2> QED BY <1>6, <2>6 DEF RootSteps
<1>7. CASE step \in WriteSteps /\ WritePart(Target)
  BY <1>1, <1>7 DEF WritePart
<1> QED BY <1>1, <1>2, <1>4, <1>5, <1>6, <1>7 DEF FailedEffect, RootSteps, diskVars

\* Recorder.fail: the recorder writes no more, so nothing is asked of its segments.
LEMMA StorageFailsKeeps ==
    ASSUME IInv, StorageFails
    PROVE  IInv'
<1> USE Parts
<1>1. /\ ~Idle /\ FailedEffect /\ writable' = FALSE
      /\ step' = "idle" /\ at' = 0 /\ todo' = {} /\ staged' = {} /\ cut' = 0
      /\ UNCHANGED <<dropped, safe, legacy, size, lastId, aged, crashes>>
  BY DEF StorageFails
<1>2. status \in {"importing", "opening"} =>
        status' = "down" /\ segs' = NoSegments /\ records' = {} /\ active' = NoFile
  BY DEF StorageFails
<1>3. status \notin {"importing", "opening"} =>
        /\ UNCHANGED <<status, segs, records>>
        /\ step \in {"rotateClose", "reclose", "closeSync", "closeFile"} => active' = NoFile
        /\ step \notin {"rotateClose", "reclose", "closeSync", "closeFile"} => active' = active
  BY DEF StorageFails
<1>4. Disk' /\ Durable' /\ (Live => Lossless /\ Live')
  BY <1>1, FailureKeepsDisk
<1>5. RootCore' /\ (step \notin RootSteps => UNCHANGED <<root, rootKept>>)
  BY <1>1, FailureKeepsRoot
<1>6. /\ status \in {"importing", "opening", "open", "closed"}
      /\ status = "open" => step \notin RootSteps \cup Closing
      /\ status = "closed" => step \in Closing /\ step \notin RootSteps
      /\ status \in {"open", "closed"} => Live
  BY <1>1 DEF Idle, StatusInv, TypeOK, Steps, RootSteps, Staging, Clearing, Building, Securing, Legacying, Clear,
     Trimming, Copying, Replacing, Appending, Rotating, Closing
<1>7. TypeOK'
  <2>1. 0 \in 0..MaxOrdinal /\ 0 \in 0..LastId
    BY FilesAssumption, RetentionAssumption
  <2>2. /\ active' \in FileIds \cup {NoFile}
        /\ status' \in {"down", "importing", "opening", "open", "closed"}
        /\ records' \subseteq 1..lastId
    <3>1. CASE status \in {"importing", "opening"}
      BY <1>2, <3>1
    <3>2. CASE status \notin {"importing", "opening"}
      BY <1>3, <3>2 DEF TypeOK
    <3> QED BY <3>1, <3>2
  <2>3. SegsTyped(segs)'
    <3>1. CASE status \in {"importing", "opening"}
      <4>1. segs' = [o \in DOMAIN segs' |-> segs'[o]] /\ DOMAIN segs' = {}
        BY <1>2, <3>1 DEF NoSegments
      <4> QED BY <4>1 DEF SegsTyped
    <3>2. CASE status \notin {"importing", "opening"}
      BY <1>1, <1>3, <3>2 DEF TypeOK, SegsTyped
    <3> QED BY <3>1, <3>2
  <2> QED BY <1>1, <1>4, <2>1, <2>2, <2>3 DEF TypeOK, Disk, DiskType, Files, Roots, Steps, SegsTyped
<1>8. StatusInv'
  BY <1>1, <1>2, <1>3, <1>4, <1>6 DEF StatusInv, Staging, Clearing, Building, Securing, Legacying,
     Clear, Trimming, Copying, Replacing, Appending, Rotating, Closing
<1>9. RootInv'
  <2>1. CASE status \in {"importing", "opening"}
    BY <1>1, <1>2, <1>5, <2>1 DEF RootInv, Rooted, Unlinked, Legacying, Clear, Trimming, Copying, Replacing
  <2>2. CASE status \in {"open", "closed"}
    <3>1. UNCHANGED <<root, rootKept>>
      BY <1>5, <1>6, <2>2
    <3> QED BY <1>1, <1>5, <2>2, <3>1 DEF RootInv, Rooted, Unlinked
  <2> QED BY <1>6, <2>1, <2>2
<1>10. Promise'
  <2>1. CASE status \in {"importing", "opening"}
    BY <1>1, <1>2, <2>1 DEF Promise
  <2>2. CASE status = "open" /\ step \notin {"rotateClose", "reclose"}
    <3>1. active' = active
      BY <1>3, <1>6, <2>2 DEF Closing
    <3> QED BY <1>1, <1>3, <1>4, <1>6, <2>2, <3>1, PromiseKeeps DEF Closing
  <2>3. CASE status = "open" /\ step \in {"rotateClose", "reclose"}
    <3>1. active' = NoFile
      BY <1>3, <2>3
    <3>2. Mapped /\ AllSynced /\ Quiet
      BY <2>3 DEF AppendInv, Appending, Rotating, TrimInv, Trimming, Replacing
    <3> QED BY <1>1, <1>3, <1>4, <1>6, <2>3, <3>1, <3>2, PromiseAnyFile DEF Closing
  <2>4. CASE status = "closed"
    <3>1. step \in Closing
      BY <1>6, <2>4
    <3>2. entryKept' = entryKept /\ \A dir \in entryKept : IdsIn(dir)' = IdsIn(dir)
      <4>1. CASE UNCHANGED diskVars
        BY <4>1 DEF diskVars, IdsIn
      <4>2. CASE Effect /\ step = "closeFile"
        BY <4>1, <4>2 DEF Effect, WriteSteps
      <4>3. CASE Effect /\ step = "closeSync"
        <5>1. SyncFile(Target) /\ Target \in FileIds
          BY <4>3, TargetIs DEF Effect, WriteSteps, SyncSteps
        <5>2. /\ \A j \in FileIds : file'[j].ids = file[j].ids
              /\ UNCHANGED <<root, rootKept, entry, entryKept>>
          BY <5>1, SyncFileIs
        <5>3. \A dir \in entryKept : \A o \in Segments(dir) : dir[o] \in FileIds
          BY DEF TypeOK, Segments
        <5> QED BY <5>2, <5>3 DEF IdsIn
      <4> QED BY <1>1, <3>1, <4>1, <4>2, <4>3 DEF FailedEffect, Closing, WriteSteps
    <3>3. \A dir \in entryKept : records \ dropped \subseteq IdsIn(dir)
      BY <2>4 DEF Promise
    <3>4. status' = "closed" /\ records' = records /\ dropped' = dropped
      BY <1>1, <1>3, <2>4
    <3>5. \A dir \in entryKept' : records' \ dropped' \subseteq IdsIn(dir)'
      BY <3>2, <3>3, <3>4
    <3> QED BY <1>1, <3>4, <3>5 DEF Promise
  <2> QED BY <1>6, <2>1, <2>2, <2>3, <2>4
<1>11. ImportInv' /\ OpenInv' /\ TrimInv' /\ AppendInv' /\ RestInv'
  BY <1>1, <1>2, <1>3, <1>6 DEF ImportInv, OpenInv, TrimInv, AppendInv, RestInv, Staging, Clearing,
     Building, Trimming, Copying, Replacing, Appending, Rotating, Closing
<1> QED BY <1>4, <1>7, <1>8, <1>9, <1>10, <1>11 DEF IInv, Disk

\* Events grow old.
LEMMA AgeKeeps ==
    ASSUME IInv, Age
    PROVE  IInv'
<1> USE Parts
<1>1. /\ Idle
      /\ UNCHANGED <<file, root, rootKept, entry, entryKept, active, status, writable, segs, records,
                     step, at, todo, staged, cut, dropped, safe, legacy, size, lastId>>
  BY DEF Age, diskVars, opVars
<1>2. TypeOK'
  BY <1>1 DEF TypeOK, Files, Roots
<1>3. StatusInv'
  BY <1>1 DEF StatusInv, Live
<1>4. RootInv'
  BY <1>1 DEF RootInv, RootCore, Rooted, Unlinked, Live
<1>5. Distinct' /\ DirInv'
  BY <1>1, DiskStays
<1>6. Durable' /\ Promise'
  BY <1>1 DEF Durable, Promise, Live, KeptIn, IdsIn, SecuredIn, Part
<1>7. RestInv'
  BY <1>1, FilesStay DEF RestInv, Quiet, OnLatest, Idle
<1>8. ImportInv' /\ OpenInv' /\ TrimInv' /\ AppendInv'
  <2>1. step' = "idle" /\ status \notin {"importing", "opening"}
    BY <1>1 DEF Idle, StatusInv
  <2> QED BY <1>1, <2>1 DEF ImportInv, OpenInv, TrimInv, AppendInv, Staging, Clearing, Building,
             Trimming, Copying, Replacing, Appending, Rotating
<1> QED BY <1>2, <1>3, <1>4, <1>5, <1>6, <1>7, <1>8 DEF IInv

-----------------------------------------------------------------------------
(***************************************************************************)
(* The process ends, the machine loses power: what is left is on disk.     *)
(***************************************************************************)
\* A recorder that ended leaves nothing but the disk.
LEMMA EndedKeeps ==
    ASSUME IInv, RecorderEnds, Disk', Durable', RootCore'
    PROVE  IInv'
<1> USE Parts
<1>1. /\ status' = "down" /\ writable' = FALSE /\ active' = NoFile
      /\ segs' = NoSegments /\ records' = {}
      /\ step' = "idle" /\ at' = 0 /\ todo' = {} /\ staged' = {} /\ cut' = 0
      /\ UNCHANGED <<dropped, safe, legacy, size, lastId>>
  BY DEF RecorderEnds
<1>2. segs' = [o \in DOMAIN segs' |-> segs'[o]] /\ DOMAIN segs' = {}
  BY <1>1 DEF NoSegments
<1>3. 0 \in 0..MaxOrdinal /\ 0 \in 0..LastId
  BY FilesAssumption, RetentionAssumption
<1>4. TypeOK'
  BY <1>1, <1>2, <1>3 DEF TypeOK, Disk, DiskType, Files, Roots, Steps
<1>5. StatusInv' /\ RootInv' /\ Promise'
  BY <1>1 DEF StatusInv, RootInv, Promise, Rooted, Unlinked, Staging, Clearing, Building, Securing,
     Legacying, Clear, Trimming, Copying, Replacing, Appending, Rotating, Closing
<1>6. ImportInv' /\ OpenInv' /\ TrimInv' /\ AppendInv' /\ RestInv'
  BY <1>1 DEF ImportInv, OpenInv, TrimInv, AppendInv, RestInv, Staging, Clearing,
     Building, Trimming, Copying, Replacing, Appending, Rotating, Closing
<1> QED BY <1>4, <1>5, <1>6 DEF IInv, Disk

\* The process dies: the disk is as it was.
LEMMA ProcessDiesKeeps ==
    ASSUME IInv, ProcessDies
    PROVE  IInv'
<1> USE Parts
<1>1. RecorderEnds /\ UNCHANGED <<file, root, rootKept, entry, entryKept>>
      /\ UNCHANGED <<dropped, safe, legacy, lastId>>
  BY DEF ProcessDies, RecorderEnds, diskVars
<1>2. DiskType'
  BY <1>1 DEF DiskType, Files, Roots
<1>3. Disk'
  BY <1>1, <1>2, DiskStays DEF Disk
<1>4. Durable' /\ RootCore'
  BY <1>1 DEF Durable, KeptIn, RootInv, RootCore, Live
<1> QED BY <1>1, <1>3, <1>4, EndedKeeps

\* What survives of a file: all that was synchronized, nothing that was not there;
\* what was whole and synchronized is as it was.
LEMMA SurvivorIs ==
    ASSUME NEW f \in Files, NEW g \in Survivors(f)
    PROVE  /\ g \in Files /\ f.kept \subseteq g.ids /\ g.ids \subseteq f.ids /\ g.kept = g.ids
           /\ f.tail = "whole" /\ f.kept = f.ids => g.tail = "whole" /\ g.ids = f.ids
<1>1. PICK s \in Prefixes(f), tail \in {"whole", "bare", "partial"} :
        /\ g = [ids |-> s, kept |-> s, tail |-> tail]
        /\ tail = "bare" => s # f.kept \/ (s = f.ids /\ f.tail = "bare")
        /\ tail = "partial" => s # f.ids \/ f.tail = "partial"
  BY DEF Survivors
<1>2. s \subseteq f.ids /\ f.kept \subseteq s
  BY DEF Prefixes
<1> QED BY <1>1, <1>2 DEF Files

\* The machine loses power: one of the roots, one of the directories and of each file
\* what survives of it.
LEMMA PowerFailsKeeps ==
    ASSUME IInv, PowerFails
    PROVE  IInv'
<1> USE Parts
<1>0. PICK r \in rootKept :
        \E dir \in (IF r.dir = "none" THEN {NoEntries} ELSE entryKept) :
        \E files \in [{dir[n] : n \in DOMAIN dir} ->
                        UNION {Survivors(file[i]) : i \in {dir[n] : n \in DOMAIN dir}}] :
        /\ \A i \in {dir[n] : n \in DOMAIN dir} : files[i] \in Survivors(file[i])
        /\ file' = [i \in FileIds |-> IF i \in {dir[n] : n \in DOMAIN dir} THEN files[i] ELSE Empty]
        /\ root' = r /\ rootKept' = {r} /\ entry' = dir /\ entryKept' = {dir}
  BY DEF PowerFails, PowerLost
<1>1. PICK dir \in (IF r.dir = "none" THEN {NoEntries} ELSE entryKept) :
        \E files \in [{dir[n] : n \in DOMAIN dir} ->
                        UNION {Survivors(file[i]) : i \in {dir[n] : n \in DOMAIN dir}}] :
        /\ \A i \in {dir[n] : n \in DOMAIN dir} : files[i] \in Survivors(file[i])
        /\ file' = [i \in FileIds |-> IF i \in {dir[n] : n \in DOMAIN dir} THEN files[i] ELSE Empty]
        /\ root' = r /\ rootKept' = {r} /\ entry' = dir /\ entryKept' = {dir}
  BY <1>0
<1>2. RecorderEnds /\ UNCHANGED <<dropped, safe, legacy, lastId>>
  BY DEF PowerFails, RecorderEnds
<1>3. /\ dir = [n \in DOMAIN dir |-> dir[n]] /\ DOMAIN dir \subseteq 0..MaxOrdinal
      /\ \A n \in DOMAIN dir : dir[n] \in FileIds
      /\ \A n, m \in DOMAIN dir : dir[n] = dir[m] => n = m
  <2>1. CASE r.dir = "none"
    BY <2>1 DEF NoEntries
  <2>2. CASE r.dir # "none"
    BY <2>2 DEF DiskType, Distinct
  <2> QED BY <2>1, <2>2
<1>4. r \in Roots /\ file \in [FileIds -> Files]
  BY DEF TypeOK
<1>5. /\ root' = r /\ rootKept' = {r} /\ entry' = dir /\ entryKept' = {dir}
      /\ file' = [i \in FileIds |-> file'[i]]
      /\ \A i \in FileIds : file'[i] \in Survivors(file[i]) \/ file'[i] = Empty
      /\ \A n \in DOMAIN dir : file'[dir[n]] \in Survivors(file[dir[n]])
  <2>1. PICK files \in [{dir[n] : n \in DOMAIN dir} ->
                        UNION {Survivors(file[i]) : i \in {dir[n] : n \in DOMAIN dir}}] :
        /\ \A i \in {dir[n] : n \in DOMAIN dir} : files[i] \in Survivors(file[i])
        /\ file' = [i \in FileIds |-> IF i \in {dir[n] : n \in DOMAIN dir} THEN files[i] ELSE Empty]
    BY <1>1
  <2>2. \A i \in FileIds : file'[i] \in Survivors(file[i]) \/ file'[i] = Empty
    BY <2>1
  <2>3. \A n \in DOMAIN dir : file'[dir[n]] \in Survivors(file[dir[n]])
    <3> SUFFICES ASSUME NEW n \in DOMAIN dir PROVE file'[dir[n]] \in Survivors(file[dir[n]])
      OBVIOUS
    <3>1. dir[n] \in {dir[m] : m \in DOMAIN dir} /\ dir[n] \in FileIds
      BY <1>3
    <3> QED BY <2>1, <3>1
  <2> QED BY <1>1, <2>1, <2>2, <2>3
<1>6. DiskType'
  <2>1. \A i \in FileIds : file'[i] \in Files /\ file'[i].kept \subseteq file'[i].ids
    <3> SUFFICES ASSUME NEW i \in FileIds PROVE file'[i] \in Files /\ file'[i].kept \subseteq file'[i].ids
      OBVIOUS
    <3>1. CASE file'[i] = Empty
      BY <3>1 DEF Empty, Files
    <3>2. CASE file'[i] \in Survivors(file[i])
      BY <1>4, <3>2, SurvivorIs
    <3> QED BY <1>5, <3>1, <3>2
  <2>2. file' \in [FileIds -> Files]
    BY <1>5, <2>1
  <2> QED BY <1>2, <1>3, <1>4, <1>5, <2>1, <2>2 DEF DiskType, Files, Roots
<1>7. Distinct'
  BY <1>3, <1>5 DEF Distinct
<1>8. \A n \in Segments(dir) :
        /\ file[dir[n]].kept \subseteq file'[dir[n]].ids /\ file'[dir[n]].ids \subseteq file[dir[n]].ids
        /\ file'[dir[n]].kept = file'[dir[n]].ids
        /\ file[dir[n]].tail = "whole" /\ file[dir[n]].kept = file[dir[n]].ids =>
             file'[dir[n]].tail = "whole" /\ file'[dir[n]].ids = file[dir[n]].ids
  <2> SUFFICES ASSUME NEW n \in Segments(dir)
      PROVE /\ file[dir[n]].kept \subseteq file'[dir[n]].ids /\ file'[dir[n]].ids \subseteq file[dir[n]].ids
            /\ file'[dir[n]].kept = file'[dir[n]].ids
            /\ file[dir[n]].tail = "whole" /\ file[dir[n]].kept = file[dir[n]].ids =>
                 file'[dir[n]].tail = "whole" /\ file'[dir[n]].ids = file[dir[n]].ids
    OBVIOUS
  <2>1. file[dir[n]] \in Files /\ file'[dir[n]] \in Survivors(file[dir[n]])
    BY <1>3, <1>4, <1>5 DEF Segments
  <2> QED BY <2>1, SurvivorIs
<1>9. Live' => Live /\ dir \in entryKept
  BY <1>1, <1>5 DEF Live, RootInv, RootCore
<1>10. DirInv'
  <2> SUFFICES ASSUME Live'
               PROVE  /\ Segments(dir) # {} /\ InOrder(dir)'
                      /\ r.legacy => AsImported(dir)'
    BY <1>5 DEF DirInv
  <2>1. Segments(dir) # {} /\ InOrder(dir) /\ (r.legacy => AsImported(dir))
    BY <1>9 DEF DirInv
  <2>2. InOrder(dir)'
    BY <1>8, <2>1 DEF InOrder
  <2>3. ASSUME r.legacy
        PROVE  AsImported(dir)'
    <3>1. \A n \in Segments(dir) : file[dir[n]].tail = "whole" /\ file[dir[n]].kept = file[dir[n]].ids
      BY <2>1, <2>3 DEF AsImported
    <3>2. \A n \in Segments(dir) : /\ file'[dir[n]].tail = "whole" /\ file'[dir[n]].ids = file[dir[n]].ids
                                   /\ file'[dir[n]].kept = file'[dir[n]].ids
      BY <1>8, <3>1
    <3>3. IdsIn(dir)' = IdsIn(dir)
      BY <3>2 DEF IdsIn
    <3>4. \E c \in 0..LastId : IdsIn(dir) = From(legacy, c)
      BY <2>1, <2>3 DEF AsImported
    <3>5. legacy' = legacy
      BY <1>2
    <3> QED BY <3>2, <3>3, <3>4, <3>5 DEF AsImported, From
  <2> QED BY <2>1, <2>2, <2>3
<1>11. Durable'
  <2> SUFFICES ASSUME Live' PROVE safe \ dropped \subseteq KeptIn(dir)'
    BY <1>2, <1>5 DEF Durable
  <2>1. safe \ dropped \subseteq KeptIn(dir)
    BY <1>9 DEF Durable
  <2>2. KeptIn(dir) \subseteq KeptIn(dir)'
    BY <1>8 DEF KeptIn
  <2> QED BY <2>1, <2>2
<1>12. RootCore'
  BY <1>2, <1>5 DEF RootInv, RootCore, Live
<1> QED BY <1>2, <1>6, <1>7, <1>10, <1>11, <1>12, EndedKeeps DEF Disk

-----------------------------------------------------------------------------
(***************************************************************************)
(* The invariant is inductive.                                             *)
(***************************************************************************)
\* Before the first Open there is only the legacy log.
LEMMA InitHolds ==
    ASSUME Init
    PROVE  IInv
<1>1. /\ legacy \in {1..n : n \in ImportCounts} /\ file = [i \in FileIds |-> Empty]
      /\ root = [dir |-> "none", legacy |-> legacy # {}] /\ rootKept = {root}
      /\ entry = NoEntries /\ entryKept = {NoEntries} /\ active = NoFile
      /\ status = "down" /\ writable = FALSE /\ segs = NoSegments /\ records = {}
      /\ step = "idle" /\ at = 0 /\ todo = {} /\ staged = {} /\ cut = 0
      /\ lastId = Cardinality(legacy) /\ dropped = {} /\ safe = legacy
  BY DEF Init
<1>2. PICK n \in ImportCounts : legacy = 1..n
  BY <1>1
<1>3. n \in 0..LastId /\ n \in Nat
  BY RetentionAssumption
<1>4. lastId = n
  BY <1>1, <1>2, <1>3, FS_Interval
<1>5. segs = [o \in DOMAIN segs |-> segs[o]] /\ DOMAIN segs = {}
      /\ NoEntries = [o \in DOMAIN NoEntries |-> NoEntries[o]] /\ DOMAIN NoEntries = {}
  BY <1>1 DEF NoSegments, NoEntries
<1>6. 0 \in 0..MaxOrdinal /\ 0 \in 0..LastId
  BY FilesAssumption, RetentionAssumption
<1>7. file \in [FileIds -> Files] /\ \A i \in FileIds : file[i].kept \subseteq file[i].ids
  BY <1>1 DEF Empty, Files
<1>8. TypeOK
  <2>1. /\ status \in {"down", "importing", "opening", "open", "closed"} /\ writable \in BOOLEAN
        /\ step \in Steps /\ at \in 0..MaxOrdinal /\ cut \in 0..LastId
        /\ active \in FileIds \cup {NoFile}
        /\ records \subseteq 1..lastId /\ staged \subseteq 1..lastId /\ todo \subseteq 1..lastId
    BY <1>1, <1>6 DEF Steps
  <2>2. lastId \in 0..LastId /\ legacy \subseteq 1..lastId
    BY <1>2, <1>3, <1>4
  <2>3. rootKept \subseteq Roots /\ root \in rootKept /\ entry \in entryKept
    BY <1>1 DEF Roots
  <2>4. \A dir \in entryKept :
          /\ dir = [o \in DOMAIN dir |-> dir[o]]
          /\ DOMAIN dir \subseteq 0..MaxOrdinal /\ \A o \in DOMAIN dir : dir[o] \in FileIds
    BY <1>1, <1>5
  <2>5. segs = [o \in DOMAIN segs |-> segs[o]] /\ DOMAIN segs \subseteq Ordinals
        /\ \A o \in DOMAIN segs : segs[o] \in [ids : SUBSET (1..lastId), dirty : BOOLEAN]
    BY <1>5
  <2> QED BY <1>7, <2>1, <2>2, <2>3, <2>4, <2>5 DEF TypeOK
<1>9. ~Live /\ root.dir = "none" /\ (root.legacy <=> legacy # {})
  BY <1>1 DEF Live
<1>10. StatusInv /\ RootInv /\ Promise
  BY <1>1, <1>9 DEF StatusInv, RootInv, RootCore, Promise, Rooted, Unlinked, Staging, Clearing, Building,
     Securing, Legacying, Clear, Trimming, Copying, Replacing, Appending, Rotating, Closing
<1>11. Distinct /\ DirInv /\ Durable
  BY <1>1, <1>5, <1>9 DEF Distinct, DirInv, Durable
<1>12. ImportInv /\ OpenInv /\ TrimInv /\ AppendInv /\ RestInv
  BY <1>1 DEF ImportInv, OpenInv, TrimInv, AppendInv, RestInv, Staging, Clearing,
     Building, Trimming, Copying, Replacing, Appending, Rotating, Closing
<1> QED BY <1>8, <1>10, <1>11, <1>12 DEF IInv

\* Every step.
LEMMA NextKeeps ==
    ASSUME IInv, [Next]_vars
    PROVE  IInv'
<1>1. CASE Next
  BY <1>1, OpenImportsKeeps, OpenLiveKeeps, RecordKeeps, CleanupKeeps, CloseKeeps,
     CloseWithoutFileKeeps, StorageCallKeeps, StorageFailsKeeps, AgeKeeps, ProcessDiesKeeps,
     PowerFailsKeeps DEF Next
<1>2. CASE UNCHANGED vars
  <2>1. UNCHANGED <<file, root, rootKept, entry, entryKept, active, status, writable, segs, records,
                    step, at, todo, staged, cut, dropped, safe, legacy, size, lastId>>
    BY <1>2 DEF vars, diskVars, opVars, worldVars
  <2> USE Parts
  <2>2. TypeOK'
    BY <2>1 DEF TypeOK, Files, Roots
  <2>3. StatusInv'
    BY <2>1 DEF StatusInv, Live
  <2>4. RootInv'
    BY <2>1 DEF RootInv, RootCore, Rooted, Unlinked, Live
  <2>5. Distinct' /\ DirInv'
    BY <2>1, DiskStays
  <2>6. Durable' /\ Promise'
    BY <2>1 DEF Durable, Promise, Live, KeptIn, IdsIn, SecuredIn, Part
  <2>7. Mapped' = Mapped /\ NoneDirty' = NoneDirty /\ AllSynced' = AllSynced
        /\ OlderSynced' = OlderSynced /\ Quiet' = Quiet /\ OnLatest' = OnLatest
        /\ HeldIn(segs)' = HeldIn(segs) /\ Covers(segs)' = Covers(segs) /\ GaveUp' = GaveUp
        /\ (\A o : Synced(o)' = Synced(o)) /\ (\A dir : IdsIn(dir)' = IdsIn(dir))
    BY <2>1 DEF Mapped, NoneDirty, AllSynced, OlderSynced, Synced, Quiet, OnLatest, HeldIn, Covers,
       GaveUp, From, IdsIn
  <2>8. ImportInv'
    BY <2>1, <2>7 DEF ImportInv, From
  <2>9. OpenInv'
    BY <2>1, <2>7 DEF OpenInv
  <2>10. TrimInv'
    <3>1. Boundaries(segs)' = Boundaries(segs) /\ Expired(segs)' = Expired(segs)
      BY <2>1 DEF Boundaries, Expired, Expires, From
    <3> QED BY <2>1, <2>7, <3>1 DEF TrimInv, From
  <2>11. AppendInv'
    BY <2>1, <2>7 DEF AppendInv
  <2>12. RestInv'
    BY <2>1, <2>7 DEF RestInv
  <2> QED BY <2>2, <2>3, <2>4, <2>5, <2>6, <2>8, <2>9, <2>10, <2>11, <2>12 DEF IInv
<1> QED BY <1>1, <1>2

-----------------------------------------------------------------------------
(***************************************************************************)
(* What the invariant says of the three properties.                        *)
(***************************************************************************)
\* Durable events are in the segments, or still in the legacy log.
LEMMA SafeIsReadable ==
    ASSUME IInv
    PROVE  DurableEventsSurvive
<1> USE Parts
<1>1. CASE Live
  <2>1. safe \ dropped \subseteq KeptIn(entry) /\ KeptIn(entry) \subseteq IdsIn(entry)
    BY <1>1, IdsAreThere DEF Durable, DiskType
  <2> QED BY <1>1, <2>1 DEF DurableEventsSurvive, Readable, Live
<1>2. CASE ~Live
  <2>1. (root.legacy \/ legacy = {}) /\ safe \subseteq legacy
    BY <1>2 DEF RootInv, RootCore, Live, DiskType
  <2> QED BY <1>2, <2>1 DEF DurableEventsSurvive, Readable, Live
<1> QED BY <1>1, <1>2

\* The records are in the segments.
LEMMA AcceptedIsReadable ==
    ASSUME IInv
    PROVE  PublishedIsReadable
<1> USE Parts
<1> SUFFICES ASSUME status \in {"open", "closed"}
             PROVE  /\ records \ dropped \subseteq Readable
                    /\ Idle /\ writable => Readable = records /\ ~Corrupt
  BY DEF PublishedIsReadable
<1>1. Live /\ Readable = IdsIn(entry) /\ entry \in entryKept
  BY DEF StatusInv, Readable, Live, DiskType
<1>2. records \ dropped \subseteq IdsIn(entry)
  <2>1. CASE status = "open"
    <3>1. records \ dropped \subseteq SecuredIn(file, entry, active)
      BY <1>1, <2>1 DEF Promise
    <3> QED BY <1>1, <3>1, IdsAreThere
  <2>2. CASE status = "closed"
    BY <1>1, <2>2 DEF Promise
  <2> QED BY <2>1, <2>2
<1>3. ASSUME Idle, writable
      PROVE  IdsIn(entry) = records /\ ~Corrupt
  <2>1. Mapped /\ NoneDirty /\ HeldIn(segs) = records
    BY <1>3 DEF RestInv, Idle
  <2>2. IdsIn(entry) = HeldIn(segs)
    BY <2>1 DEF Mapped, IdsIn, HeldIn
  <2>3. InOrder(entry)
    BY <1>1 DEF DirInv
  <2>4. \A o \in Segments(entry) : file[entry[o]].tail = "whole"
    BY <2>1 DEF Mapped, NoneDirty
  <2> QED BY <2>1, <2>2, <2>3, <2>4 DEF Corrupt
<1> QED BY <1>1, <1>2, <1>3

\* Retention's answer for a suffix and for the whole: each keeps the largest
\* suffix that is not too much, so what it keeps of both is the same or less.
LEMMA SuffixCut ==
    ASSUME NEW S, S \subseteq 1..LastId, NEW c \in 0..LastId
    PROVE  LET live == From(From(S, c), Cut(From(S, c)))
               prior == From(S, Cut(S))
           IN  live \subseteq prior /\ \A x \in live : From(prior, x) \subseteq live
<1> DEFINE T == From(S, c)
           live == From(T, Cut(T))
           prior == From(S, Cut(S))
<1>1. T \subseteq S /\ T \subseteq 1..LastId
  BY DEF From
<1>2. Cut(S) \in 0..LastId /\ ~Goes(From(S, Cut(S))) /\ \A b \in 0..(Cut(S) - 1) : Goes(From(S, b))
  BY CutIs
<1>3. Cut(T) \in 0..LastId /\ ~Goes(live) /\ \A b \in 0..(Cut(T) - 1) : Goes(From(T, b))
  BY <1>1, CutIs
<1>4. ASSUME NEW e \in live
      PROVE  e \in S /\ e \in 1..LastId /\ e > c /\ e > Cut(T)
  BY <1>1, <1>4 DEF From
<1> DEFINE m == IF c >= Cut(T) THEN c ELSE Cut(T)
<1>5. m \in 0..LastId /\ m >= c /\ m >= Cut(T)
  BY <1>3
<1>6. From(S, m) = live
  <2> HIDE DEF m
  <2>1. ASSUME NEW e \in From(S, m)
        PROVE  e \in live
    <3>1. e \in S /\ e > m /\ e \in 1..LastId
      BY <2>1 DEF From
    <3>2. e > c /\ e > Cut(T)
      BY <1>3, <1>5, <3>1
    <3> QED BY <3>1, <3>2 DEF From
  <2>2. ASSUME NEW e \in live
        PROVE  e \in From(S, m)
    <3>1. e \in S /\ e > c /\ e > Cut(T)
      BY <1>4, <2>2
    <3>2. e > m
      BY <3>1 DEF m
    <3> QED BY <3>1, <3>2 DEF From
  <2> QED BY <2>1, <2>2
<1>7. Cut(S) <= m
  <2> HIDE DEF m
  <2>1. CASE m \in 0..(Cut(S) - 1)
    <3>1. Goes(live)
      BY <1>2, <1>6, <2>1
    <3> QED BY <1>3, <3>1
  <2>2. CASE m \notin 0..(Cut(S) - 1)
    BY <1>2, <1>5, <2>2
  <2> QED BY <2>1, <2>2
<1>8. ASSUME NEW e \in live
      PROVE  e \in prior
  <2>1. e \in S /\ e > m /\ e \in 1..LastId
    <3> HIDE DEF m, live
    <3> QED BY <1>1, <1>6, <1>8 DEF From
  <2>2. e > Cut(S)
    <3> HIDE DEF m
    <3> QED BY <1>2, <1>5, <1>7, <2>1
  <2> QED BY <2>1, <2>2 DEF From
<1>9. ASSUME NEW x \in live, NEW y \in From(prior, x)
      PROVE  y \in live
  <2>1. y \in S /\ y > x /\ y \in 1..LastId
    BY <1>9 DEF From
  <2>2. x \in S /\ x > m /\ x \in 1..LastId
    <3> HIDE DEF m, live
    <3> QED BY <1>1, <1>6, <1>9 DEF From
  <2>3. y \in From(S, m)
    <3> HIDE DEF m
    <3>1. y > m
      BY <1>5, <2>1, <2>2
    <3> QED BY <2>1, <3>1 DEF From
  <2> QED BY <1>6, <2>3
<1> QED BY <1>8, <1>9

\* The legacy log that may still be there is reconciled with what was imported of it.
LEMMA OpenAccepts ==
    ASSUME IInv
    PROVE  OpenNeverRefuses
<1> USE Parts
<1> SUFFICES ASSUME Live PROVE AcceptsLive
  BY DEF OpenNeverRefuses, Live
<1>1. Segments(entry) # {} /\ InOrder(entry) /\ entry \in entryKept /\ root \in rootKept
  BY DEF DirInv, DiskType
<1>2. ASSUME root.legacy
      PROVE  Reconciles
  <2>1. AsImported(entry)
    BY <1>1, <1>2 DEF DirInv
  <2>2. ~Corrupt
    BY <1>1, <2>1 DEF Corrupt, AsImported
  <2>3. PICK c \in 0..LastId : IdsIn(entry) = From(legacy, c)
    BY <2>1 DEF AsImported
  <2>4. legacy \subseteq 1..LastId
    BY RetentionAssumption DEF TypeOK
  <2>5. LET live == From(From(legacy, c), Cut(From(legacy, c)))
            prior == From(legacy, Cut(legacy))
        IN  live \subseteq prior /\ \A x \in live : From(prior, x) \subseteq live
    BY <2>4, SuffixCut
  <2> QED BY <2>2, <2>3, <2>5 DEF Reconciles
<1> QED BY <1>1, <1>2 DEF AcceptsLive

-----------------------------------------------------------------------------
(***************************************************************************)
(* The theorems.                                                           *)
(***************************************************************************)
\* Whatever the order of storage calls, failures, process deaths and power
\* failures, the recorder's view of its segments, the directories and roots a
\* power failure may leave, and what the operation that holds Recorder.mu has
\* still to do are related as IInv says.
THEOREM SegmentsAgree == Spec => []IInv
<1>1. Init => IInv
  BY InitHolds
<1>2. IInv /\ [Next]_vars => IInv'
  BY NextKeeps
<1> QED BY <1>1, <1>2, PTL DEF Spec

\* What Open, a rotation, a retention pass or Close of diagnostics.Recorder has
\* reported durable is found in the storage root from then on, until retention
\* decides to drop it.
THEOREM RecorderKeepsDurable == Spec => []DurableEventsSurvive
<1>1. IInv => DurableEventsSurvive
  BY SafeIsReadable
<1> QED BY <1>1, SegmentsAgree, PTL

\* The records a Recorder serves are in its files at every moment, also while
\* trimSegments rewrites them; between operations of a recorder that can write
\* the files hold exactly those, none torn, in order.
THEOREM RecorderIsReadable == Spec => []PublishedIsReadable
<1>1. IInv => PublishedIsReadable
  BY AcceptedIsReadable
<1> QED BY <1>1, SegmentsAgree, PTL

\* Whatever interrupted an import, a retention pass or Close, the next Open
\* accepts the live directory it finds: it has a segment, and a legacy log that
\* is still there agrees with it.
THEOREM RecorderReopens == Spec => []OpenNeverRefuses
<1>1. IInv => OpenNeverRefuses
  BY OpenAccepts
<1> QED BY <1>1, SegmentsAgree, PTL
=============================================================================
