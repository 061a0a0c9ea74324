---------------------------- MODULE SegmentFiles ----------------------------
(***************************************************************************)
(* The file system under a diagnostics recorder, as storageHooks uses it:  *)
(* the legacy log and one directory in the storage root, event segments in *)
(* that directory.  A power failure keeps of each directory any state it   *)
(* had since it was last synchronized, and of each file any extension of   *)
(* what was last synchronized.  An event is its identity; a file is only   *)
(* appended to, in the order of the identities, so its content is a set.   *)
(***************************************************************************)
EXTENDS Integers, FiniteSets, FiniteSetsExt

CONSTANTS FileIds,      \* the files there can be at a time: a bound
          MaxOrdinal    \* segment ordinals run from 1 to this: a bound

VARIABLES
    file,       \* content of each file
    root,       \* what the storage root holds: the directory's name, the legacy log
    rootKept,   \* the roots a power failure may leave
    entry,      \* the directory: segment ordinals, and Temp, to files
    entryKept,  \* the directories a power failure may leave
    active      \* the file behind Recorder.file

diskVars == <<file, root, rootKept, entry, entryKept>>

Ordinals == 1..MaxOrdinal
Temp == 0           \* .boundary-*.tmp; there is never more than one
NoFile == 0

ASSUME FilesAssumption == MaxOrdinal \in Nat \ {0} /\ NoFile \notin FileIds

Empty == [ids |-> {}, kept |-> {}, tail |-> "whole"]

Segments(dir) == DOMAIN dir \ {Temp}

\* The events in the segments of a directory, and those synchronized.
IdsIn(dir) == UNION {file[dir[n]].ids : n \in Segments(dir)}
KeptIn(dir) == UNION {file[dir[n]].kept : n \in Segments(dir)}

\* readSegment takes every event for corrupt that is not later than all before it.
InOrder(dir) ==
    \A n, m \in Segments(dir) : n < m =>
        \A x \in file[dir[n]].ids, y \in file[dir[m]].ids : x < y

-----------------------------------------------------------------------------
InUse == UNION {{dir[n] : n \in DOMAIN dir} : dir \in entryKept \cup {entry}}
Free == FileIds \ (InUse \cup {active})

SetEntry(dir) == entry' = dir /\ entryKept' = entryKept \cup {dir}
SetRoot(r) == root' = r /\ rootKept' = rootKept \cup {r}
Without(dir, place) == [n \in DOMAIN dir \ {place} |-> dir[n]]
With(dir, place, value) ==
    [n \in DOMAIN dir \cup {place} |-> IF n = place THEN value ELSE dir[n]]

\* O_CREATE|O_EXCL, createTemp.
Create(place) ==
    /\ Free # {}
    /\ LET new == CHOOSE i \in Free : TRUE IN
         SetEntry(With(entry, place, new)) /\ file' = [file EXCEPT ![new] = Empty]
    /\ UNCHANGED <<root, rootKept>>

\* A line written after a torn one is not a line of its own.
Appended(f, e) ==
    CASE f.tail = "whole"   -> [f EXCEPT !.ids = @ \cup {e}]
      [] f.tail = "bare"    -> [f EXCEPT !.ids = @ \ {Max(@)}, !.tail = "partial"]
      [] f.tail = "partial" -> f

Write(i, e) ==
    /\ file' = [file EXCEPT ![i] = Appended(@, e)]
    /\ UNCHANGED <<root, rootKept, entry, entryKept>>

\* A short write: part of the line.
WritePart(i) ==
    /\ file' = [file EXCEPT ![i].tail = "partial"]
    /\ UNCHANGED <<root, rootKept, entry, entryKept>>

SyncFile(i) ==
    /\ file' = [file EXCEPT ![i].kept = file[i].ids]
    /\ UNCHANGED <<root, rootKept, entry, entryKept>>

SyncDir == entryKept' = {entry} /\ UNCHANGED <<file, root, rootKept, entry>>

SyncRoot == rootKept' = {root} /\ UNCHANGED <<file, root, entry, entryKept>>

\* The boundary segment takes the place of the one it was copied from.
RenameTemp(place) ==
    /\ SetEntry([Without(entry, Temp) EXCEPT ![place] = entry[Temp]])
    /\ UNCHANGED <<file, root, rootKept>>

Unlink(place) == SetEntry(Without(entry, place)) /\ UNCHANGED <<file, root, rootKept>>

NoEntries == [n \in {} |-> NoFile]

MakeStage ==
    /\ SetRoot([root EXCEPT !.dir = "stage"])
    /\ entry' = NoEntries /\ entryKept' = {NoEntries} /\ UNCHANGED file

RemoveStage ==
    SetRoot([root EXCEPT !.dir = "none"]) /\ UNCHANGED <<file, entry, entryKept>>

PublishStage ==
    SetRoot([root EXCEPT !.dir = "live"]) /\ UNCHANGED <<file, entry, entryKept>>

RemoveLegacy ==
    SetRoot([root EXCEPT !.legacy = FALSE]) /\ UNCHANGED <<file, entry, entryKept>>

-----------------------------------------------------------------------------
\* What a power failure may leave of a file: what was synchronized and a prefix
\* of the rest.  "bare": the last line lacks only its delimiter; "partial": the
\* last line does not decode.
Prefixes(f) ==
    {s \in SUBSET f.ids : f.kept \subseteq s /\ \A x \in s, y \in f.ids \ s : x < y}

Survivors(f) ==
    LET Possible(s, tail) ==
            CASE tail = "whole"   -> s # f.ids \/ f.tail # "bare"
              [] tail = "bare"    -> s # f.kept \/ (s = f.ids /\ f.tail = "bare")
              [] tail = "partial" -> s # f.ids \/ f.tail = "partial"
    IN  {[ids |-> p[1], kept |-> p[1], tail |-> p[2]] :
            p \in {q \in Prefixes(f) \X {"whole", "bare", "partial"} :
                      Possible(q[1], q[2])}}

PowerLost ==
    \E r \in rootKept : \E dir \in (IF r.dir = "none" THEN {NoEntries} ELSE entryKept) :
    LET kept == {dir[n] : n \in DOMAIN dir} IN
    \E files \in {f \in [kept -> UNION {Survivors(file[i]) : i \in kept}] :
                     \A i \in kept : f[i] \in Survivors(file[i])} :
        /\ file' = [i \in FileIds |-> IF i \in kept THEN files[i] ELSE Empty]
        /\ root' = r /\ rootKept' = {r}
        /\ entry' = dir /\ entryKept' = {dir}
=============================================================================
