---------------------------- MODULE SegmentCache ----------------------------
(***************************************************************************)
(* The local cache of segment files (crates/index/src/segment/cache.rs and *)
(* the eviction in segment.rs).                                            *)
(*                                                                         *)
(* Every segment has a directory with its term map, which cached_file      *)
(* fetches once and maps, and a marker beside it that names the            *)
(* modification time at which the map was last hashed.  Readers of other   *)
(* processes share the directory without a lock: a reader that has opened  *)
(* its root removes the directories of segments its root does not name.    *)
(***************************************************************************)
EXTENDS Naturals, FiniteSets

CONSTANTS
    Openers,        \* readers, and an update that stages a merge
    SegIds,         \* segments with a directory in the cache
    MaxTime,        \* bound: modification times
    MaxDeaths       \* bound: readers that die

ASSUME SegmentCacheAssumption ==
    /\ IsFiniteSet(SegIds)
    /\ MaxTime \in Nat \ {0} /\ MaxDeaths \in Nat

VARIABLES
    file,       \* segment -> its term map: [time, whole]; time 0 is no file
    marker,     \* segment -> the time its marker names, 0 without a marker
    aged,       \* segments whose directory was not touched for the grace period
    opener,     \* reader -> what it is doing
    raced,      \* readers that another process has taken a file from
    clock, deaths

segmentVars == <<file, marker, aged, opener, raced, clock, deaths>>

NoFile == [time |-> 0, whole |-> FALSE]
NoMarker == 0
EmptyMarker == MaxTime + 1      \* the marker was created and not yet written
Waiting == [pc |-> "start", seg |-> CHOOSE s \in SegIds : TRUE, mapped |-> FALSE]

SegmentInit ==
    /\ file = [s \in SegIds |-> NoFile]
    /\ marker = [s \in SegIds |-> NoMarker]
    /\ aged = {}
    /\ opener = [o \in Openers |-> Waiting]
    /\ raced = {}
    /\ clock = 0 /\ deaths = 0

\* Opener o goes on at pc.
At(o, pc) == opener[o].pc = pc
GoOn(o, pc) == opener' = [opener EXCEPT ![o].pc = pc]
\* Those in the middle of opening segment s, other than o.
Others(o, s) == {p \in Openers \ {o} : opener[p].seg = s /\ opener[p].pc \notin {"start", "open", "failed"}}

-----------------------------------------------------------------------------
OpenSegment(o, s) ==
    /\ At(o, "start")
    /\ opener' = [opener EXCEPT ![o] = [pc |-> "marked", seg |-> s, mapped |-> FALSE]]
    /\ raced' = raced \ {o}
    /\ UNCHANGED <<file, marker, aged, clock, deaths>>

\* Mutant of Verified: the marker names the hash alone.
VerifiedByHash(s) == file[s] # NoFile /\ marker[s] \in 1..MaxTime

\* is_verified_file: the marker names the time of the file.
Verified(s) == file[s] # NoFile /\ marker[s] = file[s].time

CheckMarker(o) ==
    /\ At(o, "marked")
    /\ GoOn(o, IF Verified(opener[o].seg) THEN "map" ELSE "hash")
    /\ UNCHANGED <<file, marker, aged, raced, clock, deaths>>

\* is_cached_file: the file is hashed.
CheckHash(o) ==
    /\ At(o, "hash")
    /\ GoOn(o, IF file[opener[o].seg].whole THEN "mark" ELSE "unlink")
    /\ UNCHANGED <<file, marker, aged, raced, clock, deaths>>

\* What does not verify is removed with its marker, whoever has put it there.
RemoveUnverified(o) ==
    LET s == opener[o].seg IN
    /\ At(o, "unlink")
    /\ file' = [file EXCEPT ![s] = NoFile]
    /\ aged' = IF file[s] = NoFile THEN aged ELSE aged \ {s}
    /\ raced' = IF file[s] = NoFile THEN raced ELSE raced \cup Others(o, s)
    /\ GoOn(o, "unmark")
    /\ UNCHANGED <<marker, clock, deaths>>

RemoveMarker(o) ==
    /\ At(o, "unmark")
    /\ marker' = [marker EXCEPT ![opener[o].seg] = NoMarker]
    /\ GoOn(o, "fetch")
    /\ UNCHANGED <<file, aged, raced, clock, deaths>>

\* Mutant of AfterFetch: the marker is written before the file is in place.
AfterFetchMark == "mark"

AfterFetch == "persist"

\* get_file into a temporary file, its hash and sync_all; a failed fetch is an
\* error of its own, and the file lies in the directory, which it touches.
Fetch(o) ==
    /\ At(o, "fetch")
    /\ aged' = aged \ {opener[o].seg}
    /\ GoOn(o, AfterFetch)
    /\ UNCHANGED <<file, marker, raced, clock, deaths>>

FetchFails(o) ==
    /\ At(o, "fetch")
    /\ GoOn(o, "start")
    /\ UNCHANGED <<file, marker, aged, raced, clock, deaths>>

PersistFile(o) ==
    /\ At(o, "persist")
    /\ clock < MaxTime
    /\ clock' = clock + 1
    /\ file' = [file EXCEPT ![opener[o].seg] = [time |-> clock + 1, whole |-> TRUE]]
    /\ aged' = aged \ {opener[o].seg}
    /\ GoOn(o, "mark")
    /\ UNCHANGED <<marker, raced, deaths>>

\* mark_verified: the marker is created, the time of the file is read, the
\* marker is written.  In a directory evicted meanwhile it cannot be created;
\* here it fails at the next step, on the file that is gone as well.
CreateMarker(o) ==
    /\ At(o, "mark")
    /\ marker' = [marker EXCEPT ![opener[o].seg] = EmptyMarker]
    /\ aged' = aged \ {opener[o].seg}
    /\ GoOn(o, "stamp")
    /\ UNCHANGED <<file, raced, clock, deaths>>

WriteMarker(o) ==
    LET s == opener[o].seg IN
    /\ At(o, "stamp")
    /\ marker' = [marker EXCEPT ![s] = IF file[s] = NoFile \/ @ = NoMarker THEN @ ELSE file[s].time]
    /\ GoOn(o, IF file[s] = NoFile THEN "failed" ELSE "map")
    /\ UNCHANGED <<file, aged, raced, clock, deaths>>

\* map_file: once it is mapped, a removed file stays readable.
MapFile(o) ==
    LET s == opener[o].seg IN
    /\ At(o, "map")
    /\ opener' = [opener EXCEPT ![o].pc = IF file[s] = NoFile THEN "failed" ELSE "open",
                                ![o].mapped = file[s].whole]
    /\ UNCHANGED <<file, marker, aged, raced, clock, deaths>>

\* Mutant of Evictable: no grace period.
EvictableNow(o, s) == s # opener[o].seg /\ (file[s] # NoFile \/ marker[s] # NoMarker)

\* evict_stale_segments_older_than: a directory of no segment of this root that
\* was not touched for the grace period.
Evictable(o, s) == s # opener[o].seg /\ s \in aged

EvictStale(o) ==
    /\ At(o, "open")
    /\ LET gone == {s \in SegIds : Evictable(o, s)} IN
        /\ file' = [s \in SegIds |-> IF s \in gone THEN NoFile ELSE file[s]]
        /\ marker' = [s \in SegIds |-> IF s \in gone THEN NoMarker ELSE marker[s]]
        /\ aged' = aged \ gone
        /\ raced' = raced \cup UNION {Others(o, s) : s \in gone}
    /\ GoOn(o, "start")
    /\ UNCHANGED <<clock, deaths>>

\* The reader dies, or its caller gives up.
Die(o) ==
    /\ deaths < MaxDeaths
    /\ deaths' = deaths + 1
    /\ opener[o].pc # "start"
    /\ GoOn(o, "start")
    /\ UNCHANGED <<file, marker, aged, raced, clock>>

FailOpen(o) ==
    /\ At(o, "failed")
    /\ GoOn(o, "start")
    /\ UNCHANGED <<file, marker, aged, raced, clock, deaths>>

\* The grace period passes for a directory.  It is far longer than the steps
\* between two touches of a directory: nobody is about to touch it.
GracePasses(s) ==
    /\ s \notin aged
    /\ file[s] # NoFile \/ marker[s] # NoMarker
    /\ \A o \in Openers : opener[o].seg = s => opener[o].pc \notin {"persist", "mark", "stamp"}
    /\ aged' = aged \cup {s}
    /\ UNCHANGED <<file, marker, opener, raced, clock, deaths>>

\* A file is truncated or overwritten between two uses, which sets its time.
Spoil(s) ==
    /\ file[s] # NoFile /\ file[s].whole
    /\ \A o \in Openers : opener[o].seg = s => opener[o].pc \in {"start", "open", "failed"}
    /\ clock < MaxTime
    /\ clock' = clock + 1
    /\ file' = [file EXCEPT ![s] = [time |-> clock + 1, whole |-> FALSE]]
    /\ UNCHANGED <<marker, aged, opener, raced, deaths>>

SegmentNext ==
    \/ \E o \in Openers :
        \/ CheckMarker(o) \/ CheckHash(o) \/ RemoveUnverified(o) \/ RemoveMarker(o)
        \/ Fetch(o) \/ FetchFails(o) \/ PersistFile(o) \/ CreateMarker(o) \/ WriteMarker(o)
        \/ MapFile(o) \/ EvictStale(o) \/ Die(o) \/ FailOpen(o)
        \/ \E s \in SegIds : OpenSegment(o, s)
    \/ \E s \in SegIds : GracePasses(s) \/ Spoil(s)

SegmentSpec == SegmentInit /\ [][SegmentNext]_segmentVars

-----------------------------------------------------------------------------
\* A reader maps only bytes that were hashed: a marker left by a dead process, or
\* written for a file that has been replaced since, never vouches for others.
MappedIsBlob ==
    \A o \in Openers : opener[o].pc = "open" => opener[o].mapped

\* Opening a cached segment fails on the cache only when another process has
\* taken the file away meanwhile, by cached_file's own clean-up or by eviction.
FailsOnlyWhenRaced ==
    \A o \in Openers : opener[o].pc = "failed" => o \in raced

\* Eviction spares what another process is about to put in place: only a file
\* that was whole and untouched for the grace period can go under a reader.
EvictionSparesFresh ==
    [][\A o \in Openers, s \in SegIds :
          opener[o].pc \in {"persist", "stamp"} /\ opener[o].seg = s =>
              \A p \in Openers : opener[p].pc = "open" /\ opener'[p].pc = "start"
                  => file'[s] = file[s] /\ marker'[s] = marker[s]]_segmentVars

\* A segment that opens is the published one, and one that does not was taken away by
\* another process.
SegmentFilesSound == MappedIsBlob /\ FailsOnlyWhenRaced
=============================================================================
