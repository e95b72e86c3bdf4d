--------------------------- MODULE SegmentedIndex ---------------------------
(***************************************************************************)
(* The index of one source bucket, kept in a blob store, and the runs of   *)
(* `seagrep index` that update it (crates/index/src/segment.rs,            *)
(* segment/compact.rs).                                                    *)
(*                                                                         *)
(* The store holds immutable blobs and one mutable blob, the root          *)
(* segments.bin.  A run lists the bucket, loads the root, writes new blobs *)
(* beside the old ones, swaps the root with one conditional put and then   *)
(* deletes what the new root no longer names.  Runs share nothing but the  *)
(* store, and any number of them may be active at once.                    *)
(*                                                                         *)
(* Abstractions.  A body stands for an object's content and, being content *)
(* derived, for its version (ETag).  A source holds one document, or none  *)
(* when it failed.  A segment keeps its documents in one pack.  The three  *)
(* randomly named files of a segment (terms.fst, postings.bin, docs.bin)   *)
(* are one blob: nobody but its writer knows the name before the swap.  A  *)
(* SegmentMeta pins docs.bin by hash, so it carries the table itself.      *)
(***************************************************************************)
EXTENDS Naturals, FiniteSets, Sequences, SequencesExt

CONSTANTS
    Keys,           \* source object keys; naturals, for their order
    Bodies,         \* object contents
    Undecodable,    \* the bodies the decoder rejects
    None,           \* no object, no body
    Indexers,       \* processes that run `seagrep index`
    DocCap,         \* SEGMENT_DOC_CAP
    CountTarget,    \* SEGMENT_COUNT_TARGET
    DeadFraction,   \* REPACK_DEAD_FRACTION
    PurgeModes,     \* values --purge-deleted is given
    FirstRoots,     \* states segments.bin may be in at first
    MaxMutations,   \* bound: changes of the bucket
    MaxForced,      \* bound: runs started with --rebuild
    MaxFaults       \* bound: store errors and crashes

ASSUME ConstantsAssumption ==
    /\ Keys \subseteq Nat
    /\ IsFiniteSet(Keys)
    /\ Undecodable \subseteq Bodies
    /\ None \notin Bodies
    /\ DocCap \in Nat \ {0}
    /\ CountTarget \in Nat
    /\ DeadFraction \in Nat \ {0}
    /\ PurgeModes \subseteq BOOLEAN
    /\ FirstRoots \subseteq {"absent", "unreadable"}
    /\ {MaxMutations, MaxForced, MaxFaults} \subseteq Nat

VARIABLES
    bucket,     \* the source objects: key -> body or None
    root,       \* segments.bin
    files,      \* ids whose randomly named segment files are in the store
    deads,      \* dead-<hash>.bin blobs in the store: <<segment id, dead set>>
    packs,      \* packs/<hash> blobs in the store, named by what they hold
    nextId,     \* every segment id drawn so far is below (random_seg_id)
    run,        \* the local state of each indexer's run
    mutations, forced, faults,      \* used up of the three bounds
    spilled     \* some run may have left blobs behind (error, crash,
                \* lost race or failed delete)

store == <<root, files, deads, packs>>
bounds == <<mutations, forced, faults>>
vars == <<bucket, store, nextId, run, bounds, spilled>>

-----------------------------------------------------------------------------
(***************************************************************************)
(* Segments.                                                               *)
(***************************************************************************)

\* A SourceEntry: body is None when the source failed; retry asks the next
\* run to fetch it again.
Entry == [version : Bodies, body : Bodies \cup {None}, retry : BOOLEAN]

Table == UNION {[ks -> Entry] : ks \in SUBSET Keys}

SegmentMeta == [id : Nat, table : Table, dead : SUBSET Keys]

Sources(m) == DOMAIN m.table
Live(m) == Sources(m) \ m.dead
Documents(table) == {k \in DOMAIN table : table[k].body # None}

\* The packs a segment refers to, named by the bodies they hold in key order:
\* pack blobs are content addressed and hold no keys.
PackIds(table) ==
    LET order == SetToSortSeq(Documents(table), LAMBDA a, b : a < b)
    IN  IF Documents(table) = {} THEN {}
        ELSE {[n \in DOMAIN order |-> table[order[n]].body]}

\* The blobs a set of segments refers to (meta_blobs).
Blobs(metas) ==
    [files |-> {m.id : m \in metas},
     deads |-> {<<m.id, m.dead>> : m \in {s \in metas : s.dead # {}}},
     packs |-> UNION {PackIds(m.table) : m \in metas}]

NoBlobs == [files |-> {}, deads |-> {}, packs |-> {}]

\* should_repack, for documents of one size.
ShouldRepack(m, dead) ==
    LET gone == Documents(m.table) \cap dead
    IN  gone # {} /\ Cardinality(gone) * DeadFraction >= Cardinality(Documents(m.table))

\* Where key k is live in a list of segments; the highest position wins.
LiveAt(list, k) == {j \in DOMAIN list : k \in Live(list[j])}
Newest(list, k) == CHOOSE j \in LiveAt(list, k) : \A h \in LiveAt(list, k) : h <= j

\* What an index says of the bucket: the version it holds for each key.
View(list) ==
    [k \in Keys |-> IF LiveAt(list, k) = {} THEN None
                    ELSE list[Newest(list, k)].table[k].version]

-----------------------------------------------------------------------------
(***************************************************************************)
(* The diff of a listing against the loaded segments.                      *)
(***************************************************************************)

IsStale(entry, listed) == entry.version # listed \/ entry.retry

\* Mutant of ToAdd: sources gone from the bucket are not left out.
ToAddUnlisted(list, listing) ==
    {k \in Keys :
        \/ LiveAt(list, k) = {}
        \/ IsStale(list[Newest(list, k)].table[k], listing[k])}

\* Listed sources that have no live entry, or one that must be replaced.
ToAdd(list, listing) ==
    {k \in Keys :
        /\ listing[k] # None
        /\ \/ LiveAt(list, k) = {}
           \/ IsStale(list[Newest(list, k)].table[k], listing[k])}

\* Mutant of NewlyDead: deleted objects are kept.
NewlyDeadChanged(list, listing, j) ==
    {k \in Live(list[j]) :
        j = Newest(list, k) /\ listing[k] # None /\ IsStale(list[j].table[k], listing[k])}

\* Sources of segment j that the run declares dead.
NewlyDead(list, listing, j) ==
    {k \in Live(list[j]) :
        /\ j = Newest(list, k)
        /\ listing[k] = None \/ IsStale(list[j].table[k], listing[k])}

\* Mutant of Pairs: the dead set starts afresh with every run.
PairsForgetting(list, listing) ==
    [j \in DOMAIN list |-> [meta |-> list[j], dead |-> NewlyDead(list, listing, j)]]

\* The loaded segments paired with the dead sets they will have.
Pairs(list, listing) ==
    [j \in DOMAIN list |->
        [meta |-> list[j], dead |-> list[j].dead \cup NewlyDead(list, listing, j)]]

NeedsRepack(list, purge) ==
    \E j \in DOMAIN list :
        list[j].dead # {} /\ (purge \/ ShouldRepack(list[j], list[j].dead))

-----------------------------------------------------------------------------
(***************************************************************************)
(* The state of a run.                                                     *)
(***************************************************************************)

Absent == [state |-> "absent", segments |-> <<>>]
Unreadable == [state |-> "unreadable", segments |-> <<>>]
Loaded(list) == [state |-> "loaded", segments |-> list]

Root == [state : {"absent", "unreadable", "loaded"}, segments : Seq(SegmentMeta)]

AllPacks == UNION {PackIds(t) : t \in Table}
BlobSets == [files : SUBSET Nat, deads : SUBSET (Nat \X SUBSET Keys), packs : SUBSET AllPacks]

\* A segment and the dead set it will have in the next root.
Pair == [meta : SegmentMeta, dead : SUBSET Keys]

Run ==
    [pc : {"idle", "listed", "rooted", "update", "swap", "collect"},
     rebuild : BOOLEAN, purge : BOOLEAN,
     listing : [Keys -> Bodies \cup {None}],
     base : Root,                       \* the root the run loaded
     work : Seq(Pair),                  \* loaded segments not yet decided on
     keep : Seq(SegmentMeta),           \* the segments of the next root
     toAdd : SUBSET Keys,               \* sources not yet built
     pending : SUBSET Nat,              \* segment whose files are being put
     drawn : SUBSET Nat,                \* segment ids this run drew
     dirty : BOOLEAN,                   \* there is something to publish
     replaced : SUBSET SegmentMeta,     \* garbage candidates
     inventory : BlobSets,              \* blobs found beside an unreadable root
     garbage : BlobSets]                \* still to be deleted

Idle ==
    [pc |-> "idle", rebuild |-> FALSE, purge |-> FALSE,
     listing |-> [k \in Keys |-> None], base |-> Absent, work |-> <<>>,
     keep |-> <<>>, toAdd |-> {}, pending |-> {}, drawn |-> {}, dirty |-> FALSE,
     replaced |-> {}, inventory |-> NoBlobs, garbage |-> NoBlobs]

\* An index in a format this version cannot read may already be there; its
\* segment files carry id 0.
Init ==
    /\ bucket \in [Keys -> Bodies \cup {None}]
    /\ root \in {r \in {Absent, Unreadable} : r.state \in FirstRoots}
    /\ files = IF root = Unreadable THEN {0} ELSE {}
    /\ deads = {}
    /\ packs = {}
    /\ nextId = 1
    /\ run = [i \in Indexers |-> Idle]
    /\ mutations = 0 /\ forced = 0 /\ faults = 0
    /\ spilled = FALSE

-----------------------------------------------------------------------------
(***************************************************************************)
(* Steps of a run.                                                         *)
(***************************************************************************)

\* The bucket's users put and delete objects at any time.
Mutate(k, b) ==
    /\ mutations < MaxMutations
    /\ bucket[k] # b
    /\ bucket' = [bucket EXCEPT ![k] = b]
    /\ mutations' = mutations + 1
    /\ UNCHANGED <<store, nextId, run, forced, faults, spilled>>

\* list_user_objects: the run starts and takes its listing, before the root.
List(i) ==
    /\ run[i].pc = "idle"
    /\ \E rebuild \in BOOLEAN, purge \in PurgeModes :
        /\ rebuild => forced < MaxForced
        /\ forced' = IF rebuild THEN forced + 1 ELSE forced
        /\ run' = [run EXCEPT ![i] = [Idle EXCEPT !.pc = "listed", !.listing = bucket,
                                                  !.rebuild = rebuild, !.purge = purge]]
    /\ UNCHANGED <<bucket, store, nextId, mutations, faults, spilled>>

\* load_segment_list.
LoadRoot(i) ==
    /\ run[i].pc = "listed"
    /\ run' = [run EXCEPT ![i] = [@ EXCEPT !.pc = "rooted", !.base = root]]
    /\ UNCHANGED <<bucket, store, nextId, bounds, spilled>>

\* The segments the update builds on.
Existing(r) == IF r.rebuild THEN <<>> ELSE r.base.segments

\* Mutant of UpToDate: deletions alone are no reason to publish.
UpToDateAddsOnly(r) ==
    LET list == Existing(r) IN
    /\ ToAdd(list, r.listing) = {}
    /\ ~r.rebuild
    /\ r.base.state = "loaded"
    /\ Len(list) <= CountTarget
    /\ ~NeedsRepack(list, r.purge)

UpToDate(r) ==
    LET list == Existing(r) IN
    /\ ToAdd(list, r.listing) = {}
    /\ \A j \in DOMAIN list : NewlyDead(list, r.listing, j) = {}
    /\ ~r.rebuild
    /\ r.base.state = "loaded"
    /\ Len(list) <= CountTarget
    /\ ~NeedsRepack(list, r.purge)

\* The run has everything it needs in memory and computes the diff.  Tables
\* and dead sets come from the local cache or the store; a blob found in
\* neither is an Abort.  Beside an unreadable root the run takes inventory of
\* the blobs, packs left out.
Plan(i) ==
    LET r == run[i]
        list == Existing(r)
    IN
    /\ r.pc = "rooted"
    /\ run' = [run EXCEPT ![i] =
           IF UpToDate(r) THEN Idle
           ELSE [r EXCEPT
                   !.pc = "update",
                   !.work = Pairs(list, r.listing),
                   !.toAdd = ToAdd(list, r.listing),
                   !.dirty = \/ ToAdd(list, r.listing) # {}
                             \/ \E j \in DOMAIN list : NewlyDead(list, r.listing, j) # {}
                             \/ r.rebuild \/ r.base.state # "loaded",
                   !.replaced = ToSet(r.base.segments),
                   !.inventory = IF r.base.state = "unreadable"
                                 THEN [NoBlobs EXCEPT !.files = files, !.deads = deads]
                                 ELSE NoBlobs]]
    /\ UNCHANGED <<bucket, store, nextId, bounds, spilled>>

\* The next segment whose fate is open.
NextPair(r) == Head(r.work)
Retiring(r) == r.pc = "update" /\ r.pending = {} /\ r.work # <<>>
IsDropped(p) == p.dead = Sources(p.meta)
IsRepacked(r, p) ==
    ~IsDropped(p) /\ p.dead # {} /\ (r.purge \/ ShouldRepack(p.meta, p.dead))

\* Every source is dead: the segment leaves the index.
Drop(i) ==
    /\ Retiring(run[i])
    /\ IsDropped(NextPair(run[i]))
    /\ run' = [run EXCEPT ![i] = [run[i] EXCEPT !.work = Tail(@)]]
    /\ UNCHANGED <<bucket, store, nextId, bounds, spilled>>

\* The segment stays; if more of it died, write_dead puts its new dead set.
Keep(i) ==
    LET r == run[i]
        p == NextPair(r)
        changed == p.dead # p.meta.dead
        meta == [p.meta EXCEPT !.dead = p.dead]
    IN
    /\ Retiring(r)
    /\ ~IsDropped(p) /\ ~IsRepacked(r, p)
    /\ deads' = IF changed THEN deads \cup {<<meta.id, meta.dead>>} ELSE deads
    /\ run' = [run EXCEPT ![i] =
           [r EXCEPT !.work = Tail(@), !.keep = Append(@, meta),
                     !.replaced = IF changed THEN @ \cup {meta} ELSE @]]
    /\ UNCHANGED <<bucket, root, files, packs, nextId, bounds, spilled>>

\* merge_segments: the live sources of the victims, in one table.  No key is
\* live in two of them.
MergedTable(victims) ==
    LET liveIn(p) == Sources(p.meta) \ p.dead
        ks == UNION {liveIn(p) : p \in victims}
    IN  [k \in ks |-> (CHOOSE p \in victims : k \in liveIn(p)).meta.table[k]]

NewSegment(table) == [id |-> nextId, table |-> table, dead |-> {}]

\* Rewrite the live part of a segment as a new one.  merge_segments reads the
\* old packs from the store and merge_and_put_segment puts the new ones first.
Repack(i) ==
    LET r == run[i]
        p == NextPair(r)
        new == NewSegment(MergedTable({p}))
    IN
    /\ Retiring(r)
    /\ IsRepacked(r, p)
    /\ PackIds(p.meta.table) \subseteq packs
    /\ packs' = packs \cup PackIds(new.table)
    /\ nextId' = nextId + 1
    /\ run' = [run EXCEPT ![i] =
           [r EXCEPT !.work = Tail(@), !.keep = Append(@, new), !.replaced = @ \cup {new},
                     !.pending = {new.id}, !.drawn = @ \cup {new.id}, !.dirty = TRUE]]
    /\ UNCHANGED <<bucket, root, files, deads, bounds, spilled>>

\* Mutant of Fetched: a source that vanished is not tried again.
FetchedOnce(k, v) ==
    [version |-> v,
     body |-> IF bucket[k] = None \/ v \in Undecodable THEN None ELSE bucket[k],
     retry |-> FALSE]

\* S3Corpus and ChunkIngest: the entry for a key listed with version v.  The
\* fetch is conditional on v; an object that changed fails the whole run.
Fetched(k, v) ==
    [version |-> v,
     body |-> IF bucket[k] = None \/ v \in Undecodable THEN None ELSE bucket[k],
     retry |-> bucket[k] = None]

\* Mutant of IsFetchable: the fetch is not conditional.
IsFetchableAlways(shard, listing) == TRUE

\* No object of the shard changed since it was listed (If-Match).
IsFetchable(shard, listing) == \A k \in shard : bucket[k] \in {listing[k], None}

\* write_bounded_segments: the next sources in key order, at most DocCap of
\* them (fewer when their documents exceed the cap), become a new segment.
AddShard(i) ==
    LET r == run[i] IN
    /\ r.pc = "update" /\ r.pending = {} /\ r.work = <<>>
    /\ \E shard \in (SUBSET r.toAdd) \ {{}} :
        /\ Cardinality(shard) <= DocCap
        /\ \A k \in shard, l \in r.toAdd \ shard : k < l
        /\ IsFetchable(shard, r.listing)
        /\ LET new == NewSegment([k \in shard |-> Fetched(k, r.listing[k])]) IN
            /\ packs' = packs \cup PackIds(new.table)
            /\ run' = [run EXCEPT ![i] =
                   [r EXCEPT !.toAdd = @ \ shard, !.keep = Append(@, new),
                             !.replaced = @ \cup {new},
                             !.pending = {new.id}, !.drawn = @ \cup {new.id}]]
    /\ nextId' = nextId + 1
    /\ UNCHANGED <<bucket, root, files, deads, bounds, spilled>>

\* The conditional fetch of a listed object finds another version: the update
\* errors (StaleSource).
FailFetch(i) ==
    LET r == run[i] IN
    /\ r.pc = "update" /\ r.pending = {} /\ r.work = <<>>
    /\ ~IsFetchable(r.toAdd, r.listing)
    /\ run' = [run EXCEPT ![i] = Idle]
    /\ spilled' = TRUE
    /\ UNCHANGED <<bucket, store, nextId, bounds>>

\* merge_and_put_segment, after the packs: the segment's own files.  When a
\* put fails it removes them again and the run errors (Abort).
PutFiles(i) ==
    /\ run[i].pending # {}
    /\ files' = files \cup run[i].pending
    /\ run' = [run EXCEPT ![i] = [@ EXCEPT !.pending = {}]]
    /\ UNCHANGED <<bucket, root, deads, packs, nextId, bounds, spilled>>

\* maybe_compact: adjacent segments to merge, the first pair with the fewest
\* live documents among the pairs within the caps.
LiveDocs(m) == Cardinality(Documents(m.table) \ m.dead)
PairDocs(list, j) == LiveDocs(list[j]) + LiveDocs(list[j + 1])
Mergeable(list) ==
    IF Len(list) <= CountTarget THEN {}
    ELSE {j \in 1..(Len(list) - 1) : PairDocs(list, j) <= DocCap}
Victims(list) ==
    {j \in Mergeable(list) : \A h \in Mergeable(list) :
        \/ PairDocs(list, j) < PairDocs(list, h)
        \/ PairDocs(list, j) = PairDocs(list, h) /\ j <= h}

\* The two neighbours as merge_segments takes them.
Neighbours(list, v) == {[meta |-> m, dead |-> m.dead] : m \in {list[v], list[v + 1]}}
NeighbourPacks(list, v) == PackIds(list[v].table) \cup PackIds(list[v + 1].table)

ReadyToCompact(r) == r.pc = "update" /\ r.pending = {} /\ r.work = <<>> /\ r.toAdd = {}

Compact(i) ==
    LET r == run[i] IN
    /\ ReadyToCompact(r)
    /\ \E v \in Victims(r.keep) :
        LET new == NewSegment(MergedTable(Neighbours(r.keep, v))) IN
        /\ NeighbourPacks(r.keep, v) \subseteq packs
        /\ packs' = packs \cup PackIds(new.table)
        /\ run' = [run EXCEPT ![i] =
               [r EXCEPT !.keep = SubSeq(@, 1, v - 1) \o <<new>> \o SubSeq(@, v + 2, Len(@)),
                         !.pending = {new.id}, !.drawn = @ \cup {new.id}, !.dirty = TRUE,
                         !.pc = "swap"]]
    /\ nextId' = nextId + 1
    /\ UNCHANGED <<bucket, root, files, deads, bounds, spilled>>

\* A pack to be merged is gone from the store, where merges always read it:
\* the update errors.
FailMerge(i) ==
    LET r == run[i] IN
    /\ \/ /\ Retiring(r)
          /\ IsRepacked(r, NextPair(r))
          /\ ~(PackIds(NextPair(r).meta.table) \subseteq packs)
       \/ /\ ReadyToCompact(r)
          /\ \E v \in Victims(r.keep) : ~(NeighbourPacks(r.keep, v) \subseteq packs)
    /\ run' = [run EXCEPT ![i] = Idle]
    /\ spilled' = TRUE
    /\ UNCHANGED <<bucket, store, nextId, bounds>>

\* Nothing to merge.  A run that also changed nothing else is up to date.
SkipCompact(i) ==
    LET r == run[i] IN
    /\ ReadyToCompact(r)
    /\ Mergeable(r.keep) = {}
    /\ run' = [run EXCEPT ![i] = IF r.dirty THEN [r EXCEPT !.pc = "swap"] ELSE Idle]
    /\ UNCHANGED <<bucket, store, nextId, bounds, spilled>>

\* Mutants of Garbage: packs that were carried over are deleted; files that are
\* still named are deleted; only the blobs of the old root are looked at.
GarbageCarriedPacks(r) ==
    LET before == Blobs(r.replaced)
        kept == Blobs(ToSet(r.keep))
    IN  [files |-> (before.files \cup r.inventory.files) \ kept.files,
         deads |-> (before.deads \cup r.inventory.deads) \ kept.deads,
         packs |-> before.packs]
GarbageKeptFiles(r) ==
    LET before == Blobs(r.replaced)
        kept == Blobs(ToSet(r.keep))
    IN  [files |-> before.files \cup r.inventory.files,
         deads |-> (before.deads \cup r.inventory.deads) \ kept.deads,
         packs |-> before.packs \ kept.packs]
GarbageOldRoot(r) ==
    LET before == Blobs(ToSet(r.base.segments))
        kept == Blobs(ToSet(r.keep))
    IN  [files |-> (before.files \cup r.inventory.files) \ kept.files,
         deads |-> (before.deads \cup r.inventory.deads) \ kept.deads,
         packs |-> before.packs \ kept.packs]

\* What collect_garbage and the sweep of an unreadable index delete.
Garbage(r) ==
    LET before == Blobs(r.replaced)
        kept == Blobs(ToSet(r.keep))
    IN  [files |-> (before.files \cup r.inventory.files) \ kept.files,
         deads |-> (before.deads \cup r.inventory.deads) \ kept.deads,
         packs |-> before.packs \ kept.packs]

\* Mutant of CanSwap: the root is put unconditionally.
CanSwapAlways(r) == TRUE

CanSwap(r) == root = r.base

\* put_if on segments.bin.  The version compared is derived from the content.
Swap(i) ==
    LET r == run[i] IN
    /\ r.pc = "swap" /\ r.pending = {}
    /\ CanSwap(r)
    /\ root' = Loaded(r.keep)
    /\ run' = [run EXCEPT ![i] = [Idle EXCEPT !.pc = "collect", !.garbage = Garbage(r)]]
    /\ UNCHANGED <<bucket, files, deads, packs, nextId, bounds, spilled>>

\* Another run swapped first: the error leaves this run's blobs behind.
LoseRace(i) ==
    LET r == run[i] IN
    /\ r.pc = "swap" /\ r.pending = {}
    /\ ~CanSwap(r)
    /\ run' = [run EXCEPT ![i] = Idle]
    /\ spilled' = TRUE
    /\ UNCHANGED <<bucket, store, nextId, bounds>>

\* One blob of the garbage has been dealt with, left is what remains.
Collect(i, left) == run' = [run EXCEPT ![i] = [@ EXCEPT !.garbage = left]]

\* collect_garbage and the sweep take one blob off the list, in no particular
\* order.
Delete(i) ==
    LET g == run[i].garbage IN
    /\ run[i].pc = "collect"
    /\ \/ \E f \in g.files : /\ files' = files \ {f}
                             /\ Collect(i, [g EXCEPT !.files = @ \ {f}])
                             /\ UNCHANGED <<deads, packs>>
       \/ \E d \in g.deads : /\ deads' = deads \ {d}
                             /\ Collect(i, [g EXCEPT !.deads = @ \ {d}])
                             /\ UNCHANGED <<files, packs>>
       \/ \E p \in g.packs : /\ packs' = packs \ {p}
                             /\ Collect(i, [g EXCEPT !.packs = @ \ {p}])
                             /\ UNCHANGED <<files, deads>>
    /\ UNCHANGED <<bucket, root, nextId, bounds, spilled>>

\* A delete that fails is a warning, and the blob is not tried again.
FailDelete(i) ==
    LET g == run[i].garbage IN
    /\ run[i].pc = "collect"
    /\ faults < MaxFaults
    /\ faults' = faults + 1
    /\ spilled' = TRUE
    /\ \/ \E f \in g.files : Collect(i, [g EXCEPT !.files = @ \ {f}])
       \/ \E d \in g.deads : Collect(i, [g EXCEPT !.deads = @ \ {d}])
       \/ \E p \in g.packs : Collect(i, [g EXCEPT !.packs = @ \ {p}])
    /\ UNCHANGED <<bucket, store, nextId, mutations, forced>>

Finish(i) ==
    /\ run[i].pc = "collect"
    /\ run[i].garbage = NoBlobs
    /\ run' = [run EXCEPT ![i] = Idle]
    /\ UNCHANGED <<bucket, store, nextId, bounds, spilled>>

\* Any store operation fails or the process dies.  Blobs already put stay.
Abort(i) ==
    /\ run[i].pc # "idle"
    /\ faults < MaxFaults
    /\ faults' = faults + 1
    /\ run' = [run EXCEPT ![i] = Idle]
    /\ spilled' = TRUE
    /\ UNCHANGED <<bucket, store, nextId, mutations, forced>>

Step(i) ==
    \/ LoadRoot(i) \/ Plan(i) \/ Drop(i) \/ Keep(i) \/ Repack(i)
    \/ AddShard(i) \/ FailFetch(i) \/ PutFiles(i)
    \/ Compact(i) \/ FailMerge(i) \/ SkipCompact(i)
    \/ Swap(i) \/ LoseRace(i) \/ Delete(i) \/ Finish(i)

Next ==
    \/ \E k \in Keys, b \in Bodies \cup {None} : Mutate(k, b)
    \/ \E i \in Indexers : List(i) \/ Step(i) \/ FailDelete(i) \/ Abort(i)

Spec == Init /\ [][Next]_vars

\* `seagrep index --watch` starts one run after the other, and a run takes its
\* steps.  Faults and changes of the bucket are limited by their bounds.
FairSpec == Spec /\ \A i \in Indexers : WF_vars(List(i)) /\ WF_vars(Step(i))

-----------------------------------------------------------------------------
\* Every field of the state and of each run has its type, and a run adds only
\* sources its listing has.
TypeOK ==
    /\ bucket \in [Keys -> Bodies \cup {None}]
    /\ root \in Root
    /\ files \subseteq Nat
    /\ deads \subseteq Nat \X SUBSET Keys
    /\ packs \subseteq AllPacks
    /\ nextId \in Nat
    /\ run \in [Indexers -> Run]
    /\ \A i \in Indexers : \A k \in run[i].toAdd : run[i].listing[k] # None
    /\ mutations \in 0..MaxMutations /\ forced \in 0..MaxForced /\ faults \in 0..MaxFaults
    /\ spilled \in BOOLEAN

\* Whatever runs overlap, fail or die, every segment file and dead set that
\* segments.bin names is in the store.
RootComplete ==
    LET named == Blobs(ToSet(root.segments))
    IN  named.files \subseteq files /\ named.deads \subseteq deads

\* So is every pack.
PacksPresent == Blobs(ToSet(root.segments)).packs \subseteq packs

\* No key is live in two segments of the root, so no search reports a source
\* twice and a merge never meets one key in both victims.
UniqueLive == \A k \in Keys : Cardinality(LiveAt(root.segments, k)) <= 1

\* A source indexed under a version was decoded from that very version, though
\* the bucket changes between the listing and the fetch.
IndexedBodyIsListedBody ==
    \A m \in ToSet(root.segments) : \A k \in Documents(m.table) :
        m.table[k].body = m.table[k].version

\* As long as no run was interrupted, the store holds nothing but what the root
\* names once the runs are over.
NothingLeftBehind ==
    (~spilled /\ root.state = "loaded" /\ \A i \in Indexers : run[i].pc = "idle") =>
        LET named == Blobs(ToSet(root.segments))
        IN  files \subseteq named.files /\ deads \subseteq named.deads /\ packs \subseteq named.packs

\* A source declared dead in a segment stays dead in it.
DeadStaysDead ==
    [][\A m \in ToSet(root.segments), n \in ToSet(root'.segments) :
          m.id = n.id => m.table = n.table /\ m.dead \subseteq n.dead]_vars

\* A run that reports the index up to date is right: the root it loaded shows
\* its listing.
UpToDateIsTrue ==
    \A i \in Indexers : LET r == run[i] IN
        \/ r.pc = "rooted" /\ UpToDate(r)
        \/ ReadyToCompact(r) /\ Mergeable(r.keep) = {} /\ ~r.dirty
        => View(r.base.segments) = r.listing

\* Once the bucket stays as it is, the index comes to show it, and every body
\* that can be decoded is searchable.
IndexMatches ==
    /\ View(root.segments) = bucket
    /\ \A k \in Keys : bucket[k] \notin Undecodable \cup {None} =>
          root.segments[Newest(root.segments, k)].table[k].body = bucket[k]

Converges == <>[]IndexMatches

\* Whatever a new root was merged, repacked and built from, and whatever other
\* runs were doing, publishing it replaces the snapshot the run had loaded by
\* the run's listing, and nothing else changes what searches see.
Snapshot == INSTANCE SnapshotIndex WITH
    view <- View(root.segments),
    session <- [i \in Indexers |->
        [pc |-> CASE run[i].pc \in {"idle", "collect"} -> "idle"
                  [] run[i].pc = "listed" -> "listed"
                  [] OTHER -> "looked",
         listing |-> run[i].listing,
         seen |-> View(run[i].base.segments)]]

ImplementsSnapshot == Snapshot!Spec
=============================================================================
