----------------------- MODULE SegmentedIndexRootProofs -----------------------
(***************************************************************************)
(* Proof that every reachable state of a segmented index is well typed,    *)
(* that its root never names a segment file or a dead set that is not in   *)
(* the store, and that dead sources stay dead, for any number of           *)
(* overlapping, failing and dying runs.                                    *)
(*                                                                         *)
(* The difficulty is that a run deletes long after it swapped, when others *)
(* have loaded its root and swapped in turn, and that the conditional put  *)
(* compares contents: the root may return to a content that a slow run     *)
(* loaded before, and the slow run then wins.                              *)
(*                                                                         *)
(* The parts of the invariant are stated of values, a run r, a root rt, the*)
(* files fs and dead sets ds of the store and the next id n, so that a step*)
(* is a step from one set of values to another.                            *)
(***************************************************************************)
EXTENDS SegmentedIndex, SequenceTheorems, TLAPS

-----------------------------------------------------------------------------
(***************************************************************************)
(* Every reachable state is well typed.                                    *)
(***************************************************************************)

LEMMA ToSetType ==
    ASSUME NEW S, NEW s \in Seq(S)
    PROVE  ToSet(s) \in SUBSET S
BY DEF ToSet

LEMMA PackIdsType ==
    ASSUME NEW t \in Table
    PROVE  PackIds(t) \in SUBSET AllPacks
BY DEF AllPacks

LEMMA BlobsType ==
    ASSUME NEW S \in SUBSET SegmentMeta
    PROVE  Blobs(S) \in BlobSets
<1>1. \A m \in S : m.id \in Nat /\ m.table \in Table /\ m.dead \in SUBSET Keys
  BY DEF SegmentMeta
<1>2. UNION {PackIds(m.table) : m \in S} \in SUBSET AllPacks
  BY <1>1, PackIdsType
<1>3. {m.id : m \in S} \in SUBSET Nat
  BY <1>1
<1>4. {<<m.id, m.dead>> : m \in {s \in S : s.dead # {}}} \in SUBSET (Nat \X SUBSET Keys)
  BY <1>1
<1> QED
  BY <1>2, <1>3, <1>4 DEF Blobs, BlobSets

LEMMA MergedType ==
    ASSUME NEW V \in SUBSET Pair
    PROVE  MergedTable(V) \in Table
<1> DEFINE liveIn(p) == Sources(p.meta) \ p.dead
           ks == UNION {liveIn(p) : p \in V}
           of(k) == CHOOSE p \in V : k \in liveIn(p)
<1>1. \A p \in V : liveIn(p) \subseteq Keys /\ \A k \in liveIn(p) : p.meta.table[k] \in Entry
  BY DEF Pair, SegmentMeta, Table, Sources
<1>2. \A k \in ks : of(k) \in V /\ k \in liveIn(of(k))
  OBVIOUS
<1>3. ks \in SUBSET Keys /\ \A k \in ks : of(k).meta.table[k] \in Entry
  BY <1>1, <1>2
<1>4. MergedTable(V) = [k \in ks |-> of(k).meta.table[k]]
  BY DEF MergedTable
<1> HIDE DEF ks, of
<1>5. MergedTable(V) \in [ks -> Entry]
  BY <1>3, <1>4
<1> QED
  BY <1>3, <1>5 DEF Table

LEMMA IdleType == Idle \in Run
BY DEF Idle, Run, NoBlobs, BlobSets, Absent, Root

LEMMA NewSegmentType ==
    ASSUME NEW t \in Table, nextId \in Nat
    PROVE  NewSegment(t) \in SegmentMeta
BY DEF NewSegment, SegmentMeta

LEMMA GarbageType ==
    ASSUME NEW r \in Run
    PROVE  Garbage(r) \in BlobSets
<1>1. r.replaced \in SUBSET SegmentMeta /\ r.keep \in Seq(SegmentMeta) /\ r.inventory \in BlobSets
  BY DEF Run
<1>2. Blobs(r.replaced) \in BlobSets /\ Blobs(ToSet(r.keep)) \in BlobSets
  BY <1>1, ToSetType, BlobsType
<1> QED
  BY <1>1, <1>2 DEF Garbage, BlobSets

LEMMA PlanType ==
    ASSUME NEW list \in Seq(SegmentMeta), NEW listing \in [Keys -> Bodies \cup {None}]
    PROVE  /\ Pairs(list, listing) \in Seq(Pair)
           /\ ToAdd(list, listing) \in SUBSET Keys
<1>1. \A j \in DOMAIN list : list[j] \in SegmentMeta
  OBVIOUS
<1>2. \A j \in DOMAIN list : NewlyDead(list, listing, j) \in SUBSET Keys
  BY <1>1 DEF NewlyDead, Live, Sources, SegmentMeta, Table
<1>3. \A j \in DOMAIN list :
         [meta |-> list[j], dead |-> list[j].dead \cup NewlyDead(list, listing, j)] \in Pair
  BY <1>1, <1>2 DEF Pair, SegmentMeta
<1>4. Pairs(list, listing) \in Seq(Pair)
  BY <1>3 DEF Pairs
<1> QED
  BY <1>4 DEF ToAdd

LEMMA ListedType ==
    ASSUME NEW r \in Run, NEW listing \in [Keys -> Bodies \cup {None}],
           NEW rebuild \in BOOLEAN, NEW purge \in BOOLEAN
    PROVE  [r EXCEPT !.pc = "listed", !.listing = listing,
                     !.rebuild = rebuild, !.purge = purge] \in Run
BY DEF Run

LEMMA CollectType ==
    ASSUME NEW r \in Run, NEW g \in BlobSets
    PROVE  [r EXCEPT !.pc = "collect", !.garbage = g] \in Run
BY DEF Run

LEMMA PlannedType ==
    ASSUME NEW r \in Run, NEW w \in Seq(Pair), NEW t \in SUBSET Keys, NEW d \in BOOLEAN,
           NEW q \in SUBSET SegmentMeta, NEW v \in BlobSets
    PROVE  [r EXCEPT !.pc = "update", !.work = w, !.toAdd = t, !.dirty = d,
                     !.replaced = q, !.inventory = v] \in Run
BY DEF Run

\* What an object fetched for a listed key is recorded as.
LEMMA FetchedType ==
    ASSUME TypeOK, NEW k \in Keys, NEW v \in Bodies
    PROVE  Fetched(k, v) \in Entry
BY DEF TypeOK, Fetched, Entry

\* The two halves of the list that compaction splices a segment between.
LEMMA SpliceType ==
    ASSUME NEW S, NEW list \in Seq(S), NEW v \in 1..(Len(list) - 1), NEW new \in S
    PROVE  SubSeq(list, 1, v - 1) \o <<new>> \o SubSeq(list, v + 2, Len(list)) \in Seq(S)
<1>1. SubSeq(list, 1, v - 1) \in Seq(S)
  OBVIOUS
<1>2. SubSeq(list, v + 2, Len(list)) \in Seq(S)
  OBVIOUS
<1>3. <<new>> \in Seq(S)
  OBVIOUS
<1> QED
  BY <1>1, <1>2, <1>3

LEMMA VictimsType ==
    ASSUME NEW list \in Seq(SegmentMeta), NEW v \in Victims(list)
    PROVE  /\ v \in 1..(Len(list) - 1)
           /\ list[v] \in SegmentMeta /\ list[v + 1] \in SegmentMeta
           /\ Neighbours(list, v) \in SUBSET Pair
<1>1. v \in 1..(Len(list) - 1)
  BY DEF Victims, Mergeable
<1>2. list[v] \in SegmentMeta /\ list[v + 1] \in SegmentMeta
  BY <1>1
<1>3. Neighbours(list, v) \in SUBSET Pair
  BY <1>2 DEF Neighbours, Pair, SegmentMeta
<1> QED
  BY <1>1, <1>2, <1>3

\* A run that is over or asks only for what its listing has.
RunOK(r) == r \in Run /\ \A k \in r.toAdd : r.listing[k] # None

LEMMA IdleOK == RunOK(Idle)
BY IdleType DEF RunOK, Idle

LEMMA RunStep ==
    ASSUME TypeOK, NEW i \in Indexers, NEW r, RunOK(r), run' = [run EXCEPT ![i] = r]
    PROVE  /\ run' \in [Indexers -> Run]
           /\ \A j \in Indexers : \A k \in run'[j].toAdd : run'[j].listing[k] # None
BY DEF TypeOK, RunOK

LEMMA RunStepSameListing ==
    ASSUME TypeOK, NEW i \in Indexers, NEW r \in Run, run' = [run EXCEPT ![i] = r],
           r.toAdd \subseteq run[i].toAdd, r.listing = run[i].listing
    PROVE  /\ run' \in [Indexers -> Run]
           /\ \A j \in Indexers : \A k \in run'[j].toAdd : run'[j].listing[k] # None
<1>1. RunOK(r)
  BY DEF TypeOK, RunOK
<1> QED
  BY <1>1, RunStep

LEMMA KeptType ==
    ASSUME NEW r \in Run, NEW work \in Seq(Pair), NEW keep \in Seq(SegmentMeta),
           NEW q \in SUBSET SegmentMeta
    PROVE  [r EXCEPT !.work = work, !.keep = keep, !.replaced = q] \in Run
BY DEF Run

LEMMA RepackedType ==
    ASSUME NEW r \in Run, NEW work \in Seq(Pair), NEW keep \in Seq(SegmentMeta),
           NEW q \in SUBSET SegmentMeta, NEW n \in Nat
    PROVE  [r EXCEPT !.work = work, !.keep = keep, !.replaced = q,
                     !.pending = {n}, !.drawn = @ \cup {n}, !.dirty = TRUE] \in Run
BY DEF Run

LEMMA BuiltType ==
    ASSUME NEW r \in Run, NEW toAdd \in SUBSET Keys, NEW keep \in Seq(SegmentMeta),
           NEW q \in SUBSET SegmentMeta, NEW n \in Nat
    PROVE  [r EXCEPT !.toAdd = toAdd, !.keep = keep, !.replaced = q,
                     !.pending = {n}, !.drawn = @ \cup {n}] \in Run
BY DEF Run

LEMMA CompactedType ==
    ASSUME NEW r \in Run, NEW keep \in Seq(SegmentMeta), NEW n \in Nat
    PROVE  [r EXCEPT !.keep = keep, !.pending = {n}, !.drawn = @ \cup {n}, !.dirty = TRUE,
                     !.pc = "swap"] \in Run
BY DEF Run

\* No field of the state ever leaves its type.
THEOREM TypeCorrect == Spec => []TypeOK
<1>1. Init => TypeOK
  <2> SUFFICES ASSUME Init PROVE TypeOK
    OBVIOUS
  <2>1. root \in Root
    <3>1. Absent \in Root /\ Unreadable \in Root
      BY DEF Absent, Unreadable, Root
    <3> QED
      BY <3>1 DEF Init
  <2>2. files \subseteq Nat /\ nextId \in Nat
    BY DEF Init
  <2>3. /\ run \in [Indexers -> Run]
        /\ \A i \in Indexers : \A k \in run[i].toAdd : run[i].listing[k] # None
    BY IdleOK DEF Init, RunOK
  <2>4. mutations \in 0..MaxMutations /\ forced \in 0..MaxForced /\ faults \in 0..MaxFaults
    BY ConstantsAssumption DEF Init
  <2> QED
    BY <2>1, <2>2, <2>3, <2>4 DEF Init, TypeOK
<1>2. TypeOK /\ [Next]_vars => TypeOK'
  <2> SUFFICES ASSUME TypeOK, [Next]_vars PROVE TypeOK'
    OBVIOUS
  <2>1. ASSUME NEW k \in Keys, NEW b \in Bodies \cup {None}, Mutate(k, b) PROVE TypeOK'
    BY <2>1, ConstantsAssumption DEF TypeOK, Mutate, store
  <2>2. ASSUME NEW i \in Indexers, List(i) PROVE TypeOK'
    <3> PICK rebuild \in BOOLEAN, purge \in PurgeModes :
          /\ rebuild => forced < MaxForced
          /\ forced' = IF rebuild THEN forced + 1 ELSE forced
          /\ run' = [run EXCEPT ![i] = [Idle EXCEPT !.pc = "listed", !.listing = bucket,
                                                  !.rebuild = rebuild, !.purge = purge]]
      BY <2>2 DEF List
    <3> DEFINE r == [Idle EXCEPT !.pc = "listed", !.listing = bucket,
                                 !.rebuild = rebuild, !.purge = purge]
    <3>1. r \in Run
      BY IdleType, ListedType, ConstantsAssumption DEF TypeOK
    <3>2. r.toAdd = {}
      BY DEF Idle
    <3>3. RunOK(r)
      BY <3>1, <3>2 DEF RunOK
    <3>4. forced' \in 0..MaxForced
      BY ConstantsAssumption DEF TypeOK
    <3> HIDE DEF r
    <3>5. run' = [run EXCEPT ![i] = r]
      BY DEF r
    <3> QED
      BY <2>2, <3>3, <3>4, <3>5, RunStep DEF TypeOK, List, store
  <2>3. ASSUME NEW i \in Indexers, LoadRoot(i) PROVE TypeOK'
    <3> DEFINE r == [run[i] EXCEPT !.pc = "rooted", !.base = root]
    <3>1. r \in Run /\ r.toAdd = run[i].toAdd /\ r.listing = run[i].listing
      <4>1. run[i] \in Run /\ root \in Root
        BY DEF TypeOK
      <4> QED
        BY <4>1 DEF Run
    <3>2. run' = [run EXCEPT ![i] = r]
      BY <2>3 DEF LoadRoot
    <3> HIDE DEF r
    <3> QED
      BY <2>3, <3>1, <3>2, RunStepSameListing DEF TypeOK, LoadRoot, store, bounds
  <2>4. ASSUME NEW i \in Indexers, Plan(i) PROVE TypeOK'
    <3> DEFINE r == run[i]
               list == Existing(r)
               dirty == \/ ToAdd(list, r.listing) # {}
                        \/ \E j \in DOMAIN list : NewlyDead(list, r.listing, j) # {}
                        \/ r.rebuild \/ r.base.state # "loaded"
               inventory == IF r.base.state = "unreadable"
                            THEN [NoBlobs EXCEPT !.files = files, !.deads = deads]
                            ELSE NoBlobs
               planned == [r EXCEPT !.pc = "update", !.work = Pairs(list, r.listing),
                                    !.toAdd = ToAdd(list, r.listing), !.dirty = dirty,
                                    !.replaced = ToSet(r.base.segments), !.inventory = inventory]
    <3>1. r \in Run
      BY DEF TypeOK
    <3>2. list \in Seq(SegmentMeta)
      BY <3>1 DEF Existing, Run, Root
    <3>3. Pairs(list, r.listing) \in Seq(Pair) /\ ToAdd(list, r.listing) \in SUBSET Keys
      BY <3>1, <3>2, PlanType DEF Run
    <3>4. ToSet(r.base.segments) \in SUBSET SegmentMeta
      BY <3>1, ToSetType DEF Run, Root
    <3>5. inventory \in BlobSets
      BY DEF NoBlobs, BlobSets, TypeOK
    <3>6. dirty \in BOOLEAN
      BY Zenon
    <3>7. run' = [run EXCEPT ![i] = IF UpToDate(r) THEN Idle ELSE planned]
      BY <2>4 DEF Plan
    <3>8. RunOK(planned)
      <4> HIDE DEF r, list, dirty, inventory
      <4>1. planned \in Run
        BY <3>1, <3>3, <3>4, <3>5, <3>6, PlannedType
      <4>2. planned.toAdd = ToAdd(list, r.listing) /\ planned.listing = r.listing
        BY <3>1 DEF Run
      <4>3. \A k \in ToAdd(list, r.listing) : r.listing[k] # None
        BY DEF ToAdd
      <4> HIDE DEF planned
      <4> QED
        BY <4>1, <4>2, <4>3 DEF RunOK
    <3> HIDE DEF planned
    <3> QED
      BY <2>4, <3>7, <3>8, IdleOK, RunStep DEF TypeOK, Plan, store, bounds
  <2>5. ASSUME NEW i \in Indexers, Drop(i) PROVE TypeOK'
    <3> DEFINE r == [run[i] EXCEPT !.work = Tail(@)]
    <3>1. run[i].work \in Seq(Pair) /\ run[i].work # <<>> /\ run[i] \in Run
      BY <2>5 DEF TypeOK, Run, Drop, Retiring
    <3>2. Tail(run[i].work) \in Seq(Pair)
      BY <3>1
    <3>3. r \in Run /\ r.toAdd = run[i].toAdd /\ r.listing = run[i].listing
      BY <3>1, <3>2 DEF Run
    <3>4. run' = [run EXCEPT ![i] = r]
      BY <2>5 DEF Drop
    <3> HIDE DEF r
    <3> QED
      BY <2>5, <3>3, <3>4, RunStepSameListing DEF TypeOK, Drop, store, bounds
  <2>6. ASSUME NEW i \in Indexers, Keep(i) PROVE TypeOK'
    <3> DEFINE p == NextPair(run[i])
               m == [p.meta EXCEPT !.dead = p.dead]
               q == IF p.dead # p.meta.dead THEN run[i].replaced \cup {m} ELSE run[i].replaced
               r == [run[i] EXCEPT !.work = Tail(run[i].work), !.keep = Append(run[i].keep, m),
                                   !.replaced = q]
    <3>1. run[i].work \in Seq(Pair) /\ run[i].work # <<>> /\ run[i] \in Run
      BY <2>6 DEF TypeOK, Run, Keep, Retiring
    <3>2. Tail(run[i].work) \in Seq(Pair) /\ p \in Pair
      BY <3>1 DEF NextPair
    <3>3. m \in SegmentMeta
      BY <3>2 DEF Pair, SegmentMeta
    <3>4. run[i].keep \in Seq(SegmentMeta) /\ run[i].replaced \in SUBSET SegmentMeta
      BY DEF TypeOK, Run
    <3>5. Append(run[i].keep, m) \in Seq(SegmentMeta)
      BY <3>3, <3>4
    <3>6. deads' \subseteq Nat \X SUBSET Keys
      <4>1. <<m.id, m.dead>> \in Nat \X SUBSET Keys
        BY <3>3 DEF SegmentMeta
      <4>2. deads' \subseteq deads \cup {<<m.id, m.dead>>}
        BY <2>6 DEF Keep
      <4> QED
        BY <4>1, <4>2 DEF TypeOK
    <3>7. q \in SUBSET SegmentMeta
      BY <3>3, <3>4
    <3>8. run' = [run EXCEPT ![i] = r]
      BY <2>6 DEF Keep
    <3> HIDE DEF q, m, p
    <3>9. r \in Run
      BY <3>1, <3>2, <3>5, <3>7, KeptType
    <3>10. r.toAdd = run[i].toAdd /\ r.listing = run[i].listing
      BY <3>1 DEF Run
    <3> HIDE DEF r
    <3> QED
      BY <2>6, <3>6, <3>8, <3>9, <3>10, RunStepSameListing DEF TypeOK, Keep, bounds
  <2>7. ASSUME NEW i \in Indexers, Repack(i) PROVE TypeOK'
    <3> DEFINE p == NextPair(run[i])
               new == NewSegment(MergedTable({p}))
               r == [run[i] EXCEPT !.work = Tail(@), !.keep = Append(@, new),
                                   !.replaced = @ \cup {new},
                                   !.pending = {new.id}, !.drawn = @ \cup {new.id}, !.dirty = TRUE]
    <3>1. run[i].work \in Seq(Pair) /\ run[i].work # <<>> /\ run[i] \in Run
      BY <2>7 DEF TypeOK, Run, Repack, Retiring
    <3>2. Tail(run[i].work) \in Seq(Pair) /\ p \in Pair
      BY <3>1 DEF NextPair
    <3>3. new \in SegmentMeta
      BY <3>2, MergedType, NewSegmentType DEF TypeOK
    <3>4. run[i].keep \in Seq(SegmentMeta) /\ run[i].replaced \in SUBSET SegmentMeta
      BY DEF TypeOK, Run
    <3>6. packs' \subseteq AllPacks
      BY <2>7, <3>3, PackIdsType DEF TypeOK, Repack, SegmentMeta
    <3>7. run' = [run EXCEPT ![i] = r]
      BY <2>7 DEF Repack
    <3> HIDE DEF new, p
    <3>5. /\ Append(run[i].keep, new) \in Seq(SegmentMeta)
          /\ run[i].replaced \cup {new} \in SUBSET SegmentMeta
          /\ new.id \in Nat
      BY <3>3, <3>4 DEF SegmentMeta
    <3>8. r \in Run
      BY <3>1, <3>2, <3>5, RepackedType
    <3>9. r.toAdd = run[i].toAdd /\ r.listing = run[i].listing
      BY <3>1 DEF Run
    <3> HIDE DEF r
    <3>10. UNCHANGED <<bucket, root, files, deads, bounds, spilled>> /\ nextId' = nextId + 1
      BY <2>7 DEF Repack
    <3> QED
      BY <3>6, <3>7, <3>8, <3>9, <3>10, RunStepSameListing DEF TypeOK, bounds
  <2>8. ASSUME NEW i \in Indexers, AddShard(i) PROVE TypeOK'
    <3>13. PICK shard \in SUBSET run[i].toAdd :
          LET new == NewSegment([k \in shard |-> Fetched(k, run[i].listing[k])]) IN
            /\ packs' = packs \cup PackIds(new.table)
            /\ run' = [run EXCEPT ![i] =
                   [run[i] EXCEPT !.toAdd = @ \ shard, !.keep = Append(@, new),
                             !.replaced = @ \cup {new},
                             !.pending = {new.id}, !.drawn = @ \cup {new.id}]]
      BY <2>8 DEF AddShard
    <3> DEFINE table == [k \in shard |-> Fetched(k, run[i].listing[k])]
               new == NewSegment(table)
               r == [run[i] EXCEPT !.toAdd = @ \ shard, !.keep = Append(@, new),
                                   !.replaced = @ \cup {new},
                                   !.pending = {new.id}, !.drawn = @ \cup {new.id}]
    <3>0. /\ packs' = packs \cup PackIds(new.table)
          /\ run' = [run EXCEPT ![i] = r]
      BY <3>13
    <3>1. /\ run[i] \in Run /\ run[i].toAdd \in SUBSET Keys
          /\ run[i].listing \in [Keys -> Bodies \cup {None}]
          /\ \A k \in run[i].toAdd : run[i].listing[k] # None
          /\ run[i].keep \in Seq(SegmentMeta) /\ run[i].replaced \in SUBSET SegmentMeta
      BY DEF TypeOK, Run
    <3>2. shard \in SUBSET Keys /\ \A k \in shard : run[i].listing[k] \in Bodies
      BY <3>1
    <3>3. \A k \in shard : Fetched(k, run[i].listing[k]) \in Entry
      BY <3>2, FetchedType
    <3>4. table \in [shard -> Entry]
      BY <3>3
    <3> HIDE DEF table
    <3>5. table \in Table
      BY <3>2, <3>4 DEF Table
    <3>6. new \in SegmentMeta
      BY <3>5, NewSegmentType DEF TypeOK
    <3> HIDE DEF new
    <3>7. /\ Append(run[i].keep, new) \in Seq(SegmentMeta)
          /\ run[i].replaced \cup {new} \in SUBSET SegmentMeta
          /\ new.id \in Nat /\ new.table \in Table
      BY <3>1, <3>6 DEF SegmentMeta
    <3>8. packs' \subseteq AllPacks
      BY <3>0, <3>7, PackIdsType DEF TypeOK
    <3>9. run[i].toAdd \ shard \in SUBSET Keys
      BY <3>1
    <3>10. r \in Run
      BY <3>1, <3>7, <3>9, BuiltType
    <3>11. r.toAdd \subseteq run[i].toAdd /\ r.listing = run[i].listing
      BY <3>1 DEF Run
    <3> HIDE DEF r
    <3>12. UNCHANGED <<bucket, root, files, deads, bounds, spilled>> /\ nextId' = nextId + 1
      BY <2>8 DEF AddShard
    <3> QED
      BY <3>0, <3>8, <3>10, <3>11, <3>12, RunStepSameListing DEF TypeOK, bounds
  <2>9. ASSUME NEW i \in Indexers, PutFiles(i) PROVE TypeOK'
    <3> DEFINE r == [run[i] EXCEPT !.pending = {}]
    <3>1. /\ r \in Run /\ r.toAdd = run[i].toAdd /\ r.listing = run[i].listing
          /\ run[i].pending \subseteq Nat
      BY DEF TypeOK, Run
    <3>2. run' = [run EXCEPT ![i] = r]
      BY <2>9 DEF PutFiles
    <3> HIDE DEF r
    <3> QED
      BY <2>9, <3>1, <3>2, RunStepSameListing DEF TypeOK, PutFiles, bounds
  <2>10. ASSUME NEW i \in Indexers, Compact(i) PROVE TypeOK'
    <3> DEFINE list == run[i].keep
               new(v) == NewSegment(MergedTable(Neighbours(list, v)))
               spliced(v) == SubSeq(list, 1, v - 1) \o <<new(v)>> \o SubSeq(list, v + 2, Len(list))
               r(v) == [run[i] EXCEPT !.keep = spliced(v), !.pending = {new(v).id},
                                   !.drawn = @ \cup {new(v).id}, !.dirty = TRUE, !.pc = "swap"]
    <3>1. run[i] \in Run /\ list \in Seq(SegmentMeta)
      BY DEF TypeOK, Run
    <3>2. PICK v \in Victims(list) :
             run' = [run EXCEPT ![i] = r(v)] /\ packs' = packs \cup PackIds(new(v).table)
      BY <2>10 DEF Compact
    <3>3. v \in 1..(Len(list) - 1) /\ Neighbours(list, v) \in SUBSET Pair
      BY <3>1, VictimsType
    <3>4. new(v) \in SegmentMeta
      BY <3>3, MergedType, NewSegmentType DEF TypeOK
    <3> HIDE DEF new
    <3>5. spliced(v) \in Seq(SegmentMeta)
      BY <3>1, <3>3, <3>4, SpliceType
    <3>6. new(v).id \in Nat /\ new(v).table \in Table
      BY <3>4 DEF SegmentMeta
    <3>7. packs' \subseteq AllPacks
      BY <3>2, <3>6, PackIdsType DEF TypeOK
    <3> HIDE DEF spliced, list
    <3>8. r(v) \in Run
      BY <3>1, <3>5, <3>6, CompactedType
    <3>9. r(v).toAdd = run[i].toAdd /\ r(v).listing = run[i].listing
      BY <3>1 DEF Run
    <3> HIDE DEF r
    <3>10. UNCHANGED <<bucket, root, files, deads, bounds, spilled>> /\ nextId' = nextId + 1
      BY <2>10 DEF Compact
    <3>11. run' = [run EXCEPT ![i] = r(v)]
      BY <3>2
    <3> QED
      BY <3>7, <3>8, <3>9, <3>10, <3>11, RunStepSameListing DEF TypeOK, bounds
  <2>11. ASSUME NEW i \in Indexers, SkipCompact(i) PROVE TypeOK'
    <3> DEFINE r == [run[i] EXCEPT !.pc = "swap"]
    <3>1. r \in Run /\ r.toAdd = run[i].toAdd /\ r.listing = run[i].listing
      BY DEF TypeOK, Run
    <3>2. run' = [run EXCEPT ![i] = r] \/ run' = [run EXCEPT ![i] = Idle]
      BY <2>11 DEF SkipCompact
    <3> HIDE DEF r
    <3> QED
      BY <2>11, <3>1, <3>2, RunStepSameListing, RunStep, IdleOK DEF TypeOK, SkipCompact, store, bounds
  <2>12. ASSUME NEW i \in Indexers, Swap(i) PROVE TypeOK'
    <3> DEFINE r == [Idle EXCEPT !.pc = "collect", !.garbage = Garbage(run[i])]
    <3>1. run[i] \in Run /\ run[i].keep \in Seq(SegmentMeta)
      BY DEF TypeOK, Run
    <3>2. root' \in Root
      BY <2>12, <3>1 DEF Swap, Loaded, Root
    <3>3. r \in Run
      BY <3>1, GarbageType, CollectType, IdleType
    <3>4. r.toAdd = {}
      BY DEF Idle
    <3>5. run' = [run EXCEPT ![i] = r]
      BY <2>12 DEF Swap
    <3> HIDE DEF r
    <3>6. RunOK(r)
      BY <3>3, <3>4 DEF RunOK
    <3> QED
      BY <2>12, <3>2, <3>5, <3>6, RunStep DEF TypeOK, Swap, bounds
  <2>13. ASSUME NEW i \in Indexers, NEW left \in BlobSets, Collect(i, left)
         PROVE  /\ run' \in [Indexers -> Run]
                /\ \A j \in Indexers : \A k \in run'[j].toAdd : run'[j].listing[k] # None
    <3> DEFINE r == [run[i] EXCEPT !.garbage = left]
    <3>1. r \in Run /\ r.toAdd = run[i].toAdd /\ r.listing = run[i].listing
      BY DEF TypeOK, Run
    <3>2. run' = [run EXCEPT ![i] = r]
      BY <2>13 DEF Collect
    <3> HIDE DEF r
    <3> QED
      BY <3>1, <3>2, RunStepSameListing
  <2>14. ASSUME NEW i \in Indexers
         PROVE  LET g == run[i].garbage IN
                /\ \A f : [g EXCEPT !.files = @ \ {f}] \in BlobSets
                /\ \A d : [g EXCEPT !.deads = @ \ {d}] \in BlobSets
                /\ \A p : [g EXCEPT !.packs = @ \ {p}] \in BlobSets
    <3>1. run[i].garbage \in BlobSets
      BY DEF TypeOK, Run
    <3> QED
      BY <3>1 DEF BlobSets
  <2>15. ASSUME NEW i \in Indexers, Delete(i) PROVE TypeOK'
    <3>1. \E left \in BlobSets : Collect(i, left)
      BY <2>14, <2>15 DEF Delete
    <3>2. files' \subseteq files /\ deads' \subseteq deads /\ packs' \subseteq packs
      BY <2>15 DEF Delete
    <3> QED
      BY <2>13, <2>15, <3>1, <3>2 DEF TypeOK, Delete, bounds
  <2>16. ASSUME NEW i \in Indexers, FailDelete(i) PROVE TypeOK'
    <3>1. \E left \in BlobSets : Collect(i, left)
      BY <2>14, <2>16 DEF FailDelete
    <3>2. faults' \in 0..MaxFaults
      BY <2>16, ConstantsAssumption DEF FailDelete, TypeOK
    <3> QED
      BY <2>13, <2>16, <3>1, <3>2 DEF TypeOK, FailDelete, store
  <2>17. ASSUME NEW i \in Indexers, Abort(i) PROVE TypeOK'
    <3>1. faults' \in 0..MaxFaults
      BY <2>17, ConstantsAssumption DEF Abort, TypeOK
    <3> QED
      BY <2>17, <3>1, RunStep, IdleOK DEF TypeOK, Abort, store
  <2>18. ASSUME NEW i \in Indexers,
                FailFetch(i) \/ FailMerge(i) \/ LoseRace(i) \/ Finish(i)
         PROVE  TypeOK'
    BY <2>18, RunStep, IdleOK DEF TypeOK, FailFetch, FailMerge, LoseRace, Finish, store, bounds
  <2>19. CASE UNCHANGED vars
    BY <2>19 DEF TypeOK, vars, store, bounds
  <2> QED
    BY <2>1, <2>2, <2>3, <2>4, <2>5, <2>6, <2>7, <2>8, <2>9, <2>10, <2>11, <2>12, <2>15,
       <2>16, <2>17, <2>18, <2>19 DEF Next, Step
<1> QED
  BY <1>1, <1>2, PTL DEF Spec

-----------------------------------------------------------------------------
(***************************************************************************)
(* The root.                                                               *)
(***************************************************************************)

Ids(list) == {list[h].id : h \in DOMAIN list}

\* A list names a segment once.
DistinctIds(list) == \A g, h \in DOMAIN list : list[g].id = list[h].id => g = h

\* Segment s with dead set D, or less, will never be named again.
Superseded(s, D, list) == \A h \in DOMAIN list : list[h].id = s => ~(list[h].dead \subseteq D)

\* A run that still may swap: once the root is readable it stays so.
Viable(r, rt) == r.base.state = "unreadable" => rt.state = "unreadable"

\* The root names what is in the store, and segment ids are drawn in turn, so
\* that a new one is nowhere in use.
Sound(rt, fs, ds, n) ==
    /\ rt.state # "loaded" => rt.segments = <<>>
    /\ DistinctIds(rt.segments)
    /\ \A h \in DOMAIN rt.segments :
          /\ rt.segments[h].id \in fs
          /\ rt.segments[h].dead # {} => <<rt.segments[h].id, rt.segments[h].dead>> \in ds
    /\ \A x \in fs : x < n
    /\ \A d \in ds : d[1] < n

\* Before it has loaded the root and after it has swapped a run holds nothing;
\* deletions are left only after the swap.
Quiet(r) ==
    /\ r.pc \in {"idle", "listed", "collect"} => r.base = Absent
    /\ r.pc \in {"idle", "listed", "collect", "rooted"} =>
          /\ r.work = <<>> /\ r.keep = <<>> /\ r.replaced = {}
          /\ r.drawn = {} /\ r.pending = {} /\ r.inventory = NoBlobs
    /\ r.pc # "collect" => r.garbage = NoBlobs

\* What a run has kept it has not still to do.
Distinct(r) ==
    /\ DistinctIds(r.base.segments)
    /\ DistinctIds(r.keep)
    /\ \A g, h \in DOMAIN r.work : r.work[g].meta.id = r.work[h].meta.id => g = h
    /\ \A h \in DOMAIN r.work : r.work[h].meta.id \notin Ids(r.keep)

\* Segment m is the segment b with more dead sources.
Succeeds(m, b) == b.id = m.id /\ b.table = m.table /\ b.dead \subseteq m.dead

\* What a run works on, keeps and replaces comes from the root it loaded or was
\* drawn by it, and no replaced version of a segment is newer than the kept one.
Origins(r) ==
    /\ r.base.state # "loaded" => r.base.segments = <<>>
    /\ r.base.state # "unreadable" => r.inventory = NoBlobs
    /\ \A h \in DOMAIN r.work :
          /\ \E b \in DOMAIN r.base.segments : r.base.segments[b] = r.work[h].meta
          /\ r.work[h].meta.dead \subseteq r.work[h].dead
    /\ \A h \in DOMAIN r.keep :
          \/ r.keep[h].id \in r.drawn /\ r.keep[h].dead = {}
          \/ \E b \in DOMAIN r.base.segments : Succeeds(r.keep[h], r.base.segments[b])
    /\ \A q \in r.replaced :
          /\ q.id \in r.drawn \cup Ids(r.base.segments)
          /\ \A h \in DOMAIN r.keep : q.id = r.keep[h].id => q.dead \subseteq r.keep[h].dead
          /\ \A h \in DOMAIN r.work : q.id = r.work[h].meta.id => q.dead \subseteq r.work[h].meta.dead

\* The ids a run knows were drawn by someone; those it drew itself were unknown
\* before.
Known(blobs) == blobs.files \cup {d[1] : d \in blobs.deads}

Drawn(r, n) ==
    /\ \A x \in Ids(r.base.segments) \cup r.drawn \cup Known(r.inventory) \cup Known(r.garbage) : x < n
    /\ r.pending \subseteq r.drawn
    /\ r.drawn \cap (Ids(r.base.segments) \cup Known(r.inventory)) = {}

Local(r, n) == Quiet(r) /\ Distinct(r) /\ Origins(r) /\ Drawn(r, n)

\* Nobody knows the ids another run drew, the sweep of an unreadable index
\* aside.
Apart(r, q) == r.drawn \cap (q.drawn \cup Ids(q.base.segments)) = {}

\* A segment of the root that a run loaded is still in the root as it was, or
\* will never be again.
CurrentOrSuperseded(r, rt) ==
    \A b \in DOMAIN r.base.segments :
        \/ \E h \in DOMAIN rt.segments : rt.segments[h] = r.base.segments[b]
        \/ Superseded(r.base.segments[b].id, r.base.segments[b].dead, rt.segments)

\* The files and dead sets a run has put for its next root are in the store, as
\* far as they can still matter.
Stored(r, rt, fs, ds) ==
    \A h \in DOMAIN r.keep :
        /\ Viable(r, rt) /\ r.keep[h].id \in r.drawn => r.keep[h].id \in fs \cup r.pending
        /\ \A b \in DOMAIN r.base.segments, g \in DOMAIN rt.segments :
              /\ r.base.segments[b].id = r.keep[h].id
              /\ rt.segments[g] = r.base.segments[b]
              /\ r.keep[h].dead # {}
              => <<r.keep[h].id, r.keep[h].dead>> \in ds

\* How a run stands to the root and the store.
Grounded(r, rt, fs, ds) ==
    /\ r.drawn \cap Ids(rt.segments) = {}
    /\ rt.state = "unreadable" /\ r.pc \in {"rooted", "update", "swap"} => r.base.state = "unreadable"
    /\ CurrentOrSuperseded(r, rt)
    /\ Stored(r, rt, fs, ds)

\* What remains to be deleted is out of the reach of the root ...
OutOfRoot(g, rt) ==
    /\ g.files \cap Ids(rt.segments) = {}
    /\ \A d \in g.deads : Superseded(d[1], d[2], rt.segments)

\* ... and of every run.
OutOfReach(g, r, rt) == Viable(r, rt) => Known(g) \cap r.drawn = {}

RootInvOf(rt, fs, ds, n, runs) ==
    /\ Sound(rt, fs, ds, n)
    /\ \A i \in Indexers :
        /\ Local(runs[i], n)
        /\ Grounded(runs[i], rt, fs, ds)
        /\ OutOfRoot(runs[i].garbage, rt)
        /\ \A j \in Indexers :
            /\ i # j => Apart(runs[i], runs[j])
            /\ OutOfReach(runs[i].garbage, runs[j], rt)

\* The inductive invariant behind RootComplete and DeadStaysDead: the root names
\* only blobs that are in the store, every run's view of the root it loaded is
\* current or superseded for good, and nothing on any list of garbage can come to
\* be named again, however late update_index gets to delete it.
RootInv == RootInvOf(root, files, deads, nextId, run)

-----------------------------------------------------------------------------
(***************************************************************************)
(* Steps that leave the root alone.                                        *)
(***************************************************************************)

\* The store grows: what held of a run still holds.
LEMMA GroundedGrows ==
    ASSUME NEW r, NEW rt, NEW fs, NEW ds, NEW fs2, NEW ds2,
           Grounded(r, rt, fs, ds), fs \subseteq fs2, ds \subseteq ds2
    PROVE  Grounded(r, rt, fs2, ds2)
BY DEF Grounded, Stored

LEMMA LocalLater ==
    ASSUME NEW r, NEW n \in Nat, NEW m \in Nat, n <= m, Local(r, n),
           r.drawn \subseteq Nat, Ids(r.base.segments) \subseteq Nat,
           Known(r.inventory) \subseteq Nat, Known(r.garbage) \subseteq Nat
    PROVE  Local(r, m)
BY DEF Local, Drawn

\* The ids in a run are numbers.
LEMMA IdsType ==
    ASSUME NEW r \in Run
    PROVE  /\ r.drawn \subseteq Nat /\ Ids(r.base.segments) \subseteq Nat
           /\ Ids(r.keep) \subseteq Nat
           /\ Known(r.inventory) \subseteq Nat /\ Known(r.garbage) \subseteq Nat
<1>1. /\ r.base \in Root /\ r.keep \in Seq(SegmentMeta) /\ r.drawn \subseteq Nat
      /\ r.inventory \in BlobSets /\ r.garbage \in BlobSets
  BY DEF Run
<1>2. r.base.segments \in Seq(SegmentMeta)
  BY <1>1 DEF Root
<1>3. ASSUME NEW list \in Seq(SegmentMeta) PROVE Ids(list) \subseteq Nat
  <2>1. \A h \in DOMAIN list : list[h] \in SegmentMeta
    OBVIOUS
  <2> QED BY <2>1 DEF Ids, SegmentMeta
<1>4. ASSUME NEW g \in BlobSets PROVE Known(g) \subseteq Nat
  BY DEF Known, BlobSets
<1> QED BY <1>1, <1>2, <1>3, <1>4

\* One run has moved on to s, and the root is as it was.
LEMMA OneRun ==
    ASSUME NEW rt, NEW fs, NEW ds, NEW n \in Nat, NEW runs \in [Indexers -> Run],
           RootInvOf(rt, fs, ds, n, runs),
           NEW fs2, NEW ds2, NEW n2 \in Nat,
           fs \subseteq fs2, ds \subseteq ds2, n <= n2, Sound(rt, fs2, ds2, n2),
           NEW i \in Indexers, NEW s,
           Local(s, n2), Grounded(s, rt, fs2, ds2), OutOfRoot(s.garbage, rt),
           OutOfReach(s.garbage, s, rt),
           \A j \in Indexers \ {i} :
              /\ Apart(s, runs[j]) /\ Apart(runs[j], s)
              /\ OutOfReach(s.garbage, runs[j], rt) /\ OutOfReach(runs[j].garbage, s, rt)
    PROVE  RootInvOf(rt, fs2, ds2, n2, [runs EXCEPT ![i] = s])
<1> DEFINE next == [runs EXCEPT ![i] = s]
<1>1. next[i] = s /\ \A j \in Indexers \ {i} : next[j] = runs[j]
  OBVIOUS
<1> HIDE DEF next
<1>2. \A j \in Indexers : Local(next[j], n2)
  <2> SUFFICES ASSUME NEW j \in Indexers \ {i} PROVE Local(runs[j], n2)
    BY <1>1
  <2>1. Local(runs[j], n)
    BY DEF RootInvOf
  <2>2. runs[j] \in Run
    OBVIOUS
  <2> QED BY <2>1, <2>2, IdsType, LocalLater
<1>3. \A j \in Indexers : Grounded(next[j], rt, fs2, ds2)
  <2> SUFFICES ASSUME NEW j \in Indexers \ {i} PROVE Grounded(runs[j], rt, fs2, ds2)
    BY <1>1
  <2>1. Grounded(runs[j], rt, fs, ds)
    BY DEF RootInvOf
  <2> QED BY <2>1, GroundedGrows
<1>4. \A j \in Indexers : OutOfRoot(next[j].garbage, rt)
  BY <1>1 DEF RootInvOf
<1>5. ASSUME NEW j \in Indexers, NEW k \in Indexers
      PROVE  /\ j # k => Apart(next[j], next[k])
             /\ OutOfReach(next[j].garbage, next[k], rt)
  BY <1>1 DEF RootInvOf
<1> QED BY <1>2, <1>3, <1>4, <1>5 DEF RootInvOf, next

\* A run that goes on with the root it loaded and the garbage it has, and draws
\* only new ids.
LEMMA SameSession ==
    ASSUME NEW rt, NEW fs, NEW ds, NEW n \in Nat, NEW runs \in [Indexers -> Run],
           RootInvOf(rt, fs, ds, n, runs),
           NEW fs2, NEW ds2, NEW n2 \in Nat,
           fs \subseteq fs2, ds \subseteq ds2, n <= n2, Sound(rt, fs2, ds2, n2),
           NEW i \in Indexers, NEW s,
           s.base = runs[i].base, s.garbage = runs[i].garbage,
           \A x \in s.drawn : x \in runs[i].drawn \/ (x \in Nat /\ n <= x),
           \A h \in DOMAIN rt.segments : rt.segments[h].id \in Nat,
           Local(s, n2),
           rt.state = "unreadable" /\ s.pc \in {"rooted", "update", "swap"} => s.base.state = "unreadable",
           Stored(s, rt, fs2, ds2)
    PROVE  RootInvOf(rt, fs2, ds2, n2, [runs EXCEPT ![i] = s])
<1> DEFINE r == runs[i]
<1>1. /\ Local(r, n) /\ Grounded(r, rt, fs, ds) /\ OutOfRoot(r.garbage, rt)
      /\ Sound(rt, fs, ds, n)
  BY DEF RootInvOf
<1>2. \A j \in Indexers : /\ Drawn(runs[j], n) /\ runs[j] \in Run
                          /\ OutOfReach(r.garbage, runs[j], rt)
                          /\ OutOfReach(runs[j].garbage, r, rt)
                          /\ j # i => Apart(r, runs[j]) /\ Apart(runs[j], r)
  BY DEF RootInvOf, Local
<1>3. \A j \in Indexers : \A x \in runs[j].drawn \cup Ids(runs[j].base.segments) \cup Known(runs[j].garbage) :
          x \in Nat /\ x < n
  BY <1>2, IdsType DEF Drawn
<1>4. \A x \in Ids(rt.segments) : x \in Nat /\ x < n
  BY <1>1 DEF Sound, Ids
<1>5. s.base = r.base /\ s.garbage = r.garbage /\ \A x \in s.drawn : x \in r.drawn \/ (x \in Nat /\ n <= x)
  OBVIOUS
<1> HIDE DEF r
<1>6. ASSUME NEW x \in s.drawn, x < n PROVE x \in r.drawn
  BY <1>5, <1>6
<1>7. Grounded(s, rt, fs2, ds2)
  <2>1. s.drawn \cap Ids(rt.segments) = {}
    BY <1>1, <1>4, <1>6 DEF Grounded
  <2>2. CurrentOrSuperseded(s, rt)
    BY <1>1, <1>5 DEF Grounded, CurrentOrSuperseded
  <2> QED BY <2>1, <2>2 DEF Grounded
<1>8. OutOfRoot(s.garbage, rt)
  BY <1>1, <1>5
<1>9. ASSUME NEW j \in Indexers
      PROVE  /\ j # i => Apart(s, runs[j]) /\ Apart(runs[j], s)
             /\ OutOfReach(s.garbage, runs[j], rt)
             /\ OutOfReach(runs[j].garbage, s, rt)
  <2>1. j # i => Apart(s, runs[j])
    BY <1>2, <1>3, <1>6 DEF Apart
  <2>2. j # i => Apart(runs[j], s)
    BY <1>2, <1>3, <1>5, <1>6 DEF Apart
  <2>3. OutOfReach(s.garbage, runs[j], rt)
    BY <1>2, <1>5
  <2>4. OutOfReach(runs[j].garbage, s, rt)
    BY <1>2, <1>3, <1>5, <1>6 DEF OutOfReach, Viable
  <2> QED BY <2>1, <2>2, <2>3, <2>4
<1>10. OutOfReach(s.garbage, s, rt)
  BY <1>9, <1>2, <1>3, <1>5, <1>6 DEF OutOfReach, Viable, r
<1> QED BY <1>7, <1>8, <1>9, <1>10, OneRun

\* A run that holds nothing.
Rests(s) ==
    /\ s.pc \in {"idle", "listed"} /\ s.base = Absent
    /\ s.work = <<>> /\ s.keep = <<>> /\ s.replaced = {} /\ s.drawn = {} /\ s.pending = {}
    /\ s.inventory = NoBlobs /\ s.garbage = NoBlobs

LEMMA Resting ==
    ASSUME NEW rt, NEW fs, NEW ds, NEW n \in Nat, NEW runs \in [Indexers -> Run],
           RootInvOf(rt, fs, ds, n, runs),
           NEW i \in Indexers, NEW s, Rests(s)
    PROVE  RootInvOf(rt, fs, ds, n, [runs EXCEPT ![i] = s])
<1> USE DEF Rests
<1>1. s.base.segments = <<>> /\ s.base.state = "absent"
  BY DEF Absent
<1>2. Ids(s.base.segments) = {} /\ Known(s.inventory) = {} /\ Known(s.garbage) = {}
  BY <1>1 DEF Ids, Known, NoBlobs
<1>3. Local(s, n)
  <2>1. Quiet(s)
    BY DEF Quiet
  <2>2. Distinct(s)
    BY <1>1 DEF Distinct, DistinctIds
  <2>3. Origins(s)
    BY <1>1 DEF Origins
  <2>4. Drawn(s, n)
    BY <1>2 DEF Drawn
  <2> QED BY <2>1, <2>2, <2>3, <2>4 DEF Local
<1>4. Grounded(s, rt, fs, ds)
  BY <1>1 DEF Grounded, CurrentOrSuperseded, Stored
<1>5. OutOfRoot(s.garbage, rt)
  BY DEF OutOfRoot, NoBlobs
<1>6. \A q : Apart(s, q) /\ Apart(q, s) /\ OutOfReach(s.garbage, q, rt)
  BY <1>2 DEF Apart, OutOfReach
<1>7. \A g : OutOfReach(g, s, rt)
  BY DEF OutOfReach
<1>8. Sound(rt, fs, ds, n)
  BY DEF RootInvOf
<1>9. n <= n /\ fs \subseteq fs /\ ds \subseteq ds
  OBVIOUS
<1> HIDE DEF Rests
<1> QED BY <1>3, <1>4, <1>5, <1>6, <1>7, <1>8, <1>9, OneRun

\* A run that has just loaded the root.
LEMMA Rooted ==
    ASSUME NEW rt \in Root, NEW fs, NEW ds, NEW n \in Nat, NEW runs \in [Indexers -> Run],
           RootInvOf(rt, fs, ds, n, runs),
           NEW i \in Indexers, NEW s, s.pc = "rooted", s.base = rt,
           s.work = <<>>, s.keep = <<>>, s.replaced = {}, s.drawn = {}, s.pending = {},
           s.inventory = NoBlobs, s.garbage = NoBlobs
    PROVE  RootInvOf(rt, fs, ds, n, [runs EXCEPT ![i] = s])
<1>1. Sound(rt, fs, ds, n) /\ \A j \in Indexers : Grounded(runs[j], rt, fs, ds)
  BY DEF RootInvOf
<1>2. Known(s.inventory) = {} /\ Known(s.garbage) = {}
  BY DEF Known, NoBlobs
<1>3. Local(s, n)
  <2>1. Quiet(s)
    BY DEF Quiet
  <2>2. Distinct(s)
    BY <1>1 DEF Distinct, DistinctIds, Sound
  <2>3. Origins(s)
    BY <1>1 DEF Origins, Sound
  <2>4. Drawn(s, n)
    BY <1>1, <1>2 DEF Drawn, Sound, Ids
  <2> QED BY <2>1, <2>2, <2>3, <2>4 DEF Local
<1>4. Grounded(s, rt, fs, ds)
  BY DEF Grounded, CurrentOrSuperseded, Stored
<1>5. OutOfRoot(s.garbage, rt)
  BY DEF OutOfRoot, NoBlobs
<1>6. \A j \in Indexers : Apart(s, runs[j]) /\ Apart(runs[j], s)
  BY <1>1 DEF Apart, Grounded
<1>7. \A g, q : OutOfReach(g, s, rt) /\ OutOfReach(s.garbage, q, rt)
  BY <1>2 DEF OutOfReach
<1>8. n <= n /\ fs \subseteq fs /\ ds \subseteq ds
  OBVIOUS
<1> QED BY <1>1, <1>3, <1>4, <1>5, <1>6, <1>7, <1>8, OneRun

\* A run that has computed its diff.
LEMMA Planned ==
    ASSUME NEW r \in Run, NEW s, NEW n \in Nat, NEW fs, NEW ds, NEW rt,
           Local(r, n), Sound(rt, fs, ds, n), r.pc = "rooted",
           s.pc = "update", s.base = r.base, s.keep = r.keep, s.drawn = r.drawn,
           s.pending = r.pending, s.garbage = r.garbage,
           s.replaced = ToSet(r.base.segments),
           s.inventory = IF r.base.state = "unreadable"
                         THEN [NoBlobs EXCEPT !.files = fs, !.deads = ds] ELSE NoBlobs,
           \A h \in DOMAIN s.work : /\ h \in DOMAIN r.base.segments
                                    /\ s.work[h].meta = r.base.segments[h]
                                    /\ s.work[h].meta.dead \subseteq s.work[h].dead
    PROVE  Local(s, n)
<1>1. Quiet(r) /\ Distinct(r) /\ Origins(r) /\ Drawn(r, n)
  BY DEF Local
<1>2. s.keep = <<>> /\ s.drawn = {} /\ s.pending = {} /\ s.garbage = NoBlobs
  BY <1>1 DEF Quiet
<1>3. Quiet(s)
  BY <1>2 DEF Quiet
<1>4. Distinct(s)
  BY <1>1, <1>2 DEF Distinct, DistinctIds, Ids
<1>5. Origins(s)
  <2>1. \A q \in s.replaced : \E b \in DOMAIN r.base.segments : q = r.base.segments[b]
    BY DEF ToSet
  <2>2. \A q \in s.replaced : q.id \in Ids(r.base.segments)
    BY <2>1 DEF Ids
  <2>3. \A q \in s.replaced : \A h \in DOMAIN s.work :
            q.id = s.work[h].meta.id => q = s.work[h].meta
    BY <2>1, <1>1 DEF Distinct, DistinctIds
  <2> QED BY <1>1, <1>2, <2>2, <2>3 DEF Origins
<1>6. Drawn(s, n)
  <2>1. \A x \in Known(s.inventory) : x < n
    BY DEF Known, NoBlobs, Sound
  <2> QED BY <1>1, <1>2, <2>1 DEF Drawn
<1> QED BY <1>3, <1>4, <1>5, <1>6 DEF Local

\* A run goes from r to s in the middle of its update: it is done with the first
\* k segments it had to decide on, and at most one segment, the one in M, is new
\* in its next root.  The ids it draws are from n to n2.
WorkLeft(r, s, k) ==
    \A h \in DOMAIN s.work : h \in Nat /\ h + k \in DOMAIN r.work /\ s.work[h] = r.work[h + k]

KeptFrom(r, s, M) ==
    \A h \in DOMAIN s.keep : s.keep[h] \in M \/ \E g \in DOMAIN r.keep : s.keep[h] = r.keep[g]

IsNew(r, s, m) ==
    /\ \/ m.id \in s.drawn /\ m.dead = {}
       \/ \E b \in DOMAIN r.base.segments : Succeeds(m, r.base.segments[b])
    /\ \A h \in DOMAIN s.work : s.work[h].meta.id # m.id
    /\ \A g \in DOMAIN r.keep : r.keep[g].id # m.id
    /\ \A q \in r.replaced : q.id = m.id => q.dead \subseteq m.dead

Advances(r, s, k, M, n, n2) ==
    /\ r.pc \in {"update", "swap"} /\ s.pc \in {"update", "swap"}
    /\ s.base = r.base /\ s.inventory = r.inventory /\ s.garbage = r.garbage
    /\ WorkLeft(r, s, k)
    /\ KeptFrom(r, s, M) /\ DistinctIds(s.keep)
    /\ \A a, b \in M : a = b
    /\ \A m \in M : IsNew(r, s, m)
    /\ s.replaced \subseteq r.replaced \cup M
    /\ r.drawn \subseteq s.drawn /\ s.pending \subseteq s.drawn
    /\ \A x \in s.drawn \ r.drawn : x \in Nat /\ n <= x /\ x < n2

\* The blobs of M are in the store or about to be put, and others have stayed.
Provides(r, s, M, rt, fs, fs2, ds2) ==
    /\ fs \cup r.pending \subseteq fs2 \cup s.pending
    /\ \A m \in M :
          /\ m.id \in s.drawn => m.id \in fs2 \cup s.pending
          /\ \A b \in DOMAIN r.base.segments, g \in DOMAIN rt.segments :
                /\ r.base.segments[b].id = m.id
                /\ rt.segments[g] = r.base.segments[b]
                /\ m.dead # {}
                => <<m.id, m.dead>> \in ds2

\* Such a run still is in order ...
LEMMA Advanced ==
    ASSUME NEW r, NEW s, NEW n \in Nat, NEW n2 \in Nat, n <= n2, Local(r, n),
           Ids(r.base.segments) \cup Known(r.inventory) \cup Known(r.garbage) \cup r.drawn \subseteq Nat,
           NEW k \in Nat, NEW M, Advances(r, s, k, M, n, n2)
    PROVE  Local(s, n2)
<1>0. /\ \A m \in M : m.id \in s.drawn \cup Ids(r.base.segments)
      /\ s.base = r.base
  BY DEF Advances, IsNew, Ids, Succeeds
<1> USE DEF Advances, WorkLeft, KeptFrom, IsNew
<1>1. Quiet(r) /\ Distinct(r) /\ Origins(r) /\ Drawn(r, n)
  BY DEF Local
<1>2. Quiet(s)
  BY <1>1 DEF Quiet
<1>3. Distinct(s)
  <2>1. DistinctIds(s.base.segments)
    BY <1>1 DEF Distinct
  <2>2. \A g, h \in DOMAIN s.work : s.work[g].meta.id = s.work[h].meta.id => g = h
    <3> TAKE g \in DOMAIN s.work, h \in DOMAIN s.work
    <3> HAVE s.work[g].meta.id = s.work[h].meta.id
    <3>1. g + k = h + k
      BY <1>1 DEF Distinct
    <3> QED BY <3>1
  <2>3. \A h \in DOMAIN s.work : s.work[h].meta.id \notin Ids(s.keep)
    BY <1>1 DEF Distinct, Ids
  <2> QED BY <2>1, <2>2, <2>3 DEF Distinct
<1>4. Origins(s)
  <2>1. \A h \in DOMAIN s.work :
          /\ \E b \in DOMAIN s.base.segments : s.base.segments[b] = s.work[h].meta
          /\ s.work[h].meta.dead \subseteq s.work[h].dead
    BY <1>1 DEF Origins
  <2>2. \A h \in DOMAIN s.keep :
          \/ s.keep[h].id \in s.drawn /\ s.keep[h].dead = {}
          \/ \E b \in DOMAIN s.base.segments : Succeeds(s.keep[h], s.base.segments[b])
    BY <1>1 DEF Origins
  <2>3. ASSUME NEW q \in s.replaced
        PROVE  /\ q.id \in s.drawn \cup Ids(s.base.segments)
               /\ \A h \in DOMAIN s.keep : q.id = s.keep[h].id => q.dead \subseteq s.keep[h].dead
               /\ \A h \in DOMAIN s.work :
                     q.id = s.work[h].meta.id => q.dead \subseteq s.work[h].meta.dead
    <3>1. CASE q \in r.replaced
      BY <3>1, <1>1 DEF Origins
    <3>2. CASE q \in M
      BY <3>2, <1>0
    <3> QED BY <3>1, <3>2
  <2> QED BY <1>1, <2>1, <2>2, <2>3 DEF Origins
<1>5. Drawn(s, n2)
  BY <1>1 DEF Drawn
<1> QED BY <1>2, <1>3, <1>4, <1>5 DEF Local

\* ... and its blobs are in the store.
LEMMA StoredAdvanced ==
    ASSUME NEW r, NEW s, NEW rt, NEW fs, NEW ds, NEW fs2, NEW ds2, NEW M, NEW n \in Nat,
           NEW n2, NEW k,
           Local(r, n), Ids(r.base.segments) \subseteq Nat, r.drawn \subseteq Nat,
           Stored(r, rt, fs, ds), ds \subseteq ds2,
           Advances(r, s, k, M, n, n2), Provides(r, s, M, rt, fs, fs2, ds2)
    PROVE  Stored(s, rt, fs2, ds2)
<1> USE DEF Advances, KeptFrom, Provides
<1>1. Origins(r) /\ Drawn(r, n)
  BY DEF Local
<1>2. ASSUME NEW g \in DOMAIN r.keep PROVE r.keep[g].id \in s.drawn => r.keep[g].id \in r.drawn
  <2>1. r.keep[g].id \in r.drawn \cup Ids(r.base.segments)
    BY <1>1 DEF Origins, Succeeds, Ids
  <2>2. r.keep[g].id \in Nat /\ r.keep[g].id < n
    BY <2>1, <1>1 DEF Drawn
  <2> QED BY <2>2
<1>3. SUFFICES ASSUME NEW h \in DOMAIN s.keep
      PROVE  /\ Viable(s, rt) /\ s.keep[h].id \in s.drawn => s.keep[h].id \in fs2 \cup s.pending
             /\ \A b \in DOMAIN s.base.segments, g \in DOMAIN rt.segments :
                   /\ s.base.segments[b].id = s.keep[h].id
                   /\ rt.segments[g] = s.base.segments[b]
                   /\ s.keep[h].dead # {}
                   => <<s.keep[h].id, s.keep[h].dead>> \in ds2
  BY DEF Stored
<1>4. CASE s.keep[h] \in M
  BY <1>4
<1>5. ASSUME NEW g \in DOMAIN r.keep, s.keep[h] = r.keep[g]
      PROVE  /\ Viable(s, rt) /\ s.keep[h].id \in s.drawn => s.keep[h].id \in fs2 \cup s.pending
             /\ \A b \in DOMAIN s.base.segments, c \in DOMAIN rt.segments :
                   /\ s.base.segments[b].id = s.keep[h].id
                   /\ rt.segments[c] = s.base.segments[b]
                   /\ s.keep[h].dead # {}
                   => <<s.keep[h].id, s.keep[h].dead>> \in ds2
  BY <1>2, <1>5 DEF Stored, Viable
<1> QED BY <1>4, <1>5

LEMMA TailFacts ==
    ASSUME NEW S, NEW w \in Seq(S), w # <<>>
    PROVE  /\ 1 \in DOMAIN w /\ Head(w) = w[1]
           /\ \A h \in DOMAIN Tail(w) : /\ h \in Nat /\ h + 1 \in DOMAIN w /\ h + 1 # 1
                                        /\ Tail(w)[h] = w[h + 1]
OBVIOUS

LEMMA AppendFacts ==
    ASSUME NEW S, NEW list \in Seq(S), NEW m \in S, DistinctIds(list), m.id \notin Ids(list)
    PROVE  /\ DistinctIds(Append(list, m))
           /\ \A h \in DOMAIN Append(list, m) :
                 Append(list, m)[h] \in {m} \/ \E g \in DOMAIN list : Append(list, m)[h] = list[g]
<1> DEFINE new == Append(list, m)
<1>1. /\ DOMAIN new = 1..(Len(list) + 1) /\ DOMAIN list = 1..Len(list) /\ Len(list) \in Nat
      /\ new[Len(list) + 1] = m /\ \A h \in DOMAIN list : new[h] = list[h]
  OBVIOUS
<1> HIDE DEF new
<1>2. \A h \in DOMAIN new : h = Len(list) + 1 \/ (h \in DOMAIN list /\ new[h] = list[h])
  BY <1>1
<1>3. DistinctIds(new)
  BY <1>1, <1>2 DEF DistinctIds, Ids
<1> QED BY <1>1, <1>2, <1>3 DEF new

\* Compaction puts m in the place of the segments v and v + 1.
Splice(list, v, m) == SubSeq(list, 1, v - 1) \o <<m>> \o SubSeq(list, v + 2, Len(list))

LEMMA LengthRight ==
    ASSUME NEW a \in Nat, NEW v \in 1..(a - 1), NEW len,
           len = IF v + 2 <= a THEN a - (v + 2) + 1 ELSE 0
    PROVE  len = a - v - 1
OBVIOUS

\* Which segment is at which place then.
LEMMA SpliceIndex ==
    ASSUME NEW S, NEW list \in Seq(S), NEW v \in 1..(Len(list) - 1), NEW m \in S
    PROVE  /\ DOMAIN Splice(list, v, m) = 1..(Len(list) - 1)
           /\ \A h \in DOMAIN Splice(list, v, m) :
                 \/ h < v /\ h \in DOMAIN list /\ Splice(list, v, m)[h] = list[h]
                 \/ h = v /\ Splice(list, v, m)[h] = m
                 \/ h > v /\ h + 1 \in DOMAIN list /\ Splice(list, v, m)[h] = list[h + 1]
<1> DEFINE left == SubSeq(list, 1, v - 1)
           right == SubSeq(list, v + 2, Len(list))
           new == left \o <<m>> \o right
<1>1. Len(list) \in Nat /\ DOMAIN list = 1..Len(list)
  OBVIOUS
<1>2. /\ left \in Seq(S) /\ Len(left) = v - 1
      /\ \A h \in 1..(v - 1) : left[h] = list[h]
  BY <1>1
<1>3. /\ right \in Seq(S) /\ Len(right) = Len(list) - v - 1
      /\ \A h \in 1..(Len(list) - v - 1) : right[h] = list[h + v + 1]
  <2>1. v + 2 \in Int /\ Len(list) \in Int /\ \A h \in (v + 2)..Len(list) : list[h] \in S
    BY <1>1
  <2>2. /\ right \in Seq(S)
        /\ Len(right) = IF v + 2 <= Len(list) THEN Len(list) - (v + 2) + 1 ELSE 0
        /\ \A h \in 1..(Len(list) - (v + 2) + 1) : right[h] = list[(v + 2) + h - 1]
    BY <2>1, SubSeqProperties
  <2> HIDE DEF right
  <2>3. Len(list) - (v + 2) + 1 = Len(list) - v - 1 /\ Len(list) - v - 1 >= 0
    BY <1>1
  <2>4. \A h \in 1..(Len(list) - v - 1) : (v + 2) + h - 1 = h + v + 1
    BY <1>1
  <2>5. Len(right) = Len(list) - v - 1
    BY ONLY <1>1, <2>2, LengthRight
  <2>6. ASSUME NEW h \in 1..(Len(list) - v - 1) PROVE right[h] = list[h + v + 1]
    <3>1. h \in 1..(Len(list) - (v + 2) + 1)
      BY <2>3
    <3>2. right[h] = list[(v + 2) + h - 1]
      BY <3>1, <2>2
    <3> QED BY <3>2, <2>4
  <2> QED BY <2>2, <2>5, <2>6
<1> HIDE DEF left, right
<1>4. <<m>> \in Seq(S) /\ Len(<<m>>) = 1 /\ <<m>>[1] = m
  OBVIOUS
<1>5. /\ DOMAIN new = 1..(Len(list) - 1)
      /\ \A h \in 1..(v - 1) : new[h] = left[h]
      /\ new[v] = m
      /\ \A h \in (v + 1)..(Len(list) - 1) : new[h] = right[h - v]
  <2> DEFINE head == left \o <<m>>
  <2>1. /\ head \in Seq(S) /\ Len(head) = (v - 1) + 1
        /\ \A h \in 1..((v - 1) + 1) : head[h] = IF h <= v - 1 THEN left[h] ELSE <<m>>[h - (v - 1)]
    <3>1. /\ head \in Seq(S) /\ Len(head) = Len(left) + Len(<<m>>)
          /\ \A h \in 1..(Len(left) + Len(<<m>>)) :
                head[h] = IF h <= Len(left) THEN left[h] ELSE <<m>>[h - Len(left)]
      BY ONLY <1>2, <1>4, ConcatProperties
    <3> HIDE DEF head
    <3> QED BY <3>1, <1>2, <1>4
  <2> HIDE DEF head
  <2>2. head \in Seq(S) /\ Len(head) = v /\ head[v] = m /\ \A h \in 1..(v - 1) : head[h] = left[h]
    <3>1. (v - 1) + 1 = v /\ v - (v - 1) = 1 /\ ~(v <= v - 1) /\ v \in 1..v
      BY <1>1
    <3> QED BY <2>1, <3>1, <1>4
  <2>3. /\ head \o right \in Seq(S) /\ Len(head \o right) = v + Len(right)
        /\ \A h \in 1..(v + Len(right)) : (head \o right)[h] = IF h <= v THEN head[h] ELSE right[h - v]
    <3> head \in Seq(S) /\ right \in Seq(S)
      BY <2>2, <1>3
    <3>1. /\ head \o right \in Seq(S) /\ Len(head \o right) = Len(head) + Len(right)
          /\ \A h \in 1..(Len(head) + Len(right)) :
                (head \o right)[h] = IF h <= Len(head) THEN head[h] ELSE right[h - Len(head)]
      BY ConcatProperties
    <3> DEFINE all == head \o right
    <3> HIDE DEF all
    <3>2. /\ all \in Seq(S) /\ Len(all) = Len(head) + Len(right)
          /\ \A h \in 1..(Len(head) + Len(right)) :
                all[h] = IF h <= Len(head) THEN head[h] ELSE right[h - Len(head)]
      BY <3>1 DEF all
    <3>3. /\ all \in Seq(S) /\ Len(all) = v + Len(right)
          /\ \A h \in 1..(v + Len(right)) : all[h] = IF h <= v THEN head[h] ELSE right[h - v]
      BY <3>2, <2>2
    <3> QED BY <3>3 DEF all
  <2>4. v + Len(right) = Len(list) - 1 /\ v \in 1..(Len(list) - 1) /\ v \in Int
    BY <1>1, <1>3
  <2>5. new = head \o right
    BY DEF head
  <2> HIDE DEF new
  <2>6. new \in Seq(S) /\ Len(new) = Len(list) - 1
    BY <2>3, <2>4, <2>5
  <2>7. \A h \in 1..(Len(list) - 1) : new[h] = IF h <= v THEN head[h] ELSE right[h - v]
    BY <2>3, <2>4, <2>5
  <2>8. DOMAIN new = 1..(Len(list) - 1)
    BY <2>6
  <2>9. ASSUME NEW h \in 1..(v - 1) PROVE new[h] = left[h]
    <3>1. h \in 1..(Len(list) - 1) /\ h <= v
      BY <2>4, <1>1
    <3> QED BY <2>2, <2>7, <3>1
  <2>10. new[v] = m
    <3>1. v \in 1..(Len(list) - 1) /\ v <= v
      BY <2>4
    <3> QED BY <2>2, <2>7, <3>1
  <2>11. ASSUME NEW h \in (v + 1)..(Len(list) - 1) PROVE new[h] = right[h - v]
    <3>1. h \in 1..(Len(list) - 1) /\ ~(h <= v)
      BY <2>4, <1>1
    <3> QED BY <2>7, <3>1
  <2> QED BY <2>8, <2>9, <2>10, <2>11
<1> HIDE DEF new
<1>6. \A h \in DOMAIN new : \/ h < v /\ h \in DOMAIN list /\ new[h] = list[h]
                            \/ h = v /\ new[h] = m
                            \/ h > v /\ h + 1 \in DOMAIN list /\ new[h] = list[h + 1]
  <2> TAKE h \in DOMAIN new
  <2>1. CASE h < v
    BY <2>1, <1>1, <1>2, <1>5
  <2>2. CASE h > v
    <3>1. h - v \in 1..(Len(list) - v - 1) /\ h \in (v + 1)..(Len(list) - 1)
      BY <2>2, <1>1, <1>5
    <3>2. (h - v) + v + 1 = h + 1
      BY <1>1, <1>5
    <3>3. new[h] = list[h + 1]
      BY <3>1, <3>2, <1>3, <1>5
    <3> QED BY <2>2, <3>1, <3>3, <1>1
  <2> QED BY <2>1, <2>2, <1>1, <1>5
<1>7. new = Splice(list, v, m)
  BY DEF new, left, right, Splice
<1> QED BY <1>5, <1>6, <1>7

LEMMA SpliceFacts ==
    ASSUME NEW S, NEW list \in Seq(S), NEW v \in 1..(Len(list) - 1), NEW m \in S,
           DistinctIds(list), m.id \notin Ids(list)
    PROVE  /\ DistinctIds(Splice(list, v, m))
           /\ \A h \in DOMAIN Splice(list, v, m) :
                 \/ Splice(list, v, m)[h] \in {m}
                 \/ \E g \in DOMAIN list : Splice(list, v, m)[h] = list[g]
<1> DEFINE new == Splice(list, v, m)
<1>1. Len(list) \in Nat /\ DOMAIN list = 1..Len(list)
  OBVIOUS
<1>2. /\ DOMAIN new = 1..(Len(list) - 1)
      /\ \A h \in DOMAIN new : \/ h < v /\ h \in DOMAIN list /\ new[h] = list[h]
                               \/ h = v /\ new[h] = m
                               \/ h > v /\ h + 1 \in DOMAIN list /\ new[h] = list[h + 1]
  BY SpliceIndex
<1> HIDE DEF new
<1>3. DistinctIds(new)
  <2> SUFFICES ASSUME NEW g \in DOMAIN new, NEW h \in DOMAIN new, new[g].id = new[h].id PROVE g = h
    BY DEF DistinctIds
  <2>1. g \in Nat /\ h \in Nat /\ v \in Nat
    BY <1>1, <1>2
  <2>2. \A a \in DOMAIN list : list[a].id # m.id
    BY DEF Ids
  <2>3. \A a, b \in DOMAIN list : list[a].id = list[b].id => a = b
    BY DEF DistinctIds
  <2> DEFINE Old(x) == IF x < v THEN x ELSE x + 1
  <2>4. ASSUME NEW x \in {g, h}, x # v PROVE Old(x) \in DOMAIN list /\ new[x] = list[Old(x)]
    <3>1. x \in DOMAIN new /\ x \in Nat
      BY <2>1
    <3> QED BY <1>2, <2>1, <2>4, <3>1
  <2>5. CASE g = v \/ h = v
    <3>1. new[v] = m \/ v \notin DOMAIN new
      BY <1>2, <2>1
    <3> HIDE DEF Old
    <3> QED BY <2>2, <2>4, <2>5, <3>1
  <2>6. CASE g # v /\ h # v
    <3>1. Old(g) = Old(h)
      <4> HIDE DEF Old
      <4> QED BY <2>3, <2>4, <2>6
    <3> QED BY <2>1, <2>6, <3>1
  <2> QED BY <2>5, <2>6
<1>4. \A h \in DOMAIN new : new[h] \in {m} \/ \E g \in DOMAIN list : new[h] = list[g]
  BY <1>2
<1> QED BY <1>3, <1>4 DEF new

\* Both together, for a run in the middle of its update.
LEMMA WorkStep ==
    ASSUME NEW rt \in Root, NEW fs, NEW ds, NEW n \in Nat, NEW runs \in [Indexers -> Run],
           RootInvOf(rt, fs, ds, n, runs),
           NEW fs2, NEW ds2, NEW n2 \in Nat,
           fs \subseteq fs2, ds \subseteq ds2, n <= n2, Sound(rt, fs2, ds2, n2),
           NEW i \in Indexers, NEW s, NEW k \in Nat, NEW M,
           Advances(runs[i], s, k, M, n, n2), Provides(runs[i], s, M, rt, fs, fs2, ds2)
    PROVE  RootInvOf(rt, fs2, ds2, n2, [runs EXCEPT ![i] = s])
<1> DEFINE r == runs[i]
<1>1. /\ r \in Run /\ Local(r, n) /\ Grounded(r, rt, fs, ds)
  BY DEF RootInvOf
<1>2. /\ Ids(r.base.segments) \subseteq Nat /\ r.drawn \subseteq Nat
      /\ Known(r.inventory) \subseteq Nat /\ Known(r.garbage) \subseteq Nat
  BY <1>1, IdsType
<1>3. Advances(r, s, k, M, n, n2) /\ Provides(r, s, M, rt, fs, fs2, ds2)
  OBVIOUS
<1>4. /\ s.base = runs[i].base /\ s.garbage = runs[i].garbage /\ r.pc \in {"update", "swap"}
      /\ \A x \in s.drawn : x \in runs[i].drawn \/ (x \in Nat /\ n <= x)
  BY DEF Advances
<1>5. rt.state = "unreadable" /\ s.pc \in {"rooted", "update", "swap"} => s.base.state = "unreadable"
  BY <1>1, <1>4 DEF Grounded
<1> HIDE DEF r
<1>6. Local(s, n2)
  <2>1. Ids(r.base.segments) \cup Known(r.inventory) \cup Known(r.garbage) \cup r.drawn \subseteq Nat
    BY <1>2
  <2> QED BY <1>1, <1>3, <2>1, Advanced
<1>7. Stored(s, rt, fs2, ds2)
  <2>1. Stored(r, rt, fs, ds)
    BY <1>1 DEF Grounded
  <2> QED BY <1>1, <1>2, <1>3, <2>1, StoredAdvanced
<1>8. \A h \in DOMAIN rt.segments : rt.segments[h].id \in Nat
  <2>1. rt.segments \in Seq(SegmentMeta)
    BY DEF Root
  <2>2. \A h \in DOMAIN rt.segments : rt.segments[h] \in SegmentMeta
    BY <2>1
  <2> QED BY <2>2 DEF SegmentMeta
<1> QED BY <1>4, <1>5, <1>6, <1>7, <1>8, SameSession

\* A run that draws the next id for a new segment m.
Draws(r, s, k, m, n) ==
    /\ m.id = n /\ m.dead = {}
    /\ r.pc = "update" /\ s.pc \in {"update", "swap"}
    /\ s.base = r.base /\ s.inventory = r.inventory /\ s.garbage = r.garbage
    /\ r.pending = {} /\ s.pending = {n} /\ s.drawn = r.drawn \cup {n}
    /\ s.replaced \subseteq r.replaced \cup {m}
    /\ WorkLeft(r, s, k)

LEMMA NewSegmentStep ==
    ASSUME NEW rt \in Root, NEW fs \in SUBSET Nat, NEW ds, NEW n \in Nat,
           \A d \in ds : d[1] \in Nat, NEW runs \in [Indexers -> Run],
           RootInvOf(rt, fs, ds, n, runs),
           NEW i \in Indexers, NEW s, NEW m, NEW k \in Nat, Draws(runs[i], s, k, m, n),
           m.id \notin Ids(runs[i].keep) => DistinctIds(s.keep) /\ KeptFrom(runs[i], s, {m})
    PROVE  RootInvOf(rt, fs, ds, n + 1, [runs EXCEPT ![i] = s])
<1> DEFINE r == runs[i]
<1>1. /\ r \in Run /\ Local(r, n) /\ Sound(rt, fs, ds, n) /\ Draws(r, s, k, m, n)
      /\ m.id \notin Ids(r.keep) => DistinctIds(s.keep) /\ KeptFrom(r, s, {m})
  BY DEF RootInvOf
<1> HIDE DEF r
<1>2. \A x \in Ids(r.base.segments) \cup r.drawn : x \in Nat /\ x < n
  BY <1>1, IdsType DEF Local, Drawn
<1>3. \A g \in DOMAIN r.keep : r.keep[g].id \in Ids(r.base.segments) \cup r.drawn
  BY <1>1 DEF Local, Origins, Succeeds, Ids
<1>4. \A h \in DOMAIN s.work : s.work[h].meta.id \in Ids(r.base.segments)
  <2>1. \A h \in DOMAIN r.work : r.work[h].meta.id \in Ids(r.base.segments)
    BY <1>1 DEF Local, Origins, Ids
  <2> QED BY <2>1, <1>1 DEF Draws, WorkLeft
<1>5. \A q \in r.replaced : q.id \in Ids(r.base.segments) \cup r.drawn
  BY <1>1 DEF Local, Origins
<1>6. m.id = n /\ \A x \in Ids(r.base.segments) \cup r.drawn : x # m.id
  BY <1>1, <1>2 DEF Draws
<1>7. m.id \notin Ids(r.keep)
  BY <1>3, <1>6 DEF Ids
<1>8. IsNew(r, s, m)
  <2>1. m.id \in s.drawn /\ m.dead = {}
    BY <1>1 DEF Draws
  <2> QED BY <2>1, <1>3, <1>4, <1>5, <1>6 DEF IsNew
<1>9. Sound(rt, fs, ds, n + 1)
  BY <1>1 DEF Sound
<1>10. Advances(r, s, k, {m}, n, n + 1)
  <2>1. \A x \in s.drawn \ r.drawn : x \in Nat /\ n <= x /\ x < n + 1
    BY <1>1 DEF Draws
  <2>2. /\ r.pc \in {"update", "swap"} /\ r.drawn \subseteq s.drawn /\ s.pending \subseteq s.drawn
    BY <1>1 DEF Draws
  <2> QED BY <2>1, <2>2, <1>1, <1>7, <1>8 DEF Advances, Draws
<1>11. Provides(r, s, {m}, rt, fs, fs, ds)
  BY <1>1 DEF Provides, Draws
<1>12. n + 1 \in Nat /\ n <= n + 1 /\ fs \subseteq fs /\ ds \subseteq ds
  OBVIOUS
<1> QED BY <1>9, <1>10, <1>11, <1>12, WorkStep DEF r

-----------------------------------------------------------------------------
(***************************************************************************)
(* Deletions.                                                              *)
(***************************************************************************)

\* A run strikes blobs off its garbage; the files F and dead sets D that leave
\* the store were on it.
LEMMA Deleted ==
    ASSUME NEW rt, NEW fs, NEW ds, NEW n \in Nat, NEW runs \in [Indexers -> Run],
           RootInvOf(rt, fs, ds, n, runs),
           NEW i \in Indexers, NEW s, NEW F, NEW D,
           runs[i].pc = "collect", s.pc = "collect", s.base = runs[i].base,
           s.work = runs[i].work, s.keep = runs[i].keep, s.replaced = runs[i].replaced,
           s.drawn = runs[i].drawn, s.pending = runs[i].pending,
           s.inventory = runs[i].inventory,
           s.garbage.files \subseteq runs[i].garbage.files,
           s.garbage.deads \subseteq runs[i].garbage.deads,
           F \subseteq runs[i].garbage.files, D \subseteq runs[i].garbage.deads
    PROVE  RootInvOf(rt, fs \ F, ds \ D, n, [runs EXCEPT ![i] = s])
<1> DEFINE r == runs[i]
           g == r.garbage
           next == [runs EXCEPT ![i] = s]
<1>1. next[i] = s /\ \A j \in Indexers \ {i} : next[j] = runs[j]
  OBVIOUS
<1>2. /\ s.pc = r.pc /\ s.base = r.base /\ s.work = r.work /\ s.keep = r.keep
      /\ s.replaced = r.replaced /\ s.drawn = r.drawn /\ s.pending = r.pending
      /\ s.inventory = r.inventory /\ r.pc = "collect"
      /\ s.garbage.files \subseteq g.files /\ s.garbage.deads \subseteq g.deads
      /\ F \subseteq g.files /\ D \subseteq g.deads
  OBVIOUS
<1>3. /\ Sound(rt, fs, ds, n) /\ OutOfRoot(g, rt) /\ Local(r, n)
      /\ \A j \in Indexers : OutOfReach(g, runs[j], rt)
  BY DEF RootInvOf
<1>4. Known(s.garbage) \subseteq Known(g) /\ F \subseteq Known(g)
  BY <1>2 DEF Known
<1>5. \A j \in Indexers : Local(runs[j], n) /\ Grounded(runs[j], rt, fs, ds)
  BY DEF RootInvOf
<1> HIDE DEF next, g, r
<1>6. Sound(rt, fs \ F, ds \ D, n)
  BY <1>2, <1>3 DEF Sound, OutOfRoot, Superseded, Ids
<1>7. \A j \in Indexers : Local(next[j], n)
  <2>1. Local(s, n)
    <3>1. Quiet(s)
      BY <1>2, <1>3 DEF Local, Quiet
    <3>2. Distinct(s)
      BY <1>2, <1>3 DEF Local, Distinct
    <3>3. Origins(s)
      BY <1>2, <1>3 DEF Local, Origins
    <3>4. Drawn(s, n)
      BY <1>2, <1>3, <1>4 DEF Local, Drawn, g
    <3> QED BY <3>1, <3>2, <3>3, <3>4 DEF Local
  <2> QED BY <2>1, <1>1, <1>5
<1>8. ASSUME NEW j \in Indexers PROVE Grounded(next[j], rt, fs \ F, ds \ D)
  <2> DEFINE q == next[j]
  <2>1. /\ q.base = runs[j].base /\ q.keep = runs[j].keep /\ q.drawn = runs[j].drawn
        /\ q.pending = runs[j].pending /\ q.pc = runs[j].pc
    BY <1>1, <1>2 DEF r
  <2>2. Grounded(runs[j], rt, fs, ds) /\ Local(runs[j], n) /\ OutOfReach(g, runs[j], rt)
    BY <1>3, <1>5
  <2> DEFINE o == runs[j]
  <2> HIDE DEF q, o
  <2>3. CurrentOrSuperseded(q, rt)
    BY <2>1, <2>2 DEF Grounded, CurrentOrSuperseded, o
  <2>4. ASSUME NEW h \in DOMAIN o.keep, Viable(o, rt), o.keep[h].id \in o.drawn
        PROVE  o.keep[h].id \in (fs \ F) \cup o.pending
    <3>1. o.keep[h].id \in fs \cup o.pending
      BY <2>2, <2>4 DEF Grounded, Stored, o
    <3>2. o.keep[h].id \notin F
      BY <2>2, <2>4, <1>4 DEF OutOfReach, o
    <3> QED BY <3>1, <3>2
  <2>5. ASSUME NEW h \in DOMAIN o.keep, NEW b \in DOMAIN o.base.segments, NEW c \in DOMAIN rt.segments,
               o.base.segments[b].id = o.keep[h].id,
               rt.segments[c] = o.base.segments[b],
               o.keep[h].dead # {}
        PROVE  <<o.keep[h].id, o.keep[h].dead>> \in ds \ D
    <3>1. <<o.keep[h].id, o.keep[h].dead>> \in ds
      BY <2>2, <2>5 DEF Grounded, Stored, o
    <3>2. o.base.segments[b].dead \subseteq o.keep[h].dead
      <4>1. o.keep[h].id \notin o.drawn
        BY <2>2, <2>5 DEF Local, Drawn, Ids, o
      <4>2. PICK a \in DOMAIN o.base.segments : Succeeds(o.keep[h], o.base.segments[a])
        BY <4>1, <2>2 DEF Local, Origins, o
      <4>3. a = b
        BY <4>2, <2>2, <2>5 DEF Local, Distinct, DistinctIds, Succeeds, o
      <4> QED BY <4>2, <4>3 DEF Succeeds
    <3>3. <<o.keep[h].id, o.keep[h].dead>> \notin D
      BY <3>2, <2>5, <1>2, <1>3 DEF OutOfRoot, Superseded
    <3> QED BY <3>1, <3>3
  <2>6. Stored(q, rt, fs \ F, ds \ D)
    BY <2>1, <2>4, <2>5 DEF Stored, Viable, o
  <2> QED BY <2>1, <2>2, <2>3, <2>6 DEF Grounded, q, o
<1>9. \A j \in Indexers : OutOfRoot(next[j].garbage, rt)
  <2>1. OutOfRoot(s.garbage, rt)
    BY <1>2, <1>3 DEF OutOfRoot
  <2> QED BY <2>1, <1>1 DEF RootInvOf
<1>10. ASSUME NEW j \in Indexers, NEW k \in Indexers
       PROVE  /\ j # k => Apart(next[j], next[k])
              /\ OutOfReach(next[j].garbage, next[k], rt)
  <2>1. \A a \in Indexers : next[a].drawn = runs[a].drawn /\ next[a].base = runs[a].base
    BY <1>1, <1>2 DEF r
  <2>2. \A a \in Indexers : Known(next[a].garbage) \subseteq Known(runs[a].garbage)
    BY <1>1, <1>4 DEF g, r
  <2>3. j # k => Apart(runs[j], runs[k])
    BY DEF RootInvOf
  <2>4. OutOfReach(runs[j].garbage, runs[k], rt)
    BY DEF RootInvOf
  <2>5. j # k => Apart(next[j], next[k])
    BY <2>1, <2>3 DEF Apart
  <2>6. OutOfReach(next[j].garbage, next[k], rt)
    BY <2>1, <2>2, <2>4 DEF OutOfReach, Viable
  <2> QED BY <2>5, <2>6
<1> QED BY <1>6, <1>7, <1>8, <1>9, <1>10 DEF RootInvOf, next

-----------------------------------------------------------------------------
(***************************************************************************)
(* The swap.                                                               *)
(***************************************************************************)

\* What collect_garbage and the sweep are about to delete.
LEMMA GarbageFacts ==
    ASSUME NEW r
    PROVE  /\ \A x \in Garbage(r).files :
                 /\ x \notin Ids(r.keep)
                 /\ (\E q \in r.replaced : x = q.id) \/ x \in r.inventory.files
           /\ \A d \in Garbage(r).deads :
                 /\ \/ \E q \in r.replaced : q.dead # {} /\ d = <<q.id, q.dead>>
                    \/ d \in r.inventory.deads
                 /\ \A h \in DOMAIN r.keep :
                       r.keep[h].dead # {} => d # <<r.keep[h].id, r.keep[h].dead>>
<1>1. ToSet(r.keep) = {r.keep[h] : h \in DOMAIN r.keep}
  BY DEF ToSet
<1>2. \A h \in DOMAIN r.keep : r.keep[h] \in ToSet(r.keep)
  BY <1>1
<1>3. Garbage(r).files = ({q.id : q \in r.replaced} \cup r.inventory.files) \ {m.id : m \in ToSet(r.keep)}
  BY DEF Garbage, Blobs
<1>4. Garbage(r).deads =
          ({<<q.id, q.dead>> : q \in {a \in r.replaced : a.dead # {}}} \cup r.inventory.deads)
              \ {<<m.id, m.dead>> : m \in {a \in ToSet(r.keep) : a.dead # {}}}
  BY DEF Garbage, Blobs
<1>5. ASSUME NEW x \in Garbage(r).files
      PROVE  /\ x \notin Ids(r.keep)
             /\ (\E q \in r.replaced : x = q.id) \/ x \in r.inventory.files
  BY <1>2, <1>3 DEF Ids
<1>6. ASSUME NEW d \in Garbage(r).deads
      PROVE  /\ \/ \E q \in r.replaced : q.dead # {} /\ d = <<q.id, q.dead>>
                \/ d \in r.inventory.deads
             /\ \A h \in DOMAIN r.keep :
                   r.keep[h].dead # {} => d # <<r.keep[h].id, r.keep[h].dead>>
  <2>1. d \in {<<q.id, q.dead>> : q \in {a \in r.replaced : a.dead # {}}} \cup r.inventory.deads
    BY <1>4
  <2>2. d \notin {<<m.id, m.dead>> : m \in {a \in ToSet(r.keep) : a.dead # {}}}
    BY <1>4
  <2>3. \A h \in DOMAIN r.keep : r.keep[h].dead # {} => d # <<r.keep[h].id, r.keep[h].dead>>
    BY <2>2, <1>2
  <2> QED BY <2>1, <2>3
<1> QED BY <1>5, <1>6

\* Every segment of the new root was drawn by the run or succeeds one of the old
\* root, so that what the old root had superseded stays superseded.
LEMMA SupersededStays ==
    ASSUME NEW keep, NEW old, NEW drawn, NEW x, NEW D,
           \A h \in DOMAIN keep : \/ keep[h].id \in drawn
                                  \/ \E b \in DOMAIN old : Succeeds(keep[h], old[b]),
           x \notin drawn, Superseded(x, D, old)
    PROVE  Superseded(x, D, keep)
BY DEF Superseded, Succeeds

LEMMA SameMeta ==
    ASSUME NEW a \in SegmentMeta, NEW b \in SegmentMeta,
           a.id = b.id, a.table = b.table, a.dead = b.dead
    PROVE  a = b
BY DEF SegmentMeta

\* A segment of the old root is in the new one as it was or will never be again.
LEMMA ReplacedOrSame ==
    ASSUME NEW keep \in Seq(SegmentMeta), NEW old \in Seq(SegmentMeta), NEW drawn,
           DistinctIds(old), DistinctIds(keep), NEW g \in DOMAIN old, old[g].id \notin drawn,
           \A h \in DOMAIN keep : \/ keep[h].id \in drawn
                                  \/ \E b \in DOMAIN old : Succeeds(keep[h], old[b])
    PROVE  \/ \E h \in DOMAIN keep : keep[h] = old[g]
           \/ Superseded(old[g].id, old[g].dead, keep)
<1>1. SUFFICES ASSUME NEW h \in DOMAIN keep, keep[h].id = old[g].id, keep[h].dead \subseteq old[g].dead
               PROVE  keep[h] = old[g]
  BY DEF Superseded
<1>2. PICK b \in DOMAIN old : Succeeds(keep[h], old[b])
  BY <1>1
<1>3. b = g
  BY <1>1, <1>2 DEF DistinctIds, Succeeds
<1>4. keep[h].id = old[g].id /\ keep[h].table = old[g].table /\ keep[h].dead = old[g].dead
  BY <1>1, <1>2, <1>3 DEF Succeeds
<1>5. keep[h] \in SegmentMeta /\ old[g] \in SegmentMeta
  OBVIOUS
<1> QED BY <1>4, <1>5, SameMeta

LEMMA Swapped ==
    ASSUME NEW rt \in Root, NEW fs, NEW ds, NEW n \in Nat, NEW runs \in [Indexers -> Run],
           RootInvOf(rt, fs, ds, n, runs),
           NEW i \in Indexers, runs[i].pc = "swap", runs[i].pending = {}, runs[i].base = rt,
           NEW s, s.pc = "collect", s.base = Absent,
           s.work = <<>>, s.keep = <<>>, s.replaced = {}, s.drawn = {}, s.pending = {},
           s.inventory = NoBlobs, s.garbage = Garbage(runs[i])
    PROVE  RootInvOf(Loaded(runs[i].keep), fs, ds, n, [runs EXCEPT ![i] = s])
<1> DEFINE r == runs[i]
           keep == r.keep
           old == rt.segments
           rt2 == Loaded(keep)
           g == Garbage(r)
           next == [runs EXCEPT ![i] = s]
<1>1. next[i] = s /\ \A j \in Indexers \ {i} : next[j] = runs[j]
  OBVIOUS
<1>2. /\ rt2.state = "loaded" /\ rt2.segments = keep /\ r.base = rt /\ r.base.segments = old
      /\ s.garbage = g /\ r.pending = {}
  BY DEF Loaded
<1>3. r \in Run /\ keep \in Seq(SegmentMeta) /\ old \in Seq(SegmentMeta)
  <2>1. r \in Run
    OBVIOUS
  <2> QED BY <2>1 DEF Run, Root
<1>4. /\ Sound(rt, fs, ds, n) /\ Local(r, n) /\ Grounded(r, rt, fs, ds)
      /\ \A j \in Indexers : /\ Local(runs[j], n) /\ Grounded(runs[j], rt, fs, ds)
                             /\ OutOfRoot(runs[j].garbage, rt) /\ OutOfReach(runs[j].garbage, r, rt)
                             /\ j # i => Apart(r, runs[j]) /\ Apart(runs[j], r)
  BY DEF RootInvOf
<1>5. /\ \A x \in g.files : /\ x \notin Ids(keep)
                            /\ (\E q \in r.replaced : x = q.id) \/ x \in r.inventory.files
      /\ \A d \in g.deads : /\ \/ \E q \in r.replaced : q.dead # {} /\ d = <<q.id, q.dead>>
                               \/ d \in r.inventory.deads
                            /\ \A h \in DOMAIN keep :
                                  keep[h].dead # {} => d # <<keep[h].id, keep[h].dead>>
  BY GarbageFacts
<1> HIDE DEF r, keep, old, rt2, g, next
<1>6. \A h \in DOMAIN keep : \/ keep[h].id \in r.drawn /\ keep[h].dead = {}
                             \/ \E b \in DOMAIN old : Succeeds(keep[h], old[b])
  BY <1>2, <1>4 DEF Local, Origins, keep
<1>7. Ids(keep) \subseteq r.drawn \cup Ids(old)
  BY <1>6 DEF Ids, Succeeds
<1>8. Viable(r, rt)
  BY <1>2 DEF Viable
<1>9. DistinctIds(old) /\ DistinctIds(keep) /\ r.drawn \cap Ids(old) = {}
  BY <1>2, <1>4 DEF Local, Distinct, Drawn, keep
<1>10. Sound(rt2, fs, ds, n)
  <2>1. ASSUME NEW h \in DOMAIN keep
        PROVE  keep[h].id \in fs /\ (keep[h].dead # {} => <<keep[h].id, keep[h].dead>> \in ds)
    <3>1. CASE keep[h].id \in r.drawn /\ keep[h].dead = {}
      BY <3>1, <1>2, <1>4, <1>8 DEF Grounded, Stored, keep
    <3>2. ASSUME NEW b \in DOMAIN old, Succeeds(keep[h], old[b])
          PROVE  keep[h].id \in fs /\ (keep[h].dead # {} => <<keep[h].id, keep[h].dead>> \in ds)
      <4>1. keep[h].id \in fs
        BY <3>2, <1>4 DEF Sound, Succeeds, old
      <4>2. keep[h].dead # {} => <<keep[h].id, keep[h].dead>> \in ds
        BY <3>2, <1>2, <1>4 DEF Grounded, Stored, Succeeds, keep, old
      <4> QED BY <4>1, <4>2
    <3> QED BY <3>1, <3>2, <1>6
  <2> QED BY <2>1, <1>2, <1>4, <1>9 DEF Sound
<1>11. Known(s.inventory) = {} /\ s.base.segments = <<>> /\ s.base.state = "absent" /\ Ids(s.base.segments) = {}
  BY DEF Known, NoBlobs, Absent, Ids
<1>12. \A x \in Known(g) : x \in r.drawn \cup Ids(old) \cup Known(r.inventory)
  <2>1. \A q \in r.replaced : q.id \in r.drawn \cup Ids(old)
    BY <1>2, <1>4 DEF Local, Origins
  <2>2. \A x \in g.files : x \in r.drawn \cup Ids(old) \cup Known(r.inventory)
    BY <2>1, <1>5 DEF Known
  <2>3. ASSUME NEW d \in g.deads PROVE d[1] \in r.drawn \cup Ids(old) \cup Known(r.inventory)
    <3>1. CASE \E q \in r.replaced : q.dead # {} /\ d = <<q.id, q.dead>>
      BY <3>1, <2>1
    <3>2. CASE d \in r.inventory.deads
      BY <3>2 DEF Known
    <3> QED BY <3>1, <3>2, <1>5
  <2> QED BY <2>2, <2>3 DEF Known
<1>13. \A j \in Indexers : Local(next[j], n)
  <2>1. Local(s, n)
    <3>1. Quiet(s)
      BY DEF Quiet
    <3>2. Distinct(s)
      BY <1>11 DEF Distinct, DistinctIds
    <3>3. Origins(s)
      BY <1>11 DEF Origins
    <3>4. Drawn(s, n)
      BY <1>2, <1>4, <1>11, <1>12 DEF Drawn, Local
    <3> QED BY <3>1, <3>2, <3>3, <3>4 DEF Local
  <2> QED BY <2>1, <1>1, <1>4
<1>14. ASSUME NEW j \in Indexers \ {i} PROVE Grounded(runs[j], rt2, fs, ds)
  <2> DEFINE o == runs[j]
             base == o.base.segments
  <2>1. /\ Local(o, n) /\ Grounded(o, rt, fs, ds) /\ Apart(r, o) /\ Apart(o, r)
    BY <1>4
  <2> HIDE DEF o, base
  <2>2. o.drawn \cap Ids(rt2.segments) = {}
    BY <2>1, <1>2, <1>7 DEF Apart
  <2>3. ASSUME NEW b \in DOMAIN base
        PROVE  \/ \E h \in DOMAIN keep : keep[h] = base[b]
               \/ Superseded(base[b].id, base[b].dead, keep)
    <3>1. base[b].id \notin r.drawn
      BY <2>1 DEF Apart, Ids, base
    <3>2. CASE \E c \in DOMAIN old : old[c] = base[b]
      <4>1. PICK c \in DOMAIN old : old[c] = base[b]
        BY <3>2
      <4>2. old[c].id \notin r.drawn
        BY <4>1, <3>1
      <4>3. \A h \in DOMAIN keep : \/ keep[h].id \in r.drawn
                                    \/ \E a \in DOMAIN old : Succeeds(keep[h], old[a])
        BY <1>6
      <4>4. \/ \E h \in DOMAIN keep : keep[h] = old[c]
            \/ Superseded(old[c].id, old[c].dead, keep)
        BY <4>2, <4>3, <1>3, <1>9, ReplacedOrSame
      <4> QED BY <4>1, <4>4
    <3>3. CASE Superseded(base[b].id, base[b].dead, old)
      BY <3>1, <3>3, <1>6, SupersededStays
    <3> QED BY <3>2, <3>3, <2>1 DEF Grounded, CurrentOrSuperseded, base, old
  <2>4. CurrentOrSuperseded(o, rt2)
    BY <2>3, <1>2 DEF CurrentOrSuperseded, base
  <2>5. Stored(o, rt2, fs, ds)
    <3>1. Viable(o, rt2) => Viable(o, rt)
      BY <1>2 DEF Viable
    <3>2. ASSUME NEW b \in DOMAIN base, NEW c \in DOMAIN keep, keep[c] = base[b]
          PROVE  \E a \in DOMAIN old : old[a] = base[b]
      <4>1. base[b].id \notin r.drawn
        BY <2>1 DEF Apart, Ids, base
      <4>2. ~Superseded(base[b].id, base[b].dead, old)
        <5>1. PICK a \in DOMAIN old : Succeeds(keep[c], old[a])
          BY <4>1, <3>2, <1>6
        <5> QED BY <5>1, <3>2 DEF Succeeds, Superseded
      <4> QED BY <4>2, <2>1 DEF Grounded, CurrentOrSuperseded, base, old
    <3>3. \A h \in DOMAIN o.keep : \A b \in DOMAIN base, c \in DOMAIN keep :
              base[b].id = o.keep[h].id /\ keep[c] = base[b] /\ o.keep[h].dead # {}
              => <<o.keep[h].id, o.keep[h].dead>> \in ds
      BY <3>2, <2>1 DEF Grounded, Stored, base, old
    <3>4. \A h \in DOMAIN o.keep :
              Viable(o, rt2) /\ o.keep[h].id \in o.drawn => o.keep[h].id \in fs \cup o.pending
      BY <3>1, <2>1 DEF Grounded, Stored
    <3> QED BY <3>3, <3>4, <1>2 DEF Stored, base
  <2> QED BY <2>2, <2>4, <2>5, <1>2 DEF Grounded, o
<1>15. Grounded(s, rt2, fs, ds)
  BY <1>11 DEF Grounded, CurrentOrSuperseded, Stored
<1>16. OutOfRoot(g, rt2)
  <2>1. ASSUME NEW d \in g.deads PROVE Superseded(d[1], d[2], keep)
    <3>1. ASSUME NEW q \in r.replaced, q.dead # {}, d = <<q.id, q.dead>>
          PROVE  Superseded(d[1], d[2], keep)
      <4>1. SUFFICES ASSUME NEW h \in DOMAIN keep, keep[h].id = q.id, keep[h].dead \subseteq q.dead
                     PROVE  FALSE
        BY <3>1 DEF Superseded
      <4>2. q.dead \subseteq keep[h].dead
        BY <4>1, <1>4 DEF Local, Origins, keep
      <4>3. keep[h].dead = q.dead
        BY <4>1, <4>2
      <4> QED BY <4>1, <4>3, <3>1, <1>5
    <3>2. CASE d \in r.inventory.deads
      <4>1. r.inventory # NoBlobs
        BY <3>2 DEF NoBlobs
      <4>2. old = <<>>
        BY <4>1, <1>2, <1>4 DEF Local, Origins
      <4>3. d[1] \notin r.drawn
        BY <3>2, <1>4 DEF Local, Drawn, Known
      <4>4. \A h \in DOMAIN keep : keep[h].id \in r.drawn
        BY <4>2, <1>6
      <4> QED BY <4>3, <4>4 DEF Superseded
    <3> QED BY <3>1, <3>2, <1>5
  <2>2. g.files \cap Ids(keep) = {}
    BY <1>5
  <2> QED BY <2>1, <2>2, <1>2 DEF OutOfRoot
<1>17. ASSUME NEW j \in Indexers \ {i} PROVE OutOfRoot(runs[j].garbage, rt2)
  <2> DEFINE f == runs[j].garbage
  <2>1. OutOfRoot(f, rt) /\ Known(f) \cap r.drawn = {}
    BY <1>4, <1>8 DEF OutOfReach
  <2> HIDE DEF f
  <2>2. f.files \cap Ids(keep) = {}
    BY <2>1, <1>7 DEF OutOfRoot, Known, old
  <2>3. ASSUME NEW d \in f.deads PROVE Superseded(d[1], d[2], keep)
    <3>1. d[1] \notin r.drawn /\ Superseded(d[1], d[2], old)
      BY <2>1 DEF OutOfRoot, Known, old
    <3> QED BY <3>1, <1>6, SupersededStays
  <2> QED BY <2>2, <2>3, <1>2 DEF OutOfRoot, f
<1>18. ASSUME NEW j \in Indexers \ {i} PROVE OutOfReach(g, runs[j], rt2)
  <2>1. SUFFICES ASSUME Viable(runs[j], rt2), NEW x \in Known(g), x \in runs[j].drawn PROVE FALSE
    BY DEF OutOfReach
  <2>2. x \notin r.drawn
    BY <2>1, <1>4 DEF Apart
  <2>3. x \notin Ids(old)
    BY <2>1, <1>4 DEF Grounded, old
  <2>4. x \in Known(r.inventory)
    BY <2>1, <2>2, <2>3, <1>12
  <2>5. r.inventory # NoBlobs
    BY <2>4 DEF Known, NoBlobs
  <2>6. rt.state = "unreadable"
    BY <2>5, <1>2, <1>4 DEF Local, Origins
  <2>7. runs[j].pc \notin {"idle", "listed", "collect", "rooted"}
    BY <2>1, <1>4 DEF Local, Quiet
  <2>8. runs[j].pc \in {"update", "swap"}
    BY <2>7 DEF Run
  <2>9. runs[j].base.state = "unreadable"
    BY <2>6, <2>8, <1>4 DEF Grounded
  <2> QED BY <2>1, <2>9, <1>2 DEF Viable
<1>19. ASSUME NEW j \in Indexers, NEW k \in Indexers
       PROVE  /\ j # k => Apart(next[j], next[k])
              /\ OutOfReach(next[j].garbage, next[k], rt2)
  <2>1. j # k => Apart(next[j], next[k])
    <3>1. \A q : Apart(s, q) /\ Apart(q, s)
      <4>1. \A q : Apart(s, q)
        BY DEF Apart
      <4>2. \A q : Apart(q, s)
        BY <1>11 DEF Apart
      <4> QED BY <4>1, <4>2
    <3> QED BY <3>1, <1>1 DEF RootInvOf
  <2>2. CASE k = i
    BY <2>1, <2>2, <1>1 DEF OutOfReach
  <2>3. CASE k # i /\ j = i
    BY <2>1, <2>3, <1>1, <1>2, <1>18
  <2>4. CASE k # i /\ j # i
    <3>1. OutOfReach(runs[j].garbage, runs[k], rt)
      BY DEF RootInvOf
    <3>2. OutOfReach(runs[j].garbage, runs[k], rt2)
      BY <3>1, <1>2 DEF OutOfReach, Viable
    <3> QED BY <3>2, <2>1, <2>4, <1>1
  <2> QED BY <2>1, <2>2, <2>3, <2>4
<1>20. \A j \in Indexers : Grounded(next[j], rt2, fs, ds) /\ OutOfRoot(next[j].garbage, rt2)
  BY <1>1, <1>2, <1>14, <1>15, <1>16, <1>17
<1>21. RootInvOf(rt2, fs, ds, n, next)
  BY <1>10, <1>13, <1>19, <1>20 DEF RootInvOf
<1> QED BY <1>21 DEF rt2, next, keep, r

-----------------------------------------------------------------------------
(***************************************************************************)
(* The actions.                                                            *)
(***************************************************************************)

LEMMA StateFacts ==
    ASSUME TypeOK, RootInv
    PROVE  /\ root \in Root /\ files \in SUBSET Nat /\ nextId \in Nat /\ run \in [Indexers -> Run]
           /\ \A d \in deads : d[1] \in Nat
           /\ RootInvOf(root, files, deads, nextId, run)
           /\ Sound(root, files, deads, nextId)
           /\ \A i \in Indexers : run[i] \in Run /\ Local(run[i], nextId)
BY DEF TypeOK, RootInv, RootInvOf

LEMMA IdleRests == Rests(Idle)
BY DEF Idle, Rests

\* The run ends, by success or failure.
LEMMA RootEnd ==
    ASSUME TypeOK, RootInv, NEW i \in Indexers, run' = [run EXCEPT ![i] = Idle],
           root' = root, files' = files, deads' = deads, nextId' = nextId
    PROVE  RootInv'
<1>1. RootInvOf(root, files, deads, nextId, [run EXCEPT ![i] = Idle])
  BY StateFacts, IdleRests, Resting
<1> QED BY <1>1 DEF RootInv

LEMMA RootList ==
    ASSUME TypeOK, RootInv, NEW i \in Indexers, List(i)
    PROVE  RootInv'
<1>1. PICK rebuild \in BOOLEAN, purge \in PurgeModes :
          run' = [run EXCEPT ![i] = [Idle EXCEPT !.pc = "listed", !.listing = bucket,
                                                 !.rebuild = rebuild, !.purge = purge]]
  BY DEF List
<1> DEFINE s == [Idle EXCEPT !.pc = "listed", !.listing = bucket,
                             !.rebuild = rebuild, !.purge = purge]
<1>2. Rests(s)
  BY DEF Idle, Rests
<1>3. run' = [run EXCEPT ![i] = s]
  BY <1>1
<1> HIDE DEF s
<1>4. RootInvOf(root, files, deads, nextId, [run EXCEPT ![i] = s])
  BY <1>2, StateFacts, Resting
<1>5. root' = root /\ files' = files /\ deads' = deads /\ nextId' = nextId
  BY DEF List, store
<1> QED BY <1>3, <1>4, <1>5 DEF RootInv

LEMMA RootLoadRoot ==
    ASSUME TypeOK, RootInv, NEW i \in Indexers, LoadRoot(i)
    PROVE  RootInv'
<1> DEFINE r == run[i]
           s == [r EXCEPT !.pc = "rooted", !.base = root]
<1>1. r \in Run /\ Quiet(r)
  BY StateFacts DEF Local
<1>2. r.pc = "listed" /\ run' = [run EXCEPT ![i] = s]
  BY DEF LoadRoot
<1>3. /\ s.pc = "rooted" /\ s.base = root /\ s.work = r.work /\ s.keep = r.keep
      /\ s.replaced = r.replaced /\ s.drawn = r.drawn /\ s.pending = r.pending
      /\ s.inventory = r.inventory /\ s.garbage = r.garbage
  BY <1>1 DEF Run
<1> HIDE DEF s
<1>4. /\ s.work = <<>> /\ s.keep = <<>> /\ s.replaced = {} /\ s.drawn = {} /\ s.pending = {}
      /\ s.inventory = NoBlobs /\ s.garbage = NoBlobs
  BY <1>1, <1>2, <1>3 DEF Quiet
<1>5. RootInvOf(root, files, deads, nextId, [run EXCEPT ![i] = s])
  BY <1>3, <1>4, StateFacts, Rooted
<1>6. root' = root /\ files' = files /\ deads' = deads /\ nextId' = nextId
  BY DEF LoadRoot, store
<1> QED BY <1>2, <1>5, <1>6 DEF RootInv

LEMMA RootPlan ==
    ASSUME TypeOK, RootInv, NEW i \in Indexers, Plan(i)
    PROVE  RootInv'
<1> DEFINE r == run[i]
           list == Existing(r)
           s == [r EXCEPT
                   !.pc = "update",
                   !.work = Pairs(list, r.listing),
                   !.toAdd = ToAdd(list, r.listing),
                   !.dirty = \/ ToAdd(list, r.listing) # {}
                             \/ \E j \in DOMAIN list : NewlyDead(list, r.listing, j) # {}
                             \/ r.rebuild \/ r.base.state # "loaded",
                   !.replaced = ToSet(r.base.segments),
                   !.inventory = IF r.base.state = "unreadable"
                                 THEN [NoBlobs EXCEPT !.files = files, !.deads = deads]
                                 ELSE NoBlobs]
<1>1. root' = root /\ files' = files /\ deads' = deads /\ nextId' = nextId
  BY DEF Plan, store
<1>2. CASE UpToDate(r)
  <2>1. run' = [run EXCEPT ![i] = Idle]
    BY <1>2 DEF Plan
  <2> QED BY <2>1, <1>1, RootEnd
<1>3. CASE ~UpToDate(r)
  <2>1. r.pc = "rooted" /\ run' = [run EXCEPT ![i] = s]
    BY <1>3 DEF Plan
  <2>2. r \in Run /\ Local(r, nextId) /\ Sound(root, files, deads, nextId)
    BY StateFacts
  <2>3. /\ s.pc = "update" /\ s.base = r.base /\ s.keep = r.keep /\ s.drawn = r.drawn
        /\ s.pending = r.pending /\ s.garbage = r.garbage
        /\ s.replaced = ToSet(r.base.segments)
        /\ s.inventory = IF r.base.state = "unreadable"
                         THEN [NoBlobs EXCEPT !.files = files, !.deads = deads] ELSE NoBlobs
        /\ s.work = Pairs(list, r.listing)
    BY <2>2 DEF Run
  <2> HIDE DEF s
  <2>4. list = <<>> \/ list = r.base.segments
    BY DEF Existing
  <2>5. \A h \in DOMAIN s.work : /\ h \in DOMAIN r.base.segments
                                 /\ s.work[h].meta = r.base.segments[h]
                                 /\ s.work[h].meta.dead \subseteq s.work[h].dead
    <3>1. DOMAIN <<>> = {}
      OBVIOUS
    <3>2. \A h \in DOMAIN s.work : /\ h \in DOMAIN list /\ s.work[h].meta = list[h]
                                   /\ list[h].dead \subseteq s.work[h].dead
      BY <2>3 DEF Pairs
    <3> QED BY <2>4, <3>1, <3>2
  <2>6. Local(s, nextId)
    BY <2>1, <2>2, <2>3, <2>5, StateFacts, Planned
  <2>7. s.keep = <<>>
    BY <2>1, <2>2, <2>3 DEF Local, Quiet
  <2>8. Stored(s, root, files, deads)
    BY <2>7 DEF Stored
  <2>9. root.state = "unreadable" /\ s.pc \in {"rooted", "update", "swap"} => s.base.state = "unreadable"
    BY <2>1, <2>3 DEF RootInv, RootInvOf, Grounded
  <2>10. /\ files \subseteq files /\ deads \subseteq deads /\ nextId <= nextId
         /\ \A x \in s.drawn : x \in run[i].drawn \/ (x \in Nat /\ nextId <= x)
         /\ s.base = run[i].base /\ s.garbage = run[i].garbage
    BY <2>3, StateFacts
  <2>11. \A h \in DOMAIN root.segments : root.segments[h].id \in Nat
    BY <2>2, StateFacts DEF Sound
  <2>12. RootInvOf(root, files, deads, nextId, [run EXCEPT ![i] = s])
    BY <2>2, <2>6, <2>8, <2>9, <2>10, <2>11, StateFacts, SameSession
  <2> QED BY <2>1, <2>12, <1>1 DEF RootInv
<1> QED BY <1>2, <1>3

LEMMA RootDrop ==
    ASSUME TypeOK, RootInv, NEW i \in Indexers, Drop(i)
    PROVE  RootInv'
<1> DEFINE r == run[i]
           s == [r EXCEPT !.work = Tail(@)]
<1>1. /\ r \in Run /\ Local(r, nextId) /\ nextId \in Nat /\ nextId <= nextId
      /\ Sound(root, files, deads, nextId)
  BY StateFacts
<1>2. r.pc = "update" /\ r.work # <<>> /\ run' = [run EXCEPT ![i] = s]
  BY DEF Drop, Retiring
<1>3. /\ s.pc = r.pc /\ s.base = r.base /\ s.inventory = r.inventory /\ s.garbage = r.garbage
      /\ s.work = Tail(r.work) /\ s.keep = r.keep /\ s.replaced = r.replaced
      /\ s.drawn = r.drawn /\ s.pending = r.pending /\ r.work \in Seq(Pair)
  BY <1>1 DEF Run
<1> HIDE DEF s, r
<1>4. WorkLeft(r, s, 1)
  BY <1>2, <1>3, TailFacts DEF WorkLeft
<1>5. Advances(r, s, 1, {}, nextId, nextId)
  <2>1. DistinctIds(s.keep) /\ s.pending \subseteq s.drawn
    BY <1>1, <1>3 DEF Local, Distinct, Drawn
  <2>2. KeptFrom(r, s, {})
    BY <1>3 DEF KeptFrom
  <2> QED BY <2>1, <2>2, <1>2, <1>3, <1>4 DEF Advances
<1>6. Provides(r, s, {}, root, files, files, deads)
  BY <1>3 DEF Provides
<1>7. RootInvOf(root, files, deads, nextId, [run EXCEPT ![i] = s])
  BY <1>1, <1>5, <1>6, StateFacts, WorkStep DEF r
<1>8. root' = root /\ files' = files /\ deads' = deads /\ nextId' = nextId
  BY DEF Drop, store
<1> QED BY <1>2, <1>7, <1>8 DEF RootInv

LEMMA RootKeep ==
    ASSUME TypeOK, RootInv, NEW i \in Indexers, Keep(i)
    PROVE  RootInv'
<1> DEFINE r == run[i]
           p == NextPair(r)
           changed == p.dead # p.meta.dead
           meta == [p.meta EXCEPT !.dead = p.dead]
           s == [r EXCEPT !.work = Tail(@), !.keep = Append(@, meta),
                          !.replaced = IF changed THEN @ \cup {meta} ELSE @]
           base == r.base.segments
<1>1. /\ r \in Run /\ Local(r, nextId) /\ nextId \in Nat /\ nextId <= nextId
      /\ Sound(root, files, deads, nextId)
  BY StateFacts
<1>2. /\ r.pc = "update" /\ r.pending = {} /\ r.work # <<>> /\ run' = [run EXCEPT ![i] = s]
      /\ deads' = IF changed THEN deads \cup {<<meta.id, meta.dead>>} ELSE deads
  BY DEF Keep, Retiring
<1>3. /\ s.pc = r.pc /\ s.base = r.base /\ s.inventory = r.inventory /\ s.garbage = r.garbage
      /\ s.work = Tail(r.work) /\ s.keep = Append(r.keep, meta)
      /\ s.replaced \subseteq r.replaced \cup {meta}
      /\ s.drawn = r.drawn /\ s.pending = r.pending
      /\ r.work \in Seq(Pair) /\ r.keep \in Seq(SegmentMeta)
  BY <1>1 DEF Run
<1>4. /\ 1 \in DOMAIN r.work /\ p = r.work[1]
      /\ \A h \in DOMAIN s.work : /\ h \in Nat /\ h + 1 \in DOMAIN r.work /\ h + 1 # 1
                                  /\ s.work[h] = r.work[h + 1]
  BY <1>2, <1>3, TailFacts DEF NextPair
<1>5. p \in Pair
  BY <1>3, <1>4
<1>6. /\ meta \in SegmentMeta /\ meta.id = p.meta.id /\ meta.table = p.meta.table
      /\ meta.dead = p.dead
  BY <1>5 DEF Pair, SegmentMeta
<1> HIDE DEF s, r, meta, p, base
<1>7. PICK b \in DOMAIN base : base[b] = p.meta
  BY <1>1, <1>4 DEF Local, Origins, base
<1>8. Succeeds(meta, base[b])
  BY <1>1, <1>4, <1>6, <1>7 DEF Local, Origins, Succeeds
<1>9. WorkLeft(r, s, 1)
  BY <1>4 DEF WorkLeft
<1>10. meta.id \notin Ids(r.keep) /\ meta.id \in Ids(base)
  BY <1>1, <1>4, <1>6, <1>7 DEF Local, Distinct, Ids
<1>11. IsNew(r, s, meta)
  <2>1. \A h \in DOMAIN s.work : s.work[h].meta.id # meta.id
    BY <1>1, <1>4, <1>6 DEF Local, Distinct
  <2>2. \A g \in DOMAIN r.keep : r.keep[g].id # meta.id
    BY <1>10 DEF Ids
  <2>3. ASSUME NEW q \in r.replaced, q.id = meta.id PROVE q.dead \subseteq meta.dead
    <3>1. q.dead \subseteq p.meta.dead
      BY <2>3, <1>1, <1>4, <1>6 DEF Local, Origins
    <3>2. p.meta.dead \subseteq p.dead
      BY <1>1, <1>4 DEF Local, Origins
    <3> QED BY <3>1, <3>2, <1>6
  <2> QED BY <2>1, <2>2, <2>3, <1>8 DEF IsNew, base
<1>12. Advances(r, s, 1, {meta}, nextId, nextId)
  <2>1. DistinctIds(s.keep) /\ KeptFrom(r, s, {meta})
    BY <1>1, <1>3, <1>6, <1>10, AppendFacts DEF Local, Distinct, KeptFrom
  <2>2. s.pending \subseteq s.drawn
    BY <1>1, <1>3 DEF Local, Drawn
  <2> QED BY <2>1, <2>2, <1>2, <1>3, <1>9, <1>11 DEF Advances
<1>13. Provides(r, s, {meta}, root, files, files, deads')
  <2>1. meta.id \notin s.drawn
    BY <1>1, <1>3, <1>10 DEF Local, Drawn, base
  <2>2. ASSUME NEW c \in DOMAIN base, NEW g \in DOMAIN root.segments,
               base[c].id = meta.id, root.segments[g] = base[c], meta.dead # {}
        PROVE  <<meta.id, meta.dead>> \in deads'
    <3>1. CASE changed
      BY <3>1, <1>2
    <3>2. CASE ~changed
      <4>1. c = b
        BY <2>2, <1>1, <1>8 DEF Local, Distinct, DistinctIds, Succeeds, base
      <4>2. root.segments[g].id = meta.id /\ root.segments[g].dead = meta.dead
        BY <2>2, <3>2, <4>1, <1>6, <1>7
      <4> QED BY <2>2, <3>2, <4>2, <1>1, <1>2 DEF Sound
    <3> QED BY <3>1, <3>2
  <2> QED BY <2>1, <2>2, <1>3 DEF Provides, base
<1>14. deads \subseteq deads' /\ files \subseteq files /\ Sound(root, files, deads', nextId)
  <2>1. meta.id < nextId
    BY <1>1, <1>10 DEF Local, Drawn, base
  <2> QED BY <2>1, <1>1, <1>2 DEF Sound
<1>15. RootInvOf(root, files, deads', nextId, [run EXCEPT ![i] = s])
  BY <1>1, <1>12, <1>13, <1>14, StateFacts, WorkStep DEF r
<1>16. root' = root /\ files' = files /\ nextId' = nextId
  BY DEF Keep
<1> QED BY <1>2, <1>15, <1>16 DEF RootInv

LEMMA RootPutFiles ==
    ASSUME TypeOK, RootInv, NEW i \in Indexers, PutFiles(i)
    PROVE  RootInv'
<1> DEFINE r == run[i]
           s == [r EXCEPT !.pending = {}]
           fs2 == files \cup r.pending
<1>1. /\ r \in Run /\ Local(r, nextId) /\ nextId \in Nat /\ nextId <= nextId
      /\ Sound(root, files, deads, nextId)
  BY StateFacts
<1>2. r.pending # {} /\ files' = fs2 /\ run' = [run EXCEPT ![i] = s]
  BY DEF PutFiles
<1>3. /\ s.pc = r.pc /\ s.base = r.base /\ s.inventory = r.inventory /\ s.garbage = r.garbage
      /\ s.work = r.work /\ s.keep = r.keep /\ s.replaced = r.replaced
      /\ s.drawn = r.drawn /\ s.pending = {} /\ r.work \in Seq(Pair)
      /\ r.pc \in {"idle", "listed", "rooted", "update", "swap", "collect"}
  BY <1>1 DEF Run
<1> HIDE DEF s, r
<1>4. r.pc \in {"update", "swap"}
  BY <1>1, <1>2, <1>3 DEF Local, Quiet
<1>5. WorkLeft(r, s, 0)
  <2>1. \A h \in DOMAIN r.work : h \in Nat /\ h + 0 = h
    BY <1>3
  <2> QED BY <2>1, <1>3 DEF WorkLeft
<1>6. Advances(r, s, 0, {}, nextId, nextId)
  <2>1. DistinctIds(s.keep) /\ s.pending \subseteq s.drawn
    BY <1>1, <1>3 DEF Local, Distinct, Drawn
  <2>2. KeptFrom(r, s, {})
    BY <1>3 DEF KeptFrom
  <2> QED BY <2>1, <2>2, <1>3, <1>4, <1>5 DEF Advances
<1>7. Provides(r, s, {}, root, files, fs2, deads)
  BY <1>3 DEF Provides
<1>8. files \subseteq fs2 /\ deads \subseteq deads /\ Sound(root, fs2, deads, nextId)
  <2>1. \A x \in r.pending : x < nextId
    BY <1>1 DEF Local, Drawn
  <2> QED BY <2>1, <1>1 DEF Sound
<1> HIDE DEF fs2
<1>9. RootInvOf(root, fs2, deads, nextId, [run EXCEPT ![i] = s])
  BY <1>1, <1>6, <1>7, <1>8, StateFacts, WorkStep DEF r
<1>10. root' = root /\ deads' = deads /\ nextId' = nextId
  BY DEF PutFiles
<1> QED BY <1>2, <1>9, <1>10 DEF RootInv

LEMMA RootSkipCompact ==
    ASSUME TypeOK, RootInv, NEW i \in Indexers, SkipCompact(i)
    PROVE  RootInv'
<1> DEFINE r == run[i]
           s == [r EXCEPT !.pc = "swap"]
<1>1. root' = root /\ files' = files /\ deads' = deads /\ nextId' = nextId
  BY DEF SkipCompact, store
<1>2. CASE ~r.dirty
  <2>1. run' = [run EXCEPT ![i] = Idle]
    BY <1>2 DEF SkipCompact
  <2> QED BY <2>1, <1>1, RootEnd
<1>3. CASE r.dirty
  <2>1. /\ r \in Run /\ Local(r, nextId) /\ nextId \in Nat /\ nextId <= nextId
        /\ Sound(root, files, deads, nextId)
    BY StateFacts
  <2>2. r.pc = "update" /\ run' = [run EXCEPT ![i] = s]
    BY <1>3 DEF SkipCompact, ReadyToCompact
  <2>3. /\ s.pc = "swap" /\ s.base = r.base /\ s.inventory = r.inventory /\ s.garbage = r.garbage
        /\ s.work = r.work /\ s.keep = r.keep /\ s.replaced = r.replaced
        /\ s.drawn = r.drawn /\ s.pending = r.pending /\ r.work \in Seq(Pair)
    BY <2>1 DEF Run
  <2> HIDE DEF s, r
  <2>4. WorkLeft(r, s, 0)
    <3>1. \A h \in DOMAIN r.work : h \in Nat /\ h + 0 = h
      BY <2>3
    <3> QED BY <3>1, <2>3 DEF WorkLeft
  <2>5. Advances(r, s, 0, {}, nextId, nextId)
    <3>1. DistinctIds(s.keep) /\ s.pending \subseteq s.drawn
      BY <2>1, <2>3 DEF Local, Distinct, Drawn
    <3>2. KeptFrom(r, s, {})
      BY <2>3 DEF KeptFrom
    <3> QED BY <3>1, <3>2, <2>2, <2>3, <2>4 DEF Advances
  <2>6. Provides(r, s, {}, root, files, files, deads)
    BY <2>3 DEF Provides
  <2>7. RootInvOf(root, files, deads, nextId, [run EXCEPT ![i] = s])
    BY <2>1, <2>5, <2>6, StateFacts, WorkStep DEF r
  <2> QED BY <2>2, <2>7, <1>1 DEF RootInv
<1> QED BY <1>2, <1>3

LEMMA RootRepack ==
    ASSUME TypeOK, RootInv, NEW i \in Indexers, Repack(i)
    PROVE  RootInv'
<1> DEFINE r == run[i]
           m == NewSegment(MergedTable({NextPair(r)}))
           s == [r EXCEPT !.work = Tail(@), !.keep = Append(@, m), !.replaced = @ \cup {m},
                          !.pending = {m.id}, !.drawn = @ \cup {m.id}, !.dirty = TRUE]
<1>1. r \in Run /\ Local(r, nextId) /\ nextId \in Nat
  BY StateFacts
<1>2. /\ r.pc = "update" /\ r.pending = {} /\ r.work # <<>> /\ run' = [run EXCEPT ![i] = s]
  BY DEF Repack, Retiring
<1>3. m.id = nextId /\ m.dead = {}
  BY DEF NewSegment
<1>4. /\ s.pc = r.pc /\ s.base = r.base /\ s.inventory = r.inventory /\ s.garbage = r.garbage
      /\ s.work = Tail(r.work) /\ s.keep = Append(r.keep, m) /\ s.replaced = r.replaced \cup {m}
      /\ s.drawn = r.drawn \cup {m.id} /\ s.pending = {m.id}
      /\ r.work \in Seq(Pair) /\ r.keep \in Seq(SegmentMeta)
  BY <1>1 DEF Run
<1>5. m \in SegmentMeta
  <2>1. NextPair(r) \in Pair
    BY <1>2, <1>4 DEF NextPair
  <2>2. MergedTable({NextPair(r)}) \in Table
    BY <2>1, MergedType
  <2> QED BY <2>2, <1>1, NewSegmentType
<1> HIDE DEF s, r, m
<1>6. Draws(r, s, 1, m, nextId)
  <2>1. WorkLeft(r, s, 1)
    BY <1>2, <1>4, TailFacts DEF WorkLeft
  <2> QED BY <2>1, <1>2, <1>3, <1>4 DEF Draws
<1>7. m.id \notin Ids(r.keep) => DistinctIds(s.keep) /\ KeptFrom(r, s, {m})
  BY <1>1, <1>4, <1>5, AppendFacts DEF Local, Distinct, KeptFrom
<1>8. RootInvOf(root, files, deads, nextId + 1, [run EXCEPT ![i] = s])
  BY <1>6, <1>7, StateFacts, NewSegmentStep DEF r
<1>9. root' = root /\ files' = files /\ deads' = deads /\ nextId' = nextId + 1
  BY DEF Repack
<1> QED BY <1>2, <1>8, <1>9 DEF RootInv

LEMMA RootAddShard ==
    ASSUME TypeOK, RootInv, NEW i \in Indexers, AddShard(i)
    PROVE  RootInv'
<1> DEFINE r == run[i]
<1>1. r \in Run /\ Local(r, nextId) /\ nextId \in Nat
  BY StateFacts
<1>2. PICK shard \in (SUBSET r.toAdd) \ {{}} :
          LET new == NewSegment([k \in shard |-> Fetched(k, r.listing[k])]) IN
          run' = [run EXCEPT ![i] =
                   [r EXCEPT !.toAdd = @ \ shard, !.keep = Append(@, new),
                             !.replaced = @ \cup {new},
                             !.pending = {new.id}, !.drawn = @ \cup {new.id}]]
  BY DEF AddShard
<1> DEFINE t == [k \in shard |-> Fetched(k, r.listing[k])]
           m == NewSegment(t)
           s == [r EXCEPT !.toAdd = @ \ shard, !.keep = Append(@, m), !.replaced = @ \cup {m},
                          !.pending = {m.id}, !.drawn = @ \cup {m.id}]
<1>3. r.pc = "update" /\ r.pending = {} /\ run' = [run EXCEPT ![i] = s]
  BY <1>2 DEF AddShard
<1>4. m.id = nextId /\ m.dead = {}
  BY DEF NewSegment
<1>5. /\ s.pc = r.pc /\ s.base = r.base /\ s.inventory = r.inventory /\ s.garbage = r.garbage
      /\ s.work = r.work /\ s.keep = Append(r.keep, m) /\ s.replaced = r.replaced \cup {m}
      /\ s.drawn = r.drawn \cup {m.id} /\ s.pending = {m.id}
      /\ r.work \in Seq(Pair) /\ r.keep \in Seq(SegmentMeta)
      /\ r.toAdd \subseteq Keys /\ r.listing \in [Keys -> Bodies \cup {None}]
  BY <1>1 DEF Run
<1>6. m \in SegmentMeta
  <2>1. \A k \in shard : k \in Keys /\ r.listing[k] \in Bodies
    BY <1>5 DEF TypeOK
  <2>2. t \in [shard -> Entry]
    BY <2>1, FetchedType
  <2>3. t \in Table
    BY <2>1, <2>2 DEF Table
  <2> HIDE DEF t
  <2> QED BY <2>3, <1>1, NewSegmentType
<1> HIDE DEF s, r, m, t
<1>7. Draws(r, s, 0, m, nextId)
  <2>1. \A h \in DOMAIN r.work : h \in Nat /\ h + 0 = h
    BY <1>5
  <2>2. WorkLeft(r, s, 0)
    BY <2>1, <1>5 DEF WorkLeft
  <2> QED BY <2>2, <1>3, <1>4, <1>5 DEF Draws
<1>8. m.id \notin Ids(r.keep) => DistinctIds(s.keep) /\ KeptFrom(r, s, {m})
  BY <1>1, <1>5, <1>6, AppendFacts DEF Local, Distinct, KeptFrom
<1>9. RootInvOf(root, files, deads, nextId + 1, [run EXCEPT ![i] = s])
  BY <1>7, <1>8, StateFacts, NewSegmentStep DEF r
<1>10. root' = root /\ files' = files /\ deads' = deads /\ nextId' = nextId + 1
  BY DEF AddShard
<1> QED BY <1>3, <1>9, <1>10 DEF RootInv

LEMMA RootCompact ==
    ASSUME TypeOK, RootInv, NEW i \in Indexers, Compact(i)
    PROVE  RootInv'
<1> DEFINE r == run[i]
<1>1. r \in Run /\ Local(r, nextId) /\ nextId \in Nat
  BY StateFacts
<1>2. PICK v \in Victims(r.keep) :
          LET new == NewSegment(MergedTable(Neighbours(r.keep, v))) IN
          run' = [run EXCEPT ![i] =
               [r EXCEPT !.keep = SubSeq(@, 1, v - 1) \o <<new>> \o SubSeq(@, v + 2, Len(@)),
                         !.pending = {new.id}, !.drawn = @ \cup {new.id}, !.dirty = TRUE,
                         !.pc = "swap"]]
  BY DEF Compact
<1> DEFINE m == NewSegment(MergedTable(Neighbours(r.keep, v)))
           keep == SubSeq(r.keep, 1, v - 1) \o <<m>> \o SubSeq(r.keep, v + 2, Len(r.keep))
           s == [r EXCEPT !.keep = keep, !.pending = {m.id}, !.drawn = @ \cup {m.id},
                          !.dirty = TRUE, !.pc = "swap"]
<1>3. r.pc = "update" /\ r.pending = {} /\ run' = [run EXCEPT ![i] = s]
  BY <1>2 DEF Compact, ReadyToCompact
<1>4. m.id = nextId /\ m.dead = {}
  BY DEF NewSegment
<1>5. /\ s.pc = "swap" /\ s.base = r.base /\ s.inventory = r.inventory /\ s.garbage = r.garbage
      /\ s.work = r.work /\ s.keep = keep /\ s.replaced = r.replaced
      /\ s.drawn = r.drawn \cup {m.id} /\ s.pending = {m.id}
      /\ r.work \in Seq(Pair) /\ r.keep \in Seq(SegmentMeta)
  BY <1>1 DEF Run
<1>6. v \in 1..(Len(r.keep) - 1) /\ Neighbours(r.keep, v) \in SUBSET Pair
  BY <1>5, VictimsType
<1>7. m \in SegmentMeta
  BY <1>1, <1>6, MergedType, NewSegmentType
<1> HIDE DEF s, r, m
<1>8. ASSUME m.id \notin Ids(r.keep)
      PROVE  /\ DistinctIds(keep)
             /\ \A h \in DOMAIN keep : keep[h] \in {m} \/ \E g \in DOMAIN r.keep : keep[h] = r.keep[g]
  <2>1. DistinctIds(r.keep)
    BY <1>1 DEF Local, Distinct
  <2>2. r.keep \in Seq(SegmentMeta)
    BY <1>5
  <2>3. keep = Splice(r.keep, v, m)
    BY DEF Splice
  <2> HIDE DEF keep
  <2> QED BY <2>1, <2>2, <2>3, <1>6, <1>7, <1>8, SpliceFacts
<1> HIDE DEF keep
<1>9. m.id \notin Ids(r.keep) => DistinctIds(s.keep) /\ KeptFrom(r, s, {m})
  BY <1>5, <1>8 DEF KeptFrom
<1>10. Draws(r, s, 0, m, nextId)
  <2>1. \A h \in DOMAIN r.work : h \in Nat /\ h + 0 = h
    BY <1>5
  <2>2. WorkLeft(r, s, 0)
    BY <2>1, <1>5 DEF WorkLeft
  <2> QED BY <2>2, <1>3, <1>4, <1>5 DEF Draws
<1>11. RootInvOf(root, files, deads, nextId + 1, [run EXCEPT ![i] = s])
  BY <1>9, <1>10, StateFacts, NewSegmentStep DEF r
<1>12. root' = root /\ files' = files /\ deads' = deads /\ nextId' = nextId + 1
  BY DEF Compact
<1> QED BY <1>3, <1>11, <1>12 DEF RootInv

LEMMA RootSwap ==
    ASSUME TypeOK, RootInv, NEW i \in Indexers, Swap(i)
    PROVE  RootInv'
<1> DEFINE s == [Idle EXCEPT !.pc = "collect", !.garbage = Garbage(run[i])]
<1>1. /\ s.pc = "collect" /\ s.base = Absent /\ s.work = <<>> /\ s.keep = <<>> /\ s.replaced = {}
      /\ s.drawn = {} /\ s.pending = {} /\ s.inventory = NoBlobs /\ s.garbage = Garbage(run[i])
  BY DEF Idle
<1>2. /\ run[i].pc = "swap" /\ run[i].pending = {} /\ run[i].base = root
      /\ root' = Loaded(run[i].keep) /\ run' = [run EXCEPT ![i] = s]
      /\ files' = files /\ deads' = deads /\ nextId' = nextId
  BY DEF Swap, CanSwap
<1> HIDE DEF s
<1>3. RootInvOf(Loaded(run[i].keep), files, deads, nextId, [run EXCEPT ![i] = s])
  BY <1>1, <1>2, StateFacts, Swapped
<1> QED BY <1>2, <1>3 DEF RootInv

\* The files in F and the dead sets in D are gone from the store, and left is
\* what the run still has to delete.
LEMMA RootCollect ==
    ASSUME TypeOK, RootInv, NEW i \in Indexers, NEW left, NEW F, NEW D,
           run[i].pc = "collect", Collect(i, left),
           left.files \subseteq run[i].garbage.files, left.deads \subseteq run[i].garbage.deads,
           F \subseteq run[i].garbage.files, D \subseteq run[i].garbage.deads,
           root' = root, nextId' = nextId, files' = files \ F, deads' = deads \ D
    PROVE  RootInv'
<1> DEFINE r == run[i]
           s == [r EXCEPT !.garbage = left]
<1>1. r \in Run
  BY StateFacts
<1>2. run' = [run EXCEPT ![i] = s]
  BY DEF Collect
<1>3. /\ s.pc = r.pc /\ s.base = r.base /\ s.work = r.work /\ s.keep = r.keep
      /\ s.replaced = r.replaced /\ s.drawn = r.drawn /\ s.pending = r.pending
      /\ s.inventory = r.inventory /\ s.garbage = left
  BY <1>1 DEF Run
<1> HIDE DEF s
<1>4. RootInvOf(root, files \ F, deads \ D, nextId, [run EXCEPT ![i] = s])
  BY <1>3, StateFacts, Deleted
<1> QED BY <1>2, <1>4 DEF RootInv

LEMMA RootDelete ==
    ASSUME TypeOK, RootInv, NEW i \in Indexers, Delete(i)
    PROVE  RootInv'
<1> DEFINE g == run[i].garbage
<1>1. g \in BlobSets
  BY StateFacts DEF Run
<1>2. run[i].pc = "collect" /\ root' = root /\ nextId' = nextId
  BY DEF Delete
<1>3. ASSUME NEW f \in g.files, files' = files \ {f}, deads' = deads,
             Collect(i, [g EXCEPT !.files = @ \ {f}])
      PROVE  RootInv'
  <2> DEFINE left == [g EXCEPT !.files = @ \ {f}]
  <2>1. left.files \subseteq g.files /\ left.deads \subseteq g.deads /\ Collect(i, left)
    BY <1>1, <1>3 DEF BlobSets
  <2>2. {f} \subseteq g.files /\ {} \subseteq g.deads /\ deads' = deads \ {}
    BY <1>3
  <2> HIDE DEF left
  <2> QED BY <2>1, <2>2, <1>2, <1>3, RootCollect
<1>4. ASSUME NEW d \in g.deads, deads' = deads \ {d}, files' = files,
             Collect(i, [g EXCEPT !.deads = @ \ {d}])
      PROVE  RootInv'
  <2> DEFINE left == [g EXCEPT !.deads = @ \ {d}]
  <2>1. left.files \subseteq g.files /\ left.deads \subseteq g.deads /\ Collect(i, left)
    BY <1>1, <1>4 DEF BlobSets
  <2>2. {d} \subseteq g.deads /\ {} \subseteq g.files /\ files' = files \ {}
    BY <1>4
  <2> HIDE DEF left
  <2> QED BY <2>1, <2>2, <1>2, <1>4, RootCollect
<1>5. ASSUME NEW p \in g.packs, files' = files, deads' = deads,
             Collect(i, [g EXCEPT !.packs = @ \ {p}])
      PROVE  RootInv'
  <2> DEFINE left == [g EXCEPT !.packs = @ \ {p}]
  <2>1. left.files \subseteq g.files /\ left.deads \subseteq g.deads /\ Collect(i, left)
    BY <1>1, <1>5 DEF BlobSets
  <2>2. {} \subseteq g.deads /\ {} \subseteq g.files /\ files' = files \ {} /\ deads' = deads \ {}
    BY <1>5
  <2> HIDE DEF left
  <2> QED BY <2>1, <2>2, <1>2, RootCollect
<1> QED BY <1>3, <1>4, <1>5 DEF Delete

LEMMA RootFailDelete ==
    ASSUME TypeOK, RootInv, NEW i \in Indexers, FailDelete(i)
    PROVE  RootInv'
<1> DEFINE g == run[i].garbage
<1>1. g \in BlobSets
  BY StateFacts DEF Run
<1>2. /\ run[i].pc = "collect" /\ root' = root /\ nextId' = nextId
      /\ files' = files \ {} /\ deads' = deads \ {} /\ {} \subseteq g.files /\ {} \subseteq g.deads
  BY DEF FailDelete, store
<1>3. PICK left : /\ Collect(i, left)
                  /\ left.files \subseteq g.files /\ left.deads \subseteq g.deads
  <2>1. ASSUME NEW f \in g.files, Collect(i, [g EXCEPT !.files = @ \ {f}])
        PROVE  \E left : Collect(i, left) /\ left.files \subseteq g.files /\ left.deads \subseteq g.deads
    <3> WITNESS [g EXCEPT !.files = @ \ {f}]
    <3> QED BY <2>1, <1>1 DEF BlobSets
  <2>2. ASSUME NEW d \in g.deads, Collect(i, [g EXCEPT !.deads = @ \ {d}])
        PROVE  \E left : Collect(i, left) /\ left.files \subseteq g.files /\ left.deads \subseteq g.deads
    <3> WITNESS [g EXCEPT !.deads = @ \ {d}]
    <3> QED BY <2>2, <1>1 DEF BlobSets
  <2>3. ASSUME NEW p \in g.packs, Collect(i, [g EXCEPT !.packs = @ \ {p}])
        PROVE  \E left : Collect(i, left) /\ left.files \subseteq g.files /\ left.deads \subseteq g.deads
    <3> WITNESS [g EXCEPT !.packs = @ \ {p}]
    <3> QED BY <2>3, <1>1 DEF BlobSets
  <2> QED BY <2>1, <2>2, <2>3 DEF FailDelete
<1> QED BY <1>2, <1>3, RootCollect

-----------------------------------------------------------------------------
(***************************************************************************)
(* The theorems.                                                           *)
(***************************************************************************)

LEMMA RootInit == Init => RootInv
<1> SUFFICES ASSUME Init PROVE RootInv
  OBVIOUS
<1>1. /\ root.segments = <<>> /\ root.state # "loaded" /\ deads = {} /\ files \subseteq {0}
      /\ nextId = 1 /\ run = [i \in Indexers |-> Idle]
  BY DEF Init, Absent, Unreadable
<1>2. Sound(root, files, deads, nextId)
  BY <1>1 DEF Sound, DistinctIds
<1>3. /\ Idle.pc = "idle" /\ Idle.base.segments = <<>> /\ Idle.base = Absent
      /\ Idle.base.state = "absent" /\ Idle.keep = <<>> /\ Idle.work = <<>>
      /\ Idle.replaced = {} /\ Idle.drawn = {} /\ Idle.pending = {}
      /\ Idle.inventory = NoBlobs /\ Idle.garbage = NoBlobs
  BY DEF Idle, Absent
<1>4. Ids(Idle.base.segments) = {} /\ Known(NoBlobs) = {}
  BY <1>3 DEF Ids, Known, NoBlobs
<1>5. Local(Idle, nextId)
  <2>1. Quiet(Idle)
    BY <1>3 DEF Quiet
  <2>2. Distinct(Idle)
    BY <1>3 DEF Distinct, DistinctIds
  <2>3. Origins(Idle)
    BY <1>3 DEF Origins
  <2>4. Drawn(Idle, nextId)
    BY <1>3, <1>4 DEF Drawn
  <2> QED BY <2>1, <2>2, <2>3, <2>4 DEF Local
<1>6. Grounded(Idle, root, files, deads)
  BY <1>3 DEF Grounded, CurrentOrSuperseded, Stored
<1>7. OutOfRoot(Idle.garbage, root)
  BY <1>3 DEF OutOfRoot, NoBlobs
<1>8. Apart(Idle, Idle) /\ OutOfReach(Idle.garbage, Idle, root)
  BY <1>3 DEF Apart, OutOfReach
<1>9. \A i \in Indexers : run[i] = Idle
  BY <1>1
<1> QED BY <1>2, <1>5, <1>6, <1>7, <1>8, <1>9 DEF RootInv, RootInvOf

LEMMA RootStep ==
    ASSUME TypeOK, RootInv, [Next]_vars
    PROVE  RootInv'
<1>1. ASSUME UNCHANGED vars PROVE RootInv'
  BY <1>1 DEF RootInv, vars, store
<1>2. ASSUME NEW k \in Keys, NEW b \in Bodies \cup {None}, Mutate(k, b) PROVE RootInv'
  BY <1>2 DEF RootInv, Mutate, store
<1>3. ASSUME NEW i \in Indexers, List(i) PROVE RootInv'
  BY <1>3, RootList
<1>4. ASSUME NEW i \in Indexers, FailDelete(i) PROVE RootInv'
  BY <1>4, RootFailDelete
<1>5. ASSUME NEW i \in Indexers, Abort(i) \/ FailFetch(i) \/ FailMerge(i) \/ LoseRace(i) \/ Finish(i)
      PROVE  RootInv'
  <2>1. /\ run' = [run EXCEPT ![i] = Idle]
        /\ root' = root /\ files' = files /\ deads' = deads /\ nextId' = nextId
    BY <1>5 DEF Abort, FailFetch, FailMerge, LoseRace, Finish, store
  <2> QED BY <2>1, RootEnd
<1>6. ASSUME NEW i \in Indexers, Step(i) PROVE RootInv'
  BY <1>5, <1>6, RootLoadRoot, RootPlan, RootDrop, RootKeep, RootRepack, RootAddShard,
     RootPutFiles, RootCompact, RootSkipCompact, RootSwap, RootDelete DEF Step
<1> QED BY <1>1, <1>2, <1>3, <1>4, <1>5, <1>6 DEF Next

\* The invariant behind the two theorems below holds of every reachable state,
\* whatever runs of update_index overlap, fail, lose the race or die.
THEOREM RootInvariant == Spec => []RootInv
<1>1. Init => RootInv
  BY RootInit
<1>2. TypeOK /\ RootInv /\ [Next]_vars => RootInv'
  BY RootStep
<1> QED BY <1>1, <1>2, TypeCorrect, PTL DEF Spec

\* Every segment file and every dead set that segments.bin names is in the
\* store: no run's collect_garbage, nor the sweep of an unreadable index, takes a
\* blob the root or the next winner of the conditional put refers to.
THEOREM RootNeverDangles == Spec => []RootComplete
<1>1. RootInv => RootComplete
  <2> SUFFICES ASSUME RootInv PROVE RootComplete
    OBVIOUS
  <2> DEFINE named == Blobs(ToSet(root.segments))
  <2>1. \A m \in ToSet(root.segments) : /\ m.id \in files
                                        /\ m.dead # {} => <<m.id, m.dead>> \in deads
    BY DEF RootInv, RootInvOf, Sound, ToSet
  <2>2. named.files = {m.id : m \in ToSet(root.segments)}
    BY DEF Blobs
  <2>3. named.deads = {<<m.id, m.dead>> : m \in {s \in ToSet(root.segments) : s.dead # {}}}
    BY DEF Blobs
  <2>4. named.files \subseteq files
    BY <2>1, <2>2
  <2>5. named.deads \subseteq deads
    BY <2>1, <2>3
  <2> QED BY <2>4, <2>5 DEF RootComplete
<1> QED BY <1>1, RootInvariant, PTL

\* A swap publishes a segment that was already in the root with the same table
\* and at least the same dead sources.
LEMMA SwapKeepsDead ==
    ASSUME TypeOK, RootInv, [Next]_vars
    PROVE  \A m \in ToSet(root.segments), n \in ToSet(root'.segments) :
               m.id = n.id => m.table = n.table /\ m.dead \subseteq n.dead
<1> SUFFICES ASSUME NEW m \in ToSet(root.segments), NEW n \in ToSet(root'.segments), m.id = n.id
             PROVE  m.table = n.table /\ m.dead \subseteq n.dead
  OBVIOUS
<1> DEFINE old == root.segments
<1>1. PICK g \in DOMAIN old : m = old[g]
  BY DEF ToSet
<1>2. DistinctIds(old)
  BY DEF RootInv, RootInvOf, Sound
<1>3. CASE root' = root
  <2>1. PICK h \in DOMAIN old : n = old[h]
    BY <1>3 DEF ToSet
  <2> QED BY <2>1, <1>1, <1>2 DEF DistinctIds
<1>4. ASSUME NEW i \in Indexers, Swap(i) PROVE m.table = n.table /\ m.dead \subseteq n.dead
  <2> DEFINE r == run[i]
  <2>1. r.base = root /\ root'.segments = r.keep
    BY <1>4 DEF Swap, CanSwap, Loaded
  <2>2. Local(r, nextId)
    BY StateFacts
  <2> HIDE DEF r
  <2>3. PICK h \in DOMAIN r.keep : n = r.keep[h]
    BY <2>1 DEF ToSet
  <2>4. n.id \notin r.drawn
    BY <1>1, <2>1, <2>2 DEF Local, Drawn, Ids
  <2>5. PICK b \in DOMAIN old : Succeeds(n, old[b])
    BY <2>1, <2>2, <2>3, <2>4 DEF Local, Origins
  <2>6. b = g
    BY <2>5, <1>1, <1>2 DEF DistinctIds, Succeeds
  <2> QED BY <2>5, <2>6, <1>1 DEF Succeeds
<1>5. root' = root \/ \E i \in Indexers : Swap(i)
  BY DEF Next, Step, vars, store, Mutate, List, LoadRoot, Plan, Drop, Keep, Repack, AddShard,
     FailFetch, PutFiles, Compact, FailMerge, SkipCompact, LoseRace, Delete, FailDelete, Finish, Abort
<1> QED BY <1>3, <1>4, <1>5

\* A source declared dead in a segment stays dead in it for as long as the root
\* names the segment, and its table never changes, though runs that loaded an
\* older root may still swap.
THEOREM DeadSourcesStayDead == Spec => DeadStaysDead
<1>1. TypeOK /\ RootInv /\ [Next]_vars =>
          [\A m \in ToSet(root.segments), n \in ToSet(root'.segments) :
              m.id = n.id => m.table = n.table /\ m.dead \subseteq n.dead]_vars
  BY SwapKeepsDead
<1> QED BY <1>1, TypeCorrect, RootInvariant, PTL DEF Spec, DeadStaysDead
=============================================================================
