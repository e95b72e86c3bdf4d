----------------------- MODULE SegmentedIndexPackProofs -----------------------
(***************************************************************************)
(* Proofs for a bucket that is indexed by one process at a time: the packs *)
(* the root names are in the store, and runs that are not interrupted leave*)
(* nothing else behind.                                                    *)
(*                                                                         *)
(* Packs are named by their content, so two runs may name the same one,    *)
(* and a run deletes packs it no longer needs without asking who else does.*)
(* With overlapping runs the first result is false.  With one, the root    *)
(* cannot move while a run works, and whatever is in the store is named by *)
(* the root, or in the lists the run collects its garbage from.            *)
(***************************************************************************)
EXTENDS SegmentedIndexRootProofs

\* All blobs of the store are named by the segments S or on the list g.
Accounted(fs, ds, ps, S, g) ==
    /\ fs \subseteq Blobs(S).files \cup g.files
    /\ ds \subseteq Blobs(S).deads \cup g.deads
    /\ ps \subseteq Blobs(S).packs \cup g.packs

\* The packs of the root and of a run's next root are there and not to be deleted.
PacksKept(rt, ps, r) ==
    /\ Blobs(ToSet(rt.segments)).packs \subseteq ps
    /\ Blobs(ToSet(r.keep)).packs \subseteq ps
    /\ r.pc \in {"rooted", "update", "swap"} => r.base = rt
    /\ r.garbage.packs \cap Blobs(ToSet(rt.segments)).packs = {}

\* A run that is not dirty has written nothing and will not.
Clean(rt, fs, ds, ps, r) ==
    /\ Accounted(fs, ds, ps, ToSet(rt.segments), NoBlobs)
    /\ r.toAdd = {} /\ r.pending = {}
    /\ \A h \in DOMAIN r.work : r.work[h].dead = r.work[h].meta.dead

\* Where the blobs of the store are named, phase by phase of the run.  Beside an
\* unreadable root there are no packs, and the inventory will name the rest.
NothingSpilled(rt, fs, ds, ps, r) ==
    /\ r.pc \in {"idle", "listed", "rooted"} =>
          IF rt.state = "unreadable" THEN ps = {}
          ELSE Accounted(fs, ds, ps, ToSet(rt.segments), NoBlobs)
    /\ r.pc \in {"update", "swap"} =>
          /\ Accounted(fs, ds, ps, r.replaced \cup ToSet(r.keep), r.inventory)
          /\ r.inventory.packs = {} /\ r.pending \subseteq Ids(r.keep)
          /\ ToSet(r.base.segments) \subseteq r.replaced
          /\ r.pc = "update" => ToSet(r.keep) \subseteq r.replaced
          /\ ~r.dirty => rt.state = "loaded" /\ Clean(rt, fs, ds, ps, r)
    /\ r.pc = "collect" =>
          rt.state = "loaded" /\ Accounted(fs, ds, ps, ToSet(rt.segments), r.garbage)

OneRunInvOf(rt, fs, ds, ps, sp, r) ==
    /\ PacksKept(rt, ps, r)
    /\ ~sp => NothingSpilled(rt, fs, ds, ps, r)

\* The inductive invariant behind PacksPresent and NothingLeftBehind.
OneRunInv == \A i \in Indexers : OneRunInvOf(root, files, deads, packs, spilled, run[i])

\* One process at a time runs `seagrep index` on the bucket.
OneIndexer == \E i : Indexers = {i}

-----------------------------------------------------------------------------
(***************************************************************************)
(* The blobs that segments name.                                           *)
(***************************************************************************)

LEMMA BlobsUnion ==
    ASSUME NEW S, NEW T
    PROVE  /\ Blobs(S \cup T).files = Blobs(S).files \cup Blobs(T).files
           /\ Blobs(S \cup T).deads = Blobs(S).deads \cup Blobs(T).deads
           /\ Blobs(S \cup T).packs = Blobs(S).packs \cup Blobs(T).packs
BY DEF Blobs

LEMMA BlobsOne ==
    ASSUME NEW m
    PROVE  /\ Blobs({m}).files = {m.id}
           /\ m.dead # {} => Blobs({m}).deads = {<<m.id, m.dead>>}
           /\ Blobs({m}).packs = PackIds(m.table)
BY DEF Blobs

LEMMA BlobsNone == Blobs({}).files = {} /\ Blobs({}).deads = {} /\ Blobs({}).packs = {}
BY DEF Blobs

\* More segments name more blobs.
LEMMA BlobsMore ==
    ASSUME NEW S, NEW T, S \subseteq T
    PROVE  /\ Blobs(S).files \subseteq Blobs(T).files
           /\ Blobs(S).deads \subseteq Blobs(T).deads
           /\ Blobs(S).packs \subseteq Blobs(T).packs
<1>1. T = S \cup T
  OBVIOUS
<1> QED BY <1>1, BlobsUnion

LEMMA AccountedMore ==
    ASSUME NEW fs, NEW ds, NEW ps, NEW S, NEW T, NEW g, S \subseteq T, Accounted(fs, ds, ps, S, g)
    PROVE  Accounted(fs, ds, ps, T, g)
BY BlobsMore DEF Accounted

LEMMA ListFiles ==
    ASSUME NEW list
    PROVE  Blobs(ToSet(list)).files = Ids(list)
BY DEF Blobs, ToSet, Ids

LEMMA AppendSet ==
    ASSUME NEW S, NEW list \in Seq(S), NEW m \in S
    PROVE  ToSet(Append(list, m)) = ToSet(list) \cup {m} /\ m.id \in Ids(Append(list, m))
<1> DEFINE new == Append(list, m)
<1>1. /\ DOMAIN new = 1..(Len(list) + 1) /\ DOMAIN list = 1..Len(list) /\ Len(list) \in Nat
      /\ new[Len(list) + 1] = m /\ \A h \in DOMAIN list : new[h] = list[h]
  OBVIOUS
<1> HIDE DEF new
<1>2. \A h \in DOMAIN new : h = Len(list) + 1 \/ (h \in DOMAIN list /\ new[h] = list[h])
  BY <1>1
<1>3. ToSet(new) \subseteq ToSet(list) \cup {m}
  BY <1>1, <1>2 DEF ToSet
<1>4. ToSet(list) \cup {m} \subseteq ToSet(new)
  <2>1. DOMAIN list \subseteq DOMAIN new /\ Len(list) + 1 \in DOMAIN new
    BY <1>1
  <2> QED BY <1>1, <2>1 DEF ToSet
<1>5. m.id \in Ids(new)
  <2>1. Len(list) + 1 \in DOMAIN new
    BY <1>1
  <2> QED BY <1>1, <2>1 DEF Ids
<1> QED BY <1>3, <1>4, <1>5 DEF new

LEMMA SpliceSet ==
    ASSUME NEW S, NEW list \in Seq(S), NEW v \in 1..(Len(list) - 1), NEW m \in S
    PROVE  /\ ToSet(Splice(list, v, m)) \subseteq ToSet(list) \cup {m}
           /\ m \in ToSet(Splice(list, v, m)) /\ m.id \in Ids(Splice(list, v, m))
<1> DEFINE new == Splice(list, v, m)
<1>1. /\ DOMAIN new = 1..(Len(list) - 1)
      /\ \A h \in DOMAIN new : \/ h < v /\ h \in DOMAIN list /\ new[h] = list[h]
                               \/ h = v /\ new[h] = m
                               \/ h > v /\ h + 1 \in DOMAIN list /\ new[h] = list[h + 1]
  BY SpliceIndex
<1>2. v \in DOMAIN new /\ v \in Nat
  BY <1>1
<1> HIDE DEF new
<1>3. new[v] = m
  BY <1>1, <1>2
<1>4. ToSet(new) \subseteq ToSet(list) \cup {m}
  BY <1>1 DEF ToSet
<1>5. m \in ToSet(new) /\ m.id \in Ids(new)
  BY <1>2, <1>3 DEF ToSet, Ids
<1> QED BY <1>4, <1>5 DEF new

-----------------------------------------------------------------------------
(***************************************************************************)
(* The actions.                                                            *)
(***************************************************************************)

LEMMA PackFacts ==
    ASSUME TypeOK, RootInv, OneRunInv, NEW i \in Indexers
    PROVE  /\ run[i] \in Run /\ Quiet(run[i]) /\ Origins(run[i])
           /\ run[i].work \in Seq(Pair) /\ run[i].keep \in Seq(SegmentMeta)
           /\ run[i].dirty \in BOOLEAN
           /\ OneRunInvOf(root, files, deads, packs, spilled, run[i])
           /\ root.state # "loaded" => root.segments = <<>>
           /\ root \in Root /\ nextId \in Nat /\ spilled \in BOOLEAN
<1>1. run[i] \in Run /\ Quiet(run[i]) /\ Origins(run[i])
  BY StateFacts DEF Local
<1>2. run[i].work \in Seq(Pair) /\ run[i].keep \in Seq(SegmentMeta) /\ run[i].dirty \in BOOLEAN
  BY <1>1 DEF Run
<1> QED BY <1>1, <1>2, StateFacts DEF OneRunInv, Sound, TypeOK

\* The one run has moved on to s.
LEMMA OneMoves ==
    ASSUME TypeOK, OneIndexer, NEW i \in Indexers, NEW s, run' = [run EXCEPT ![i] = s],
           OneRunInvOf(root', files', deads', packs', spilled', s)
    PROVE  OneRunInv'
<1>1. \A j \in Indexers : run'[j] = s
  BY DEF OneIndexer, TypeOK
<1> QED BY <1>1 DEF OneRunInv

\* A run that fails or ends early leaves the packs as they are.
LEMMA FailedRun ==
    ASSUME TypeOK, RootInv, OneRunInv, OneIndexer, NEW i \in Indexers,
           run' = [run EXCEPT ![i] = Idle], root' = root, files' = files, deads' = deads,
           packs' = packs,
           spilled' \/ NothingSpilled(root, files, deads, packs, Idle)
    PROVE  OneRunInv'
<1>1. PacksKept(root, packs, run[i])
  BY PackFacts DEF OneRunInvOf
<1>2. /\ Idle.pc = "idle" /\ ToSet(Idle.keep) = {} /\ Idle.garbage.packs = {}
  BY DEF Idle, NoBlobs, ToSet
<1>3. PacksKept(root, packs, Idle)
  BY <1>1, <1>2, BlobsNone DEF PacksKept
<1>4. OneRunInvOf(root', files', deads', packs', spilled', Idle)
  BY <1>3 DEF OneRunInvOf
<1> QED BY <1>4, OneMoves

LEMMA PackList ==
    ASSUME TypeOK, RootInv, OneRunInv, OneIndexer, NEW i \in Indexers, List(i)
    PROVE  OneRunInv'
<1>1. PICK rebuild \in BOOLEAN, purge \in PurgeModes :
          run' = [run EXCEPT ![i] = [Idle EXCEPT !.pc = "listed", !.listing = bucket,
                                                 !.rebuild = rebuild, !.purge = purge]]
  BY DEF List
<1> DEFINE s == [Idle EXCEPT !.pc = "listed", !.listing = bucket,
                             !.rebuild = rebuild, !.purge = purge]
<1>2. s.pc = "listed" /\ s.keep = <<>> /\ s.garbage = NoBlobs
  BY DEF Idle
<1>3. /\ run' = [run EXCEPT ![i] = s] /\ root' = root /\ files' = files /\ deads' = deads
      /\ packs' = packs /\ spilled' = spilled /\ run[i].pc = "idle"
  BY <1>1 DEF List, store
<1> HIDE DEF s
<1>4. OneRunInvOf(root, files, deads, packs, spilled, run[i])
  BY PackFacts
<1>5. ToSet(s.keep) = {} /\ s.garbage.packs = {}
  BY <1>2 DEF ToSet, NoBlobs
<1>6. OneRunInvOf(root, files, deads, packs, spilled, s)
  BY <1>2, <1>3, <1>4, <1>5, BlobsNone DEF OneRunInvOf, PacksKept, NothingSpilled
<1> QED BY <1>3, <1>6, OneMoves

LEMMA PackLoadRoot ==
    ASSUME TypeOK, RootInv, OneRunInv, OneIndexer, NEW i \in Indexers, LoadRoot(i)
    PROVE  OneRunInv'
<1> DEFINE r == run[i]
           s == [r EXCEPT !.pc = "rooted", !.base = root]
<1>1. r \in Run /\ OneRunInvOf(root, files, deads, packs, spilled, r)
  BY PackFacts
<1>2. /\ r.pc = "listed" /\ run' = [run EXCEPT ![i] = s] /\ root' = root /\ files' = files
      /\ deads' = deads /\ packs' = packs /\ spilled' = spilled
  BY DEF LoadRoot, store
<1>3. s.pc = "rooted" /\ s.base = root /\ s.keep = r.keep /\ s.garbage = r.garbage
  BY <1>1 DEF Run
<1> HIDE DEF s, r
<1>4. OneRunInvOf(root, files, deads, packs, spilled, s)
  BY <1>1, <1>2, <1>3 DEF OneRunInvOf, PacksKept, NothingSpilled
<1> QED BY <1>2, <1>4, OneMoves

LEMMA PackPlan ==
    ASSUME TypeOK, RootInv, OneRunInv, OneIndexer, NEW i \in Indexers, Plan(i)
    PROVE  OneRunInv'
<1> DEFINE r == run[i]
           list == Existing(r)
           s == [r EXCEPT
                   !.pc = "update",
                   !.work = Pairs(list, r.listing),
                   !.toAdd = ToAdd(list, r.listing),
                   !.dirty = \/ ToAdd(list, r.listing) # {}
                             \/ \E j \in DOMAIN list : NewlyDead(list, r.listing, j) # {}
                             \/ r.rebuild \/ r.base.state # "loaded",
                   !.replaced = ToSet(r.base.segments),
                   !.inventory = IF r.base.state = "unreadable"
                                 THEN [NoBlobs EXCEPT !.files = files, !.deads = deads]
                                 ELSE NoBlobs]
<1>1. /\ r \in Run /\ Quiet(r) /\ OneRunInvOf(root, files, deads, packs, spilled, r)
      /\ root.state # "loaded" => root.segments = <<>>
  BY PackFacts
<1>2. /\ r.pc = "rooted" /\ root' = root /\ files' = files /\ deads' = deads /\ packs' = packs
      /\ spilled' = spilled
  BY DEF Plan, store
<1>3. r.base = root /\ r.keep = <<>> /\ r.pending = {} /\ r.garbage = NoBlobs
  BY <1>1, <1>2 DEF OneRunInvOf, PacksKept, Quiet
<1>4. ~spilled => IF root.state = "unreadable" THEN packs = {}
                  ELSE Accounted(files, deads, packs, ToSet(root.segments), NoBlobs)
  BY <1>1, <1>2 DEF OneRunInvOf, NothingSpilled
<1>5. CASE UpToDate(r)
  <2>1. run' = [run EXCEPT ![i] = Idle]
    BY <1>5 DEF Plan
  <2>2. ~spilled => NothingSpilled(root, files, deads, packs, Idle)
    BY <1>4 DEF NothingSpilled, Idle
  <2> QED BY <2>1, <2>2, <1>2, PackFacts, FailedRun
<1>6. CASE ~UpToDate(r)
  <2>1. run' = [run EXCEPT ![i] = s]
    BY <1>6 DEF Plan
  <2>2. /\ s.pc = "update" /\ s.base = r.base /\ s.keep = r.keep /\ s.pending = r.pending
        /\ s.garbage = r.garbage /\ s.replaced = ToSet(r.base.segments)
        /\ s.work = Pairs(list, r.listing) /\ s.toAdd = ToAdd(list, r.listing)
        /\ s.inventory = IF r.base.state = "unreadable"
                         THEN [NoBlobs EXCEPT !.files = files, !.deads = deads] ELSE NoBlobs
        /\ s.dirty = (\/ ToAdd(list, r.listing) # {}
                      \/ \E j \in DOMAIN list : NewlyDead(list, r.listing, j) # {}
                      \/ r.rebuild \/ r.base.state # "loaded")
    BY <1>1 DEF Run
  <2> HIDE DEF s, r, list
  <2>3. ToSet(s.keep) = {} /\ s.pending = {} /\ s.garbage.packs = {} /\ s.base = root
    BY <1>3, <2>2 DEF ToSet, NoBlobs
  <2>4. PacksKept(root, packs, s)
    BY <1>1, <2>2, <2>3, BlobsNone DEF OneRunInvOf, PacksKept
  <2>5. s.inventory.packs = {}
    BY <2>2 DEF NoBlobs
  <2>6. ASSUME ~spilled PROVE NothingSpilled(root, files, deads, packs, s)
    <3>1. Accounted(files, deads, packs, s.replaced \cup ToSet(s.keep), s.inventory)
      <4>1. CASE root.state = "unreadable"
        <5>1. s.inventory.files = files /\ s.inventory.deads = deads /\ packs = {}
          BY <4>1, <1>3, <1>4, <2>2, <2>6 DEF NoBlobs
        <5> QED BY <5>1 DEF Accounted
      <4>2. CASE root.state # "unreadable"
        <5>1. s.inventory = NoBlobs /\ s.replaced \cup ToSet(s.keep) = ToSet(root.segments)
          BY <4>2, <1>3, <2>2, <2>3
        <5> QED BY <5>1, <4>2, <1>4, <2>6
      <4> QED BY <4>1, <4>2
    <3>2. ASSUME ~s.dirty PROVE root.state = "loaded" /\ Clean(root, files, deads, packs, s)
      <4>1. /\ root.state = "loaded" /\ ToAdd(list, r.listing) = {}
            /\ \A j \in DOMAIN list : NewlyDead(list, r.listing, j) = {}
        BY <3>2, <1>3, <2>2
      <4>2. \A h \in DOMAIN s.work : s.work[h].dead = s.work[h].meta.dead
        <5>1. \A h \in DOMAIN s.work : /\ h \in DOMAIN list /\ s.work[h].meta = list[h]
                                       /\ s.work[h].dead = list[h].dead \cup NewlyDead(list, r.listing, h)
          BY <2>2 DEF Pairs
        <5> QED BY <5>1, <4>1
      <4>3. Accounted(files, deads, packs, ToSet(root.segments), NoBlobs)
        BY <4>1, <1>4, <2>6
      <4> QED BY <4>1, <4>2, <4>3, <2>2, <2>3 DEF Clean
    <3> QED BY <3>1, <3>2, <1>3, <2>2, <2>3, <2>5 DEF NothingSpilled
  <2>7. OneRunInvOf(root, files, deads, packs, spilled, s)
    BY <2>4, <2>6 DEF OneRunInvOf
  <2> QED BY <2>1, <2>7, <1>2, OneMoves
<1> QED BY <1>5, <1>6

LEMMA PackDrop ==
    ASSUME TypeOK, RootInv, OneRunInv, OneIndexer, NEW i \in Indexers, Drop(i)
    PROVE  OneRunInv'
<1> DEFINE r == run[i]
           s == [r EXCEPT !.work = Tail(@)]
<1>1. /\ r \in Run /\ r.work \in Seq(Pair) /\ OneRunInvOf(root, files, deads, packs, spilled, r)
  BY PackFacts
<1>2. /\ r.pc = "update" /\ r.work # <<>> /\ run' = [run EXCEPT ![i] = s] /\ root' = root
      /\ files' = files /\ deads' = deads /\ packs' = packs /\ spilled' = spilled
  BY DEF Drop, Retiring, store
<1>3. /\ s.pc = r.pc /\ s.base = r.base /\ s.work = Tail(r.work) /\ s.keep = r.keep
      /\ s.toAdd = r.toAdd /\ s.dirty = r.dirty /\ s.pending = r.pending /\ s.replaced = r.replaced
      /\ s.inventory = r.inventory /\ s.garbage = r.garbage
  BY <1>1 DEF Run
<1> HIDE DEF s, r
<1>4. Clean(root, files, deads, packs, r) => Clean(root, files, deads, packs, s)
  <2>1. \A h \in DOMAIN s.work : h + 1 \in DOMAIN r.work /\ s.work[h] = r.work[h + 1]
    BY <1>1, <1>2, <1>3, TailFacts
  <2> QED BY <2>1, <1>3 DEF Clean
<1>5. OneRunInvOf(root, files, deads, packs, spilled, s)
  BY <1>1, <1>2, <1>3, <1>4 DEF OneRunInvOf, PacksKept, NothingSpilled
<1> QED BY <1>2, <1>5, OneMoves

LEMMA PackKeep ==
    ASSUME TypeOK, RootInv, OneRunInv, OneIndexer, NEW i \in Indexers, Keep(i)
    PROVE  OneRunInv'
<1> DEFINE r == run[i]
           p == NextPair(r)
           m == [p.meta EXCEPT !.dead = p.dead]
           q == IF p.dead # p.meta.dead THEN r.replaced \cup {m} ELSE r.replaced
           d == IF p.dead # p.meta.dead THEN deads \cup {<<m.id, m.dead>>} ELSE deads
           s == [r EXCEPT !.work = Tail(@), !.keep = Append(@, m), !.replaced = q]
<1>1. /\ r \in Run /\ Origins(r) /\ r.work \in Seq(Pair) /\ r.keep \in Seq(SegmentMeta)
      /\ OneRunInvOf(root, files, deads, packs, spilled, r)
  BY PackFacts
<1>2. /\ r.pc = "update" /\ r.work # <<>> /\ r.pending = {} /\ run' = [run EXCEPT ![i] = s]
      /\ root' = root /\ files' = files /\ deads' = d /\ packs' = packs /\ spilled' = spilled
  BY DEF Keep, Retiring
<1>3. /\ s.pc = r.pc /\ s.base = r.base /\ s.work = Tail(r.work) /\ s.keep = Append(r.keep, m)
      /\ s.toAdd = r.toAdd /\ s.dirty = r.dirty /\ s.pending = r.pending /\ s.replaced = q
      /\ s.inventory = r.inventory /\ s.garbage = r.garbage
  BY <1>1 DEF Run
<1>4. p = Head(r.work) /\ p \in Pair /\ 1 \in DOMAIN r.work /\ p = r.work[1]
  BY <1>1, <1>2, TailFacts DEF NextPair
<1> HIDE DEF s, r, p
<1>5. /\ m \in SegmentMeta /\ m.table = p.meta.table /\ m.dead = p.dead /\ m.id = p.meta.id
      /\ p.meta \in SegmentMeta
  BY <1>4 DEF Pair, SegmentMeta
<1>6. p.dead = p.meta.dead => m = p.meta
  <2>1. \A a, b \in SegmentMeta : a.id = b.id /\ a.table = b.table /\ a.dead = b.dead => a = b
    BY DEF SegmentMeta
  <2> HIDE DEF m
  <2> QED BY <2>1, <1>5
<1>7. p.meta \in ToSet(r.base.segments) /\ p.meta.dead \subseteq p.dead
  BY <1>1, <1>4 DEF Origins, ToSet
<1> HIDE DEF m
<1>8. ToSet(s.keep) = ToSet(r.keep) \cup {m}
  BY <1>1, <1>3, <1>5, AppendSet
<1>9. PacksKept(root, packs, s)
  <2>1. r.base = root
    BY <1>1, <1>2 DEF OneRunInvOf, PacksKept
  <2>2. PackIds(m.table) \subseteq packs
    <3>1. {p.meta} \subseteq ToSet(root.segments)
      BY <1>7, <2>1
    <3>2. Blobs({p.meta}).packs = PackIds(p.meta.table)
      BY BlobsOne
    <3> QED BY <3>1, <3>2, <1>1, <1>5, BlobsMore DEF OneRunInvOf, PacksKept
  <2>3. Blobs(ToSet(s.keep)).packs \subseteq packs
    <3>1. /\ Blobs(ToSet(s.keep)).packs = Blobs(ToSet(r.keep)).packs \cup Blobs({m}).packs
          /\ Blobs({m}).packs = PackIds(m.table)
      BY <1>8, BlobsUnion, BlobsOne
    <3> QED BY <3>1, <2>2, <1>1 DEF OneRunInvOf, PacksKept
  <2> QED BY <2>3, <1>1, <1>3 DEF OneRunInvOf, PacksKept
<1>10. ASSUME ~spilled PROVE NothingSpilled(root, files, d, packs, s)
  <2>1. /\ Accounted(files, deads, packs, r.replaced \cup ToSet(r.keep), r.inventory)
        /\ r.inventory.packs = {} /\ ToSet(r.base.segments) \subseteq r.replaced
        /\ ToSet(r.keep) \subseteq r.replaced
        /\ ~r.dirty => root.state = "loaded" /\ Clean(root, files, deads, packs, r)
    BY <1>1, <1>2, <1>10 DEF OneRunInvOf, NothingSpilled
  <2>2. r.replaced \subseteq s.replaced /\ m \in s.replaced
    BY <1>3, <1>6, <1>7, <2>1
  <2>3. Accounted(files, d, packs, s.replaced \cup ToSet(s.keep), s.inventory)
    <3>1. r.replaced \cup ToSet(r.keep) \subseteq s.replaced \cup ToSet(s.keep)
      BY <2>2, <1>8
    <3>2. Accounted(files, deads, packs, s.replaced \cup ToSet(s.keep), s.inventory)
      BY <3>1, <2>1, <1>3, AccountedMore
    <3>3. d # deads => <<m.id, m.dead>> \in Blobs(s.replaced \cup ToSet(s.keep)).deads
      <4>1. SUFFICES ASSUME p.dead # p.meta.dead
                     PROVE  <<m.id, m.dead>> \in Blobs(s.replaced \cup ToSet(s.keep)).deads
        OBVIOUS
      <4>2. m.dead # {}
        BY <4>1, <1>5, <1>7
      <4>3. {m} \subseteq s.replaced \cup ToSet(s.keep)
        BY <2>2
      <4>4. Blobs({m}).deads \subseteq Blobs(s.replaced \cup ToSet(s.keep)).deads
        BY <4>3, BlobsMore
      <4>5. Blobs({m}).deads = {<<m.id, m.dead>>}
        BY <4>2, BlobsOne
      <4> QED BY <4>4, <4>5
    <3> QED BY <3>2, <3>3 DEF Accounted
  <2>4. ASSUME ~s.dirty PROVE root.state = "loaded" /\ Clean(root, files, d, packs, s)
    <3>1. root.state = "loaded" /\ Clean(root, files, deads, packs, r)
      BY <2>1, <2>4, <1>3
    <3>2. d = deads
      BY <3>1, <1>4 DEF Clean
    <3>3. \A h \in DOMAIN s.work : h + 1 \in DOMAIN r.work /\ s.work[h] = r.work[h + 1]
      BY <1>1, <1>2, <1>3, TailFacts
    <3> QED BY <3>1, <3>2, <3>3, <1>3 DEF Clean
  <2>5. ToSet(s.keep) \subseteq s.replaced /\ ToSet(s.base.segments) \subseteq s.replaced
    BY <2>1, <2>2, <1>3, <1>8
  <2> QED BY <2>1, <2>3, <2>4, <2>5, <1>2, <1>3 DEF NothingSpilled
<1>11. OneRunInvOf(root, files, d, packs, spilled, s)
  BY <1>9, <1>10 DEF OneRunInvOf
<1> QED BY <1>2, <1>11, OneMoves

\* The run puts the packs of a new segment m of its next root.
LEMMA SegmentAdded ==
    ASSUME NEW rt, NEW fs, NEW ds, NEW ps, NEW sp, NEW r, NEW s, NEW m,
           OneRunInvOf(rt, fs, ds, ps, sp, r), r.pc = "update", s.pc \in {"update", "swap"},
           s.base = r.base, s.inventory = r.inventory, s.garbage = r.garbage, ~sp => s.dirty,
           ToSet(s.keep) \subseteq ToSet(r.keep) \cup {m}, m \in ToSet(s.keep),
           s.pending = {m.id}, m.id \in Ids(s.keep), r.replaced \subseteq s.replaced,
           s.pc = "update" => m \in s.replaced
    PROVE  OneRunInvOf(rt, fs, ds, ps \cup PackIds(m.table), sp, s)
<1> DEFINE ps2 == ps \cup PackIds(m.table)
<1>1. PacksKept(rt, ps2, s)
  <2>1. Blobs(ToSet(s.keep)).packs \subseteq Blobs(ToSet(r.keep)).packs \cup PackIds(m.table)
    <3>1. /\ Blobs(ToSet(s.keep)).packs \subseteq Blobs(ToSet(r.keep) \cup {m}).packs
          /\ Blobs(ToSet(r.keep) \cup {m}).packs = Blobs(ToSet(r.keep)).packs \cup Blobs({m}).packs
          /\ Blobs({m}).packs = PackIds(m.table)
      BY BlobsMore, BlobsUnion, BlobsOne
    <3> QED BY <3>1
  <2> QED BY <2>1 DEF OneRunInvOf, PacksKept
<1>2. ASSUME ~sp PROVE NothingSpilled(rt, fs, ds, ps2, s)
  <2>1. /\ Accounted(fs, ds, ps, r.replaced \cup ToSet(r.keep), r.inventory)
        /\ r.inventory.packs = {} /\ ToSet(r.base.segments) \subseteq r.replaced
        /\ ToSet(r.keep) \subseteq r.replaced
    BY <1>2 DEF OneRunInvOf, NothingSpilled
  <2>2. Accounted(fs, ds, ps, s.replaced \cup ToSet(s.keep), s.inventory)
    <3>1. r.replaced \cup ToSet(r.keep) \subseteq s.replaced \cup ToSet(s.keep)
      BY <2>1
    <3> QED BY <3>1, <2>1, AccountedMore
  <2>3. PackIds(m.table) \subseteq Blobs(s.replaced \cup ToSet(s.keep)).packs
    <3>1. {m} \subseteq s.replaced \cup ToSet(s.keep) /\ Blobs({m}).packs = PackIds(m.table)
      BY BlobsOne
    <3> QED BY <3>1, BlobsMore
  <2>4. Accounted(fs, ds, ps2, s.replaced \cup ToSet(s.keep), s.inventory)
    BY <2>2, <2>3 DEF Accounted
  <2>5. s.pc = "update" => ToSet(s.keep) \subseteq s.replaced
    BY <2>1
  <2> QED BY <2>1, <2>4, <2>5, <1>2 DEF NothingSpilled
<1> QED BY <1>1, <1>2 DEF OneRunInvOf

LEMMA PackRepack ==
    ASSUME TypeOK, RootInv, OneRunInv, OneIndexer, NEW i \in Indexers, Repack(i)
    PROVE  OneRunInv'
<1> DEFINE r == run[i]
           m == NewSegment(MergedTable({NextPair(r)}))
           s == [r EXCEPT !.work = Tail(@), !.keep = Append(@, m), !.replaced = @ \cup {m},
                          !.pending = {m.id}, !.drawn = @ \cup {m.id}, !.dirty = TRUE]
<1>1. /\ r \in Run /\ r.work \in Seq(Pair) /\ r.keep \in Seq(SegmentMeta) /\ nextId \in Nat
      /\ OneRunInvOf(root, files, deads, packs, spilled, r)
  BY PackFacts
<1>2. /\ r.pc = "update" /\ r.work # <<>> /\ run' = [run EXCEPT ![i] = s] /\ root' = root
      /\ files' = files /\ deads' = deads /\ spilled' = spilled
      /\ packs' = packs \cup PackIds(m.table)
  BY DEF Repack, Retiring
<1>3. /\ s.pc = r.pc /\ s.base = r.base /\ s.keep = Append(r.keep, m) /\ s.dirty = TRUE
      /\ s.pending = {m.id} /\ s.replaced = r.replaced \cup {m}
      /\ s.inventory = r.inventory /\ s.garbage = r.garbage
  BY <1>1 DEF Run
<1>4. m \in SegmentMeta
  <2>1. NextPair(r) \in Pair
    BY <1>1, <1>2 DEF NextPair
  <2>2. MergedTable({NextPair(r)}) \in Table
    BY <2>1, MergedType
  <2> QED BY <2>2, <1>1, NewSegmentType
<1> HIDE DEF s, r, m
<1>5. ToSet(s.keep) = ToSet(r.keep) \cup {m} /\ m.id \in Ids(s.keep)
  BY <1>1, <1>3, <1>4, AppendSet
<1>6. OneRunInvOf(root, files, deads, packs \cup PackIds(m.table), spilled, s)
  <2>1. m \in ToSet(s.keep) /\ m \in s.replaced /\ r.replaced \subseteq s.replaced
    BY <1>3, <1>5
  <2> QED BY <2>1, <1>1, <1>2, <1>3, <1>5, SegmentAdded
<1> QED BY <1>2, <1>6, OneMoves

LEMMA PackAddShard ==
    ASSUME TypeOK, RootInv, OneRunInv, OneIndexer, NEW i \in Indexers, AddShard(i)
    PROVE  OneRunInv'
<1> DEFINE r == run[i]
<1>1. /\ r \in Run /\ r.keep \in Seq(SegmentMeta) /\ nextId \in Nat /\ r.dirty \in BOOLEAN
      /\ OneRunInvOf(root, files, deads, packs, spilled, r)
  BY PackFacts
<1>2. PICK shard \in (SUBSET r.toAdd) \ {{}} :
          LET new == NewSegment([k \in shard |-> Fetched(k, r.listing[k])]) IN
          /\ packs' = packs \cup PackIds(new.table)
          /\ run' = [run EXCEPT ![i] =
                   [r EXCEPT !.toAdd = @ \ shard, !.keep = Append(@, new),
                             !.replaced = @ \cup {new},
                             !.pending = {new.id}, !.drawn = @ \cup {new.id}]]
  BY DEF AddShard
<1> DEFINE t == [k \in shard |-> Fetched(k, r.listing[k])]
           m == NewSegment(t)
           s == [r EXCEPT !.toAdd = @ \ shard, !.keep = Append(@, m), !.replaced = @ \cup {m},
                          !.pending = {m.id}, !.drawn = @ \cup {m.id}]
<1>3. /\ r.pc = "update" /\ run' = [run EXCEPT ![i] = s] /\ root' = root /\ r.toAdd # {}
      /\ files' = files /\ deads' = deads /\ spilled' = spilled
      /\ packs' = packs \cup PackIds(m.table)
  BY <1>2 DEF AddShard
<1>4. /\ s.pc = r.pc /\ s.base = r.base /\ s.keep = Append(r.keep, m) /\ s.dirty = r.dirty
      /\ s.pending = {m.id} /\ s.replaced = r.replaced \cup {m}
      /\ s.inventory = r.inventory /\ s.garbage = r.garbage
      /\ r.toAdd \subseteq Keys /\ r.listing \in [Keys -> Bodies \cup {None}]
  BY <1>1 DEF Run
<1>5. m \in SegmentMeta
  <2>1. \A k \in shard : k \in Keys /\ r.listing[k] \in Bodies
    BY <1>4 DEF TypeOK
  <2>2. t \in [shard -> Entry]
    BY <2>1, FetchedType
  <2>3. t \in Table
    BY <2>1, <2>2 DEF Table
  <2> HIDE DEF t
  <2> QED BY <2>3, <1>1, NewSegmentType
<1> HIDE DEF s, r, m, t
<1>6. ToSet(s.keep) = ToSet(r.keep) \cup {m} /\ m.id \in Ids(s.keep)
  BY <1>1, <1>4, <1>5, AppendSet
<1>7. ~spilled => s.dirty
  BY <1>1, <1>3, <1>4 DEF OneRunInvOf, NothingSpilled, Clean
<1>8. OneRunInvOf(root, files, deads, packs \cup PackIds(m.table), spilled, s)
  <2>1. m \in ToSet(s.keep) /\ m \in s.replaced /\ r.replaced \subseteq s.replaced
    BY <1>4, <1>6
  <2> QED BY <2>1, <1>1, <1>3, <1>4, <1>6, <1>7, SegmentAdded
<1> QED BY <1>3, <1>8, OneMoves

LEMMA PackCompact ==
    ASSUME TypeOK, RootInv, OneRunInv, OneIndexer, NEW i \in Indexers, Compact(i)
    PROVE  OneRunInv'
<1> DEFINE r == run[i]
<1>1. /\ r \in Run /\ r.keep \in Seq(SegmentMeta) /\ nextId \in Nat
      /\ OneRunInvOf(root, files, deads, packs, spilled, r)
  BY PackFacts
<1>2. PICK v \in Victims(r.keep) :
          LET new == NewSegment(MergedTable(Neighbours(r.keep, v))) IN
          /\ packs' = packs \cup PackIds(new.table)
          /\ run' = [run EXCEPT ![i] =
               [r EXCEPT !.keep = SubSeq(@, 1, v - 1) \o <<new>> \o SubSeq(@, v + 2, Len(@)),
                         !.pending = {new.id}, !.drawn = @ \cup {new.id}, !.dirty = TRUE,
                         !.pc = "swap"]]
  BY DEF Compact
<1> DEFINE m == NewSegment(MergedTable(Neighbours(r.keep, v)))
           keep == SubSeq(r.keep, 1, v - 1) \o <<m>> \o SubSeq(r.keep, v + 2, Len(r.keep))
           s == [r EXCEPT !.keep = keep, !.pending = {m.id}, !.drawn = @ \cup {m.id},
                          !.dirty = TRUE, !.pc = "swap"]
<1>3. /\ r.pc = "update" /\ run' = [run EXCEPT ![i] = s] /\ root' = root
      /\ files' = files /\ deads' = deads /\ spilled' = spilled
      /\ packs' = packs \cup PackIds(m.table)
  BY <1>2 DEF Compact, ReadyToCompact
<1>4. /\ s.pc = "swap" /\ s.base = r.base /\ s.keep = keep /\ s.dirty = TRUE
      /\ s.pending = {m.id} /\ s.replaced = r.replaced
      /\ s.inventory = r.inventory /\ s.garbage = r.garbage
  BY <1>1 DEF Run
<1>5. v \in 1..(Len(r.keep) - 1) /\ Neighbours(r.keep, v) \in SUBSET Pair
  BY <1>1, VictimsType
<1>6. m \in SegmentMeta
  BY <1>1, <1>5, MergedType, NewSegmentType
<1>7. keep = Splice(r.keep, v, m)
  BY DEF Splice
<1> HIDE DEF s, r, m, keep
<1>8. ToSet(s.keep) \subseteq ToSet(r.keep) \cup {m} /\ m \in ToSet(s.keep) /\ m.id \in Ids(s.keep)
  BY <1>1, <1>4, <1>5, <1>6, <1>7, SpliceSet
<1>9. OneRunInvOf(root, files, deads, packs \cup PackIds(m.table), spilled, s)
  <2>1. r.replaced \subseteq s.replaced /\ s.pc # "update"
    BY <1>4
  <2> QED BY <2>1, <1>1, <1>3, <1>4, <1>8, SegmentAdded
<1> QED BY <1>3, <1>9, OneMoves

LEMMA PackPutFiles ==
    ASSUME TypeOK, RootInv, OneRunInv, OneIndexer, NEW i \in Indexers, PutFiles(i)
    PROVE  OneRunInv'
<1> DEFINE r == run[i]
           s == [r EXCEPT !.pending = {}]
<1>1. /\ r \in Run /\ Quiet(r) /\ OneRunInvOf(root, files, deads, packs, spilled, r)
  BY PackFacts
<1>2. /\ r.pending # {} /\ run' = [run EXCEPT ![i] = s] /\ root' = root
      /\ files' = files \cup r.pending /\ deads' = deads /\ packs' = packs /\ spilled' = spilled
  BY DEF PutFiles
<1>3. /\ s.pc = r.pc /\ s.base = r.base /\ s.work = r.work /\ s.keep = r.keep
      /\ s.toAdd = r.toAdd /\ s.dirty = r.dirty /\ s.pending = {} /\ s.replaced = r.replaced
      /\ s.inventory = r.inventory /\ s.garbage = r.garbage /\ r.dirty \in BOOLEAN
      /\ r.pc \in {"idle", "listed", "rooted", "update", "swap", "collect"}
  BY <1>1 DEF Run
<1> HIDE DEF s, r
<1>4. r.pc \in {"update", "swap"}
  BY <1>1, <1>2, <1>3 DEF Quiet
<1>5. PacksKept(root, packs, s)
  BY <1>1, <1>3 DEF OneRunInvOf, PacksKept
<1>6. ASSUME ~spilled PROVE NothingSpilled(root, files \cup r.pending, deads, packs, s)
  <2>1. /\ Accounted(files, deads, packs, r.replaced \cup ToSet(r.keep), r.inventory)
        /\ r.pending \subseteq Ids(r.keep) /\ r.dirty
    BY <1>1, <1>2, <1>4, <1>6 DEF OneRunInvOf, NothingSpilled, Clean
  <2>2. Ids(r.keep) \subseteq Blobs(r.replaced \cup ToSet(r.keep)).files
    <3>1. Blobs(r.replaced \cup ToSet(r.keep)).files
            = Blobs(r.replaced).files \cup Blobs(ToSet(r.keep)).files
      BY BlobsUnion
    <3> QED BY <3>1, ListFiles
  <2>3. Accounted(files \cup r.pending, deads, packs, s.replaced \cup ToSet(s.keep), s.inventory)
    BY <2>1, <2>2, <1>3 DEF Accounted
  <2> QED BY <2>1, <2>3, <1>1, <1>3, <1>4, <1>6 DEF OneRunInvOf, NothingSpilled
<1>7. OneRunInvOf(root, files \cup r.pending, deads, packs, spilled, s)
  BY <1>5, <1>6 DEF OneRunInvOf
<1> QED BY <1>2, <1>7, OneMoves

LEMMA PackSkipCompact ==
    ASSUME TypeOK, RootInv, OneRunInv, OneIndexer, NEW i \in Indexers, SkipCompact(i)
    PROVE  OneRunInv'
<1> DEFINE r == run[i]
           s == [r EXCEPT !.pc = "swap"]
<1>1. /\ r \in Run /\ r.dirty \in BOOLEAN /\ OneRunInvOf(root, files, deads, packs, spilled, r)
  BY PackFacts
<1>2. /\ r.pc = "update" /\ r.pending = {}
      /\ run' = [run EXCEPT ![i] = IF r.dirty THEN s ELSE Idle] /\ root' = root
      /\ files' = files /\ deads' = deads /\ packs' = packs /\ spilled' = spilled
  BY DEF SkipCompact, ReadyToCompact, store
<1>3. /\ s.pc = "swap" /\ s.base = r.base /\ s.keep = r.keep /\ s.dirty = r.dirty
      /\ s.pending = r.pending /\ s.replaced = r.replaced
      /\ s.inventory = r.inventory /\ s.garbage = r.garbage
  BY <1>1 DEF Run
<1> HIDE DEF s, r
<1>4. CASE r.dirty
  <2>1. OneRunInvOf(root, files, deads, packs, spilled, s)
    BY <1>1, <1>2, <1>3, <1>4 DEF OneRunInvOf, PacksKept, NothingSpilled
  <2> QED BY <2>1, <1>2, <1>4, OneMoves
<1>5. CASE ~r.dirty
  <2>1. ~spilled => root.state = "loaded" /\ Accounted(files, deads, packs, ToSet(root.segments), NoBlobs)
    BY <1>1, <1>2, <1>5 DEF OneRunInvOf, NothingSpilled, Clean
  <2>2. Idle.pc = "idle"
    BY DEF Idle
  <2>3. ~spilled => NothingSpilled(root, files, deads, packs, Idle)
    BY <2>1, <2>2 DEF NothingSpilled
  <2> QED BY <2>3, <1>2, <1>5, PackFacts, FailedRun
<1> QED BY <1>1, <1>4, <1>5

\* The new root names what the run kept, and the rest is garbage.
LEMMA PackSwap ==
    ASSUME TypeOK, RootInv, OneRunInv, OneIndexer, NEW i \in Indexers, Swap(i)
    PROVE  OneRunInv'
<1> DEFINE r == run[i]
           g == Garbage(r)
           s == [Idle EXCEPT !.pc = "collect", !.garbage = g]
           kept == ToSet(r.keep)
<1>1. OneRunInvOf(root, files, deads, packs, spilled, r)
  BY PackFacts
<1>2. /\ r.pc = "swap" /\ root' = Loaded(r.keep) /\ run' = [run EXCEPT ![i] = s]
      /\ files' = files /\ deads' = deads /\ packs' = packs /\ spilled' = spilled
  BY DEF Swap
<1>3. s.pc = "collect" /\ s.keep = <<>> /\ s.garbage = g
  BY DEF Idle
<1>4. /\ g.files = (Blobs(r.replaced).files \cup r.inventory.files) \ Blobs(kept).files
      /\ g.deads = (Blobs(r.replaced).deads \cup r.inventory.deads) \ Blobs(kept).deads
      /\ g.packs = Blobs(r.replaced).packs \ Blobs(kept).packs
  BY DEF Garbage
<1>5. root'.segments = r.keep /\ root'.state = "loaded"
  BY <1>2 DEF Loaded
<1> HIDE DEF s, r, g
<1>6. ToSet(s.keep) = {}
  BY <1>3 DEF ToSet
<1>7. Blobs(kept).packs \subseteq packs
  BY <1>1 DEF OneRunInvOf, PacksKept
<1>8. PacksKept(root', packs, s)
  BY <1>3, <1>4, <1>5, <1>6, <1>7, BlobsNone DEF PacksKept
<1>9. ASSUME ~spilled PROVE NothingSpilled(root', files, deads, packs, s)
  <2>1. /\ Accounted(files, deads, packs, r.replaced \cup kept, r.inventory)
        /\ r.inventory.packs = {}
    BY <1>1, <1>2, <1>9 DEF OneRunInvOf, NothingSpilled
  <2>2. /\ Blobs(r.replaced \cup kept).files = Blobs(r.replaced).files \cup Blobs(kept).files
        /\ Blobs(r.replaced \cup kept).deads = Blobs(r.replaced).deads \cup Blobs(kept).deads
        /\ Blobs(r.replaced \cup kept).packs = Blobs(r.replaced).packs \cup Blobs(kept).packs
    BY BlobsUnion
  <2> HIDE DEF kept
  <2>3. Accounted(files, deads, packs, kept, g)
    BY <2>1, <2>2, <1>4 DEF Accounted
  <2> QED BY <2>3, <1>3, <1>5 DEF NothingSpilled, kept
<1>10. OneRunInvOf(root', files', deads', packs', spilled', s)
  BY <1>2, <1>8, <1>9 DEF OneRunInvOf
<1> QED BY <1>2, <1>10, OneMoves

\* The run takes garbage off its list; unless the deletion failed, it is gone.
LEMMA PackCollect ==
    ASSUME TypeOK, RootInv, OneRunInv, OneIndexer, NEW i \in Indexers, NEW left, Collect(i, left),
           run[i].pc = "collect", root' = root,
           left.packs \subseteq run[i].garbage.packs,
           packs \ packs' \subseteq run[i].garbage.packs,
           ~spilled' => /\ ~spilled /\ files' \subseteq files /\ deads' \subseteq deads /\ packs' \subseteq packs
                        /\ run[i].garbage.files \cap files' \subseteq left.files
                        /\ run[i].garbage.deads \cap deads' \subseteq left.deads
                        /\ run[i].garbage.packs \cap packs' \subseteq left.packs
    PROVE  OneRunInv'
<1> DEFINE r == run[i]
           s == [r EXCEPT !.garbage = left]
<1>1. r \in Run /\ Quiet(r) /\ OneRunInvOf(root, files, deads, packs, spilled, r)
  BY PackFacts
<1>2. run' = [run EXCEPT ![i] = s]
  BY DEF Collect
<1>3. s.pc = "collect" /\ s.keep = r.keep /\ s.garbage = left
  BY <1>1 DEF Run
<1> HIDE DEF s
<1>4. ToSet(s.keep) = {}
  BY <1>1, <1>3 DEF Quiet, ToSet
<1>5. PacksKept(root, packs', s)
  BY <1>1, <1>3, <1>4, BlobsNone DEF OneRunInvOf, PacksKept
<1>6. ASSUME ~spilled' PROVE NothingSpilled(root, files', deads', packs', s)
  <2>1. root.state = "loaded" /\ Accounted(files, deads, packs, ToSet(root.segments), r.garbage)
    BY <1>1, <1>6 DEF OneRunInvOf, NothingSpilled
  <2>2. Accounted(files', deads', packs', ToSet(root.segments), left)
    BY <2>1, <1>6 DEF Accounted
  <2> QED BY <2>1, <2>2, <1>3 DEF NothingSpilled
<1>7. OneRunInvOf(root', files', deads', packs', spilled', s)
  BY <1>5, <1>6 DEF OneRunInvOf
<1> QED BY <1>2, <1>7, OneMoves

LEMMA PackDelete ==
    ASSUME TypeOK, RootInv, OneRunInv, OneIndexer, NEW i \in Indexers, Delete(i)
    PROVE  OneRunInv'
<1> DEFINE g == run[i].garbage
<1>1. run[i].pc = "collect" /\ root' = root /\ spilled' = spilled
  BY DEF Delete
<1>2. g \in BlobSets
  BY PackFacts DEF Run
<1>3. ASSUME NEW f \in g.files, files' = files \ {f}, Collect(i, [g EXCEPT !.files = @ \ {f}]),
             deads' = deads, packs' = packs
      PROVE  OneRunInv'
  <2> DEFINE left == [g EXCEPT !.files = @ \ {f}]
  <2>1. left.files = g.files \ {f} /\ left.deads = g.deads /\ left.packs = g.packs
    BY <1>2 DEF BlobSets
  <2>2. Collect(i, left)
    BY <1>3
  <2> HIDE DEF left
  <2> QED BY <2>1, <2>2, <1>1, <1>3, PackCollect
<1>4. ASSUME NEW d \in g.deads, deads' = deads \ {d}, Collect(i, [g EXCEPT !.deads = @ \ {d}]),
             files' = files, packs' = packs
      PROVE  OneRunInv'
  <2> DEFINE left == [g EXCEPT !.deads = @ \ {d}]
  <2>1. left.deads = g.deads \ {d} /\ left.files = g.files /\ left.packs = g.packs
    BY <1>2 DEF BlobSets
  <2>2. Collect(i, left)
    BY <1>4
  <2> HIDE DEF left
  <2> QED BY <2>1, <2>2, <1>1, <1>4, PackCollect
<1>5. ASSUME NEW p \in g.packs, packs' = packs \ {p}, Collect(i, [g EXCEPT !.packs = @ \ {p}]),
             files' = files, deads' = deads
      PROVE  OneRunInv'
  <2> DEFINE left == [g EXCEPT !.packs = @ \ {p}]
  <2>1. left.packs = g.packs \ {p} /\ left.files = g.files /\ left.deads = g.deads
    BY <1>2 DEF BlobSets
  <2>2. Collect(i, left)
    BY <1>5
  <2> HIDE DEF left
  <2> QED BY <2>1, <2>2, <1>1, <1>5, PackCollect
<1> QED BY <1>3, <1>4, <1>5 DEF Delete

LEMMA PackFailDelete ==
    ASSUME TypeOK, RootInv, OneRunInv, OneIndexer, NEW i \in Indexers, FailDelete(i)
    PROVE  OneRunInv'
<1> DEFINE g == run[i].garbage
<1>1. run[i].pc = "collect" /\ root' = root /\ packs' = packs /\ spilled'
  BY DEF FailDelete, store
<1>2. g \in BlobSets
  BY PackFacts DEF Run
<1>3. PICK left : Collect(i, left) /\ left.packs \subseteq g.packs
  <2>1. \/ \E f \in g.files : Collect(i, [g EXCEPT !.files = @ \ {f}])
        \/ \E d \in g.deads : Collect(i, [g EXCEPT !.deads = @ \ {d}])
        \/ \E p \in g.packs : Collect(i, [g EXCEPT !.packs = @ \ {p}])
    BY DEF FailDelete
  <2>2. /\ \A f : [g EXCEPT !.files = @ \ {f}].packs \subseteq g.packs
        /\ \A d : [g EXCEPT !.deads = @ \ {d}].packs \subseteq g.packs
        /\ \A p : [g EXCEPT !.packs = @ \ {p}].packs \subseteq g.packs
    BY <1>2 DEF BlobSets
  <2> HIDE DEF g
  <2> QED BY <2>1, <2>2
<1> QED BY <1>1, <1>3, PackCollect

LEMMA PackFinish ==
    ASSUME TypeOK, RootInv, OneRunInv, OneIndexer, NEW i \in Indexers, Finish(i)
    PROVE  OneRunInv'
<1>1. /\ run[i].pc = "collect" /\ run[i].garbage = NoBlobs /\ run' = [run EXCEPT ![i] = Idle]
      /\ root' = root /\ files' = files /\ deads' = deads /\ packs' = packs /\ spilled' = spilled
  BY DEF Finish, store
<1>2. ~spilled => root.state = "loaded" /\ Accounted(files, deads, packs, ToSet(root.segments), NoBlobs)
  BY <1>1, PackFacts DEF OneRunInvOf, NothingSpilled
<1>3. Idle.pc = "idle"
  BY DEF Idle
<1>4. ~spilled => NothingSpilled(root, files, deads, packs, Idle)
  BY <1>2, <1>3 DEF NothingSpilled
<1> QED BY <1>1, <1>4, PackFacts, FailedRun

-----------------------------------------------------------------------------
(***************************************************************************)
(* The theorems.                                                           *)
(***************************************************************************)

LEMMA PackInit == Init => OneRunInv
<1> SUFFICES ASSUME Init PROVE OneRunInv
  OBVIOUS
<1>1. /\ root.segments = <<>> /\ root \in {Absent, Unreadable} /\ packs = {} /\ deads = {}
      /\ \A i \in Indexers : run[i] = Idle
  BY DEF Init, Absent, Unreadable
<1>2. ToSet(root.segments) = {}
  BY <1>1 DEF ToSet
<1>3. root.state # "unreadable" => files = {}
  BY DEF Init, Unreadable
<1>4. /\ Idle.pc = "idle" /\ ToSet(Idle.keep) = {} /\ Idle.garbage.packs = {}
  BY DEF Idle, NoBlobs, ToSet
<1>5. PacksKept(root, packs, Idle)
  BY <1>2, <1>4, BlobsNone DEF PacksKept
<1>6. NothingSpilled(root, files, deads, packs, Idle)
  BY <1>1, <1>2, <1>3, <1>4, BlobsNone DEF NothingSpilled, Accounted
<1> QED BY <1>1, <1>5, <1>6 DEF OneRunInv, OneRunInvOf

LEMMA PackStep ==
    ASSUME TypeOK, RootInv, OneRunInv, OneIndexer, [Next]_vars
    PROVE  OneRunInv'
<1>1. ASSUME UNCHANGED vars PROVE OneRunInv'
  BY <1>1 DEF OneRunInv, vars, store
<1>2. ASSUME NEW k \in Keys, NEW b \in Bodies \cup {None}, Mutate(k, b) PROVE OneRunInv'
  BY <1>2 DEF OneRunInv, Mutate, store
<1>3. ASSUME NEW i \in Indexers, List(i) \/ FailDelete(i) PROVE OneRunInv'
  BY <1>3, PackList, PackFailDelete
<1>4. ASSUME NEW i \in Indexers, Abort(i) \/ FailFetch(i) \/ FailMerge(i) \/ LoseRace(i)
      PROVE  OneRunInv'
  <2>1. /\ run' = [run EXCEPT ![i] = Idle] /\ root' = root /\ files' = files /\ deads' = deads
        /\ packs' = packs /\ spilled'
    BY <1>4 DEF Abort, FailFetch, FailMerge, LoseRace, store
  <2> QED BY <2>1, FailedRun
<1>5. ASSUME NEW i \in Indexers, Step(i) PROVE OneRunInv'
  BY <1>4, <1>5, PackLoadRoot, PackPlan, PackDrop, PackKeep, PackRepack, PackAddShard,
     PackPutFiles, PackCompact, PackSkipCompact, PackSwap, PackDelete, PackFinish DEF Step
<1> QED BY <1>1, <1>2, <1>3, <1>4, <1>5 DEF Next

LEMMA OneRunInvariant ==
    ASSUME OneIndexer
    PROVE  Spec => []OneRunInv
<1>1. Init => OneRunInv
  BY PackInit
<1>2. TypeOK /\ RootInv /\ OneRunInv /\ [Next]_vars => OneRunInv'
  BY PackStep
<1> QED BY <1>1, <1>2, TypeCorrect, RootInvariant, PTL DEF Spec

\* While one process at a time indexes the bucket, every pack the root names is in
\* the store, however often runs fail, die or come back to a pack name they deleted
\* before (collect_garbage keeps what the new root names).
THEOREM PacksStay ==
    ASSUME OneIndexer
    PROVE  Spec => []PacksPresent
<1>1. OneRunInv => PacksPresent
  BY DEF OneIndexer, OneRunInv, OneRunInvOf, PacksKept, PacksPresent
<1> QED BY <1>1, OneRunInvariant, PTL

\* While one process at a time indexes the bucket and no run was interrupted,
\* update_index leaves no file, dead set or pack behind that the root does not name.
THEOREM StoreSwept ==
    ASSUME OneIndexer
    PROVE  Spec => []NothingLeftBehind
<1>1. OneRunInv => NothingLeftBehind
  <2> SUFFICES ASSUME OneRunInv, ~spilled, root.state = "loaded", \A i \in Indexers : run[i].pc = "idle"
               PROVE  Accounted(files, deads, packs, ToSet(root.segments), NoBlobs)
    BY DEF NothingLeftBehind, Accounted, NoBlobs
  <2>1. PICK i \in Indexers : TRUE
    BY DEF OneIndexer
  <2> QED BY <2>1 DEF OneRunInv, OneRunInvOf, NothingSpilled
<1> QED BY <1>1, OneRunInvariant, PTL
=============================================================================
