----------------------- MODULE SegmentedIndexViewProofs -----------------------
(***************************************************************************)
(* Proof that a segmented index implements the snapshot index: a swap of   *)
(* the root replaces what searches see by the listing of the run that      *)
(* swaps, and nothing else does.  With it, that no source is live in two   *)
(* segments, that every indexed body is the one that was listed, and that  *)
(* a run reports the index up to date only when it is.                     *)
(*                                                                         *)
(* The argument is about one run at a time.  While a run updates, every    *)
(* listed key is in exactly one place: among the sources to be added, live *)
(* in a loaded segment whose fate is open, or live in one segment of the   *)
(* next root; and where it is live it has the listed version.  Retiring,   *)
(* repacking, building and compacting segments only move keys between the  *)
(* places.  At the swap the first two are empty.                           *)
(***************************************************************************)
EXTENDS SegmentedIndexRootProofs, FiniteSetTheorems

\* No key is live in two segments of a list.
Unique(list) == \A k \in Keys : \A g, h \in LiveAt(list, k) : g = h

\* The documents of a segment were decoded from the version it records.
Decoded(m) == \A k \in Documents(m.table) : m.table[k].body = m.table[k].version

Indexed(list) == Unique(list) /\ \A h \in DOMAIN list : Decoded(list[h])

\* Where key k stays live among the loaded segments whose fate is open.
OpenAt(work, k) == {h \in DOMAIN work : k \in Sources(work[h].meta) \ work[h].dead}

\* Key k is in one place, and as listed.
Placed(r, k) ==
    /\ \A g, h \in OpenAt(r.work, k) : g = h
    /\ \A g, h \in LiveAt(r.keep, k) : g = h
    /\ OpenAt(r.work, k) = {} \/ LiveAt(r.keep, k) = {}
    /\ k \in r.toAdd => OpenAt(r.work, k) = {} /\ LiveAt(r.keep, k) = {}
    /\ r.listing[k] # None => k \in r.toAdd \/ OpenAt(r.work, k) # {} \/ LiveAt(r.keep, k) # {}

AsListed(r, k) ==
    /\ \A h \in OpenAt(r.work, k) : r.work[h].meta.table[k].version = r.listing[k]
    /\ \A h \in LiveAt(r.keep, k) : r.keep[h].table[k].version = r.listing[k]

\* What holds of one run: the root it loaded was a proper one, its next root is
\* on the way to show its listing, and it is not dirty only if the old one does.
RunShows(r) ==
    /\ Indexed(r.base.segments)
    /\ \A h \in DOMAIN r.work : Decoded(r.work[h].meta)
    /\ \A h \in DOMAIN r.keep : Decoded(r.keep[h])
    /\ r.pc \in {"update", "swap"} => \A k \in Keys : Placed(r, k) /\ AsListed(r, k)
    /\ r.pc = "swap" => r.work = <<>> /\ r.toAdd = {}
    /\ r.pc = "update" /\ ~r.dirty => View(r.base.segments) = r.listing

ViewInv == Indexed(root.segments) /\ \A i \in Indexers : RunShows(run[i])

-----------------------------------------------------------------------------
(***************************************************************************)
(* What a list of segments shows.                                          *)
(***************************************************************************)

\* With unique keys the newest segment a key is live in is the only one.
LEMMA NewestOnly ==
    ASSUME NEW list \in Seq(SegmentMeta), Unique(list), NEW k \in Keys, NEW j \in LiveAt(list, k)
    PROVE  Newest(list, k) = j
<1>1. \A h \in LiveAt(list, k) : h = j
  BY DEF Unique
<1>2. j \in Nat
  BY DEF LiveAt
<1>3. j \in LiveAt(list, k) /\ \A h \in LiveAt(list, k) : h <= j
  BY <1>1, <1>2
<1>4. Newest(list, k) \in LiveAt(list, k)
  BY <1>3 DEF Newest
<1> QED BY <1>1, <1>4

\* A list shows a listing when it agrees with it key by key.
LEMMA ShowsListing ==
    ASSUME NEW list \in Seq(SegmentMeta), Unique(list), NEW listing \in [Keys -> Bodies \cup {None}],
           \A k \in Keys : \A h \in LiveAt(list, k) : list[h].table[k].version = listing[k],
           \A k \in Keys : listing[k] # None => LiveAt(list, k) # {}
    PROVE  View(list) = listing
<1>1. ASSUME NEW k \in Keys
      PROVE  (IF LiveAt(list, k) = {} THEN None ELSE list[Newest(list, k)].table[k].version) = listing[k]
  <2>1. CASE LiveAt(list, k) = {}
    BY <2>1
  <2>2. ASSUME NEW j \in LiveAt(list, k)
        PROVE  (IF LiveAt(list, k) = {} THEN None ELSE list[Newest(list, k)].table[k].version) = listing[k]
    <3>1. Newest(list, k) = j
      BY NewestOnly
    <3> QED BY <3>1
  <2> QED BY <2>1, <2>2
<1>2. View(list) = [k \in Keys |-> listing[k]]
  BY <1>1 DEF View
<1> QED BY <1>2

\* A key that the diff leaves alone is live once, with the listed version.
LEMMA DiffKeeps ==
    ASSUME NEW list \in Seq(SegmentMeta), Unique(list), NEW listing \in [Keys -> Bodies \cup {None}],
           NEW k \in Keys
    PROVE  /\ \A j \in LiveAt(list, k) :
                 k \in NewlyDead(list, listing, j) <=>
                     listing[k] = None \/ IsStale(list[j].table[k], listing[k])
           /\ k \in ToAdd(list, listing) <=>
                 /\ listing[k] # None
                 /\ \A j \in LiveAt(list, k) : IsStale(list[j].table[k], listing[k])
<1>1. \A j \in LiveAt(list, k) : Newest(list, k) = j /\ j \in DOMAIN list /\ k \in Live(list[j])
  BY NewestOnly DEF LiveAt
<1>2. ASSUME NEW j \in LiveAt(list, k)
      PROVE  k \in NewlyDead(list, listing, j) <=>
                     listing[k] = None \/ IsStale(list[j].table[k], listing[k])
  BY <1>1 DEF NewlyDead
<1>3. k \in ToAdd(list, listing) <=>
                 /\ listing[k] # None
                 /\ \A j \in LiveAt(list, k) : IsStale(list[j].table[k], listing[k])
  <2>1. CASE LiveAt(list, k) = {}
    BY <2>1 DEF ToAdd
  <2>2. ASSUME NEW j \in LiveAt(list, k)
        PROVE  k \in ToAdd(list, listing) <=>
                 /\ listing[k] # None
                 /\ \A h \in LiveAt(list, k) : IsStale(list[h].table[k], listing[k])
    <3>1. \A h \in LiveAt(list, k) : h = j
      BY DEF Unique
    <3> QED BY <3>1, <1>1 DEF ToAdd
  <2> QED BY <2>1, <2>2
<1> QED BY <1>2, <1>3

\* An empty diff: the list shows the listing.
LEMMA EmptyDiff ==
    ASSUME NEW list \in Seq(SegmentMeta), Unique(list), NEW listing \in [Keys -> Bodies \cup {None}],
           ToAdd(list, listing) = {}, \A j \in DOMAIN list : NewlyDead(list, listing, j) = {}
    PROVE  View(list) = listing
<1>1. ASSUME NEW k \in Keys, NEW j \in LiveAt(list, k)
      PROVE  list[j].table[k].version = listing[k]
  <2>1. j \in DOMAIN list
    BY DEF LiveAt
  <2> QED BY <2>1, DiffKeeps DEF IsStale
<1>2. ASSUME NEW k \in Keys, listing[k] # None PROVE LiveAt(list, k) # {}
  <2>1. PICK j \in LiveAt(list, k) : ~IsStale(list[j].table[k], listing[k])
    BY <1>2, DiffKeeps
  <2> QED BY <2>1
<1> QED BY <1>1, <1>2, ShowsListing

-----------------------------------------------------------------------------
(***************************************************************************)
(* Moving a key from one place to another.                                 *)
(***************************************************************************)

\* The segments whose fate is still open after the first is decided on.
LEMMA TailOpen ==
    ASSUME NEW w \in Seq(Pair), w # <<>>, NEW k
    PROVE  /\ k \in Sources(Head(w).meta) \ Head(w).dead <=> 1 \in OpenAt(w, k)
           /\ \A h \in OpenAt(Tail(w), k) : h \in Nat \ {0} /\ h + 1 \in OpenAt(w, k) /\ Tail(w)[h] = w[h + 1]
           /\ \A h \in OpenAt(w, k) \ {1} : OpenAt(Tail(w), k) # {}
<1>1. /\ 1 \in DOMAIN w /\ Head(w) = w[1]
      /\ \A h \in DOMAIN Tail(w) : /\ h \in Nat /\ h + 1 \in DOMAIN w /\ h + 1 # 1
                                   /\ Tail(w)[h] = w[h + 1]
  BY TailFacts
<1>2. \A h \in DOMAIN w \ {1} : h - 1 \in DOMAIN Tail(w) /\ Tail(w)[h - 1] = w[h]
  OBVIOUS
<1>3. \A h \in DOMAIN Tail(w) : h # 0
  BY <1>1
<1>4. ASSUME NEW h \in OpenAt(w, k) \ {1} PROVE OpenAt(Tail(w), k) # {}
  <2>1. h - 1 \in OpenAt(Tail(w), k)
    BY <1>2 DEF OpenAt
  <2> QED BY <2>1
<1> QED BY <1>1, <1>3, <1>4 DEF OpenAt

\* The places a key is live in after two neighbours are merged into one.
LEMMA SpliceLive ==
    ASSUME NEW list \in Seq(SegmentMeta), NEW v \in 1..(Len(list) - 1), NEW m \in SegmentMeta,
           NEW k, Live(m) = Live(list[v]) \cup Live(list[v + 1]),
           \A g, h \in LiveAt(list, k) : g = h
    PROVE  /\ \A g, h \in LiveAt(Splice(list, v, m), k) : g = h
           /\ \A h \in LiveAt(Splice(list, v, m), k) :
                 \/ Splice(list, v, m)[h] = m
                 \/ \E g \in LiveAt(list, k) : Splice(list, v, m)[h] = list[g]
           /\ LiveAt(Splice(list, v, m), k) = {} <=> LiveAt(list, k) = {}
<1> DEFINE new == Splice(list, v, m)
<1>1. Len(list) \in Nat /\ DOMAIN list = 1..Len(list) /\ v \in DOMAIN list /\ v + 1 \in DOMAIN list
  OBVIOUS
<1>2. /\ DOMAIN new = 1..(Len(list) - 1)
      /\ \A h \in DOMAIN new : \/ h < v /\ h \in DOMAIN list /\ new[h] = list[h]
                               \/ h = v /\ new[h] = m
                               \/ h > v /\ h + 1 \in DOMAIN list /\ new[h] = list[h + 1]
  BY SpliceIndex
<1> HIDE DEF new
<1>3. ASSUME NEW h \in LiveAt(new, k)
      PROVE  \/ h < v /\ h \in LiveAt(list, k) /\ new[h] = list[h]
             \/ h = v /\ new[h] = m /\ (v \in LiveAt(list, k) \/ v + 1 \in LiveAt(list, k))
             \/ h > v /\ h + 1 \in LiveAt(list, k) /\ new[h] = list[h + 1]
  <2>1. h \in DOMAIN new /\ k \in Live(new[h])
    BY DEF LiveAt
  <2> QED BY <2>1, <1>1, <1>2 DEF LiveAt
<1>4. LiveAt(new, k) \subseteq Nat /\ v \in Nat
  BY <1>1, <1>2 DEF LiveAt
<1>5. ASSUME NEW g \in LiveAt(new, k), NEW h \in LiveAt(new, k) PROVE g = h
  BY <1>3, <1>4
<1>6. ASSUME NEW g \in LiveAt(list, k) PROVE LiveAt(new, k) # {}
  <2>1. g \in DOMAIN list /\ k \in Live(list[g]) /\ g \in Nat
    BY <1>1 DEF LiveAt
  <2>2. CASE g < v
    <3>1. g \in DOMAIN new
      BY <2>1, <2>2, <1>1, <1>2
    <3>2. new[g] = list[g]
      BY <3>1, <2>1, <2>2, <1>2, <1>4
    <3> QED BY <3>1, <3>2, <2>1 DEF LiveAt
  <2>3. CASE g \in {v, v + 1}
    <3>1. v \in DOMAIN new /\ new[v] = m
      BY <1>1, <1>2, <1>4
    <3> QED BY <3>1, <2>1, <2>3 DEF LiveAt
  <2>4. CASE g > v + 1
    <3>1. g - 1 \in DOMAIN new /\ g - 1 > v /\ (g - 1) + 1 = g
      BY <2>1, <2>4, <1>1, <1>2, <1>4
    <3>2. new[g - 1] = list[g]
      BY <3>1, <1>2, <1>4, <2>1
    <3> QED BY <3>1, <3>2, <2>1 DEF LiveAt
  <2> QED BY <2>1, <2>2, <2>3, <2>4, <1>4
<1> QED BY <1>3, <1>5, <1>6 DEF new

\* What a merge of segments holds: their live sources, as they were.
LEMMA MergedHolds ==
    ASSUME NEW V \in SUBSET Pair
    PROVE  /\ DOMAIN MergedTable(V) = UNION {Sources(p.meta) \ p.dead : p \in V}
           /\ \A k \in DOMAIN MergedTable(V) :
                 \E p \in V : k \in Sources(p.meta) \ p.dead /\ MergedTable(V)[k] = p.meta.table[k]
<1> DEFINE liveIn(p) == Sources(p.meta) \ p.dead
           ks == UNION {liveIn(p) : p \in V}
           of(k) == CHOOSE p \in V : k \in liveIn(p)
<1>1. MergedTable(V) = [k \in ks |-> of(k).meta.table[k]]
  BY DEF MergedTable
<1>2. \A k \in ks : of(k) \in V /\ k \in liveIn(of(k))
  OBVIOUS
<1>3. DOMAIN MergedTable(V) = ks /\ \A k \in ks : MergedTable(V)[k] = of(k).meta.table[k]
  BY <1>1
<1> HIDE DEF of
<1>4. \A k \in ks : \E p \in V : k \in liveIn(p) /\ MergedTable(V)[k] = p.meta.table[k]
  BY <1>2, <1>3
<1> QED BY <1>3, <1>4

LEMMA MergedDecoded ==
    ASSUME NEW V \in SUBSET Pair, \A p \in V : Decoded(p.meta)
    PROVE  Decoded(NewSegment(MergedTable(V)))
<1> DEFINE t == MergedTable(V)
<1>1. NewSegment(t).table = t
  BY DEF NewSegment
<1>2. \A k \in DOMAIN t : \E p \in V : k \in Sources(p.meta) \ p.dead /\ t[k] = p.meta.table[k]
  BY MergedHolds
<1> HIDE DEF t
<1>3. ASSUME NEW k \in DOMAIN t, t[k].body # None PROVE t[k].body = t[k].version
  <2>1. PICK p \in V : k \in DOMAIN p.meta.table /\ t[k] = p.meta.table[k]
    BY <1>2 DEF Sources
  <2> QED BY <2>1, <1>3 DEF Decoded, Documents
<1>4. Decoded(NewSegment(t))
  BY <1>1, <1>3 DEF Decoded, Documents
<1> QED BY <1>4 DEF t

\* The diff puts every listed key in its place.
LEMMA PlanPlaces ==
    ASSUME NEW list \in Seq(SegmentMeta), Unique(list), NEW listing \in [Keys -> Bodies \cup {None}],
           NEW r, r.work = Pairs(list, listing), r.toAdd = ToAdd(list, listing), r.keep = <<>>,
           r.listing = listing, NEW k \in Keys
    PROVE  Placed(r, k) /\ AsListed(r, k)
<1>1. DOMAIN r.work = DOMAIN list
  BY DEF Pairs
<1>2. \A h \in DOMAIN list : r.work[h].meta = list[h] /\ r.work[h].dead = list[h].dead \cup NewlyDead(list, listing, h)
  BY DEF Pairs
<1>3. LiveAt(r.keep, k) = {}
  BY DEF LiveAt
<1>4. \A h \in OpenAt(r.work, k) : /\ h \in DOMAIN list /\ h \in LiveAt(list, k)
                                   /\ k \notin NewlyDead(list, listing, h)
  BY <1>1, <1>2 DEF OpenAt, LiveAt, Live
<1>5. \A h \in LiveAt(list, k) : k \notin NewlyDead(list, listing, h) => h \in OpenAt(r.work, k)
  BY <1>1, <1>2 DEF OpenAt, LiveAt, Live
<1>6. \A g, h \in OpenAt(r.work, k) : g = h
  BY <1>4 DEF Unique
<1>7. \A h \in OpenAt(r.work, k) : listing[k] # None /\ ~IsStale(list[h].table[k], listing[k])
  BY <1>4, DiffKeeps
<1>8. k \in r.toAdd => OpenAt(r.work, k) = {}
  BY <1>4, <1>7, DiffKeeps
<1>9. ASSUME r.listing[k] # None, k \notin r.toAdd PROVE OpenAt(r.work, k) # {}
  <2>1. PICK j \in LiveAt(list, k) : ~IsStale(list[j].table[k], listing[k])
    BY <1>9, DiffKeeps
  <2> QED BY <2>1, <1>5, <1>9, DiffKeeps
<1>10. \A h \in OpenAt(r.work, k) : r.work[h].meta.table[k].version = r.listing[k]
  BY <1>2, <1>4, <1>7 DEF IsStale
<1> QED BY <1>3, <1>6, <1>8, <1>9, <1>10 DEF Placed, AsListed

\* A segment all of whose sources are dead is dropped.
LEMMA DropPlaces ==
    ASSUME NEW r, NEW s, r.work \in Seq(Pair), r.work # <<>>, s.work = Tail(r.work),
           s.keep = r.keep, s.toAdd = r.toAdd, s.listing = r.listing,
           NEW k \in Keys, k \notin Sources(Head(r.work).meta) \ Head(r.work).dead,
           Placed(r, k), AsListed(r, k)
    PROVE  Placed(s, k) /\ AsListed(s, k)
<1> DEFINE w == r.work
           t == Tail(w)
<1>1. /\ 1 \notin OpenAt(w, k)
      /\ \A h \in OpenAt(t, k) : h \in Nat \ {0} /\ h + 1 \in OpenAt(w, k) /\ t[h] = w[h + 1]
      /\ \A h \in OpenAt(w, k) \ {1} : OpenAt(t, k) # {}
  <2>1. w \in Seq(Pair) /\ w # <<>> /\ k \notin Sources(Head(w).meta) \ Head(w).dead
    OBVIOUS
  <2> HIDE DEF w
  <2>2. /\ k \in Sources(Head(w).meta) \ Head(w).dead <=> 1 \in OpenAt(w, k)
        /\ \A h \in OpenAt(t, k) : h \in Nat \ {0} /\ h + 1 \in OpenAt(w, k) /\ t[h] = w[h + 1]
        /\ \A h \in OpenAt(w, k) \ {1} : OpenAt(t, k) # {}
    BY <2>1, TailOpen
  <2> HIDE DEF t
  <2> QED BY <2>1, <2>2
<1>2. s.work = t
  OBVIOUS
<1> HIDE DEF w, t
<1>3. r.work = w
  BY DEF w
<1>4. \A g, h \in OpenAt(t, k) : g = h
  <2> SUFFICES ASSUME NEW g \in OpenAt(t, k), NEW h \in OpenAt(t, k) PROVE g = h
    OBVIOUS
  <2>1. g + 1 = h + 1
    BY <1>1, <1>3 DEF Placed
  <2> QED BY <2>1, <1>1
<1>5. OpenAt(t, k) = {} <=> OpenAt(w, k) = {}
  BY <1>1
<1>6. \A h \in OpenAt(t, k) : t[h].meta.table[k].version = r.listing[k]
  BY <1>1, <1>3 DEF AsListed
<1> QED BY <1>2, <1>3, <1>4, <1>5, <1>6 DEF Placed, AsListed

\* A segment is kept or rewritten: what was live in it moves to the next root.
LEMMA MovePlaces ==
    ASSUME NEW r, NEW s, NEW m \in SegmentMeta, r.work \in Seq(Pair), r.work # <<>>,
           r.keep \in Seq(SegmentMeta), s.work = Tail(r.work), s.keep = Append(r.keep, m),
           s.toAdd = r.toAdd, s.listing = r.listing,
           Live(m) = Sources(Head(r.work).meta) \ Head(r.work).dead,
           \A k \in Live(m) : m.table[k] = Head(r.work).meta.table[k],
           NEW k \in Keys, Placed(r, k), AsListed(r, k)
    PROVE  Placed(s, k) /\ AsListed(s, k)
<1> DEFINE w == r.work
           t == Tail(w)
           n == Len(r.keep) + 1
           new == Append(r.keep, m)
<1>1. /\ k \in Live(m) <=> 1 \in OpenAt(w, k)
      /\ \A h \in OpenAt(t, k) : h \in Nat \ {0} /\ h + 1 \in OpenAt(w, k) /\ t[h] = w[h + 1]
      /\ \A h \in OpenAt(w, k) \ {1} : OpenAt(t, k) # {}
  <2>1. w \in Seq(Pair) /\ w # <<>> /\ Live(m) = Sources(Head(w).meta) \ Head(w).dead
    OBVIOUS
  <2> HIDE DEF w, n, new
  <2>2. /\ k \in Sources(Head(w).meta) \ Head(w).dead <=> 1 \in OpenAt(w, k)
        /\ \A h \in OpenAt(t, k) : h \in Nat \ {0} /\ h + 1 \in OpenAt(w, k) /\ t[h] = w[h + 1]
        /\ \A h \in OpenAt(w, k) \ {1} : OpenAt(t, k) # {}
    BY <2>1, TailOpen
  <2> HIDE DEF t
  <2> QED BY <2>1, <2>2
<1>2. /\ k \in Live(m) => LiveAt(new, k) = LiveAt(r.keep, k) \cup {n}
      /\ k \notin Live(m) => LiveAt(new, k) = LiveAt(r.keep, k)
      /\ \A h \in LiveAt(r.keep, k) : h # n /\ new[h] = r.keep[h]
      /\ new[n] = m
  <2>1. /\ DOMAIN new = 1..n /\ DOMAIN r.keep = 1..Len(r.keep) /\ Len(r.keep) \in Nat
        /\ new[n] = m /\ \A h \in DOMAIN r.keep : new[h] = r.keep[h]
    OBVIOUS
  <2> HIDE DEF n, new
  <2>2. DOMAIN new = DOMAIN r.keep \cup {n} /\ n \notin DOMAIN r.keep
    BY <2>1 DEF n
  <2>3. \A h \in LiveAt(r.keep, k) : h \in DOMAIN r.keep
    BY DEF LiveAt
  <2>4. k \in Live(m) => LiveAt(new, k) = LiveAt(r.keep, k) \cup {n}
    BY <2>1, <2>2 DEF LiveAt
  <2>5. k \notin Live(m) => LiveAt(new, k) = LiveAt(r.keep, k)
    BY <2>1, <2>2 DEF LiveAt
  <2> QED BY <2>1, <2>2, <2>3, <2>4, <2>5
<1>3. Head(w) = w[1]
  BY TailFacts
<1>4. s.work = t /\ s.keep = new /\ r.work = w
  OBVIOUS
<1> HIDE DEF w, t, n, new
<1>5. \A g, h \in OpenAt(t, k) : g = h
  <2> SUFFICES ASSUME NEW g \in OpenAt(t, k), NEW h \in OpenAt(t, k) PROVE g = h
    OBVIOUS
  <2>1. g + 1 = h + 1
    BY <1>1, <1>4 DEF Placed
  <2> QED BY <2>1, <1>1
<1>6. CASE k \in Live(m)
  <2>1. OpenAt(t, k) = {}
    <3> SUFFICES ASSUME NEW h \in OpenAt(t, k) PROVE FALSE
      OBVIOUS
    <3>1. h + 1 \in OpenAt(w, k) /\ 1 \in OpenAt(w, k) /\ h + 1 # 1
      BY <1>1, <1>6
    <3> QED BY <3>1, <1>4 DEF Placed
  <2>2. LiveAt(r.keep, k) = {} /\ k \notin r.toAdd
    BY <1>1, <1>4, <1>6 DEF Placed
  <2>3. LiveAt(new, k) = {n}
    BY <2>2, <1>2, <1>6
  <2>4. m.table[k].version = r.listing[k]
    BY <1>1, <1>3, <1>4, <1>6 DEF AsListed
  <2> QED BY <2>1, <2>2, <2>3, <2>4, <1>2, <1>4 DEF Placed, AsListed
<1>7. CASE k \notin Live(m)
  <2>1. OpenAt(t, k) = {} <=> OpenAt(w, k) = {}
    BY <1>1, <1>7
  <2>2. \A h \in OpenAt(t, k) : t[h].meta.table[k].version = r.listing[k]
    BY <1>1, <1>4 DEF AsListed
  <2>3. LiveAt(new, k) = LiveAt(r.keep, k) /\ \A h \in LiveAt(r.keep, k) : new[h] = r.keep[h]
    BY <1>2, <1>7
  <2>4. Placed(s, k)
    BY <2>1, <2>3, <1>4, <1>5 DEF Placed
  <2>5. AsListed(s, k)
    BY <2>2, <2>3, <1>4 DEF AsListed
  <2> QED BY <2>4, <2>5
<1> QED BY <1>6, <1>7

\* Sources to be added become a segment.
LEMMA BuildPlaces ==
    ASSUME NEW r, NEW s, NEW m \in SegmentMeta, r.keep \in Seq(SegmentMeta),
           s.work = r.work, s.keep = Append(r.keep, m), s.listing = r.listing,
           Live(m) \subseteq r.toAdd, s.toAdd = r.toAdd \ Live(m),
           \A k \in Live(m) : m.table[k].version = r.listing[k],
           NEW k \in Keys, Placed(r, k), AsListed(r, k)
    PROVE  Placed(s, k) /\ AsListed(s, k)
<1> DEFINE n == Len(r.keep) + 1
           new == Append(r.keep, m)
<1>1. /\ k \in Live(m) => LiveAt(new, k) = LiveAt(r.keep, k) \cup {n}
      /\ k \notin Live(m) => LiveAt(new, k) = LiveAt(r.keep, k)
      /\ \A h \in LiveAt(r.keep, k) : h # n /\ new[h] = r.keep[h]
      /\ new[n] = m
  <2>1. /\ DOMAIN new = 1..n /\ DOMAIN r.keep = 1..Len(r.keep) /\ Len(r.keep) \in Nat
        /\ new[n] = m /\ \A h \in DOMAIN r.keep : new[h] = r.keep[h]
    OBVIOUS
  <2> HIDE DEF n, new
  <2>2. DOMAIN new = DOMAIN r.keep \cup {n} /\ n \notin DOMAIN r.keep
    BY <2>1 DEF n
  <2>3. \A h \in LiveAt(r.keep, k) : h \in DOMAIN r.keep
    BY DEF LiveAt
  <2>4. k \in Live(m) => LiveAt(new, k) = LiveAt(r.keep, k) \cup {n}
    BY <2>1, <2>2 DEF LiveAt
  <2>5. k \notin Live(m) => LiveAt(new, k) = LiveAt(r.keep, k)
    BY <2>1, <2>2 DEF LiveAt
  <2> QED BY <2>1, <2>2, <2>3, <2>4, <2>5
<1>2. s.keep = new
  OBVIOUS
<1> HIDE DEF n, new
<1>3. CASE k \in Live(m)
  <2>1. LiveAt(r.keep, k) = {} /\ OpenAt(r.work, k) = {}
    BY <1>3 DEF Placed
  <2>2. LiveAt(new, k) = {n}
    BY <2>1, <1>1, <1>3
  <2> QED BY <2>1, <2>2, <1>1, <1>2, <1>3 DEF Placed, AsListed
<1>4. CASE k \notin Live(m)
  BY <1>1, <1>2, <1>4 DEF Placed, AsListed
<1> QED BY <1>3, <1>4

\* Segment m has what is live in the segments a and b.
MergeOf(m, a, b) ==
    /\ Live(m) = Live(a) \cup Live(b)
    /\ \A k \in Live(m) : \E n \in {a, b} : k \in Live(n) /\ m.table[k] = n.table[k]

\* Two segments of the next root are merged.
LEMMA MergePlaces ==
    ASSUME NEW r, NEW s, NEW m \in SegmentMeta, r.keep \in Seq(SegmentMeta),
           NEW v \in 1..(Len(r.keep) - 1), s.keep = Splice(r.keep, v, m),
           s.work = r.work, s.toAdd = r.toAdd, s.listing = r.listing,
           MergeOf(m, r.keep[v], r.keep[v + 1]),
           NEW k \in Keys, Placed(r, k), AsListed(r, k)
    PROVE  Placed(s, k) /\ AsListed(s, k)
<1>1. /\ \A g, h \in LiveAt(s.keep, k) : g = h
      /\ \A h \in LiveAt(s.keep, k) : s.keep[h] = m \/ \E g \in LiveAt(r.keep, k) : s.keep[h] = r.keep[g]
      /\ LiveAt(s.keep, k) = {} <=> LiveAt(r.keep, k) = {}
  <2>1. \A g, h \in LiveAt(r.keep, k) : g = h
    BY DEF Placed
  <2>2. Live(m) = Live(r.keep[v]) \cup Live(r.keep[v + 1])
    BY DEF MergeOf
  <2> QED BY <2>1, <2>2, SpliceLive
<1>2. ASSUME NEW h \in LiveAt(s.keep, k) PROVE s.keep[h].table[k].version = r.listing[k]
  <2>1. CASE s.keep[h] = m
    <3>1. k \in Live(m)
      BY <2>1 DEF LiveAt
    <3>2. PICK g \in {v, v + 1} : k \in Live(r.keep[g]) /\ m.table[k] = r.keep[g].table[k]
      BY <3>1 DEF MergeOf
    <3>3. g \in LiveAt(r.keep, k)
      BY <3>2 DEF LiveAt
    <3> QED BY <2>1, <3>2, <3>3 DEF AsListed
  <2> QED BY <2>1, <1>1 DEF AsListed
<1> QED BY <1>1, <1>2 DEF Placed, AsListed

-----------------------------------------------------------------------------
(***************************************************************************)
(* The actions.                                                            *)
(***************************************************************************)

LEMMA RunFacts ==
    ASSUME TypeOK, RootInv, ViewInv, NEW i \in Indexers
    PROVE  /\ run[i] \in Run /\ Quiet(run[i]) /\ RunShows(run[i])
           /\ run[i].work \in Seq(Pair) /\ run[i].keep \in Seq(SegmentMeta)
           /\ run[i].base.segments \in Seq(SegmentMeta) /\ run[i].toAdd \subseteq Keys
           /\ run[i].listing \in [Keys -> Bodies \cup {None}] /\ run[i].dirty \in BOOLEAN
<1>1. run[i] \in Run /\ Quiet(run[i]) /\ RunShows(run[i])
  BY StateFacts DEF Local, ViewInv
<1>2. /\ run[i].work \in Seq(Pair) /\ run[i].keep \in Seq(SegmentMeta) /\ run[i].base \in Root
      /\ run[i].toAdd \subseteq Keys /\ run[i].dirty \in BOOLEAN
      /\ run[i].listing \in [Keys -> Bodies \cup {None}]
  BY <1>1 DEF Run
<1>3. run[i].base.segments \in Seq(SegmentMeta)
  BY <1>2 DEF Root
<1> QED BY <1>1, <1>2, <1>3

\* One run has moved on to s, and the root is as it was.
LEMMA OneShows ==
    ASSUME TypeOK, ViewInv, NEW i \in Indexers, NEW s, RunShows(s),
           run' = [run EXCEPT ![i] = s], root' = root
    PROVE  ViewInv'
<1>1. run'[i] = s /\ \A j \in Indexers \ {i} : run'[j] = run[j]
  BY DEF TypeOK
<1>2. \A j \in Indexers : RunShows(run'[j])
  BY <1>1 DEF ViewInv
<1> QED BY <1>2 DEF ViewInv

\* A run that has no segments in hand.
LEMMA RestingShows ==
    ASSUME NEW s, s.pc \notin {"update", "swap"}, s.work = <<>>, s.keep = <<>>, s.base = Absent
    PROVE  RunShows(s)
<1>1. s.base.segments = <<>>
  BY DEF Absent
<1>2. Indexed(s.base.segments)
  BY <1>1 DEF Indexed, Unique, LiveAt
<1> QED BY <1>2 DEF RunShows

LEMMA IdleShows == RunShows(Idle)
BY RestingShows DEF Idle

LEMMA ViewList ==
    ASSUME TypeOK, RootInv, ViewInv, NEW i \in Indexers, List(i)
    PROVE  ViewInv'
<1>1. PICK rebuild \in BOOLEAN, purge \in PurgeModes :
          run' = [run EXCEPT ![i] = [Idle EXCEPT !.pc = "listed", !.listing = bucket,
                                                 !.rebuild = rebuild, !.purge = purge]]
  BY DEF List
<1> DEFINE s == [Idle EXCEPT !.pc = "listed", !.listing = bucket,
                             !.rebuild = rebuild, !.purge = purge]
<1>2. s.pc = "listed" /\ s.work = <<>> /\ s.keep = <<>> /\ s.base = Absent
  BY DEF Idle
<1>3. run' = [run EXCEPT ![i] = s] /\ root' = root
  BY <1>1 DEF List, store
<1> HIDE DEF s
<1>4. RunShows(s)
  BY <1>2, RestingShows
<1> QED BY <1>3, <1>4, OneShows

LEMMA ViewLoadRoot ==
    ASSUME TypeOK, RootInv, ViewInv, NEW i \in Indexers, LoadRoot(i)
    PROVE  ViewInv'
<1> DEFINE r == run[i]
           s == [r EXCEPT !.pc = "rooted", !.base = root]
<1>1. r \in Run /\ RunShows(r)
  BY RunFacts
<1>2. run' = [run EXCEPT ![i] = s] /\ root' = root
  BY DEF LoadRoot, store
<1>3. s.pc = "rooted" /\ s.base = root /\ s.work = r.work /\ s.keep = r.keep
  BY <1>1 DEF Run
<1> HIDE DEF s, r
<1>4. RunShows(s)
  BY <1>1, <1>3 DEF RunShows, ViewInv
<1> QED BY <1>2, <1>4, OneShows

LEMMA ViewPlan ==
    ASSUME TypeOK, RootInv, ViewInv, NEW i \in Indexers, Plan(i)
    PROVE  ViewInv'
<1> DEFINE r == run[i]
           list == Existing(r)
           s == [r EXCEPT
                   !.pc = "update",
                   !.work = Pairs(list, r.listing),
                   !.toAdd = ToAdd(list, r.listing),
                   !.dirty = \/ ToAdd(list, r.listing) # {}
                             \/ \E j \in DOMAIN list : NewlyDead(list, r.listing, j) # {}
                             \/ r.rebuild \/ r.base.state # "loaded",
                   !.replaced = ToSet(r.base.segments),
                   !.inventory = IF r.base.state = "unreadable"
                                 THEN [NoBlobs EXCEPT !.files = files, !.deads = deads]
                                 ELSE NoBlobs]
<1>1. root' = root
  BY DEF Plan, store
<1>2. CASE UpToDate(r)
  <2>1. run' = [run EXCEPT ![i] = Idle]
    BY <1>2 DEF Plan
  <2> QED BY <2>1, <1>1, IdleShows, OneShows
<1>3. CASE ~UpToDate(r)
  <2>1. r.pc = "rooted" /\ run' = [run EXCEPT ![i] = s]
    BY <1>3 DEF Plan
  <2>2. /\ r \in Run /\ Quiet(r) /\ RunShows(r) /\ r.base.segments \in Seq(SegmentMeta)
        /\ r.listing \in [Keys -> Bodies \cup {None}]
    BY RunFacts
  <2>3. /\ s.pc = "update" /\ s.base = r.base /\ s.keep = r.keep /\ s.listing = r.listing
        /\ s.work = Pairs(list, r.listing) /\ s.toAdd = ToAdd(list, r.listing)
        /\ s.dirty = (\/ ToAdd(list, r.listing) # {}
                      \/ \E j \in DOMAIN list : NewlyDead(list, r.listing, j) # {}
                      \/ r.rebuild \/ r.base.state # "loaded")
    BY <2>2 DEF Run
  <2> HIDE DEF s
  <2>4. (list = <<>> \/ list = r.base.segments) /\ (~r.rebuild => list = r.base.segments)
    BY DEF Existing
  <2> HIDE DEF list, r
  <2>5. list \in Seq(SegmentMeta) /\ Indexed(list)
    <3>1. <<>> \in Seq(SegmentMeta) /\ Indexed(<<>>)
      BY DEF Indexed, Unique, LiveAt
    <3> QED BY <3>1, <2>2, <2>4 DEF RunShows
  <2>6. s.keep = <<>>
    BY <2>1, <2>2, <2>3 DEF Quiet
  <2>7. \A k \in Keys : Placed(s, k) /\ AsListed(s, k)
    BY <2>2, <2>3, <2>5, <2>6, PlanPlaces DEF Indexed
  <2>8. \A h \in DOMAIN s.work : Decoded(s.work[h].meta)
    <3>1. \A h \in DOMAIN s.work : h \in DOMAIN list /\ s.work[h].meta = list[h]
      BY <2>3 DEF Pairs
    <3> QED BY <3>1, <2>5 DEF Indexed
  <2>9. ASSUME ~s.dirty PROVE View(s.base.segments) = s.listing
    <3>1. /\ ToAdd(list, r.listing) = {} /\ list = r.base.segments
          /\ \A j \in DOMAIN list : NewlyDead(list, r.listing, j) = {}
      BY <2>3, <2>4, <2>9
    <3> QED BY <3>1, <2>2, <2>3, <2>5, EmptyDiff DEF Indexed
  <2>10. RunShows(s)
    BY <2>2, <2>3, <2>6, <2>7, <2>8, <2>9 DEF RunShows
  <2> QED BY <2>1, <2>10, <1>1, OneShows
<1> QED BY <1>2, <1>3

\* A run goes on with its update.
LEMMA Updating ==
    ASSUME NEW r, NEW s, RunShows(r), r.pc = "update", s.base = r.base, s.listing = r.listing,
           s.pc \in {"update", "swap"}, s.pc = "swap" => s.work = <<>> /\ s.toAdd = {},
           ~s.dirty => ~r.dirty,
           \A h \in DOMAIN s.work : Decoded(s.work[h].meta),
           \A h \in DOMAIN s.keep : Decoded(s.keep[h]),
           \A k \in Keys : Placed(r, k) /\ AsListed(r, k) => Placed(s, k) /\ AsListed(s, k)
    PROVE  RunShows(s)
BY DEF RunShows

LEMMA TailDecoded ==
    ASSUME NEW w \in Seq(Pair), w # <<>>, \A h \in DOMAIN w : Decoded(w[h].meta)
    PROVE  Decoded(Head(w).meta) /\ \A h \in DOMAIN Tail(w) : Decoded(Tail(w)[h].meta)
BY TailFacts

LEMMA AppendDecoded ==
    ASSUME NEW list \in Seq(SegmentMeta), NEW m \in SegmentMeta, Decoded(m),
           \A h \in DOMAIN list : Decoded(list[h])
    PROVE  \A h \in DOMAIN Append(list, m) : Decoded(Append(list, m)[h])
OBVIOUS

LEMMA ViewDrop ==
    ASSUME TypeOK, RootInv, ViewInv, NEW i \in Indexers, Drop(i)
    PROVE  ViewInv'
<1> DEFINE r == run[i]
           s == [r EXCEPT !.work = Tail(@)]
<1>1. /\ r \in Run /\ RunShows(r) /\ r.work \in Seq(Pair) /\ r.dirty \in BOOLEAN
  BY RunFacts
<1>2. /\ r.pc = "update" /\ r.work # <<>> /\ Head(r.work).dead = Sources(Head(r.work).meta)
      /\ run' = [run EXCEPT ![i] = s] /\ root' = root
  BY DEF Drop, Retiring, IsDropped, NextPair, store
<1>3. /\ s.pc = r.pc /\ s.base = r.base /\ s.work = Tail(r.work) /\ s.keep = r.keep
      /\ s.toAdd = r.toAdd /\ s.listing = r.listing /\ s.dirty = r.dirty
  BY <1>1 DEF Run
<1> HIDE DEF s, r
<1>4. \A k \in Keys : Placed(r, k) /\ AsListed(r, k) => Placed(s, k) /\ AsListed(s, k)
  BY <1>1, <1>2, <1>3, DropPlaces
<1>5. \A h \in DOMAIN s.work : Decoded(s.work[h].meta)
  BY <1>1, <1>2, <1>3, TailDecoded DEF RunShows
<1>6. \A h \in DOMAIN s.keep : Decoded(s.keep[h])
  BY <1>1, <1>3 DEF RunShows
<1>7. RunShows(s)
  BY <1>1, <1>2, <1>3, <1>4, <1>5, <1>6, Updating
<1> QED BY <1>2, <1>7, OneShows

\* The first open segment goes to the next root, as m.
LEMMA Moving ==
    ASSUME NEW r, NEW s, NEW m \in SegmentMeta, RunShows(r), r.work \in Seq(Pair), r.work # <<>>,
           r.keep \in Seq(SegmentMeta), r.pc = "update", s.pc = "update", s.base = r.base,
           s.work = Tail(r.work), s.keep = Append(r.keep, m),
           s.toAdd = r.toAdd, s.listing = r.listing, ~s.dirty => ~r.dirty,
           Live(m) = Sources(Head(r.work).meta) \ Head(r.work).dead,
           \A k \in Live(m) : m.table[k] = Head(r.work).meta.table[k],
           Decoded(m)
    PROVE  RunShows(s)
<1>1. \A k \in Keys : Placed(r, k) /\ AsListed(r, k) => Placed(s, k) /\ AsListed(s, k)
  BY MovePlaces
<1>2. \A h \in DOMAIN s.work : Decoded(s.work[h].meta)
  BY TailDecoded DEF RunShows
<1>3. \A h \in DOMAIN s.keep : Decoded(s.keep[h])
  BY AppendDecoded DEF RunShows
<1> QED BY <1>1, <1>2, <1>3, Updating

LEMMA ViewKeep ==
    ASSUME TypeOK, RootInv, ViewInv, NEW i \in Indexers, Keep(i)
    PROVE  ViewInv'
<1> DEFINE r == run[i]
           p == NextPair(r)
           m == [p.meta EXCEPT !.dead = p.dead]
           q == IF p.dead # p.meta.dead THEN r.replaced \cup {m} ELSE r.replaced
           s == [r EXCEPT !.work = Tail(@), !.keep = Append(@, m), !.replaced = q]
<1>1. /\ r \in Run /\ RunShows(r) /\ r.work \in Seq(Pair) /\ r.keep \in Seq(SegmentMeta)
      /\ r.dirty \in BOOLEAN
  BY RunFacts
<1>2. /\ r.pc = "update" /\ r.work # <<>> /\ run' = [run EXCEPT ![i] = s] /\ root' = root
  BY DEF Keep, Retiring
<1>3. /\ s.pc = r.pc /\ s.base = r.base /\ s.work = Tail(r.work) /\ s.keep = Append(r.keep, m)
      /\ s.toAdd = r.toAdd /\ s.listing = r.listing /\ s.dirty = r.dirty
  BY <1>1 DEF Run
<1>4. p = Head(r.work) /\ p \in Pair
  BY <1>1, <1>2 DEF NextPair
<1> HIDE DEF s, r, q, p
<1>5. m \in SegmentMeta /\ m.table = p.meta.table /\ m.dead = p.dead
  BY <1>4 DEF Pair, SegmentMeta
<1> HIDE DEF m
<1>6. Live(m) = Sources(p.meta) \ p.dead
  BY <1>5 DEF Live, Sources
<1>7. Decoded(m)
  <2>1. Decoded(p.meta)
    BY <1>1, <1>2, <1>4, TailDecoded DEF RunShows
  <2> QED BY <2>1, <1>5 DEF Decoded
<1>8. RunShows(s)
  BY <1>1, <1>2, <1>3, <1>4, <1>5, <1>6, <1>7, Moving
<1> QED BY <1>2, <1>8, OneShows

LEMMA ViewRepack ==
    ASSUME TypeOK, RootInv, ViewInv, NEW i \in Indexers, Repack(i)
    PROVE  ViewInv'
<1> DEFINE r == run[i]
           p == NextPair(r)
           m == NewSegment(MergedTable({p}))
           s == [r EXCEPT !.work = Tail(@), !.keep = Append(@, m), !.replaced = @ \cup {m},
                          !.pending = {m.id}, !.drawn = @ \cup {m.id}, !.dirty = TRUE]
<1>1. /\ r \in Run /\ RunShows(r) /\ r.work \in Seq(Pair) /\ r.keep \in Seq(SegmentMeta)
      /\ nextId \in Nat
  BY RunFacts, StateFacts
<1>2. /\ r.pc = "update" /\ r.work # <<>> /\ run' = [run EXCEPT ![i] = s] /\ root' = root
  BY DEF Repack, Retiring
<1>3. /\ s.pc = r.pc /\ s.base = r.base /\ s.work = Tail(r.work) /\ s.keep = Append(r.keep, m)
      /\ s.toAdd = r.toAdd /\ s.listing = r.listing /\ s.dirty = TRUE
  BY <1>1 DEF Run
<1>4. p = Head(r.work) /\ p \in Pair
  BY <1>1, <1>2 DEF NextPair
<1> HIDE DEF s, r, p
<1>5. /\ DOMAIN MergedTable({p}) = Sources(p.meta) \ p.dead
      /\ \A k \in DOMAIN MergedTable({p}) : MergedTable({p})[k] = p.meta.table[k]
  <2>1. {p} \in SUBSET Pair
    BY <1>4
  <2>2. /\ DOMAIN MergedTable({p}) = UNION {Sources(q.meta) \ q.dead : q \in {p}}
        /\ \A k \in DOMAIN MergedTable({p}) :
              \E q \in {p} : k \in Sources(q.meta) \ q.dead /\ MergedTable({p})[k] = q.meta.table[k]
    BY <2>1, MergedHolds
  <2> QED BY <2>2
<1>6. m \in SegmentMeta
  <2>1. MergedTable({p}) \in Table
    BY <1>4, MergedType
  <2> QED BY <2>1, <1>1, NewSegmentType
<1>7. m.table = MergedTable({p}) /\ m.dead = {}
  BY DEF NewSegment
<1>8. Decoded(m)
  <2>1. Decoded(p.meta)
    BY <1>1, <1>2, <1>4, TailDecoded DEF RunShows
  <2>2. {p} \in SUBSET Pair /\ \A q \in {p} : Decoded(q.meta)
    BY <1>4, <2>1
  <2> QED BY <2>2, MergedDecoded
<1> HIDE DEF m
<1>9. Live(m) = Sources(p.meta) \ p.dead
  BY <1>5, <1>7 DEF Live, Sources
<1>10. \A k \in Live(m) : m.table[k] = p.meta.table[k]
  BY <1>5, <1>7, <1>9
<1>11. RunShows(s)
  BY <1>1, <1>2, <1>3, <1>4, <1>6, <1>8, <1>9, <1>10, Moving
<1> QED BY <1>2, <1>11, OneShows

LEMMA ViewAddShard ==
    ASSUME TypeOK, RootInv, ViewInv, NEW i \in Indexers, AddShard(i)
    PROVE  ViewInv'
<1> DEFINE r == run[i]
<1>1. /\ r \in Run /\ RunShows(r) /\ r.keep \in Seq(SegmentMeta) /\ r.toAdd \subseteq Keys
      /\ r.listing \in [Keys -> Bodies \cup {None}] /\ nextId \in Nat /\ r.dirty \in BOOLEAN
  BY RunFacts, StateFacts
<1>2. PICK shard \in (SUBSET r.toAdd) \ {{}} :
          LET new == NewSegment([k \in shard |-> Fetched(k, r.listing[k])]) IN
          /\ IsFetchable(shard, r.listing)
          /\ run' = [run EXCEPT ![i] =
                   [r EXCEPT !.toAdd = @ \ shard, !.keep = Append(@, new),
                             !.replaced = @ \cup {new},
                             !.pending = {new.id}, !.drawn = @ \cup {new.id}]]
  BY DEF AddShard
<1> DEFINE t == [k \in shard |-> Fetched(k, r.listing[k])]
           m == NewSegment(t)
           s == [r EXCEPT !.toAdd = @ \ shard, !.keep = Append(@, m), !.replaced = @ \cup {m},
                          !.pending = {m.id}, !.drawn = @ \cup {m.id}]
<1>3. /\ r.pc = "update" /\ IsFetchable(shard, r.listing)
      /\ run' = [run EXCEPT ![i] = s] /\ root' = root
  BY <1>2 DEF AddShard
<1>4. /\ s.pc = r.pc /\ s.base = r.base /\ s.work = r.work /\ s.keep = Append(r.keep, m)
      /\ s.toAdd = r.toAdd \ shard /\ s.listing = r.listing /\ s.dirty = r.dirty
  BY <1>1 DEF Run
<1>5. \A k \in shard : k \in Keys /\ k \in r.toAdd /\ r.listing[k] \in Bodies
  BY <1>1 DEF TypeOK
<1>6. m \in SegmentMeta
  <2>1. t \in [shard -> Entry]
    BY <1>5, FetchedType
  <2>2. t \in Table
    BY <1>5, <2>1 DEF Table
  <2> HIDE DEF t
  <2> QED BY <2>2, <1>1, NewSegmentType
<1>7. m.table = t /\ m.dead = {} /\ DOMAIN t = shard
  BY DEF NewSegment
<1>8. \A k \in shard : t[k].version = r.listing[k] /\ (t[k].body # None => t[k].body = r.listing[k])
  BY <1>3 DEF Fetched, IsFetchable
<1> HIDE DEF s, r, t, m
<1>9. Live(m) = shard /\ Documents(m.table) \subseteq shard
  BY <1>7 DEF Live, Sources, Documents
<1>10. Decoded(m)
  BY <1>7, <1>8 DEF Decoded, Documents
<1>11. \A k \in Keys : Placed(r, k) /\ AsListed(r, k) => Placed(s, k) /\ AsListed(s, k)
  <2>1. \A k \in Live(m) : m.table[k].version = r.listing[k]
    BY <1>7, <1>8, <1>9
  <2>2. Live(m) \subseteq r.toAdd /\ s.toAdd = r.toAdd \ Live(m)
    BY <1>4, <1>5, <1>9
  <2> QED BY <2>1, <2>2, <1>1, <1>4, <1>6, BuildPlaces
<1>12. \A h \in DOMAIN s.keep : Decoded(s.keep[h])
  BY <1>1, <1>4, <1>6, <1>10, AppendDecoded DEF RunShows
<1>13. \A h \in DOMAIN s.work : Decoded(s.work[h].meta)
  BY <1>1, <1>4 DEF RunShows
<1>14. RunShows(s)
  BY <1>1, <1>3, <1>4, <1>11, <1>12, <1>13, Updating
<1> QED BY <1>3, <1>14, OneShows

\* What compaction makes of two neighbours.
LEMMA NeighboursMerged ==
    ASSUME NEW list \in Seq(SegmentMeta), NEW v \in Victims(list), NEW m,
           m.table = MergedTable(Neighbours(list, v)), m.dead = {}
    PROVE  MergeOf(m, list[v], list[v + 1])
<1> DEFINE V == Neighbours(list, v)
<1>1. V \in SUBSET Pair
  BY VictimsType
<1>2. /\ DOMAIN m.table = UNION {Sources(p.meta) \ p.dead : p \in V}
      /\ \A k \in DOMAIN m.table :
            \E p \in V : k \in Sources(p.meta) \ p.dead /\ m.table[k] = p.meta.table[k]
  <2>1. m.table = MergedTable(V)
    OBVIOUS
  <2> HIDE DEF V
  <2>2. /\ DOMAIN MergedTable(V) = UNION {Sources(p.meta) \ p.dead : p \in V}
        /\ \A k \in DOMAIN MergedTable(V) :
              \E p \in V : k \in Sources(p.meta) \ p.dead /\ MergedTable(V)[k] = p.meta.table[k]
    BY <1>1, MergedHolds
  <2> QED BY <2>1, <2>2
<1>3. \A p \in V : \E g \in {v, v + 1} : p = [meta |-> list[g], dead |-> list[g].dead]
  BY DEF Neighbours
<1>4. \A g \in {v, v + 1} : [meta |-> list[g], dead |-> list[g].dead] \in V
  BY DEF Neighbours
<1> HIDE DEF V
<1>5. Live(m) = DOMAIN m.table
  BY DEF Live, Sources
<1>6. ASSUME NEW k \in Live(m)
      PROVE  \E g \in {v, v + 1} : k \in Live(list[g]) /\ m.table[k] = list[g].table[k]
  <2>1. PICK p \in V : k \in Sources(p.meta) \ p.dead /\ m.table[k] = p.meta.table[k]
    BY <1>2, <1>5, <1>6
  <2>2. PICK g \in {v, v + 1} : p = [meta |-> list[g], dead |-> list[g].dead]
    BY <1>3, <2>1
  <2>3. p.meta = list[g] /\ p.dead = list[g].dead
    BY <2>2
  <2> QED BY <2>1, <2>3 DEF Live
<1>7. ASSUME NEW g \in {v, v + 1}, NEW k \in Live(list[g]) PROVE k \in Live(m)
  <2> DEFINE p == [meta |-> list[g], dead |-> list[g].dead]
  <2>1. p \in V /\ k \in Sources(p.meta) \ p.dead
    BY <1>4, <1>7 DEF Live
  <2> QED BY <2>1, <1>2, <1>5
<1> QED BY <1>6, <1>7 DEF MergeOf

LEMMA ViewCompact ==
    ASSUME TypeOK, RootInv, ViewInv, NEW i \in Indexers, Compact(i)
    PROVE  ViewInv'
<1> DEFINE r == run[i]
<1>1. /\ r \in Run /\ RunShows(r) /\ r.keep \in Seq(SegmentMeta) /\ nextId \in Nat
  BY RunFacts, StateFacts
<1>2. PICK v \in Victims(r.keep) :
          LET new == NewSegment(MergedTable(Neighbours(r.keep, v))) IN
          run' = [run EXCEPT ![i] =
               [r EXCEPT !.keep = SubSeq(@, 1, v - 1) \o <<new>> \o SubSeq(@, v + 2, Len(@)),
                         !.pending = {new.id}, !.drawn = @ \cup {new.id}, !.dirty = TRUE,
                         !.pc = "swap"]]
  BY DEF Compact
<1> DEFINE m == NewSegment(MergedTable(Neighbours(r.keep, v)))
           keep == SubSeq(r.keep, 1, v - 1) \o <<m>> \o SubSeq(r.keep, v + 2, Len(r.keep))
           s == [r EXCEPT !.keep = keep, !.pending = {m.id}, !.drawn = @ \cup {m.id},
                          !.dirty = TRUE, !.pc = "swap"]
<1>3. /\ r.pc = "update" /\ r.work = <<>> /\ r.toAdd = {}
      /\ run' = [run EXCEPT ![i] = s] /\ root' = root
  BY <1>2 DEF Compact, ReadyToCompact
<1>4. m.table = MergedTable(Neighbours(r.keep, v)) /\ m.dead = {}
  BY DEF NewSegment
<1>5. /\ s.pc = "swap" /\ s.base = r.base /\ s.work = r.work /\ s.keep = keep
      /\ s.toAdd = r.toAdd /\ s.listing = r.listing /\ s.dirty = TRUE
  BY <1>1 DEF Run
<1>6. v \in 1..(Len(r.keep) - 1) /\ Neighbours(r.keep, v) \in SUBSET Pair
  BY <1>1, VictimsType
<1>7. m \in SegmentMeta
  BY <1>1, <1>6, MergedType, NewSegmentType
<1>8. keep = Splice(r.keep, v, m)
  BY DEF Splice
<1>9. Decoded(m)
  <2>1. \A p \in Neighbours(r.keep, v) : \E g \in {v, v + 1} : p.meta = r.keep[g]
    BY DEF Neighbours
  <2>2. v \in DOMAIN r.keep /\ v + 1 \in DOMAIN r.keep
    BY <1>1, <1>6
  <2>3. \A p \in Neighbours(r.keep, v) : Decoded(p.meta)
    BY <2>1, <2>2, <1>1 DEF RunShows
  <2> QED BY <2>3, <1>6, MergedDecoded
<1> HIDE DEF s, r, m, keep
<1>10. MergeOf(m, r.keep[v], r.keep[v + 1])
  BY <1>1, <1>4, NeighboursMerged
<1>11. \A k \in Keys : Placed(r, k) /\ AsListed(r, k) => Placed(s, k) /\ AsListed(s, k)
  <2> SUFFICES ASSUME NEW k \in Keys, Placed(r, k), AsListed(r, k) PROVE Placed(s, k) /\ AsListed(s, k)
    OBVIOUS
  <2>1. s.keep = Splice(r.keep, v, m) /\ s.work = r.work /\ s.toAdd = r.toAdd /\ s.listing = r.listing
    BY <1>5, <1>8
  <2> QED BY <2>1, <1>1, <1>6, <1>7, <1>10, MergePlaces
<1>12. \A h \in DOMAIN s.keep : Decoded(s.keep[h])
  <2>1. \A h \in DOMAIN keep : keep[h] = m \/ \E g \in DOMAIN r.keep : keep[h] = r.keep[g]
    BY <1>1, <1>6, <1>7, <1>8, SpliceIndex
  <2> QED BY <2>1, <1>1, <1>5, <1>9 DEF RunShows
<1>13. RunShows(s)
  BY <1>1, <1>3, <1>5, <1>11, <1>12, Updating
<1> QED BY <1>3, <1>13, OneShows

LEMMA ViewSkipCompact ==
    ASSUME TypeOK, RootInv, ViewInv, NEW i \in Indexers, SkipCompact(i)
    PROVE  ViewInv'
<1> DEFINE r == run[i]
           s == [r EXCEPT !.pc = "swap"]
<1>1. r \in Run /\ RunShows(r)
  BY RunFacts
<1>2. /\ r.pc = "update" /\ r.work = <<>> /\ r.toAdd = {}
      /\ run' = [run EXCEPT ![i] = IF r.dirty THEN s ELSE Idle] /\ root' = root
  BY DEF SkipCompact, ReadyToCompact, store
<1>3. /\ s.pc = "swap" /\ s.base = r.base /\ s.work = r.work /\ s.keep = r.keep
      /\ s.toAdd = r.toAdd /\ s.listing = r.listing /\ s.dirty = r.dirty
  BY <1>1 DEF Run
<1> HIDE DEF s, r
<1>4. RunShows(s)
  <2>1. \A k \in Keys : Placed(r, k) /\ AsListed(r, k) => Placed(s, k) /\ AsListed(s, k)
    BY <1>3 DEF Placed, AsListed
  <2>2. \A h \in DOMAIN s.work : Decoded(s.work[h].meta)
    BY <1>1, <1>3 DEF RunShows
  <2>3. \A h \in DOMAIN s.keep : Decoded(s.keep[h])
    BY <1>1, <1>3 DEF RunShows
  <2> QED BY <2>1, <2>2, <2>3, <1>1, <1>2, <1>3, Updating
<1> QED BY <1>2, <1>4, IdleShows, OneShows

\* A run that only puts files or deletes garbage.
LEMMA ViewSame ==
    ASSUME TypeOK, RootInv, ViewInv, NEW i \in Indexers, NEW s,
           s.pc = run[i].pc, s.base = run[i].base, s.work = run[i].work, s.keep = run[i].keep,
           s.toAdd = run[i].toAdd, s.listing = run[i].listing, s.dirty = run[i].dirty,
           run' = [run EXCEPT ![i] = s], root' = root
    PROVE  ViewInv'
<1>1. RunShows(run[i])
  BY RunFacts
<1>2. RunShows(s)
  BY <1>1 DEF RunShows, Placed, AsListed
<1> QED BY <1>2, OneShows

LEMMA ViewPutFiles ==
    ASSUME TypeOK, RootInv, ViewInv, NEW i \in Indexers, PutFiles(i)
    PROVE  ViewInv'
<1> DEFINE r == run[i]
           s == [r EXCEPT !.pending = {}]
<1>1. r \in Run
  BY RunFacts
<1>2. run' = [run EXCEPT ![i] = s] /\ root' = root
  BY DEF PutFiles
<1>3. /\ s.pc = r.pc /\ s.base = r.base /\ s.work = r.work /\ s.keep = r.keep
      /\ s.toAdd = r.toAdd /\ s.listing = r.listing /\ s.dirty = r.dirty
  BY <1>1 DEF Run
<1> HIDE DEF s
<1> QED BY <1>2, <1>3, ViewSame

LEMMA ViewCollect ==
    ASSUME TypeOK, RootInv, ViewInv, NEW i \in Indexers, NEW left, Collect(i, left), root' = root
    PROVE  ViewInv'
<1> DEFINE r == run[i]
           s == [r EXCEPT !.garbage = left]
<1>1. r \in Run
  BY RunFacts
<1>2. run' = [run EXCEPT ![i] = s]
  BY DEF Collect
<1>3. /\ s.pc = r.pc /\ s.base = r.base /\ s.work = r.work /\ s.keep = r.keep
      /\ s.toAdd = r.toAdd /\ s.listing = r.listing /\ s.dirty = r.dirty
  BY <1>1 DEF Run
<1> HIDE DEF s
<1> QED BY <1>2, <1>3, ViewSame

\* What a run that is about to swap will publish.
LEMMA SwapShows ==
    ASSUME TypeOK, RootInv, ViewInv, NEW i \in Indexers, run[i].pc = "swap"
    PROVE  Indexed(run[i].keep) /\ View(run[i].keep) = run[i].listing
<1> DEFINE r == run[i]
<1>1. /\ RunShows(r) /\ r.keep \in Seq(SegmentMeta) /\ r.listing \in [Keys -> Bodies \cup {None}]
  BY RunFacts
<1>2. r.pc = "swap" /\ r.work = <<>> /\ r.toAdd = {}
  BY <1>1 DEF RunShows
<1> HIDE DEF r
<1>3. \A k \in Keys : Placed(r, k) /\ AsListed(r, k)
  BY <1>1, <1>2 DEF RunShows
<1>4. \A k \in Keys : OpenAt(r.work, k) = {}
  BY <1>2 DEF OpenAt
<1>5. Unique(r.keep)
  BY <1>3 DEF Unique, Placed
<1>6. View(r.keep) = r.listing
  <2>1. \A k \in Keys : r.listing[k] # None => LiveAt(r.keep, k) # {}
    BY <1>2, <1>3, <1>4 DEF Placed
  <2>2. \A k \in Keys : \A h \in LiveAt(r.keep, k) : r.keep[h].table[k].version = r.listing[k]
    BY <1>3 DEF AsListed
  <2> QED BY <2>1, <2>2, <1>1, <1>5, ShowsListing
<1> QED BY <1>1, <1>5, <1>6 DEF Indexed, RunShows, r

LEMMA ViewSwap ==
    ASSUME TypeOK, RootInv, ViewInv, NEW i \in Indexers, Swap(i)
    PROVE  ViewInv'
<1> DEFINE s == [Idle EXCEPT !.pc = "collect", !.garbage = Garbage(run[i])]
<1>1. s.pc = "collect" /\ s.base = Absent /\ s.work = <<>> /\ s.keep = <<>>
  BY DEF Idle
<1>2. run[i].pc = "swap" /\ root' = Loaded(run[i].keep) /\ run' = [run EXCEPT ![i] = s]
  BY DEF Swap
<1> HIDE DEF s
<1>3. RunShows(s)
  BY <1>1, RestingShows
<1>4. run'[i] = s /\ \A j \in Indexers \ {i} : run'[j] = run[j]
  BY <1>2 DEF TypeOK
<1>5. \A j \in Indexers : RunShows(run'[j])
  BY <1>3, <1>4 DEF ViewInv
<1>6. root'.segments = run[i].keep
  BY <1>2 DEF Loaded
<1>7. Indexed(root'.segments)
  BY <1>2, <1>6, SwapShows
<1> QED BY <1>5, <1>7 DEF ViewInv

LEMMA ViewInit == Init => ViewInv
<1> SUFFICES ASSUME Init PROVE ViewInv
  OBVIOUS
<1>1. root.segments = <<>> /\ \A i \in Indexers : run[i] = Idle
  BY DEF Init, Absent, Unreadable
<1>2. Indexed(root.segments)
  BY <1>1 DEF Indexed, Unique, LiveAt
<1> QED BY <1>1, <1>2, IdleShows DEF ViewInv

LEMMA ViewStep ==
    ASSUME TypeOK, RootInv, ViewInv, [Next]_vars
    PROVE  ViewInv'
<1>1. ASSUME UNCHANGED vars PROVE ViewInv'
  BY <1>1 DEF ViewInv, vars, store
<1>2. ASSUME NEW k \in Keys, NEW b \in Bodies \cup {None}, Mutate(k, b) PROVE ViewInv'
  BY <1>2 DEF ViewInv, Mutate, store
<1>3. ASSUME NEW i \in Indexers, List(i) PROVE ViewInv'
  BY <1>3, ViewList
<1>4. ASSUME NEW i \in Indexers, Delete(i) \/ FailDelete(i) PROVE ViewInv'
  <2>1. root' = root /\ \E left : Collect(i, left)
    BY <1>4 DEF Delete, FailDelete, store
  <2> QED BY <2>1, ViewCollect
<1>5. ASSUME NEW i \in Indexers, Abort(i) \/ FailFetch(i) \/ FailMerge(i) \/ LoseRace(i) \/ Finish(i)
      PROVE  ViewInv'
  <2>1. run' = [run EXCEPT ![i] = Idle] /\ root' = root
    BY <1>5 DEF Abort, FailFetch, FailMerge, LoseRace, Finish, store
  <2> QED BY <2>1, IdleShows, OneShows
<1>6. ASSUME NEW i \in Indexers, Step(i) PROVE ViewInv'
  BY <1>4, <1>5, <1>6, ViewLoadRoot, ViewPlan, ViewDrop, ViewKeep, ViewRepack, ViewAddShard,
     ViewPutFiles, ViewCompact, ViewSkipCompact, ViewSwap DEF Step
<1> QED BY <1>1, <1>2, <1>3, <1>4, <1>5, <1>6 DEF Next

\* Whatever runs of update_index overlap, fail or die, every root and every run on
\* its way to one keeps each key in one place with the listed version.
THEOREM ViewInvariant == Spec => []ViewInv
<1>1. Init => ViewInv
  BY ViewInit
<1>2. TypeOK /\ RootInv /\ ViewInv /\ [Next]_vars => ViewInv'
  BY ViewStep
<1> QED BY <1>1, <1>2, TypeCorrect, RootInvariant, PTL DEF Spec

-----------------------------------------------------------------------------
(***************************************************************************)
(* The theorems.                                                           *)
(***************************************************************************)

\* No source is live in two segments of the root, whatever runs overlap: a search
\* reports it once and merge_segments never meets it in two victims.
THEOREM LiveOnce == Spec => []UniqueLive
<1>1. TypeOK /\ ViewInv => UniqueLive
  <2> SUFFICES ASSUME TypeOK, ViewInv, NEW k \in Keys
               PROVE  Cardinality(LiveAt(root.segments, k)) <= 1
    BY DEF UniqueLive
  <2>1. CASE LiveAt(root.segments, k) = {}
    BY <2>1, FS_EmptySet
  <2>2. ASSUME NEW j \in LiveAt(root.segments, k) PROVE Cardinality(LiveAt(root.segments, k)) <= 1
    <3>1. LiveAt(root.segments, k) = {j}
      BY DEF ViewInv, Indexed, Unique
    <3> QED BY <3>1, FS_Singleton
  <2> QED BY <2>1, <2>2
<1> QED BY <1>1, TypeCorrect, ViewInvariant, PTL

\* What a root says was decoded from a version was decoded from that version: the
\* fetch is conditional, and compaction and repacking carry entries over as they are.
THEOREM BodiesAsListed == Spec => []IndexedBodyIsListedBody
<1>1. ViewInv => IndexedBodyIsListedBody
  BY DEF ViewInv, Indexed, Decoded, IndexedBodyIsListedBody, ToSet
<1> QED BY <1>1, ViewInvariant, PTL

\* A run that reports "up to date", at once or after finding nothing to merge, has
\* loaded a root that shows its listing.
THEOREM UpToDateHolds == Spec => []UpToDateIsTrue
<1>1. TypeOK /\ RootInv /\ ViewInv => UpToDateIsTrue
  <2> SUFFICES ASSUME TypeOK, RootInv, ViewInv, NEW i \in Indexers,
                      \/ run[i].pc = "rooted" /\ UpToDate(run[i])
                      \/ ReadyToCompact(run[i]) /\ Mergeable(run[i].keep) = {} /\ ~run[i].dirty
               PROVE  View(run[i].base.segments) = run[i].listing
    BY DEF UpToDateIsTrue
  <2> DEFINE r == run[i]
  <2>1. /\ RunShows(r) /\ r.base.segments \in Seq(SegmentMeta)
        /\ r.listing \in [Keys -> Bodies \cup {None}]
    BY RunFacts
  <2>2. CASE UpToDate(r)
    <3>1. Existing(r) = r.base.segments
      BY <2>2 DEF UpToDate, Existing
    <3>2. /\ ToAdd(r.base.segments, r.listing) = {}
          /\ \A j \in DOMAIN r.base.segments : NewlyDead(r.base.segments, r.listing, j) = {}
      BY <2>2, <3>1 DEF UpToDate
    <3> HIDE DEF r
    <3>3. View(r.base.segments) = r.listing
      BY <3>2, <2>1, EmptyDiff DEF RunShows, Indexed
    <3> QED BY <3>3 DEF r
  <2>3. CASE ReadyToCompact(r) /\ ~r.dirty
    BY <2>1, <2>3 DEF RunShows, ReadyToCompact
  <2> QED BY <2>2, <2>3
<1> QED BY <1>1, TypeCorrect, RootInvariant, ViewInvariant, PTL

\* The state of the snapshot index that a state of this one stands for.
PhaseOf(pc) ==
    CASE pc \in {"idle", "collect"} -> "idle"
      [] pc = "listed" -> "listed"
      [] OTHER -> "looked"

SessionOf(r) == [pc |-> PhaseOf(r.pc), listing |-> r.listing, seen |-> View(r.base.segments)]

EmptyView == [k \in Keys |-> None]

NoSessionOf == [pc |-> "idle", listing |-> EmptyView, seen |-> EmptyView]

LEMMA Phases ==
    /\ PhaseOf("idle") = "idle" /\ PhaseOf("collect") = "idle" /\ PhaseOf("listed") = "listed"
    /\ \A pc \in {"rooted", "update", "swap"} : PhaseOf(pc) = "looked"
BY DEF PhaseOf

\* An empty list shows nothing.
LEMMA EmptyShows == View(<<>>) = EmptyView
BY DEF View, LiveAt, EmptyView

LEMMA RestingSession ==
    ASSUME NEW r, r.pc \in {"idle", "collect"}, r.listing = EmptyView, r.base = Absent
    PROVE  SessionOf(r) = NoSessionOf
BY EmptyShows, Phases DEF SessionOf, NoSessionOf, Absent

LEMMA IdleSession == SessionOf(Idle) = NoSessionOf
BY RestingSession DEF Idle, EmptyView

Sessions == [i \in Indexers |-> SessionOf(run[i])]

\* The actions of the snapshot index, of the state this one stands for.
LEMMA SnapshotActions ==
    /\ Snapshot!Init <=> /\ bucket \in [Keys -> Bodies \cup {None}]
                         /\ View(root.segments) = EmptyView
                         /\ Sessions = [i \in Indexers |-> NoSessionOf]
    /\ Snapshot!Change <=> /\ bucket' \in [Keys -> Bodies \cup {None}]
                           /\ View(root'.segments) = View(root.segments) /\ Sessions' = Sessions
    /\ \A i \in Indexers :
          /\ Snapshot!List(i) <=>
                /\ Sessions[i].pc = "idle"
                /\ Sessions' = [Sessions EXCEPT ![i] = [NoSessionOf EXCEPT !.pc = "listed", !.listing = bucket]]
                /\ bucket' = bucket /\ View(root'.segments) = View(root.segments)
          /\ Snapshot!Look(i) <=>
                /\ Sessions[i].pc = "listed"
                /\ Sessions' = [Sessions EXCEPT ![i] = [Sessions[i] EXCEPT !.pc = "looked", !.seen = View(root.segments)]]
                /\ bucket' = bucket /\ View(root'.segments) = View(root.segments)
          /\ Snapshot!Publish(i) <=>
                /\ Sessions[i].pc = "looked" /\ Sessions[i].seen = View(root.segments)
                /\ View(root'.segments) = Sessions[i].listing
                /\ Sessions' = [Sessions EXCEPT ![i] = NoSessionOf]
                /\ bucket' = bucket
          /\ Snapshot!Leave(i) <=>
                /\ Sessions' = [Sessions EXCEPT ![i] = NoSessionOf]
                /\ bucket' = bucket /\ View(root'.segments) = View(root.segments)
    /\ UNCHANGED Snapshot!vars <=>
          /\ bucket' = bucket /\ View(root'.segments) = View(root.segments) /\ Sessions' = Sessions
BY DEF Snapshot!Init, Snapshot!Contents, Snapshot!Empty, Snapshot!NoSession, Snapshot!Change,
       Snapshot!List, Snapshot!Look, Snapshot!Publish, Snapshot!Leave, Snapshot!vars,
       Sessions, SessionOf, PhaseOf, NoSessionOf, EmptyView

\* A step of run i to s is a step of its session, or none.
LEMMA SessionsStep ==
    ASSUME TypeOK, NEW i \in Indexers, NEW s, run' = [run EXCEPT ![i] = s]
    PROVE  /\ Sessions' = [Sessions EXCEPT ![i] = SessionOf(s)]
           /\ SessionOf(s) = SessionOf(run[i]) => Sessions' = Sessions
           /\ Sessions[i] = SessionOf(run[i])
<1>1. run'[i] = s /\ \A j \in Indexers \ {i} : run'[j] = run[j]
  BY DEF TypeOK
<1>2. Sessions' = [j \in Indexers |-> SessionOf(run'[j])]
  BY DEF Sessions
<1>3. Sessions = [j \in Indexers |-> SessionOf(run[j])]
  BY DEF Sessions
<1> QED BY <1>1, <1>2, <1>3

LEMMA EndImplements ==
    ASSUME TypeOK, NEW i \in Indexers, run' = [run EXCEPT ![i] = Idle], root' = root, bucket' = bucket
    PROVE  Snapshot!Leave(i)
<1>1. Sessions' = [Sessions EXCEPT ![i] = NoSessionOf]
  BY SessionsStep, IdleSession
<1> QED BY <1>1, SnapshotActions

\* The run keeps its listing and the root it loaded, and stays in its phase.
LEMMA SameImplements ==
    ASSUME TypeOK, NEW i \in Indexers, NEW s, run' = [run EXCEPT ![i] = s], root' = root, bucket' = bucket,
           s.listing = run[i].listing, s.base = run[i].base,
           \/ s.pc = run[i].pc
           \/ s.pc \in {"rooted", "update", "swap"} /\ run[i].pc \in {"rooted", "update", "swap"}
    PROVE  UNCHANGED Snapshot!vars
<1>1. SessionOf(s) = SessionOf(run[i])
  BY Phases DEF SessionOf
<1>2. Sessions' = Sessions
  BY <1>1, SessionsStep
<1> QED BY <1>2, SnapshotActions

LEMMA ListImplements ==
    ASSUME TypeOK, RootInv, NEW i \in Indexers, List(i)
    PROVE  Snapshot!List(i)
<1>1. PICK rebuild \in BOOLEAN, purge \in PurgeModes :
          run' = [run EXCEPT ![i] = [Idle EXCEPT !.pc = "listed", !.listing = bucket,
                                                 !.rebuild = rebuild, !.purge = purge]]
  BY DEF List
<1> DEFINE s == [Idle EXCEPT !.pc = "listed", !.listing = bucket,
                             !.rebuild = rebuild, !.purge = purge]
<1>2. s.pc = "listed" /\ s.listing = bucket /\ s.base = Absent
  BY DEF Idle
<1>3. /\ run' = [run EXCEPT ![i] = s] /\ root' = root /\ bucket' = bucket
      /\ run[i].pc = "idle"
  BY <1>1 DEF List, store
<1> HIDE DEF s
<1>4. SessionOf(s) = [NoSessionOf EXCEPT !.pc = "listed", !.listing = bucket]
  <2>1. SessionOf(s) = [pc |-> "listed", listing |-> bucket, seen |-> EmptyView]
    BY <1>2, EmptyShows, Phases DEF SessionOf, Absent
  <2>2. NoSessionOf = [pc |-> "idle", listing |-> EmptyView, seen |-> EmptyView]
    BY DEF NoSessionOf
  <2> DEFINE t == [NoSessionOf EXCEPT !.pc = "listed"]
  <2>3. t = [pc |-> "listed", listing |-> EmptyView, seen |-> EmptyView]
    BY <2>2
  <2>4. [NoSessionOf EXCEPT !.pc = "listed", !.listing = bucket] = [t EXCEPT !.listing = bucket]
    OBVIOUS
  <2> HIDE DEF t
  <2>5. [t EXCEPT !.listing = bucket] = [pc |-> "listed", listing |-> bucket, seen |-> EmptyView]
    BY <2>3
  <2> QED BY <2>1, <2>4, <2>5
<1>5. SessionOf(run[i]).pc = "idle"
  BY <1>3, Phases DEF SessionOf
<1>6. /\ Sessions' = [Sessions EXCEPT ![i] = SessionOf(s)]
      /\ Sessions[i] = SessionOf(run[i])
  BY <1>3, SessionsStep
<1> QED BY <1>3, <1>4, <1>5, <1>6, SnapshotActions

LEMMA LookImplements ==
    ASSUME TypeOK, RootInv, NEW i \in Indexers, LoadRoot(i)
    PROVE  Snapshot!Look(i)
<1> DEFINE r == run[i]
           s == [r EXCEPT !.pc = "rooted", !.base = root]
<1>1. r \in Run
  BY StateFacts
<1>2. r.pc = "listed" /\ run' = [run EXCEPT ![i] = s] /\ root' = root /\ bucket' = bucket
  BY DEF LoadRoot, store
<1>3. s.pc = "rooted" /\ s.base = root /\ s.listing = r.listing
  BY <1>1 DEF Run
<1>4. Sessions' = [Sessions EXCEPT ![i] = SessionOf(s)] /\ Sessions[i] = SessionOf(r)
  BY <1>2, SessionsStep
<1> HIDE DEF s, r
<1>5. SessionOf(s) = [SessionOf(r) EXCEPT !.pc = "looked", !.seen = View(root.segments)]
  <2>1. SessionOf(s) = [pc |-> "looked", listing |-> r.listing, seen |-> View(root.segments)]
    BY <1>3, Phases DEF SessionOf
  <2>2. SessionOf(r) = [pc |-> PhaseOf(r.pc), listing |-> r.listing, seen |-> View(r.base.segments)]
    BY DEF SessionOf
  <2> DEFINE q == SessionOf(r)
             t == [q EXCEPT !.pc = "looked"]
             v == View(root.segments)
  <2> HIDE DEF q, v
  <2>3. t = [pc |-> "looked", listing |-> r.listing, seen |-> View(r.base.segments)]
    BY <2>2 DEF q
  <2>4. [q EXCEPT !.pc = "looked", !.seen = v] = [t EXCEPT !.seen = v]
    OBVIOUS
  <2> HIDE DEF t
  <2>5. [t EXCEPT !.seen = v] = [pc |-> "looked", listing |-> r.listing, seen |-> v]
    BY <2>3
  <2> QED BY <2>1, <2>4, <2>5 DEF q, v
<1>6. SessionOf(r).pc = "listed"
  BY <1>2, Phases DEF SessionOf
<1> QED BY <1>2, <1>4, <1>5, <1>6, SnapshotActions

\* The one step that changes what searches see.
LEMMA SwapImplements ==
    ASSUME TypeOK, RootInv, ViewInv, NEW i \in Indexers, Swap(i)
    PROVE  Snapshot!Publish(i)
<1> DEFINE s == [Idle EXCEPT !.pc = "collect", !.garbage = Garbage(run[i])]
<1>1. s.pc = "collect" /\ s.base = Absent /\ s.listing = EmptyView
  BY DEF Idle, EmptyView
<1>2. /\ run[i].pc = "swap" /\ run[i].base = root /\ root' = Loaded(run[i].keep)
      /\ run' = [run EXCEPT ![i] = s] /\ bucket' = bucket
  BY DEF Swap, CanSwap
<1> HIDE DEF s
<1>3. SessionOf(s) = NoSessionOf
  BY <1>1, RestingSession
<1>4. /\ SessionOf(run[i]).pc = "looked" /\ SessionOf(run[i]).seen = View(root.segments)
      /\ SessionOf(run[i]).listing = run[i].listing
  BY <1>2, Phases DEF SessionOf
<1>5. View(root'.segments) = run[i].listing
  BY <1>2, SwapShows DEF Loaded
<1>6. Sessions' = [Sessions EXCEPT ![i] = SessionOf(s)] /\ Sessions[i] = SessionOf(run[i])
  BY <1>2, SessionsStep
<1> QED BY <1>2, <1>3, <1>4, <1>5, <1>6, SnapshotActions

\* Every other step of a run changes nothing that the snapshot index shows, or ends
\* the run.
LEMMA WorkImplements ==
    ASSUME TypeOK, RootInv, NEW i \in Indexers,
           \/ Plan(i) \/ Drop(i) \/ Keep(i) \/ Repack(i) \/ AddShard(i) \/ PutFiles(i)
           \/ Compact(i) \/ SkipCompact(i) \/ Delete(i) \/ FailDelete(i)
    PROVE  Snapshot!Leave(i) \/ UNCHANGED Snapshot!vars
<1> DEFINE r == run[i]
<1>1. r \in Run
  BY StateFacts
<1>2. root' = root /\ bucket' = bucket
  BY DEF Plan, Drop, Keep, Repack, AddShard, PutFiles, Compact, SkipCompact, Delete, FailDelete, store
<1>3. CASE run' = [run EXCEPT ![i] = Idle]
  BY <1>2, <1>3, EndImplements
<1>4. ASSUME NEW s, run' = [run EXCEPT ![i] = s], s.listing = r.listing, s.base = r.base,
             \/ s.pc = r.pc
             \/ s.pc \in {"rooted", "update", "swap"} /\ r.pc \in {"rooted", "update", "swap"}
      PROVE  UNCHANGED Snapshot!vars
  BY <1>2, <1>4, SameImplements
<1>5. ASSUME NEW w, NEW k, NEW t, NEW d, NEW q, NEW v,
             r.pc = "rooted",
             run' = [run EXCEPT ![i] = [r EXCEPT !.pc = "update", !.work = w, !.toAdd = t, !.dirty = d,
                                                 !.replaced = q, !.inventory = v]]
      PROVE  UNCHANGED Snapshot!vars
  BY <1>1, <1>4, <1>5 DEF Run
<1>6. CASE Plan(i)
  <2>1. CASE UpToDate(r)
    BY <2>1, <1>3, <1>6 DEF Plan
  <2>2. CASE ~UpToDate(r)
    BY <2>2, <1>5, <1>6 DEF Plan
  <2> QED BY <2>1, <2>2
<1>7. CASE Drop(i) \/ Keep(i) \/ Repack(i)
  BY <1>1, <1>4, <1>7 DEF Drop, Keep, Repack, Run
<1>8. CASE AddShard(i)
  BY <1>1, <1>4, <1>8 DEF AddShard, Run
<1>9. CASE Compact(i)
  BY <1>1, <1>4, <1>9 DEF Compact, ReadyToCompact, Run
<1>10. CASE SkipCompact(i)
  BY <1>1, <1>3, <1>4, <1>10 DEF SkipCompact, ReadyToCompact, Run
<1>11. CASE PutFiles(i)
  BY <1>1, <1>4, <1>11 DEF PutFiles, Run
<1>12. CASE Delete(i) \/ FailDelete(i)
  <2>1. PICK left : Collect(i, left)
    BY <1>12 DEF Delete, FailDelete
  <2> QED BY <2>1, <1>1, <1>4 DEF Collect, Run
<1> QED BY <1>6, <1>7, <1>8, <1>9, <1>10, <1>11, <1>12

LEMMA ImplementsStep ==
    ASSUME TypeOK, RootInv, ViewInv, [Next]_vars
    PROVE  [Snapshot!Next]_Snapshot!vars
<1>1. ASSUME UNCHANGED vars PROVE UNCHANGED Snapshot!vars
  BY <1>1, SnapshotActions DEF vars, store, Sessions
<1>2. ASSUME NEW k \in Keys, NEW b \in Bodies \cup {None}, Mutate(k, b) PROVE Snapshot!Change
  <2>1. root' = root /\ run' = run /\ bucket' = [bucket EXCEPT ![k] = b]
    BY <1>2 DEF Mutate, store
  <2>2. bucket' \in [Keys -> Bodies \cup {None}]
    BY <2>1 DEF TypeOK
  <2> QED BY <2>1, <2>2, SnapshotActions DEF Sessions
<1>3. ASSUME NEW i \in Indexers, Abort(i) \/ FailFetch(i) \/ FailMerge(i) \/ LoseRace(i) \/ Finish(i)
      PROVE  Snapshot!Leave(i)
  <2>1. run' = [run EXCEPT ![i] = Idle] /\ root' = root /\ bucket' = bucket
    BY <1>3 DEF Abort, FailFetch, FailMerge, LoseRace, Finish, store
  <2> QED BY <2>1, EndImplements
<1>4. ASSUME NEW i \in Indexers, Step(i) \/ List(i) \/ FailDelete(i) \/ Abort(i)
      PROVE  \/ Snapshot!List(i) \/ Snapshot!Look(i) \/ Snapshot!Publish(i) \/ Snapshot!Leave(i)
             \/ UNCHANGED Snapshot!vars
  BY <1>3, <1>4, ListImplements, LookImplements, SwapImplements, WorkImplements DEF Step
<1> QED BY <1>1, <1>2, <1>4 DEF Next, Snapshot!Next

\* The segmented index implements the snapshot index: for any number of runs that
\* overlap, compact, repack, fail and die, what searches see changes in one step,
\* from the snapshot a run loaded to the listing that run took.
THEOREM SnapshotImplemented == Spec => ImplementsSnapshot
<1>1. Init => Snapshot!Init
  <2> SUFFICES ASSUME Init PROVE Snapshot!Init
    OBVIOUS
  <2>1. root.segments = <<>> /\ run = [i \in Indexers |-> Idle] /\ bucket \in [Keys -> Bodies \cup {None}]
    BY DEF Init, Absent, Unreadable
  <2>2. Sessions = [i \in Indexers |-> NoSessionOf]
    BY <2>1, IdleSession DEF Sessions
  <2> QED BY <2>1, <2>2, EmptyShows, SnapshotActions
<1>2. TypeOK /\ RootInv /\ ViewInv /\ [Next]_vars => [Snapshot!Next]_Snapshot!vars
  BY ImplementsStep
<1> QED BY <1>1, <1>2, TypeCorrect, RootInvariant, ViewInvariant, PTL
        DEF Spec, ImplementsSnapshot, Snapshot!Spec
=============================================================================
