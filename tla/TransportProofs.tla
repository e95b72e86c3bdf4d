--------------------------- MODULE TransportProofs ---------------------------
(***************************************************************************)
(* Proofs about reads of several parts, the blocks of packs that workers    *)
(* share, the batches of a search and the uploads of blobs.                 *)
(***************************************************************************)
EXTENDS RangedRead, PackBlocks, SearchBatch, BlobUpload, FiniteSetTheorems, SequenceTheorems,
        WellFoundedInduction, TLAPS

(***************************************************************************)
(* Ranged reads.                                                           *)
(***************************************************************************)

ReadSpec == ReadInit /\ [][ReadNext \/ StartListing \/ ListPage]_<<readVars, listVars>>

\* A read of several parts that pins no version compares those it gets.
Compares == pinned = 0 /\ Cardinality(Parts) # 1

\* The inductive invariant behind OneVersion: a pinned read gets nothing but the
\* pinned version, one that compares hands over nothing but the common one, and
\* before a read has begun nothing has come.
ReadInv ==
    /\ newest \in 1..MaxVersion /\ stored \in 0..newest /\ pinned \in 0..newest
    /\ got \in [Parts -> 0..MaxVersion]
    /\ read = "none" => \A p \in Parts : got[p] = 0
    /\ pinned # 0 => \A p \in Parts : got[p] \in {0, pinned}
    /\ filled \subseteq Parts
    /\ \A p \in filled : got[p] # 0 /\ (Compares => got[p] = common)
    /\ read = "whole" => filled = Parts

LEMMA ReadStep ==
    ASSUME ReadInv, [ReadNext \/ StartListing \/ ListPage]_<<readVars, listVars>>
    PROVE  ReadInv'
<1> USE RangedReadAssumption
<1>1. CASE StartRead
  BY <1>1 DEF StartRead, ReadInv, Compares
<1>2. CASE Overwrite
  BY <1>2 DEF Overwrite, ReadInv, Compares
<1>3. CASE DeleteObject
  BY <1>3 DEF DeleteObject, ReadInv, Compares
<1>4. ASSUME NEW p \in Parts, AskPart(p) PROVE ReadInv'
  BY <1>4 DEF AskPart, ReadInv, Compares
<1>5. ASSUME NEW p \in Parts, AnswerPart(p) PROVE ReadInv'
  <2>1. CASE stored = 0 \/ ~Served
    BY <1>5, <2>1 DEF AnswerPart, ReadInv, Compares
  <2>2. CASE ~(stored = 0 \/ ~Served)
    <3>1. got' = [got EXCEPT ![p] = stored] /\ got[p] = 0 /\ read = "reading"
          /\ UNCHANGED <<stored, newest, pinned, filled, common, read>>
      BY <1>5, <2>2 DEF AnswerPart
    <3>2. stored \in 1..MaxVersion /\ p \notin filled
      BY <2>2, <3>1 DEF ReadInv
    <3>3. pinned \in {0, stored}
      BY <2>2 DEF Served
    <3> QED BY <3>1, <3>2, <3>3 DEF ReadInv, Compares
  <2> QED BY <2>1, <2>2
<1>6. ASSUME NEW p \in Parts, ReceivePart(p) PROVE ReadInv'
  <2>1. PICK version \in 1..MaxVersion :
          /\ got[p] = version
          /\ IF Agrees(version)
             THEN /\ filled' = filled \cup {p}
                  /\ common' = IF common = 0 THEN version ELSE common
                  /\ read' = IF filled' = Parts THEN "whole" ELSE read
             ELSE read' = "stale" /\ UNCHANGED <<filled, common>>
    BY <1>6 DEF ReceivePart
  <2>2. read = "reading" /\ UNCHANGED <<stored, newest, pinned, got>>
    BY <1>6 DEF ReceivePart
  <2>3. CASE Agrees(version)
    <3>1. ASSUME Compares PROVE common \in {0, version}
      BY <2>3, <3>1 DEF Agrees, Compares
    <3>2. ASSUME NEW q \in filled' PROVE got[q] # 0 /\ (Compares => got[q] = common')
      <4>1. got \in [Parts -> 0..MaxVersion] /\ filled \subseteq Parts
        BY DEF ReadInv
      <4>2. CASE q = p
        BY <2>1, <2>3, <3>1, <4>2
      <4>3. CASE q \in filled
        BY <2>1, <2>3, <3>1, <4>1, <4>3 DEF ReadInv
      <4> QED BY <2>1, <2>3, <3>2, <4>2, <4>3
    <3> QED BY <2>1, <2>2, <2>3, <3>2 DEF ReadInv, Compares
  <2>4. CASE ~Agrees(version)
    BY <2>1, <2>2, <2>4 DEF ReadInv, Compares
  <2> QED BY <2>3, <2>4
<1>7. ASSUME UNCHANGED readVars PROVE ReadInv'
  BY <1>7 DEF readVars, ReadInv, Compares
<1>8. CASE StartListing \/ ListPage
  BY <1>7, <1>8 DEF StartListing, ListPage
<1> QED BY <1>1, <1>2, <1>3, <1>4, <1>5, <1>6, <1>7, <1>8 DEF ReadNext

LEMMA WholeIsOneVersion == ReadInv => OneVersion
<1> SUFFICES ASSUME ReadInv, read = "whole"
             PROVE  \E version \in 1..MaxVersion :
                        (\A p \in Parts : got[p] = version) /\ pinned \in {0, version}
  BY DEF OneVersion
<1>1. /\ filled = Parts /\ \A p \in Parts : got[p] \in 1..MaxVersion
      /\ \A p \in Parts : Compares => got[p] = common
  BY RangedReadAssumption DEF ReadInv
<1>2. PICK x \in Parts : TRUE
  BY RangedReadAssumption
<1>3. ASSUME NEW p \in Parts PROVE got[p] = got[x]
  <2>1. CASE pinned # 0
    BY <1>1, <1>2, <2>1 DEF ReadInv
  <2>2. CASE pinned = 0 /\ Cardinality(Parts) = 1
    <3>1. \E y : Parts = {y}
      BY <2>2, RangedReadAssumption, FS_Singleton
    <3> QED BY <1>2, <3>1
  <2>3. CASE Compares
    BY <1>1, <1>2, <2>3
  <2> QED BY <2>1, <2>2, <2>3 DEF Compares
<1>4. pinned \in {0, got[x]}
  BY <1>1, <1>2 DEF ReadInv
<1> QED BY <1>1, <1>2, <1>3, <1>4

\* What get_file, get_ranges and fetch_source return is one version of the object,
\* the pinned one if there is one, for any number of parts, any window and any
\* interleaving with overwrites and deletions.
THEOREM ReadsOneVersion == ReadSpec => []OneVersion
<1>1. ReadInit => ReadInv
  BY RangedReadAssumption DEF ReadInit, ReadInv, Compares
<1>2. ReadInv /\ [ReadNext \/ StartListing \/ ListPage]_<<readVars, listVars>> => ReadInv'
  BY ReadStep
<1> QED BY <1>1, <1>2, WholeIsOneVersion, PTL DEF ReadSpec

-----------------------------------------------------------------------------
(***************************************************************************)
(* Shared blocks.                                                          *)
(***************************************************************************)

BlocksSpec == BlocksInit /\ [][BlocksNext]_blockVars

LoaderStates ==
    [at : {"start", "look", "wait", "load", "drop", "end"}, wants : SUBSET PackBlockIds,
     claimed : SUBSET PackBlockIds, left : SUBSET PackBlockIds, result : {"none", "ok", "error"}]

BlocksType ==
    /\ slots \in [PackBlockIds -> {"none", "loading", "good"}]
    /\ onDisk \in [PackBlockIds -> {"none", "good", "bad"}]
    /\ loader \in [Loaders -> LoaderStates]

\* Where a worker is tells what it claims.
ClaimsOf(q) ==
    /\ q.at = "load" => q.left \subseteq q.claimed
    /\ q.at \notin {"load", "drop"} => q.claimed = {}

\* No block is claimed twice, a claimed block is loading or ready, and one that is
\* loading is claimed.
OneClaim ==
    /\ \A l, m \in Loaders : l # m => loader[l].claimed \cap loader[m].claimed = {}
    /\ \A l \in Loaders : \A b \in loader[l].claimed : slots[b] # "none"
    /\ \A b \in PackBlockIds : slots[b] = "loading" => \E l \in Loaders : b \in loader[l].claimed

\* The inductive invariant behind BlocksSound.
BlocksInv ==
    /\ BlocksType
    /\ \A l \in Loaders : ClaimsOf(loader[l])
    /\ OneClaim
    /\ OkMeansReady

\* Worker l goes on as q with the claims it has, and blocks that were loading may be
\* ready now.
LEMMA LoaderMoves ==
    ASSUME BlocksInv, NEW l \in Loaders, NEW q \in LoaderStates, loader' = [loader EXCEPT ![l] = q],
           slots' \in [PackBlockIds -> {"none", "loading", "good"}],
           \A b \in PackBlockIds : slots'[b] # slots[b] => slots[b] = "loading" /\ slots'[b] = "good",
           onDisk' \in [PackBlockIds -> {"none", "good", "bad"}],
           q.claimed = loader[l].claimed, ClaimsOf(q),
           q.result = "ok" => \A b \in q.wants : slots'[b] = "good"
    PROVE  BlocksInv'
<1>1. BlocksType'
  BY DEF BlocksInv, BlocksType
<1>2. ASSUME NEW m \in Loaders PROVE loader'[m] = IF m = l THEN q ELSE loader[m]
  BY DEF BlocksInv, BlocksType
<1>3. ASSUME NEW m \in Loaders
      PROVE  loader'[m].claimed = loader[m].claimed /\ ClaimsOf(loader'[m])
  BY <1>2 DEF BlocksInv
<1>4. OneClaim'
  <2>1. \A b \in PackBlockIds : slots[b] # "none" => slots'[b] # "none"
    OBVIOUS
  <2>2. \A b \in PackBlockIds : slots'[b] = "loading" => slots[b] = "loading"
    OBVIOUS
  <2>3. \A m \in Loaders : loader[m].claimed \subseteq PackBlockIds
    BY DEF BlocksInv, BlocksType, LoaderStates
  <2> QED BY <1>3, <2>1, <2>2, <2>3 DEF BlocksInv, OneClaim
<1>5. ASSUME NEW m \in Loaders, loader'[m].result = "ok", NEW b \in loader'[m].wants PROVE IsReady(b)'
  <2>1. CASE m = l
    BY <1>2, <1>5, <2>1 DEF IsReady
  <2>2. CASE m # l
    <3>1. loader'[m] = loader[m]
      BY <1>2, <2>2
    <3>2. IsReady(b) /\ b \in PackBlockIds
      BY <1>5, <3>1 DEF BlocksInv, BlocksType, OkMeansReady, LoaderStates
    <3> QED BY <3>2 DEF IsReady
  <2> QED BY <2>1, <2>2
<1> QED BY <1>1, <1>3, <1>4, <1>5 DEF BlocksInv, OkMeansReady

\* A run of blocks that is stored is the loader's own.
LEMMA RunIsLeft == ASSUME NEW S PROVE NextRun(S) \subseteq S
BY DEF NextRun

LEMMA BlocksStep ==
    ASSUME BlocksInv, [BlocksNext]_blockVars
    PROVE  BlocksInv'
<1>0. ASSUME NEW l \in Loaders
      PROVE  loader[l] \in LoaderStates /\ ClaimsOf(loader[l])
  BY DEF BlocksInv, BlocksType
<1>t. BlocksType /\ DOMAIN loader = Loaders
  BY DEF BlocksInv, BlocksType
<1>r. ASSUME NEW b \in PackBlockIds PROVE IsReady(b) <=> slots[b] = "good"
  BY <1>t DEF BlocksType, IsReady
<1>1. ASSUME NEW l \in Loaders, NEW ids \in SUBSET PackBlockIds, CallLoad(l, ids) PROVE BlocksInv'
  <2> DEFINE q == [loader[l] EXCEPT !.at = IF ids = {} THEN "end" ELSE "look", !.wants = ids,
                                    !.result = IF ids = {} THEN "ok" ELSE "none"]
  <2>1. loader' = [loader EXCEPT ![l] = q] /\ UNCHANGED <<slots, onDisk>> /\ loader[l].at = "start"
    BY <1>1, <1>t DEF CallLoad
  <2>2. q \in LoaderStates /\ q.claimed = loader[l].claimed /\ q.at \in {"end", "look"} /\ q.wants = ids
        /\ (q.result = "ok" => ids = {})
    BY <1>0 DEF LoaderStates
  <2> HIDE DEF q
  <2>3. ClaimsOf(q)
    BY <1>0, <2>1, <2>2 DEF ClaimsOf
  <2>4. q.result = "ok" => \A b \in q.wants : slots'[b] = "good"
    BY <2>2
  <2> QED BY <1>t, <2>1, <2>2, <2>3, <2>4, LoaderMoves DEF BlocksType
<1>2. ASSUME NEW l \in Loaders, AllReady(l) PROVE BlocksInv'
  <2> DEFINE q == [loader[l] EXCEPT !.at = "end", !.result = "ok"]
  <2>1. loader' = [loader EXCEPT ![l] = q] /\ UNCHANGED <<slots, onDisk>> /\ loader[l].at = "look" /\ HasAll(l)
    BY <1>2, <1>t DEF AllReady
  <2>2. q \in LoaderStates /\ q.claimed = loader[l].claimed /\ q.at = "end" /\ q.wants = loader[l].wants
    BY <1>0 DEF LoaderStates
  <2> HIDE DEF q
  <2>3. ClaimsOf(q)
    BY <1>0, <2>1, <2>2 DEF ClaimsOf
  <2>4. q.result = "ok" => \A b \in q.wants : slots'[b] = "good"
    BY <1>0, <1>r, <2>1, <2>2 DEF HasAll, LoaderStates
  <2> QED BY <1>t, <2>1, <2>2, <2>3, <2>4, LoaderMoves DEF BlocksType
<1>3. ASSUME NEW l \in Loaders, Wait(l) PROVE BlocksInv'
  <2> DEFINE q == [loader[l] EXCEPT !.at = "wait"]
  <2>1. loader' = [loader EXCEPT ![l] = q] /\ UNCHANGED <<slots, onDisk>> /\ loader[l].at = "look"
    BY <1>3, <1>t DEF Wait
  <2>2. /\ q \in LoaderStates /\ q.claimed = loader[l].claimed /\ q.at = "wait"
        /\ q.wants = loader[l].wants /\ q.result = loader[l].result
    BY <1>0 DEF LoaderStates
  <2> HIDE DEF q
  <2>3. ClaimsOf(q)
    BY <1>0, <2>1, <2>2 DEF ClaimsOf
  <2>4. q.result = "ok" => \A b \in q.wants : slots'[b] = "good"
    BY <1>0, <1>r, <2>1, <2>2 DEF BlocksInv, OkMeansReady, LoaderStates
  <2> QED BY <1>t, <2>1, <2>2, <2>3, <2>4, LoaderMoves DEF BlocksType
<1>4. ASSUME NEW l \in Loaders, Claim(l) PROVE BlocksInv'
  <2> DEFINE claimed == {b \in loader[l].wants : ~IsReady(b)}
             q == [loader[l] EXCEPT !.at = "load", !.claimed = claimed, !.left = claimed]
  <2>1. /\ loader' = [loader EXCEPT ![l] = q] /\ UNCHANGED onDisk /\ loader[l].at = "look"
        /\ slots' = [b \in PackBlockIds |-> IF b \in claimed THEN "loading" ELSE slots[b]]
    BY <1>4, <1>t DEF Claim
  <2>2. claimed \subseteq PackBlockIds /\ \A b \in claimed : slots[b] = "none"
    BY <1>0, <1>4, <1>r, <1>t DEF Claim, MustWait, LoaderStates, BlocksType
  <2> HIDE DEF claimed
  <2>3. /\ q \in LoaderStates /\ q.claimed = claimed /\ q.at = "load" /\ q.left = claimed
        /\ q.wants = loader[l].wants /\ q.result = loader[l].result
    BY <1>0, <2>2 DEF LoaderStates
  <2> HIDE DEF q
  <2>4. loader[l].claimed = {}
    BY <1>0, <2>1 DEF ClaimsOf
  <2>5. BlocksType'
    BY <1>t, <2>1, <2>2, <2>3 DEF BlocksType
  <2>6. ASSUME NEW m \in Loaders PROVE loader'[m] = IF m = l THEN q ELSE loader[m]
    BY <1>t, <2>1
  <2>7. \A m \in Loaders : ClaimsOf(loader'[m])
    BY <1>0, <2>3, <2>6 DEF ClaimsOf
  <2>8. ASSUME NEW m \in Loaders PROVE loader[m].claimed \cap claimed = {} /\ loader[m].claimed \subseteq PackBlockIds
    BY <1>0, <2>2 DEF BlocksInv, OneClaim, LoaderStates
  <2>9. OneClaim'
    <3>1. ASSUME NEW m \in Loaders, NEW n \in Loaders, m # n
          PROVE  loader'[m].claimed \cap loader'[n].claimed = {}
      BY <2>3, <2>6, <2>8, <3>1 DEF BlocksInv, OneClaim
    <3>2. ASSUME NEW m \in Loaders, NEW b \in loader'[m].claimed PROVE slots'[b] # "none"
      BY <2>1, <2>2, <2>3, <2>6, <2>8, <3>2 DEF BlocksInv, OneClaim
    <3>3. ASSUME NEW b \in PackBlockIds, slots'[b] = "loading" PROVE \E m \in Loaders : b \in loader'[m].claimed
      <4>1. CASE b \in claimed
        BY <2>3, <2>6, <4>1
      <4>2. CASE b \notin claimed
        <5>1. PICK m \in Loaders : b \in loader[m].claimed
          BY <2>1, <3>3, <4>2 DEF BlocksInv, OneClaim
        <5> QED BY <2>4, <2>6, <5>1
      <4> QED BY <4>1, <4>2
    <3> QED BY <3>1, <3>2, <3>3 DEF OneClaim
  <2>10. ASSUME NEW m \in Loaders, loader'[m].result = "ok", NEW b \in loader'[m].wants PROVE IsReady(b)'
    <3>1. loader[m].result = "ok" /\ b \in loader[m].wants
      BY <2>3, <2>6, <2>10
    <3>2. b \in PackBlockIds /\ slots[b] = "good"
      BY <1>0, <1>r, <3>1 DEF BlocksInv, OkMeansReady, LoaderStates
    <3>3. slots'[b] = "good"
      BY <2>1, <2>2, <3>2
    <3> QED BY <3>3 DEF IsReady
  <2> QED BY <2>5, <2>7, <2>9, <2>10 DEF BlocksInv, OkMeansReady
\* A run was visited: the worker goes on with what is left.
<1>5. ASSUME NEW l \in Loaders, NEW disk, NEW run, run \subseteq loader[l].left, loader[l].at = "load",
             \A b \in run : disk[b] = "good", StoreReady(run, disk),
             loader' = [loader EXCEPT ![l].left = @ \ run],
             onDisk' \in [PackBlockIds -> {"none", "good", "bad"}]
      PROVE  BlocksInv'
  <2> DEFINE q == [loader[l] EXCEPT !.left = @ \ run]
  <2>1. loader' = [loader EXCEPT ![l] = q]
    BY <1>5, <1>t
  <2>2. /\ q \in LoaderStates /\ q.claimed = loader[l].claimed /\ q.at = "load"
        /\ q.left = loader[l].left \ run
        /\ q.wants = loader[l].wants /\ q.result = loader[l].result
    BY <1>0, <1>5 DEF LoaderStates
  <2> HIDE DEF q
  <2>3. ClaimsOf(q)
    BY <1>0, <1>5, <2>2 DEF ClaimsOf
  <2>4. /\ slots' \in [PackBlockIds -> {"none", "loading", "good"}]
        /\ \A b \in PackBlockIds : slots'[b] # slots[b] => slots[b] = "loading" /\ slots'[b] = "good"
    BY <1>5, <1>t DEF StoreReady, BlocksType
  <2>5. q.result = "ok" => \A b \in q.wants : slots'[b] = "good"
    BY <1>0, <1>r, <2>2, <2>4 DEF BlocksInv, OkMeansReady, LoaderStates
  <2> QED BY <1>5, <2>1, <2>2, <2>3, <2>4, <2>5, LoaderMoves
<1>6. ASSUME NEW l \in Loaders, VisitCached(l) PROVE BlocksInv'
  <2> DEFINE run == NextRun(loader[l].left)
  <2>1. /\ run \subseteq loader[l].left /\ loader[l].at = "load" /\ StoreReady(run, onDisk)
        /\ loader' = [loader EXCEPT ![l].left = @ \ run] /\ onDisk' = onDisk
        /\ \A b \in run : onDisk[b] = "good"
    BY <1>6, RunIsLeft DEF VisitCached, Cached
  <2> HIDE DEF run
  <2> QED BY <1>5, <1>t, <2>1 DEF BlocksType
<1>7. ASSUME NEW l \in Loaders, NEW wrote \in SUBSET PackBlockIds, VisitFetched(l, wrote) PROVE BlocksInv'
  <2> DEFINE run == NextRun(loader[l].left)
             disk == [b \in run |-> "good"]
  <2>1. /\ run \subseteq loader[l].left /\ loader[l].at = "load" /\ StoreReady(run, disk)
        /\ loader' = [loader EXCEPT ![l].left = @ \ run]
        /\ onDisk' = [b \in PackBlockIds |-> IF b \in wrote THEN "good" ELSE onDisk[b]]
    BY <1>7, RunIsLeft DEF VisitFetched
  <2> HIDE DEF run
  <2>2. \A b \in run : disk[b] = "good"
    OBVIOUS
  <2> HIDE DEF disk
  <2>3. onDisk' \in [PackBlockIds -> {"none", "good", "bad"}]
    BY <1>t, <2>1 DEF BlocksType
  <2> QED BY <1>5, <2>1, <2>2, <2>3
<1>8. ASSUME NEW l \in Loaders, NEW b \in PackBlockIds, NEW wrote \in SUBSET PackBlockIds,
             VisitBroken(l, b, wrote)
      PROVE  BlocksInv'
  <2> DEFINE q == [loader[l] EXCEPT !.at = "drop", !.result = "error"]
  <2>1. /\ loader' = [loader EXCEPT ![l] = q] /\ UNCHANGED slots /\ loader[l].at = "load"
        /\ onDisk' = [c \in PackBlockIds |-> IF c \in wrote THEN "good" ELSE onDisk[c]]
    BY <1>8, <1>t DEF VisitBroken, StoredAtFailure
  <2>2. q \in LoaderStates /\ q.claimed = loader[l].claimed /\ q.at = "drop" /\ q.result = "error"
    BY <1>0 DEF LoaderStates
  <2> HIDE DEF q
  <2>3. ClaimsOf(q) /\ q.result # "ok"
    BY <2>2 DEF ClaimsOf
  <2>4. onDisk' \in [PackBlockIds -> {"none", "good", "bad"}]
    BY <1>t, <2>1 DEF BlocksType
  <2> QED BY <1>t, <2>1, <2>2, <2>3, <2>4, LoaderMoves DEF BlocksType
<1>9. ASSUME NEW l \in Loaders, CheckComplete(l) PROVE BlocksInv'
  <2> DEFINE q == [loader[l] EXCEPT !.at = "drop", !.result = IF HasAll(l) THEN "ok" ELSE "error"]
  <2>1. loader' = [loader EXCEPT ![l] = q] /\ UNCHANGED <<slots, onDisk>>
    BY <1>9, <1>t DEF CheckComplete
  <2>2. /\ q \in LoaderStates /\ q.claimed = loader[l].claimed /\ q.at = "drop" /\ q.wants = loader[l].wants
        /\ (q.result = "ok" => HasAll(l))
    BY <1>0 DEF LoaderStates
  <2> HIDE DEF q
  <2>3. ClaimsOf(q)
    BY <2>2 DEF ClaimsOf
  <2>4. q.result = "ok" => \A b \in q.wants : slots'[b] = "good"
    BY <1>0, <1>r, <2>1, <2>2 DEF HasAll, LoaderStates
  <2> QED BY <1>t, <2>1, <2>2, <2>3, <2>4, LoaderMoves DEF BlocksType
<1>10. ASSUME NEW l \in Loaders, DropClaims(l) PROVE BlocksInv'
  <2> DEFINE mine == loader[l].claimed
  <2>1. /\ slots' = [b \in PackBlockIds |-> IF b \in mine /\ slots[b] = "loading" THEN "none" ELSE slots[b]]
        /\ UNCHANGED onDisk
    BY <1>10 DEF DropClaims, Withdrawn
  <2>2. ASSUME NEW m \in Loaders
        PROVE  loader'[m] = IF m = l THEN [loader[m] EXCEPT !.at = "end", !.claimed = {}]
                            ELSE IF m \in Woken(loader) THEN [loader[m] EXCEPT !.at = "look"] ELSE loader[m]
    BY <1>10 DEF DropClaims
  <2>3. ASSUME NEW m \in Loaders
        PROVE  /\ loader'[m] \in LoaderStates
               /\ loader'[m].claimed = IF m = l THEN {} ELSE loader[m].claimed
               /\ loader'[m].wants = loader[m].wants /\ loader'[m].result = loader[m].result
               /\ loader'[m].left = loader[m].left
               /\ loader'[m].at = IF m = l THEN "end" ELSE IF loader[m].at = "wait" THEN "look" ELSE loader[m].at
    BY <1>0, <2>2 DEF LoaderStates, Woken
  <2>4. DOMAIN loader' = Loaders /\ loader' = [m \in Loaders |-> loader'[m]]
    BY <1>10 DEF DropClaims
  <2>5. BlocksType'
    BY <1>t, <2>1, <2>3, <2>4 DEF BlocksType
  <2>6. \A m \in Loaders : ClaimsOf(loader'[m])
    BY <1>0, <2>3 DEF ClaimsOf
  <2>7. OneClaim'
    <3>1. ASSUME NEW m \in Loaders, NEW n \in Loaders, m # n
          PROVE  loader'[m].claimed \cap loader'[n].claimed = {}
      BY <2>3, <3>1 DEF BlocksInv, OneClaim
    <3>2. ASSUME NEW m \in Loaders, NEW b \in loader'[m].claimed PROVE slots'[b] # "none"
      <4>1. m # l /\ b \in loader[m].claimed /\ b \notin mine /\ b \in PackBlockIds
        BY <1>0, <2>3, <3>2 DEF BlocksInv, OneClaim, LoaderStates
      <4> QED BY <2>1, <4>1 DEF BlocksInv, OneClaim
    <3>3. ASSUME NEW b \in PackBlockIds, slots'[b] = "loading" PROVE \E m \in Loaders : b \in loader'[m].claimed
      <4>1. slots[b] = "loading" /\ b \notin mine
        BY <2>1, <3>3
      <4>2. PICK m \in Loaders : b \in loader[m].claimed
        BY <4>1 DEF BlocksInv, OneClaim
      <4> QED BY <2>3, <4>1, <4>2
    <3> QED BY <3>1, <3>2, <3>3 DEF OneClaim
  <2>8. ASSUME NEW m \in Loaders, loader'[m].result = "ok", NEW b \in loader'[m].wants PROVE IsReady(b)'
    <3>1. b \in PackBlockIds /\ slots[b] = "good"
      BY <1>0, <1>r, <2>3, <2>8 DEF BlocksInv, OkMeansReady, LoaderStates
    <3>2. slots'[b] = "good"
      BY <2>1, <3>1
    <3> QED BY <3>2 DEF IsReady
  <2> QED BY <2>5, <2>6, <2>7, <2>8 DEF BlocksInv, OkMeansReady
<1>11. ASSUME NEW b \in PackBlockIds, NEW how \in {"none", "bad"}, DamageCache(b, how) PROVE BlocksInv'
  BY <1>11 DEF DamageCache, BlocksInv, BlocksType, OneClaim, OkMeansReady, IsReady
<1>12. CASE UNCHANGED blockVars
  BY <1>12 DEF blockVars, BlocksInv, BlocksType, OneClaim, OkMeansReady, IsReady
<1> QED BY <1>1, <1>2, <1>3, <1>4, <1>6, <1>7, <1>8, <1>9, <1>10, <1>11, <1>12 DEF BlocksNext, LoaderStep

LEMMA OneLoader == BlocksInv => SingleFlight
<1> SUFFICES ASSUME BlocksInv, NEW b \in PackBlockIds
             PROVE  slots[b] = "loading" <=>
                        Cardinality({l \in Loaders : b \in loader[l].claimed /\ ~IsReady(b)}) = 1
  BY DEF SingleFlight
<1> DEFINE S == {l \in Loaders : b \in loader[l].claimed /\ ~IsReady(b)}
<1>1. \A l, m \in S : l = m
  BY DEF BlocksInv, OneClaim
<1>2. \A l \in S : slots[b] = "loading"
  BY DEF BlocksInv, OneClaim, BlocksType, IsReady
<1>3. slots[b] = "loading" => S # {}
  BY DEF BlocksInv, OneClaim, IsReady
<1> HIDE DEF S
<1>4. ASSUME S = {} PROVE slots[b] # "loading" /\ Cardinality(S) = 0
  BY <1>3, <1>4, FS_EmptySet
<1>5. ASSUME NEW x \in S PROVE slots[b] = "loading" /\ Cardinality(S) = 1
  <2>1. S = {x}
    BY <1>1
  <2> QED BY <1>2, <2>1, FS_Singleton
<1>6. slots[b] = "loading" <=> Cardinality(S) = 1
  BY <1>4, <1>5
<1> QED BY <1>6 DEF S

LEMMA BlocksInvariant == BlocksSpec => []BlocksInv
<1>1. BlocksInit => BlocksInv
  <2> SUFFICES ASSUME BlocksInit PROVE BlocksInv
    OBVIOUS
  <2>1. NotLoading \in LoaderStates /\ ClaimsOf(NotLoading) /\ NotLoading.claimed = {} /\ NotLoading.result = "none"
    BY DEF NotLoading, LoaderStates, ClaimsOf
  <2> HIDE DEF NotLoading
  <2>2. BlocksType
    BY <2>1 DEF BlocksInit, BlocksType
  <2> QED BY <2>1, <2>2 DEF BlocksInit, BlocksInv, OneClaim, OkMeansReady
<1>2. BlocksInv /\ [BlocksNext]_blockVars => BlocksInv'
  BY BlocksStep
<1> QED BY <1>1, <1>2, PTL DEF BlocksSpec

\* Threads that share the blocks of a pack through load_blocks_with load each block
\* once at a time, keep nothing that was not verified, and return Ok only with all
\* their blocks, for any number of threads and blocks, whatever fails and whatever
\* happens to the cache files.
THEOREM BlocksShared == BlocksSpec => []BlocksSound
<1>1. BlocksInv => ReadyIsVerified /\ OkMeansReady
  BY DEF BlocksInv, BlocksType, ReadyIsVerified
<1>2. BlocksInv => BlocksSound
  BY <1>1, OneLoader DEF BlocksSound
<1> QED BY <1>2, BlocksInvariant, PTL

\* No step of a worker writes a block to the cache that is not the pack's: what is
\* damaged there was damaged by others.
THEOREM NoCorruptBlockWritten == BlocksSpec => CorruptNotWritten
<1>1. ASSUME BlocksInv, [BlocksNext]_blockVars
      PROVE  [\A b \in PackBlockIds : onDisk'[b] = "bad" /\ onDisk[b] # "bad" => UNCHANGED loader]_blockVars
  <2>1. ASSUME NEW l \in Loaders, LoaderStep(l), NEW b \in PackBlockIds PROVE onDisk'[b] \in {"good", onDisk[b]}
    <3>1. CASE onDisk' = onDisk
      BY <3>1
    <3>2. CASE \E wrote \in SUBSET PackBlockIds : VisitFetched(l, wrote)
      BY <3>2 DEF VisitFetched
    <3> QED BY <2>1, <3>1, <3>2 DEF LoaderStep, AllReady, Wait, Claim, VisitCached, CheckComplete, DropClaims
  <2>2. ASSUME NEW l \in Loaders, NEW ids \in SUBSET PackBlockIds, CallLoad(l, ids) PROVE onDisk' = onDisk
    BY <2>2 DEF CallLoad
  <2>3. ASSUME NEW l \in Loaders, NEW c \in PackBlockIds, NEW wrote \in SUBSET PackBlockIds,
               VisitBroken(l, c, wrote), NEW b \in PackBlockIds
        PROVE  onDisk'[b] \in {"good", onDisk[b]}
    BY <2>3 DEF VisitBroken, StoredAtFailure
  <2>4. ASSUME NEW b \in PackBlockIds, NEW how \in {"none", "bad"}, DamageCache(b, how) PROVE loader' = loader
    BY <2>4 DEF DamageCache
  <2> QED BY <1>1, <2>1, <2>2, <2>3, <2>4 DEF BlocksNext
<1> QED BY <1>1, BlocksInvariant, PTL DEF BlocksSpec, CorruptNotWritten

-----------------------------------------------------------------------------
(***************************************************************************)
(* The search of candidate batches.                                        *)
(***************************************************************************)

BatchSpec == BatchInit /\ [][BatchNext]_searchVars

\* The documents on their way to the workers.
InChannel(s) == {s[i] : i \in 1..Len(s)}

Failures == {"stop", "error", "changed"}

BatchType ==
    /\ upcoming \in Nat \ {0} /\ counted \in Nat
    /\ batch \subseteq CandidateIds
    /\ feed \in [next : SUBSET CandidateIds, hand : CandidateIds \cup {0},
                 result : {"none", "ok"} \cup Failures]
    /\ fetched \in Seq(CandidateIds)
    /\ worker \in [Verifiers -> CandidateIds \cup {0, Gone}]
    /\ failed \in {"none"} \cup Failures

\* What the feeder and the workers of a batch hold belongs to it.
OfTheBatch ==
    /\ \A d \in batch : d < upcoming
    /\ feed.next \subseteq batch /\ feed.hand \in batch \cup {0}
    /\ InChannel(fetched) \subseteq batch /\ taken \subseteq batch
    /\ \A v \in Verifiers : worker[v] \in batch \cup {0, Gone}

\* What was told is what the feeder or the workers will return, and a feeder that
\* was stopped was stopped by a worker.
ToldIsKept ==
    /\ told # {} => failed # "none" \/ feed.result \in {"error", "changed"}
    /\ failed # "none" => failed \in told
    /\ feed.result \in {"error", "changed"} => feed.result \in told
    /\ feed.result = "stop" => failed # "none"

\* As long as nothing was told no document is lost: it is still to be fetched or
\* taken, a worker has it, or it was shown if it is a hit.
NoneLost ==
    /\ told = {} /\ way # "until" => batch \subseteq feed.next \cup {feed.hand} \cup InChannel(fetched) \cup taken
    /\ told = {} => \A d \in taken : kinds[d] = "hit" => d \in shown \/ \E v \in Verifiers : worker[v] = d

\* Who has ended without a failure has left nothing.
EndedClean ==
    /\ feed.result = "ok" => feed.next = {} /\ feed.hand = 0
    /\ failed = "none" /\ (\E v \in Verifiers : worker[v] = Gone) =>
          /\ way # "until" => fetched = <<>> /\ feed.result # "none"
          /\ way = "until" => taken = batch
    /\ way = "until" => feed.result = "ok"
    /\ way = "alone" =>
          /\ feed.hand = 0 /\ fetched = <<>> /\ \A v \in Verifiers : worker[v] = 0
          /\ feed.result = "none" => failed = "none"

InBatch == outcome = "none" /\ counted > 0 /\ OfTheBatch /\ ToldIsKept /\ NoneLost /\ EndedClean

HitsBelow(n) == {d \in CandidateIds : d < n /\ kinds[d] = "hit"}

\* Between the batches nothing was told, and what was visited was shown.
Visited ==
    outcome = "none" =>
        /\ shown \subseteq HitsBelow(upcoming)
        /\ HitsBelow(upcoming) \subseteq shown \cup batch
        /\ batch = {} => told = {} /\ fetched = <<>>

\* The inductive invariant behind OutcomeIsTrue.
BatchInv ==
    /\ BatchType
    /\ way = "none" => batch = {} /\ outcome = "none" /\ shown = {} /\ upcoming = 1
    /\ batch # {} => InBatch
    /\ Visited
    /\ shown # {} => counted > 0
    /\ OutcomeIsTrue

\* A nonempty set of candidates has a first one.
LEMMA FirstIsIn ==
    ASSUME NEW S \in SUBSET Nat, S # {}
    PROVE  FirstIn(S) \in S
<1> DEFINE R == OpToRel(<, Nat)
<1>1. IsWellFoundedOn(R, Nat)
  BY NatLessThanWellFounded
<1>2. \A x, y \in Nat : <<y, x>> \in R <=> y < x
  BY DEF OpToRel
<1> HIDE DEF R
<1>3. PICK x \in S : \A y \in S : ~(<<y, x>> \in R)
  BY <1>1, WFMin
<1>4. ASSUME NEW y \in S PROVE x <= y
  <2>1. x \in Nat /\ y \in Nat /\ ~(<<y, x>> \in R)
    BY <1>3
  <2>2. ~(y < x)
    BY <1>2, <2>1
  <2> QED BY <2>1, <2>2
<1> QED BY <1>4 DEF FirstIn

LEMMA ChannelSent ==
    ASSUME NEW S, NEW s \in Seq(S), NEW e \in S
    PROVE  Append(s, e) \in Seq(S) /\ InChannel(Append(s, e)) = InChannel(s) \cup {e}
<1>1. /\ Append(s, e) \in Seq(S) /\ Len(Append(s, e)) = Len(s) + 1 /\ Len(s) \in Nat
      /\ \A i \in 1..Len(s) : Append(s, e)[i] = s[i]
      /\ Append(s, e)[Len(s) + 1] = e
  OBVIOUS
<1>2. \A i \in 1..Len(s) + 1 : i \in 1..Len(s) \/ i = Len(s) + 1
  BY <1>1
<1>3. 1..Len(s) \subseteq 1..Len(s) + 1 /\ Len(s) + 1 \in 1..Len(s) + 1
  BY <1>1
<1> QED BY <1>1, <1>2, <1>3 DEF InChannel

LEMMA ChannelReceived ==
    ASSUME NEW S, NEW s \in Seq(S), s # <<>>
    PROVE  /\ Head(s) \in S /\ Tail(s) \in Seq(S)
           /\ InChannel(s) = InChannel(Tail(s)) \cup {Head(s)}
<1>1. /\ Len(s) \in Nat /\ Len(s) > 0 /\ Tail(s) \in Seq(S) /\ Len(Tail(s)) = Len(s) - 1
      /\ \A i \in 1..Len(s) - 1 : Tail(s)[i] = s[i + 1]
      /\ Head(s) = s[1] /\ Head(s) \in S
  OBVIOUS
<1>2. ASSUME NEW i \in 1..Len(s) PROVE s[i] \in InChannel(Tail(s)) \cup {Head(s)}
  <2>1. CASE i = 1
    BY <1>1, <2>1
  <2>2. CASE i # 1
    <3>1. i - 1 \in 1..Len(s) - 1 /\ (i - 1) + 1 = i
      BY <1>1, <2>2
    <3>2. Tail(s)[i - 1] = s[i]
      BY <1>1, <3>1
    <3> QED BY <1>1, <3>1, <3>2 DEF InChannel
  <2> QED BY <2>1, <2>2
<1>3. ASSUME NEW i \in 1..Len(Tail(s)) PROVE Tail(s)[i] \in InChannel(s)
  <2>1. i + 1 \in 1..Len(s) /\ Tail(s)[i] = s[i + 1]
    BY <1>1
  <2> QED BY <2>1 DEF InChannel
<1>4. Head(s) \in InChannel(s)
  <2>1. 1 \in 1..Len(s)
    BY <1>1
  <2> QED BY <1>1, <2>1 DEF InChannel
<1> QED BY <1>1, <1>2, <1>3, <1>4 DEF InChannel

LEMMA ChannelEmpty == InChannel(<<>>) = {}
BY DEF InChannel

\* A step within a batch keeps the invariant if it keeps the parts about the batch
\* and shows nothing but hits of it.
LEMMA PipelineKeeps ==
    ASSUME BatchInv, batch # {}, UNCHANGED <<kinds, way, batch, upcoming, counted, outcome>>,
           BatchType', OfTheBatch', ToldIsKept', NoneLost', EndedClean',
           shown \subseteq shown', shown' \subseteq shown \cup {d \in batch : kinds[d] = "hit"}
    PROVE  BatchInv'
<1>1. /\ outcome = "none" /\ counted > 0 /\ way # "none" /\ batch \subseteq CandidateIds
      /\ \A d \in batch : d < upcoming
  BY DEF BatchInv, InBatch, OfTheBatch, BatchType
<1>2. InBatch'
  BY <1>1 DEF InBatch
<1>3. /\ shown \subseteq HitsBelow(upcoming) /\ HitsBelow(upcoming) \subseteq shown \cup batch
      /\ HitsBelow(upcoming)' = HitsBelow(upcoming)
  BY <1>1 DEF BatchInv, Visited, HitsBelow
<1>4. {d \in batch : kinds[d] = "hit"} \subseteq HitsBelow(upcoming)
  BY <1>1 DEF HitsBelow
<1>5. Visited'
  BY <1>1, <1>3, <1>4 DEF Visited
<1>6. OutcomeIsTrue'
  BY <1>1 DEF OutcomeIsTrue, EndsComplete, StopIsAsked, FailureIsTrue, RetryShowsOnce
<1> QED BY <1>1, <1>2, <1>5, <1>6 DEF BatchInv

FeedStates == [next : SUBSET CandidateIds, hand : CandidateIds \cup {0}, result : {"none", "ok"} \cup Failures]

\* The facts about a batch that its steps begin with.
LEMMA BatchFacts ==
    ASSUME BatchInv, batch # {}
    PROVE  /\ BatchType /\ OfTheBatch /\ ToldIsKept /\ NoneLost /\ EndedClean
           /\ feed \in FeedStates /\ batch \subseteq CandidateIds
           /\ CandidateIds \subseteq Nat /\ 0 \notin CandidateIds /\ Gone \notin CandidateIds /\ Gone # 0
BY BatchAssumption DEF BatchInv, InBatch, BatchType, FeedStates, CandidateIds, Gone

LEMMA FeederSteps ==
    ASSUME BatchInv, batch # {}, UNCHANGED <<kinds, way, batch, upcoming, counted, outcome>>,
           FetchNext \/ SendDocument \/ FeedDone \/ \E error \in {"error", "changed"} : FetchFailed(error)
    PROVE  BatchInv'
<1>0. /\ BatchType /\ OfTheBatch /\ ToldIsKept /\ NoneLost /\ EndedClean
      /\ feed \in FeedStates /\ batch \subseteq CandidateIds
      /\ CandidateIds \subseteq Nat /\ 0 \notin CandidateIds /\ Gone \notin CandidateIds /\ Gone # 0
  BY BatchFacts
<1>1. CASE FetchNext
  <2> DEFINE d == FirstIn(feed.next)
  <2>1. /\ way = "pipe" /\ feed.result = "none" /\ feed.hand = 0 /\ feed.next # {}
        /\ feed' = [feed EXCEPT !.next = @ \ {d}, !.hand = d]
        /\ UNCHANGED <<fetched, worker, taken, failed, shown, told>>
    BY <1>1 DEF FetchNext, Fetching
  <2>2. d \in feed.next /\ d \in batch
    <3>1. feed.next \in SUBSET Nat
      BY <1>0 DEF FeedStates
    <3> QED BY <1>0, <2>1, <3>1, FirstIsIn DEF OfTheBatch
  <2> HIDE DEF d
  <2>3. feed' \in FeedStates /\ feed'.next = feed.next \ {d} /\ feed'.hand = d /\ feed'.result = "none"
    BY <1>0, <2>1, <2>2 DEF FeedStates
  <2>4. BatchType'
    BY <1>0, <2>1, <2>3 DEF BatchType, FeedStates
  <2>5. OfTheBatch'
    BY <1>0, <2>1, <2>2, <2>3 DEF OfTheBatch
  <2>6. ToldIsKept'
    BY <1>0, <2>1, <2>3 DEF ToldIsKept
  <2>7. NoneLost'
    BY <1>0, <2>1, <2>2, <2>3 DEF NoneLost
  <2>8. EndedClean'
    BY <1>0, <2>1, <2>3 DEF EndedClean
  <2> QED BY <2>1, <2>4, <2>5, <2>6, <2>7, <2>8, PipelineKeeps
<1>2. CASE SendDocument /\ ReceiverOpen
  <2>1. /\ feed.result = "none" /\ feed.hand # 0
        /\ fetched' = Append(fetched, feed.hand) /\ feed' = [feed EXCEPT !.hand = 0]
        /\ UNCHANGED <<worker, taken, failed, shown, told>>
    BY <1>2 DEF SendDocument
  <2>2. feed' \in FeedStates /\ feed'.next = feed.next /\ feed'.hand = 0 /\ feed'.result = "none"
    BY <1>0, <2>1 DEF FeedStates
  <2>3. fetched \in Seq(CandidateIds) /\ feed.hand \in CandidateIds /\ feed.hand \in batch
    BY <1>0, <2>1 DEF BatchType, FeedStates, OfTheBatch
  <2>4. fetched' \in Seq(CandidateIds) /\ InChannel(fetched') = InChannel(fetched) \cup {feed.hand}
    BY <2>1, <2>3, ChannelSent
  <2>5. BatchType'
    BY <1>0, <2>1, <2>2, <2>4 DEF BatchType, FeedStates
  <2>6. OfTheBatch'
    BY <1>0, <2>1, <2>2, <2>3, <2>4 DEF OfTheBatch
  <2>7. ToldIsKept'
    BY <1>0, <2>1, <2>2 DEF ToldIsKept
  <2>8. NoneLost'
    BY <1>0, <2>1, <2>2, <2>4 DEF NoneLost
  <2>9. way \notin {"alone", "until"}
    BY <1>0, <2>1 DEF EndedClean
  <2>10. EndedClean'
    BY <1>0, <2>1, <2>2, <2>9 DEF EndedClean
  <2> QED BY <2>1, <2>5, <2>6, <2>7, <2>8, <2>10, PipelineKeeps
\* Nobody receives: all the workers have gone while the feeder runs, so one failed.
<1>3. CASE SendDocument /\ ~ReceiverOpen
  <2>1. /\ feed.result = "none" /\ feed.hand # 0
        /\ feed' = [feed EXCEPT !.hand = 0, !.result = "stop"]
        /\ UNCHANGED <<fetched, worker, taken, failed, shown, told>>
    BY <1>3 DEF SendDocument
  <2>2. feed' \in FeedStates /\ feed'.next = feed.next /\ feed'.hand = 0 /\ feed'.result = "stop"
    BY <1>0, <2>1 DEF FeedStates, Failures
  <2>3. \E v \in Verifiers : worker[v] = Gone
    BY <1>3, BatchAssumption DEF ReceiverOpen
  <2>4. failed # "none" /\ told # {}
    BY <1>0, <2>1, <2>3 DEF EndedClean, ToldIsKept
  <2>5. BatchType'
    BY <1>0, <2>1, <2>2 DEF BatchType, FeedStates
  <2>6. OfTheBatch'
    BY <1>0, <2>1, <2>2 DEF OfTheBatch
  <2>7. ToldIsKept'
    BY <1>0, <2>1, <2>2, <2>4 DEF ToldIsKept
  <2>8. NoneLost'
    BY <2>1, <2>4 DEF NoneLost
  <2>9. EndedClean'
    BY <1>0, <2>1, <2>2, <2>4 DEF EndedClean
  <2> QED BY <2>1, <2>5, <2>6, <2>7, <2>8, <2>9, PipelineKeeps
<1>4. CASE FeedDone
  <2>1. /\ feed.result = "none" /\ feed.next = {} /\ feed.hand = 0
        /\ feed' = [feed EXCEPT !.result = "ok"]
        /\ UNCHANGED <<fetched, worker, taken, failed, shown, told>>
    BY <1>4 DEF FeedDone
  <2>2. feed' \in FeedStates /\ feed'.next = feed.next /\ feed'.hand = feed.hand /\ feed'.result = "ok"
    BY <1>0, <2>1 DEF FeedStates
  <2>3. BatchType'
    BY <1>0, <2>1, <2>2 DEF BatchType, FeedStates
  <2>4. OfTheBatch'
    BY <1>0, <2>1, <2>2 DEF OfTheBatch
  <2>5. ToldIsKept'
    BY <1>0, <2>1, <2>2 DEF ToldIsKept
  <2>6. NoneLost'
    BY <1>0, <2>1, <2>2 DEF NoneLost
  <2>7. EndedClean'
    BY <1>0, <2>1, <2>2 DEF EndedClean
  <2> QED BY <2>1, <2>3, <2>4, <2>5, <2>6, <2>7, PipelineKeeps
<1>5. ASSUME NEW error \in {"error", "changed"}, FetchFailed(error) PROVE BatchInv'
  <2>1. /\ way \in {"pipe", "alone"} /\ feed.result = "none"
        /\ feed' = [feed EXCEPT !.result = error] /\ told' = told \cup {error}
        /\ UNCHANGED <<fetched, worker, taken, failed, shown>>
    BY <1>5 DEF FetchFailed, Fetching
  <2>2. feed' \in FeedStates /\ feed'.next = feed.next /\ feed'.hand = feed.hand /\ feed'.result = error
    BY <1>0, <2>1 DEF FeedStates, Failures
  <2>3. BatchType'
    BY <1>0, <2>1, <2>2 DEF BatchType, FeedStates
  <2>4. OfTheBatch'
    BY <1>0, <2>1, <2>2 DEF OfTheBatch
  <2>5. ToldIsKept'
    BY <1>0, <2>1, <2>2 DEF ToldIsKept
  <2>6. NoneLost'
    BY <2>1 DEF NoneLost
  <2>7. EndedClean'
    BY <1>0, <2>1, <2>2 DEF EndedClean
  <2> QED BY <2>1, <2>3, <2>4, <2>5, <2>6, <2>7, PipelineKeeps
<1> QED BY <1>1, <1>2, <1>3, <1>4, <1>5

LEMMA WorkerSteps ==
    ASSUME BatchInv, batch # {}, UNCHANGED <<kinds, way, batch, upcoming, counted, outcome>>,
           NEW v \in Verifiers,
           Receive(v) \/ ChannelEnds(v) \/ TakeDocument(v) \/ NothingToTake(v) \/ SeeFailure(v)
    PROVE  BatchInv'
<1>0. /\ BatchType /\ OfTheBatch /\ ToldIsKept /\ NoneLost /\ EndedClean
      /\ batch \subseteq CandidateIds
      /\ CandidateIds \subseteq Nat /\ 0 \notin CandidateIds /\ Gone \notin CandidateIds /\ Gone # 0
  BY BatchFacts
<1>w. worker \in [Verifiers -> CandidateIds \cup {0, Gone}] /\ fetched \in Seq(CandidateIds)
  BY <1>0 DEF BatchType
<1>1. CASE Receive(v)
  <2> DEFINE d == Head(fetched)
  <2>1. /\ way = "pipe" /\ worker[v] = 0 /\ fetched # <<>>
        /\ worker' = [worker EXCEPT ![v] = d] /\ fetched' = Tail(fetched) /\ taken' = taken \cup {d}
        /\ UNCHANGED <<feed, failed, shown, told>>
    BY <1>1 DEF Receive
  <2>2. d \in CandidateIds /\ fetched' \in Seq(CandidateIds) /\ InChannel(fetched) = InChannel(fetched') \cup {d}
    BY <1>w, <2>1, ChannelReceived
  <2> HIDE DEF d
  <2>3. d \in batch
    BY <1>0, <2>2 DEF OfTheBatch
  <2>4. \A u \in Verifiers : worker'[u] = IF u = v THEN d ELSE worker[u]
    BY <1>w, <2>1
  <2>5. BatchType'
    BY <1>0, <2>1, <2>2 DEF BatchType
  <2>6. OfTheBatch'
    BY <1>0, <2>1, <2>2, <2>3, <2>4 DEF OfTheBatch
  <2>7. ToldIsKept'
    BY <1>0, <2>1 DEF ToldIsKept
  <2>8. NoneLost'
    <3>1. ASSUME told = {}, NEW e \in taken', kinds[e] = "hit"
          PROVE  e \in shown \/ \E u \in Verifiers : worker'[u] = e
      <4>1. CASE e = d
        BY <2>4, <4>1
      <4>2. CASE e # d /\ e \notin shown
        <5>1. PICK u \in Verifiers : worker[u] = e
          BY <1>0, <2>1, <3>1, <4>2 DEF NoneLost
        <5>2. u # v
          BY <1>0, <2>1, <3>1, <4>2, <5>1 DEF OfTheBatch
        <5> QED BY <2>4, <5>1, <5>2
      <4> QED BY <4>1, <4>2
    <3> QED BY <1>0, <2>1, <2>2, <3>1 DEF NoneLost
  <2>9. EndedClean'
    BY <1>0, <2>1, <2>2, <2>4 DEF EndedClean
  <2> QED BY <2>1, <2>5, <2>6, <2>7, <2>8, <2>9, PipelineKeeps
<1>2. CASE TakeDocument(v)
  <2>1. PICK d \in batch \ taken : worker' = [worker EXCEPT ![v] = d] /\ taken' = taken \cup {d}
    BY <1>2 DEF TakeDocument
  <2>2. way = "until" /\ worker[v] = 0 /\ UNCHANGED <<feed, fetched, failed, shown, told>>
    BY <1>2 DEF TakeDocument
  <2>3. d \in batch /\ d \in CandidateIds /\ d \notin taken
    BY <1>0, <2>1
  <2>4. \A u \in Verifiers : worker'[u] = IF u = v THEN d ELSE worker[u]
    BY <1>w, <2>1
  <2>5. BatchType'
    BY <1>0, <2>1, <2>2, <2>3 DEF BatchType
  <2>6. OfTheBatch'
    BY <1>0, <2>1, <2>2, <2>3, <2>4 DEF OfTheBatch
  <2>7. ToldIsKept'
    BY <1>0, <2>2 DEF ToldIsKept
  <2>8. NoneLost'
    <3>1. ASSUME told = {}, NEW e \in taken', kinds[e] = "hit"
          PROVE  e \in shown \/ \E u \in Verifiers : worker'[u] = e
      <4>1. CASE e = d
        BY <2>4, <4>1
      <4>2. CASE e # d /\ e \notin shown
        <5>1. PICK u \in Verifiers : worker[u] = e
          BY <1>0, <2>1, <3>1, <4>2 DEF NoneLost
        <5>2. u # v
          BY <1>0, <2>1, <2>2, <3>1, <4>2, <5>1 DEF OfTheBatch
        <5> QED BY <2>4, <5>1, <5>2
      <4> QED BY <4>1, <4>2
    <3> QED BY <2>2, <3>1 DEF NoneLost
  <2>9. EndedClean'
    BY <1>0, <2>1, <2>2, <2>3, <2>4 DEF EndedClean
  <2> QED BY <2>2, <2>5, <2>6, <2>7, <2>8, <2>9, PipelineKeeps
<1>3. CASE ChannelEnds(v) \/ NothingToTake(v) \/ SeeFailure(v)
  <2>1. /\ worker[v] = 0 /\ worker' = [worker EXCEPT ![v] = Gone]
        /\ UNCHANGED <<feed, fetched, taken, failed, shown, told>>
    BY <1>3 DEF ChannelEnds, NothingToTake, SeeFailure
  <2>2. \/ way = "pipe" /\ fetched = <<>> /\ feed.result # "none"
        \/ way = "until" /\ (batch = taken \/ failed # "none")
    BY <1>3 DEF ChannelEnds, NothingToTake, SeeFailure
  <2>3. \A u \in Verifiers : worker'[u] = IF u = v THEN Gone ELSE worker[u]
    BY <1>w, <2>1
  <2>4. BatchType'
    BY <1>0, <2>1 DEF BatchType
  <2>5. OfTheBatch'
    BY <1>0, <2>1, <2>3 DEF OfTheBatch
  <2>6. ToldIsKept'
    BY <1>0, <2>1 DEF ToldIsKept
  <2>7. NoneLost'
    <3>1. ASSUME told = {}, NEW e \in taken, kinds[e] = "hit"
          PROVE  e \in shown \/ \E u \in Verifiers : worker'[u] = e
      <4>1. CASE e \notin shown
        <5>1. PICK u \in Verifiers : worker[u] = e
          BY <1>0, <3>1, <4>1 DEF NoneLost
        <5>2. u # v
          BY <1>0, <2>1, <3>1, <5>1 DEF OfTheBatch
        <5> QED BY <2>3, <5>1, <5>2
      <4> QED BY <4>1
    <3> QED BY <1>0, <2>1, <3>1 DEF NoneLost
  <2>8. EndedClean'
    BY <1>0, <2>1, <2>2, <2>3 DEF EndedClean
  <2> QED BY <2>1, <2>4, <2>5, <2>6, <2>7, <2>8, PipelineKeeps
<1> QED BY <1>1, <1>2, <1>3

\* What a verification of d may show and say.
LEMMA VerdictFacts ==
    ASSUME NEW d, NEW verdict \in Verdicts(d)
    PROVE  /\ verdict.shown \in BOOLEAN /\ verdict.says \in {"go"} \cup Failures
           /\ verdict.shown => kinds[d] = "hit"
           /\ verdict.says = "go" /\ kinds[d] = "hit" => verdict.shown
<1>1. CASE verdict \in {[shown |-> kinds[d] = "hit", says |-> s] : s \in Says(d)}
  <2>1. PICK s \in Says(d) : verdict = [shown |-> kinds[d] = "hit", says |-> s]
    BY <1>1
  <2>2. verdict.shown = (kinds[d] = "hit")
    BY <2>1, Zenon
  <2>3. verdict.says = s /\ s \in {"go"} \cup Failures
    BY <2>1 DEF Says, Failures
  <2> QED BY <2>2, <2>3, Zenon
<1>2. CASE verdict \in {[shown |-> FALSE, says |-> e] : e \in {"error", "changed"}}
  <2>1. PICK e \in {"error", "changed"} : verdict = [shown |-> FALSE, says |-> e]
    BY <1>2
  <2>2. verdict.shown = FALSE
    BY <2>1, Zenon
  <2>3. verdict.says = e /\ verdict.says # "go" /\ verdict.says \in {"go"} \cup Failures
    BY <2>1 DEF Failures
  <2> QED BY <2>2, <2>3, Zenon
<1> QED BY <1>1, <1>2 DEF Verdicts

LEMMA TakenVerified ==
    ASSUME BatchInv, batch # {}, UNCHANGED <<kinds, way, batch, upcoming, counted, outcome>>,
           NEW v \in Verifiers, NEW verdict, VerifyTaken(v, verdict)
    PROVE  BatchInv'
<1> DEFINE d == worker[v]
<1>0. /\ BatchType /\ OfTheBatch /\ ToldIsKept /\ NoneLost /\ EndedClean
      /\ batch \subseteq CandidateIds
      /\ CandidateIds \subseteq Nat /\ 0 \notin CandidateIds /\ Gone \notin CandidateIds /\ Gone # 0
  BY BatchFacts
<1>1. /\ d \in CandidateIds /\ d \in batch /\ way # "alone"
      /\ shown' = IF verdict.shown THEN shown \cup {d} ELSE shown
      /\ told' = told \cup ({verdict.says} \ {"go"})
      /\ failed' \in IF verdict.says = "go" THEN {failed} ELSE {verdict.says} \cup ({failed} \ {"none"})
      /\ worker' = [worker EXCEPT ![v] = IF failed' = "none" THEN 0 ELSE Gone]
      /\ UNCHANGED <<feed, fetched, taken>>
  BY <1>0 DEF VerifyTaken, Shows, OfTheBatch, EndedClean
<1>2. /\ verdict.shown \in BOOLEAN /\ verdict.says \in {"go"} \cup Failures
      /\ verdict.shown => kinds[d] = "hit"
      /\ verdict.says = "go" /\ kinds[d] = "hit" => verdict.shown
  BY VerdictFacts DEF VerifyTaken
<1>3. shown \subseteq shown' /\ shown' \subseteq shown \cup {e \in batch : kinds[e] = "hit"}
  BY <1>1, <1>2
<1>4. verdict.says = "go" /\ kinds[d] = "hit" => d \in shown'
  BY <1>1, <1>2
<1>5. \A u \in Verifiers : worker'[u] = IF u = v THEN (IF failed' = "none" THEN 0 ELSE Gone) ELSE worker[u]
  BY <1>0, <1>1 DEF BatchType
<1>6. /\ told \subseteq told' /\ failed' \in {"none"} \cup Failures
      /\ failed' = "none" => failed = "none"
      /\ failed' # "none" => failed' \in told'
      /\ verdict.says = "go" => failed' = failed /\ told' = told
      /\ verdict.says # "go" => failed' # "none" /\ told' # {}
  BY <1>0, <1>1, <1>2 DEF BatchType, ToldIsKept, Failures
<1> HIDE DEF d
<1>7. BatchType'
  <2>1. worker' \in [Verifiers -> CandidateIds \cup {0, Gone}]
    BY <1>0, <1>1 DEF BatchType
  <2> QED BY <1>0, <1>1, <1>6, <2>1 DEF BatchType
<1>8. OfTheBatch'
  BY <1>0, <1>1, <1>5 DEF OfTheBatch
<1>9. ToldIsKept'
  BY <1>0, <1>1, <1>6 DEF ToldIsKept
<1>10. NoneLost'
  <2>1. ASSUME told' = {}, NEW e \in taken, kinds[e] = "hit"
        PROVE  e \in shown' \/ \E u \in Verifiers : worker'[u] = e
    <3>1. told = {} /\ verdict.says = "go"
      BY <1>6, <2>1
    <3>2. CASE e = d
      BY <1>4, <2>1, <3>1, <3>2
    <3>3. CASE e # d /\ e \notin shown
      <4>1. PICK u \in Verifiers : worker[u] = e
        BY <1>0, <2>1, <3>1, <3>3 DEF NoneLost
      <4>2. u # v
        BY <3>3, <4>1 DEF d
      <4> QED BY <1>5, <4>1, <4>2
    <3> QED BY <1>3, <3>2, <3>3
  <2> QED BY <1>0, <1>1, <1>6, <2>1 DEF NoneLost
<1>11. EndedClean'
  BY <1>0, <1>1, <1>5, <1>6 DEF EndedClean
<1> QED BY <1>3, <1>7, <1>8, <1>9, <1>10, <1>11, PipelineKeeps

LEMMA AloneVerified ==
    ASSUME BatchInv, batch # {}, UNCHANGED <<kinds, way, batch, upcoming, counted, outcome>>,
           NEW verdict, VerifyAlone(verdict)
    PROVE  BatchInv'
<1> DEFINE d == FirstIn(feed.next)
<1>0. /\ BatchType /\ OfTheBatch /\ ToldIsKept /\ NoneLost /\ EndedClean
      /\ feed \in FeedStates /\ batch \subseteq CandidateIds
      /\ CandidateIds \subseteq Nat /\ 0 \notin CandidateIds /\ Gone \notin CandidateIds /\ Gone # 0
  BY BatchFacts
<1>1. /\ way = "alone" /\ feed.result = "none" /\ feed.hand = 0 /\ feed.next # {}
      /\ verdict \in Verdicts(d)
      /\ shown' = IF verdict.shown THEN shown \cup {d} ELSE shown
      /\ told' = told \cup ({verdict.says} \ {"go"})
      /\ failed' = IF verdict.says = "go" THEN "none" ELSE verdict.says
      /\ feed' = [next |-> feed.next \ {d}, hand |-> 0, result |-> IF verdict.says = "go" THEN "none" ELSE "stop"]
      /\ taken' = taken \cup {d}
      /\ UNCHANGED <<fetched, worker>>
  BY DEF VerifyAlone, Shows, Fetching
<1>2. d \in feed.next /\ d \in batch
  <2>1. feed.next \in SUBSET Nat
    BY <1>0 DEF FeedStates
  <2> QED BY <1>0, <1>1, <2>1, FirstIsIn DEF OfTheBatch
<1> HIDE DEF d
<1>3. /\ verdict.shown \in BOOLEAN /\ verdict.says \in {"go"} \cup Failures
      /\ verdict.shown => kinds[d] = "hit"
      /\ verdict.says = "go" /\ kinds[d] = "hit" => verdict.shown
  BY <1>1, VerdictFacts
<1>4. shown \subseteq shown' /\ shown' \subseteq shown \cup {e \in batch : kinds[e] = "hit"}
  BY <1>1, <1>2, <1>3
<1>5. verdict.says = "go" /\ kinds[d] = "hit" => d \in shown'
  BY <1>1, <1>3
<1>6. /\ feed' \in FeedStates /\ feed'.next = feed.next \ {d} /\ feed'.hand = 0
      /\ feed'.result = IF verdict.says = "go" THEN "none" ELSE "stop"
  BY <1>0, <1>1 DEF FeedStates, Failures
<1>7. failed = "none" /\ told = {} /\ failed' \in {"none"} \cup Failures
  BY <1>0, <1>1, <1>3 DEF EndedClean, ToldIsKept
<1>8. verdict.says # "go" => failed' = verdict.says /\ told' = {verdict.says} /\ failed' # "none"
  BY <1>1, <1>3, <1>7 DEF Failures
<1>9. verdict.says = "go" => failed' = "none" /\ told' = {}
  BY <1>1, <1>7
<1>10. BatchType'
  BY <1>0, <1>1, <1>6, <1>7 DEF BatchType, FeedStates
<1>11. OfTheBatch'
  BY <1>0, <1>1, <1>2, <1>6 DEF OfTheBatch
<1>12. ToldIsKept'
  BY <1>6, <1>8, <1>9 DEF ToldIsKept
<1>13. NoneLost'
  <2>1. ASSUME told' = {}, NEW e \in taken', kinds[e] = "hit"
        PROVE  e \in shown' \/ \E u \in Verifiers : worker'[u] = e
    <3>1. CASE e = d
      BY <1>5, <1>8, <2>1, <3>1
    <3>2. CASE e \in taken
      BY <1>0, <1>1, <1>4, <1>7, <2>1, <3>2 DEF NoneLost
    <3> QED BY <1>1, <3>1, <3>2
  <2>2. batch \subseteq feed'.next \cup {feed'.hand} \cup InChannel(fetched') \cup taken'
    BY <1>0, <1>1, <1>2, <1>6, <1>7 DEF NoneLost
  <2> QED BY <2>1, <2>2 DEF NoneLost
<1>14. EndedClean'
  BY <1>0, <1>1, <1>6, <1>9 DEF EndedClean
<1> QED BY <1>4, <1>10, <1>11, <1>12, <1>13, <1>14, PipelineKeeps

LEMMA BatchBegins ==
    ASSUME BatchInv, NextBatch
    PROVE  BatchInv'
<1> DEFINE last == IF upcoming + BatchDocuments > MaxCandidates + 1 THEN MaxCandidates ELSE upcoming + BatchDocuments - 1
           docs == {d \in upcoming..last : kinds[d] # "outside"}
<1>1. /\ way # "none" /\ outcome = "none" /\ batch = {} /\ upcoming <= MaxCandidates
      /\ upcoming' = upcoming + BatchDocuments /\ counted' = counted + Cardinality(docs) /\ batch' = docs
      /\ feed' = IF way = "until" THEN [Feeding({}) EXCEPT !.result = "ok"] ELSE Feeding(docs)
      /\ worker' = [v \in Verifiers |-> 0] /\ failed' = "none" /\ taken' = {}
      /\ UNCHANGED <<kinds, way, fetched, shown, told, outcome>>
  BY DEF NextBatch, Counts
<1>2. /\ upcoming \in Nat \ {0} /\ counted \in Nat /\ BatchDocuments \in Nat \ {0} /\ MaxCandidates \in Nat
      /\ told = {} /\ fetched = <<>>
      /\ shown \subseteq HitsBelow(upcoming) /\ HitsBelow(upcoming) \subseteq shown
  BY <1>1, BatchAssumption DEF BatchInv, BatchType, Visited
<1>3. /\ last \in Nat /\ last <= MaxCandidates /\ last < upcoming + BatchDocuments
      /\ \A d \in CandidateIds : d < upcoming + BatchDocuments => d <= last
  BY <1>1, <1>2 DEF CandidateIds
<1> HIDE DEF last
<1>4. docs \subseteq CandidateIds /\ \A d \in docs : d < upcoming'
  BY <1>1, <1>2, <1>3 DEF CandidateIds
<1>5. /\ Cardinality(docs) \in Nat /\ (docs # {} => Cardinality(docs) > 0)
  <2>1. IsFiniteSet(upcoming..last)
    BY <1>2, <1>3, FS_Interval
  <2>2. IsFiniteSet(docs)
    BY <2>1, FS_Subset
  <2>3. Cardinality(docs) \in Nat /\ (Cardinality(docs) = 0 <=> docs = {})
    BY <2>2, FS_CardinalityType, FS_EmptySet
  <2> QED BY <2>3
<1>6. HitsBelow(upcoming') \subseteq HitsBelow(upcoming) \cup docs
      /\ HitsBelow(upcoming) \subseteq HitsBelow(upcoming')
  BY <1>1, <1>2, <1>3 DEF HitsBelow, CandidateIds
<1> HIDE DEF docs
<1>7. /\ feed' \in FeedStates /\ feed'.hand = 0
      /\ feed'.next = (IF way = "until" THEN {} ELSE docs)
      /\ feed'.result = (IF way = "until" THEN "ok" ELSE "none")
  BY <1>1, <1>4 DEF Feeding, FeedStates
<1>8. Gone # 0 /\ 0 \notin CandidateIds
  BY <1>2 DEF Gone, CandidateIds
<1>9. BatchType'
  <2>1. fetched' \in Seq(CandidateIds)
    BY <1>1 DEF BatchInv, BatchType
  <2>2. upcoming' \in Nat \ {0} /\ counted' \in Nat
    BY <1>1, <1>2, <1>5
  <2> QED BY <1>1, <1>4, <1>7, <2>1, <2>2 DEF BatchType, FeedStates
<1>10. Visited'
  <2>1. HitsBelow(upcoming)' = HitsBelow(upcoming')
    BY <1>1 DEF HitsBelow
  <2> QED BY <1>1, <1>2, <1>6, <2>1 DEF Visited
<1>11. ASSUME docs # {} PROVE InBatch'
  <2>1. OfTheBatch'
    BY <1>1, <1>2, <1>4, <1>7, ChannelEmpty DEF OfTheBatch
  <2>2. ToldIsKept'
    BY <1>1, <1>2, <1>7 DEF ToldIsKept
  <2>3. NoneLost'
    BY <1>1, <1>7 DEF NoneLost
  <2>4. EndedClean'
    BY <1>1, <1>2, <1>7, <1>8 DEF EndedClean
  <2>5. counted' > 0
    BY <1>1, <1>2, <1>5, <1>11
  <2> QED BY <1>1, <2>1, <2>2, <2>3, <2>4, <2>5 DEF InBatch
<1>12. shown' # {} => counted' > 0
  BY <1>1, <1>2, <1>5 DEF BatchInv
<1>13. OutcomeIsTrue'
  BY <1>1 DEF OutcomeIsTrue, EndsComplete, StopIsAsked, FailureIsTrue, RetryShowsOnce
<1> QED BY <1>1, <1>9, <1>10, <1>11, <1>12, <1>13 DEF BatchInv

\* A batch that ends well has shown all its hits; otherwise what it ends with was
\* told.
LEMMA BatchEnds ==
    ASSUME BatchInv, EndBatch
    PROVE  BatchInv'
<1>0. /\ BatchType /\ OfTheBatch /\ ToldIsKept /\ NoneLost /\ EndedClean
      /\ batch \subseteq CandidateIds
      /\ CandidateIds \subseteq Nat /\ 0 \notin CandidateIds /\ Gone \notin CandidateIds /\ Gone # 0
  BY BatchFacts DEF EndBatch
<1>1. /\ batch # {} /\ feed.result # "none" /\ outcome = "none"
      /\ way # "alone" => \A v \in Verifiers : worker[v] = Gone
      /\ outcome' = (IF Combined = "ok" THEN "none" ELSE RaiseError(Combined))
      /\ batch' = {} /\ fetched' = <<>>
      /\ UNCHANGED <<kinds, way, upcoming, counted, feed, worker, taken, failed, shown, told>>
  BY DEF EndBatch
<1>2. counted > 0 /\ counted \in Nat /\ way # "none"
  BY <1>1 DEF BatchInv, InBatch, BatchType
<1>3. BatchType'
  BY <1>0, <1>1 DEF BatchType
<1>4. /\ shown \subseteq HitsBelow(upcoming) /\ HitsBelow(upcoming) \subseteq shown \cup batch
      /\ HitsBelow(upcoming)' = HitsBelow(upcoming)
  BY <1>1 DEF BatchInv, Visited, HitsBelow
<1>5. CASE Combined = "ok"
  <2>1. failed = "none" /\ feed.result = "ok" /\ told = {} /\ outcome' = "none"
    BY <1>0, <1>1, <1>5 DEF Combined, BatchType, ToldIsKept, Failures
  <2>2. batch \subseteq taken
    <3>1. CASE way = "alone"
      BY <1>0, <2>1, <3>1, ChannelEmpty DEF EndedClean, NoneLost
    <3>2. CASE way # "alone"
      <4>1. \E v \in Verifiers : worker[v] = Gone
        BY <1>1, <3>2, BatchAssumption
      <4>2. CASE way = "until"
        BY <1>0, <2>1, <4>1, <4>2 DEF EndedClean
      <4>3. CASE way # "until"
        BY <1>0, <2>1, <4>1, <4>3, ChannelEmpty DEF EndedClean, NoneLost
      <4> QED BY <4>2, <4>3
    <3> QED BY <3>1, <3>2
  <2>3. ASSUME NEW d \in batch, kinds[d] = "hit" PROVE d \in shown
    <3>1. \A v \in Verifiers : worker[v] # d
      BY <1>0, <1>1, <2>3 DEF EndedClean
    <3> QED BY <1>0, <2>1, <2>2, <2>3, <3>1 DEF NoneLost
  <2>4. HitsBelow(upcoming) \subseteq shown
    BY <1>4, <2>3 DEF HitsBelow
  <2>5. Visited'
    BY <1>1, <1>4, <2>1, <2>4 DEF Visited
  <2>6. OutcomeIsTrue'
    BY <2>1 DEF OutcomeIsTrue, EndsComplete, StopIsAsked, FailureIsTrue, RetryShowsOnce
  <2> QED BY <1>1, <1>2, <1>3, <2>1, <2>5, <2>6 DEF BatchInv
<1>6. CASE Combined # "ok"
  <2>1. outcome' = RaiseError(Combined)
    BY <1>1, <1>6
  <2>2. \/ /\ Combined = "stopped" /\ "stop" \in told
           /\ feed.result \notin {"error", "changed"}
        \/ Combined \in {"error", "changed"} /\ Combined \in told
    BY <1>0, <1>1, <1>6 DEF Combined, BatchType, ToldIsKept, Failures
  <2>3. \/ /\ outcome' = "stopped" /\ "stop" \in told
           /\ feed.result \notin {"error", "changed"}
        \/ outcome' \in {"error", "late"} /\ told \cap {"error", "changed"} # {}
    BY <1>2, <2>1, <2>2 DEF RaiseError
  <2>4. Visited'
    BY <2>3 DEF Visited
  <2>5. OutcomeIsTrue'
    BY <1>1, <2>3 DEF OutcomeIsTrue, EndsComplete, StopIsAsked, FailureIsTrue, RetryShowsOnce
  <2> QED BY <1>1, <1>2, <1>3, <2>4, <2>5 DEF BatchInv
<1> QED BY <1>5, <1>6

LEMMA BatchStep ==
    ASSUME BatchInv, [BatchNext]_searchVars
    PROVE  BatchInv'
<1>1. ASSUME NEW ks, NEW w \in {"pipe", "alone", "until"}, StartQuery(ks, w) PROVE BatchInv'
  <2>1. /\ way = "none" /\ way' # "none"
        /\ UNCHANGED <<batch, upcoming, counted, outcome, feed, fetched, worker, taken, failed, shown, told>>
    BY <1>1 DEF StartQuery, pipeVars
  <2>2. batch = {} /\ outcome = "none" /\ shown = {} /\ upcoming = 1 /\ told = {} /\ fetched = <<>>
    BY <2>1 DEF BatchInv, Visited
  <2>3. BatchType'
    BY <2>1 DEF BatchInv, BatchType
  <2>4. Visited'
    BY <2>1, <2>2 DEF Visited, HitsBelow, CandidateIds
  <2>5. OutcomeIsTrue'
    BY <2>1, <2>2 DEF OutcomeIsTrue, EndsComplete, StopIsAsked, FailureIsTrue, RetryShowsOnce
  <2> QED BY <2>1, <2>2, <2>3, <2>4, <2>5 DEF BatchInv
<1>2. ASSUME NEW error \in {"error", "changed"}, VisitFails(error) PROVE BatchInv'
  <2>1. /\ way # "none" /\ batch = {} /\ outcome = "none"
        /\ outcome' = RaiseError(error) /\ told' = told \cup {error}
        /\ UNCHANGED <<kinds, way, batch, upcoming, counted, feed, fetched, worker, taken, failed, shown>>
    BY <1>2 DEF VisitFails
  <2>2. BatchType' /\ counted \in Nat /\ (counted = 0 => shown = {})
    BY <2>1 DEF BatchInv, BatchType
  <2>3. /\ outcome' \in {"error", "changed", "late"}
        /\ outcome' = "changed" => shown = {}
    BY <2>1, <2>2 DEF RaiseError
  <2>4. OutcomeIsTrue'
    BY <2>1, <2>3 DEF OutcomeIsTrue, EndsComplete, StopIsAsked, FailureIsTrue, RetryShowsOnce
  <2>5. Visited'
    BY <2>3 DEF Visited
  <2> QED BY <2>1, <2>2, <2>4, <2>5 DEF BatchInv
<1>3. CASE VisitEnds
  <2>1. /\ way # "none" /\ batch = {} /\ outcome = "none" /\ upcoming > MaxCandidates /\ outcome' = "ok"
        /\ UNCHANGED <<kinds, way, batch, upcoming, counted, feed, fetched, worker, taken, failed, shown, told>>
    BY <1>3 DEF VisitEnds, pipeVars
  <2>2. told = {} /\ shown = HitsBelow(upcoming)
    BY <2>1 DEF BatchInv, Visited
  <2>3. HitsBelow(upcoming) = {d \in Admitted : kinds[d] = "hit"}
    <3>1. upcoming \in Nat /\ MaxCandidates \in Nat
      BY BatchAssumption DEF BatchInv, BatchType
    <3>2. \A d \in CandidateIds : d < upcoming
      BY <2>1, <3>1 DEF CandidateIds
    <3> QED BY <3>2 DEF HitsBelow, Admitted
  <2>4. Admitted' = Admitted
    BY <2>1 DEF Admitted
  <2>5. OutcomeIsTrue'
    BY <2>1, <2>2, <2>3, <2>4 DEF OutcomeIsTrue, EndsComplete, StopIsAsked, FailureIsTrue, RetryShowsOnce
  <2>6. BatchType' /\ Visited' /\ (shown' # {} => counted' > 0)
    BY <2>1 DEF BatchInv, BatchType, Visited
  <2> QED BY <2>1, <2>5, <2>6 DEF BatchInv
<1>4. CASE batch # {} /\ Pipeline /\ UNCHANGED <<kinds, way, batch, upcoming, counted, outcome>>
  BY <1>4, FeederSteps, WorkerSteps, TakenVerified, AloneVerified DEF Pipeline, WorkerStep
<1>5. CASE UNCHANGED searchVars
  BY <1>5 DEF searchVars, BatchInv, BatchType, InBatch, OfTheBatch, ToldIsKept, NoneLost, EndedClean,
       Visited, HitsBelow, OutcomeIsTrue, EndsComplete, StopIsAsked, FailureIsTrue, RetryShowsOnce, Admitted
<1> QED BY <1>1, <1>2, <1>3, <1>4, <1>5, BatchBegins, BatchEnds DEF BatchNext, SearchStep

\* What search_patterns returns is what happened, for any number of workers, any
\* batch size and any room in the channel: everything was shown, or the sink asked to
\* stop, or something failed; and only a search that showed nothing is begun again.
THEOREM OutcomeTells == BatchSpec => []OutcomeIsTrue
<1>1. BatchInit => BatchInv
  <2> SUFFICES ASSUME BatchInit PROVE BatchInv
    OBVIOUS
  <2>1. BatchType
    BY BatchAssumption DEF BatchInit, BatchType, Feeding, Failures
  <2>2. Visited
    BY DEF BatchInit, Visited, HitsBelow, CandidateIds
  <2>3. OutcomeIsTrue
    BY DEF BatchInit, OutcomeIsTrue, EndsComplete, StopIsAsked, FailureIsTrue, RetryShowsOnce
  <2> QED BY <2>1, <2>2, <2>3 DEF BatchInit, BatchInv
<1>2. BatchInv /\ [BatchNext]_searchVars => BatchInv'
  BY BatchStep
<1>3. BatchInv => OutcomeIsTrue
  BY DEF BatchInv
<1> QED BY <1>1, <1>2, <1>3, PTL DEF BatchSpec

(***************************************************************************)
(* Uploads.                                                                *)
(***************************************************************************)

\* Rounding up covers.
LEMMA DivCeilCovers ==
    ASSUME NEW a \in Nat, NEW b \in Nat, b >= 1
    PROVE  DivCeil(a, b) \in Nat /\ b * DivCeil(a, b) >= a
<1> DEFINE q == (a + b - 1) \div b
           r == (a + b - 1) % b
<1>1. a + b - 1 \in Nat
  OBVIOUS
<1>2. q \in Int /\ r \in 0..(b - 1) /\ a + b - 1 = b * q + r
  BY <1>1
<1>3. q \in Nat
  BY <1>1
<1> QED BY <1>2, <1>3 DEF DivCeil

\* multipart_part_size: MaxParts parts of that size hold the body.
LEMMA PartSizes ==
    ASSUME NEW w \in Nat
    PROVE  PartSizeOf(w) \in Nat /\ PartSizeOf(w) >= PartSize /\ w <= MaxParts * PartSizeOf(w)
<1>0. PartSize \in Nat /\ PartSize >= 1 /\ MaxParts \in Nat /\ MaxParts >= 1 /\ Mib \in Nat /\ Mib >= 1
  BY UploadAssumption
<1> DEFINE needed == DivCeil(w, MaxParts)
           x == IF needed > PartSize THEN needed ELSE PartSize
           y == DivCeil(x, Mib)
<1>1. needed \in Nat /\ MaxParts * needed >= w
  BY <1>0, DivCeilCovers
<1> HIDE DEF needed
<1>2. x \in Nat /\ x >= needed /\ x >= PartSize
  BY <1>0, <1>1
<1> HIDE DEF x
<1>3. y \in Nat /\ Mib * y >= x
  BY <1>0, <1>2, DivCeilCovers
<1> HIDE DEF y
<1> DEFINE z == Mib * y
<1>4. PartSizeOf(w) = z
  BY DEF PartSizeOf, needed, x, y
<1>5. z \in Nat /\ z >= x
  BY <1>0, <1>3
<1> HIDE DEF z
<1>6. MaxParts * z >= MaxParts * needed
  BY <1>0, <1>1, <1>2, <1>5
<1>7. MaxParts * z \in Nat /\ MaxParts * needed \in Nat
  BY <1>0, <1>1, <1>5
<1> QED BY <1>0, <1>1, <1>2, <1>4, <1>5, <1>6, <1>7

\* The members of a sequence that grows or loses one.
LEMMA ToSetAppend ==
    ASSUME NEW S, NEW s \in Seq(S), NEW x \in S
    PROVE  Append(s, x) \in Seq(S) /\ ToSet(Append(s, x)) = ToSet(s) \cup {x} /\ ToSet(s) \subseteq S
<1> DEFINE a == Append(s, x)
<1>1. a \in Seq(S) /\ Len(a) = Len(s) + 1 /\ (\A i \in 1..Len(s) : a[i] = s[i]) /\ a[Len(s) + 1] = x
  OBVIOUS
<1>2. Len(s) \in Nat /\ DOMAIN s = 1..Len(s) /\ DOMAIN a = 1..Len(a) /\ \A i \in 1..Len(s) : s[i] \in S
  BY <1>1
<1> HIDE DEF a
<1>3. ToSet(a) = ToSet(s) \cup {x}
  <2>1. ASSUME NEW i \in DOMAIN a PROVE a[i] \in ToSet(s) \cup {x}
    <3>1. i \in 1..Len(s) \/ i = Len(s) + 1
      BY <1>1, <1>2
    <3> QED BY <1>1, <1>2, <3>1 DEF ToSet
  <2>2. ASSUME NEW i \in DOMAIN s PROVE s[i] \in ToSet(a)
    <3>1. i \in DOMAIN a /\ a[i] = s[i]
      BY <1>1, <1>2
    <3> QED BY <3>1 DEF ToSet
  <2>3. x \in ToSet(a)
    <3>1. Len(s) + 1 \in DOMAIN a
      BY <1>1, <1>2
    <3> QED BY <1>1, <3>1 DEF ToSet
  <2> QED BY <2>1, <2>2, <2>3 DEF ToSet
<1> QED BY <1>1, <1>2, <1>3 DEF ToSet, a

LEMMA ToSetTail ==
    ASSUME NEW S, NEW s \in Seq(S), s # <<>>
    PROVE  Head(s) \in S /\ Tail(s) \in Seq(S) /\ ToSet(s) = ToSet(Tail(s)) \cup {Head(s)}
<1> DEFINE a == Tail(s)
<1>1. a \in Seq(S) /\ Len(a) = Len(s) - 1 /\ (\A i \in 1..Len(a) : a[i] = s[i + 1]) /\ Head(s) = s[1] /\ Len(s) >= 1
  OBVIOUS
<1>2. Len(s) \in Nat /\ DOMAIN s = 1..Len(s) /\ DOMAIN a = 1..Len(a) /\ \A i \in 1..Len(s) : s[i] \in S
  BY <1>1
<1> HIDE DEF a
<1>3. ASSUME NEW i \in DOMAIN a PROVE a[i] \in ToSet(s)
  <2>1. i + 1 \in DOMAIN s /\ a[i] = s[i + 1]
    BY <1>1, <1>2
  <2> QED BY <2>1 DEF ToSet
<1>4. ASSUME NEW i \in DOMAIN s PROVE s[i] \in ToSet(a) \cup {s[1]}
  <2>1. CASE i = 1
    BY <2>1
  <2>2. CASE i # 1
    <3>1. i - 1 \in DOMAIN a /\ a[i - 1] = s[i]
      BY <1>1, <1>2, <2>2
    <3> QED BY <3>1 DEF ToSet
  <2> QED BY <2>1, <2>2
<1>5. 1 \in DOMAIN s
  BY <1>1, <1>2
<1> QED BY <1>1, <1>2, <1>3, <1>4, <1>5 DEF ToSet, a

LEMMA ToSetRemoveAt ==
    ASSUME NEW S, NEW s \in Seq(S), NEW i \in DOMAIN s
    PROVE  s[i] \in S /\ RemoveAt(s, i) \in Seq(S) /\ ToSet(s) = ToSet(RemoveAt(s, i)) \cup {s[i]}
<1> DEFINE u == SubSeq(s, 1, i - 1)
           v == SubSeq(s, i + 1, Len(s))
           a == u \o v
<1>0. Len(s) \in Nat /\ DOMAIN s = 1..Len(s) /\ (\A j \in 1..Len(s) : s[j] \in S) /\ i \in 1..Len(s)
  OBVIOUS
<1>1. u \in Seq(S) /\ Len(u) = i - 1 /\ \A j \in 1..(i - 1) : u[j] = s[j]
  BY <1>0
<1>2. v \in Seq(S) /\ Len(v) = Len(s) - i /\ \A j \in 1..(Len(s) - i) : v[j] = s[i + j]
  <2>1. i + 1 \in Int /\ Len(s) \in Int /\ \A j \in (i + 1)..Len(s) : s[j] \in S
    BY <1>0
  <2>2. /\ v \in Seq(S) /\ Len(v) = IF i + 1 <= Len(s) THEN Len(s) - (i + 1) + 1 ELSE 0
        /\ \A j \in 1..(Len(s) - (i + 1) + 1) : v[j] = s[(i + 1) + j - 1]
    BY <2>1, SubSeqProperties
  <2>3. Len(v) = Len(s) - i
    BY <1>0, <2>2
  <2>4. ASSUME NEW j \in 1..(Len(s) - i) PROVE v[j] = s[i + j]
    <3>1. j \in 1..(Len(s) - (i + 1) + 1) /\ (i + 1) + j - 1 = i + j
      BY <1>0
    <3> HIDE DEF v
    <3> QED BY <2>2, <3>1
  <2> QED BY <2>2, <2>3, <2>4
<1> HIDE DEF u, v
<1>3. /\ a \in Seq(S) /\ Len(a) = Len(s) - 1
      /\ \A j \in 1..Len(a) : a[j] = IF j <= i - 1 THEN u[j] ELSE v[j - (i - 1)]
  <2>1. /\ a \in Seq(S) /\ Len(a) = Len(u) + Len(v)
        /\ \A j \in 1..(Len(u) + Len(v)) : a[j] = IF j <= Len(u) THEN u[j] ELSE v[j - Len(u)]
    BY <1>1, <1>2, ConcatProperties
  <2>2. Len(u) + Len(v) = Len(s) - 1 /\ Len(u) = i - 1
    BY <1>0, <1>1, <1>2
  <2> HIDE DEF a
  <2> QED BY <2>1, <2>2
<1>4. DOMAIN a = 1..Len(a)
  BY <1>3
<1>5. RemoveAt(s, i) = a
  BY DEF RemoveAt, u, v
<1> HIDE DEF a
<1>6. ASSUME NEW j \in DOMAIN a PROVE a[j] \in ToSet(s)
  <2>1. CASE j <= i - 1
    <3>1. j \in DOMAIN s /\ a[j] = s[j]
      BY <1>0, <1>1, <1>3, <1>4, <2>1
    <3> QED BY <3>1 DEF ToSet
  <2>2. CASE ~(j <= i - 1)
    <3>1. j - (i - 1) \in 1..(Len(s) - i) /\ i + (j - (i - 1)) = j + 1 /\ j + 1 \in DOMAIN s
      BY <1>0, <1>3, <1>4, <2>2
    <3>2. a[j] = s[j + 1]
      BY <1>2, <1>3, <1>4, <2>2, <3>1
    <3> QED BY <3>1, <3>2 DEF ToSet
  <2> QED BY <2>1, <2>2
<1>7. ASSUME NEW j \in DOMAIN s PROVE s[j] \in ToSet(a) \cup {s[i]}
  <2>1. CASE j < i
    <3>1. j \in DOMAIN a /\ a[j] = s[j]
      BY <1>0, <1>1, <1>3, <1>4, <2>1
    <3> QED BY <3>1 DEF ToSet
  <2>2. CASE j = i
    BY <2>2
  <2>3. CASE j > i
    <3>1. j - 1 \in DOMAIN a /\ ~(j - 1 <= i - 1) /\ (j - 1) - (i - 1) = j - i /\ j - i \in 1..(Len(s) - i) /\ i + (j - i) = j
      BY <1>0, <1>3, <1>4, <2>3
    <3>2. a[j - 1] = s[j]
      BY <1>2, <1>3, <1>4, <3>1
    <3> QED BY <3>1, <3>2 DEF ToSet
  <2> QED BY <1>0, <2>1, <2>2, <2>3
<1> QED BY <1>0, <1>3, <1>5, <1>6, <1>7 DEF ToSet

\* Parts 1 to n, whatever order they finished in, sorted by number.
LEMMA SortedIs ==
    ASSUME NEW n \in Nat, ToSet(completed) = 1..n
    PROVE  Sorted = [i \in 1..n |-> i]
<1>1. ASSUME NEW m \in Nat PROVE IsFiniteSet(1..m) /\ Cardinality(1..m) = m
  <2>1. IsFiniteSet(1..m) /\ Cardinality(1..m) = IF 1 > m THEN 0 ELSE m - 1 + 1
    BY FS_Interval
  <2> QED BY <2>1
<1>2. ASSUME NEW i \in 1..n PROVE (CHOOSE p \in 1..n : Cardinality({q \in 1..n : q < p}) = i - 1) = i
  <2>1. ASSUME NEW p \in 1..n PROVE Cardinality({q \in 1..n : q < p}) = p - 1
    <3>1. {q \in 1..n : q < p} = 1..(p - 1) /\ p - 1 \in Nat
      OBVIOUS
    <3> QED BY <1>1, <3>1
  <2>2. \A p \in 1..n : Cardinality({q \in 1..n : q < p}) = i - 1 <=> p = i
    BY <2>1
  <2> QED BY <2>2
<1>3. Cardinality(1..n) = n
  BY <1>1
<1>4. Sorted = [i \in 1..n |-> CHOOSE p \in 1..n : Cardinality({q \in 1..n : q < p}) = i - 1]
  BY <1>3 DEF Sorted
<1> QED BY <1>2, <1>4

\* The types of UploadInv, which UploadTypeOK follows from.
UploadTypes ==
    /\ mode \in Modes
    /\ pc \in Calling \cup {"idle", "open", "writing", "finishing", "parts", "settling", "ended"}
    /\ written \in 0..MaxData /\ cut \in 0..MaxData /\ cut <= written
    /\ nextPart \in 1..(MaxData + 1)
    /\ content \in [Numbers -> (0..MaxData) \X (0..MaxData)]
    /\ task \in [Numbers -> {"none", "sending", "done", "failed"}]
    /\ inflight \in Seq(Numbers) /\ completed \in Seq(Numbers)
    /\ done \in BOOLEAN /\ letGo \in BOOLEAN /\ warned \in BOOLEAN
    /\ result \in {"none", "ok", "error", "aborted"}
    /\ tries \in [Numbers \cup {0} -> 0..MaxUploadRetries]
    /\ upload \in {"none", "open", "completed", "aborted"}
    /\ parts \subseteq Numbers
    /\ late \subseteq {<<"part", p>> : p \in Numbers} \cup {<<c, 0>> : c \in Calling}

\* The parts sent so far hold the units up to cut, one after the other.
ChainInv ==
    /\ nextPart - 1 <= cut /\ (nextPart = 1 => cut = 0)
    /\ nextPart > 1 => content[1][1] = 1 /\ content[nextPart - 1][2] = cut
    /\ \A p \in Numbers : p + 1 < nextPart => content[p + 1][1] = content[p][2] + 1
    /\ \A p \in Numbers : p < nextPart => p <= MaxParts /\ content[p][2] - content[p][1] < MaxPartSize
    /\ \A p \in Numbers : task[p] # "none" => p < nextPart

\* The size of parts of a body that is put.
SizeInv ==
    /\ mode = "put" => pc \notin {"open", "writing", "finishing", "settling"}
    /\ mode = "stream" => pc # "parts"
    /\ mode = "put" /\ pc \in {"starting", "parts"} =>
        ~TooLarge(written) /\ (cut = written \/ cut = (nextPart - 1) * PartSizeOf(written))

\* When nothing is in flight; and when written is what it will be.
Still == {"idle", "starting", "completing", "aborting", "putting", "ended"}
Frozen == {"completing", "aborting", "putting", "ended"}

\* Where the parts are: what is sent is in flight, and as long as the upload can
\* succeed every part is in flight or completed.
PlaceInv ==
    /\ \A p \in Numbers : task[p] = "sending" => p \in ToSet(inflight)
    /\ pc \in Still => inflight = <<>>
    /\ pc \in {"idle", "starting"} => nextPart = 1
    /\ pc \in {"idle", "starting", "open", "writing", "finishing", "parts", "completing"} =>
        ToSet(inflight) \cup ToSet(completed) = 1..(nextPart - 1)

\* A completion that is sent, or may yet arrive, names all parts of all the data.
CompleteInv ==
    pc = "completing" \/ <<"completing", 0>> \in late =>
        pc \in Frozen /\ cut = written /\ ToSet(completed) = 1..(nextPart - 1)

\* What can be read, and what the caller was told of it.
ObjectInv ==
    /\ object.present => IsWhole(object.parts)
    /\ object.present \/ <<"putting", 0>> \in late => pc \in Frozen
    /\ result = "ok" => object.present /\ pc = "ended"

\* What is in the store while no request was let go.
OrphanInv ==
    ~letGo =>
        /\ late = {} /\ (object.present => result = "ok")
        /\ upload # "open" => parts = {}
        /\ pc \in {"idle", "starting"} => upload = "none"
        /\ pc \in {"open", "writing", "finishing", "parts", "settling"} => upload = "open"
        /\ pc \in {"putting", "ended"} /\ ~warned => upload # "open"

\* The inductive invariant behind UploadsSound.
UploadInv == UploadTypes /\ ChainInv /\ SizeInv /\ PlaceInv /\ CompleteInv /\ ObjectInv /\ OrphanInv

\* Each action preserves it.
LEMMA PutStep ==
    ASSUME UploadInv, Put
    PROVE  UploadInv'
<1> USE DEF UploadInv, caller, server
<1>1. UploadTypes'
  <2>1. done' \in BOOLEAN /\ written' \in 0..MaxData /\ cut <= written'
    <3>1. cut = 0 /\ written' \in 0..MaxData /\ done' = TRUE
      BY DEF Put, ChainInv, PlaceInv
    <3> QED BY <3>1
  <2> QED BY <2>1 DEF Put, UploadTypes, Calling
<1>2. ChainInv'
  BY DEF Put, ChainInv, UploadTypes, Numbers
<1>3. SizeInv'
  <2>1. cut = 0 /\ nextPart = 1 /\ mode = "put" /\ mode' = mode /\ cut' = cut /\ nextPart' = nextPart /\ written' \in Nat
    BY DEF Put, ChainInv, PlaceInv
  <2>2. (nextPart - 1) * PartSizeOf(written') = 0
    <3> DEFINE z == PartSizeOf(written')
    <3>1. z \in Nat
      BY <2>1, PartSizes
    <3> HIDE DEF z
    <3>2. (nextPart - 1) * z = 0
      BY <2>1, <3>1
    <3> QED BY <3>2 DEF z
  <2>3. PartSizeOf(written)' = PartSizeOf(written') /\ TooLarge(written)' = TooLarge(written')
    BY DEF PartSizeOf, TooLarge
  <2>4. pc' \in {"putting", "ended", "starting"} /\ (pc' = "starting" => ~TooLarge(written'))
    BY DEF Put
  <2> QED BY <2>1, <2>2, <2>3, <2>4 DEF SizeInv
<1>4. PlaceInv'
  BY DEF Put, PlaceInv, UploadTypes, Still
<1>5. CompleteInv'
  BY DEF Put, CompleteInv, UploadTypes, Frozen
<1>6. ObjectInv'
  BY DEF Put, ObjectInv, Frozen, IsWhole, UploadTypes
<1>7. OrphanInv'
  BY DEF Put, OrphanInv, UploadTypes, ObjectInv, Frozen
<1> QED BY <1>1, <1>2, <1>3, <1>4, <1>5, <1>6, <1>7

LEMMA StartStreamStep ==
    ASSUME UploadInv, StartStream
    PROVE  UploadInv'
<1> USE DEF UploadInv, caller, server
<1>1. UploadTypes'
  BY DEF StartStream, UploadTypes, Calling
<1>2. ChainInv'
  BY DEF StartStream, ChainInv, UploadTypes, Numbers
<1>3. SizeInv'
  BY DEF StartStream, SizeInv, UploadTypes
<1>4. PlaceInv'
  BY DEF StartStream, PlaceInv, UploadTypes, Still
<1>5. CompleteInv'
  BY DEF StartStream, CompleteInv, UploadTypes, Frozen
<1>6. ObjectInv'
  BY DEF StartStream, ObjectInv, Frozen, IsWhole
<1>7. OrphanInv'
  BY DEF StartStream, OrphanInv, UploadTypes
<1> QED BY <1>1, <1>2, <1>3, <1>4, <1>5, <1>6, <1>7

LEMMA WriteStep ==
    ASSUME UploadInv, NEW n \in 1..MaxData, Write(n)
    PROVE  UploadInv'
<1> USE DEF UploadInv, caller, server
<1>1. UploadTypes'
  <2>1. written' \in 0..MaxData /\ cut <= written'
    BY UploadAssumption DEF Write, UploadTypes
  <2> QED BY <2>1 DEF Write, UploadTypes
<1>2. ChainInv'
  BY DEF Write, ChainInv, UploadTypes, Numbers
<1>3. SizeInv'
  BY DEF Write, SizeInv, UploadTypes
<1>4. PlaceInv'
  BY DEF Write, PlaceInv, UploadTypes, Still
<1>5. CompleteInv'
  BY DEF Write, CompleteInv, UploadTypes, Frozen
<1>6. ObjectInv'
  BY DEF Write, ObjectInv, Frozen, IsWhole
<1>7. OrphanInv'
  BY DEF Write, OrphanInv, UploadTypes
<1> QED BY <1>1, <1>2, <1>3, <1>4, <1>5, <1>6, <1>7

LEMMA WriteReturnsStep ==
    ASSUME UploadInv, WriteReturns
    PROVE  UploadInv'
<1> USE DEF UploadInv, caller, server
<1>1. UploadTypes'
  BY DEF WriteReturns, UploadTypes, Calling
<1>2. ChainInv'
  BY DEF WriteReturns, ChainInv, UploadTypes, Numbers
<1>3. SizeInv'
  BY DEF WriteReturns, SizeInv, UploadTypes
<1>4. PlaceInv'
  BY DEF WriteReturns, PlaceInv, UploadTypes, Still
<1>5. CompleteInv'
  BY DEF WriteReturns, CompleteInv, UploadTypes, Frozen
<1>6. ObjectInv'
  BY DEF WriteReturns, ObjectInv, Frozen, IsWhole
<1>7. OrphanInv'
  BY DEF WriteReturns, OrphanInv, UploadTypes
<1> QED BY <1>1, <1>2, <1>3, <1>4, <1>5, <1>6, <1>7

LEMMA FinishStep ==
    ASSUME UploadInv, Finish
    PROVE  UploadInv'
<1> USE DEF UploadInv, caller, server
<1>1. UploadTypes'
  BY DEF Finish, UploadTypes, Calling
<1>2. ChainInv'
  BY DEF Finish, ChainInv, UploadTypes, Numbers
<1>3. SizeInv'
  BY DEF Finish, SizeInv, UploadTypes
<1>4. PlaceInv'
  BY DEF Finish, PlaceInv, UploadTypes, Still
<1>5. CompleteInv'
  BY DEF Finish, CompleteInv, UploadTypes, Frozen
<1>6. ObjectInv'
  BY DEF Finish, ObjectInv, Frozen, IsWhole
<1>7. OrphanInv'
  BY DEF Finish, OrphanInv, UploadTypes
<1> QED BY <1>1, <1>2, <1>3, <1>4, <1>5, <1>6, <1>7

LEMMA AbortStep ==
    ASSUME UploadInv, Abort
    PROVE  UploadInv'
<1> USE DEF UploadInv, caller, server
<1>1. UploadTypes'
  BY DEF Abort, UploadTypes, Calling
<1>2. ChainInv'
  BY DEF Abort, ChainInv, UploadTypes, Numbers
<1>3. SizeInv'
  BY DEF Abort, SizeInv, UploadTypes
<1>4. PlaceInv'
  BY DEF Abort, PlaceInv, UploadTypes, Still
<1>5. CompleteInv'
  BY DEF Abort, CompleteInv, UploadTypes, Frozen
<1>6. ObjectInv'
  BY DEF Abort, ObjectInv, Frozen, IsWhole
<1>7. OrphanInv'
  BY DEF Abort, OrphanInv, UploadTypes, ObjectInv, Frozen
<1> QED BY <1>1, <1>2, <1>3, <1>4, <1>5, <1>6, <1>7

LEMMA TooManyPartsStep ==
    ASSUME UploadInv, TooManyParts
    PROVE  UploadInv'
<1> USE DEF UploadInv, caller, server
<1>1. UploadTypes'
  BY DEF TooManyParts, FailUpload, HasPart, UploadTypes, Calling
<1>2. ChainInv'
  BY DEF TooManyParts, FailUpload, HasPart, ChainInv, UploadTypes, Numbers
<1>3. SizeInv'
  BY DEF TooManyParts, FailUpload, HasPart, SizeInv, UploadTypes
<1>4. PlaceInv'
  BY DEF TooManyParts, FailUpload, HasPart, PlaceInv, UploadTypes, Still
<1>5. CompleteInv'
  BY DEF TooManyParts, FailUpload, HasPart, CompleteInv, UploadTypes, Frozen
<1>6. ObjectInv'
  BY DEF TooManyParts, FailUpload, HasPart, ObjectInv, Frozen, IsWhole
<1>7. OrphanInv'
  BY DEF TooManyParts, FailUpload, HasPart, OrphanInv, UploadTypes, ObjectInv, Frozen
<1> QED BY <1>1, <1>2, <1>3, <1>4, <1>5, <1>6, <1>7

LEMMA PartsDoneStep ==
    ASSUME UploadInv, PartsDone
    PROVE  UploadInv'
<1> USE DEF UploadInv, caller, server
<1>0. inflight = <<>> => ToSet(inflight) = {}
  BY DEF ToSet
<1>1. UploadTypes'
  BY DEF PartsDone, UploadTypes, Calling
<1>2. ChainInv'
  BY DEF PartsDone, ChainInv, UploadTypes, Numbers
<1>3. SizeInv'
  BY DEF PartsDone, SizeInv, UploadTypes
<1>4. PlaceInv'
  BY DEF PartsDone, PlaceInv, UploadTypes, Still
<1>5. CompleteInv'
  BY <1>0 DEF PartsDone, CompleteInv, UploadTypes, Frozen, PlaceInv
<1>6. ObjectInv'
  BY DEF PartsDone, ObjectInv, Frozen, IsWhole
<1>7. OrphanInv'
  BY DEF PartsDone, OrphanInv, UploadTypes
<1> QED BY <1>1, <1>2, <1>3, <1>4, <1>5, <1>6, <1>7

LEMMA PartRefusedStep ==
    ASSUME UploadInv, NEW p \in Numbers, PartRefused(p)
    PROVE  UploadInv'
<1> USE DEF UploadInv, caller, server
<1>1. UploadTypes'
  BY DEF PartRefused, UploadTypes, Calling
<1>2. ChainInv'
  BY DEF PartRefused, ChainInv, UploadTypes, Numbers
<1>3. SizeInv'
  BY DEF PartRefused, SizeInv, UploadTypes
<1>4. PlaceInv'
  BY DEF PartRefused, PlaceInv, UploadTypes, Still
<1>5. CompleteInv'
  BY DEF PartRefused, CompleteInv, UploadTypes, Frozen
<1>6. ObjectInv'
  BY DEF PartRefused, ObjectInv, Frozen, IsWhole
<1>7. OrphanInv'
  BY DEF PartRefused, OrphanInv, UploadTypes
<1> QED BY <1>1, <1>2, <1>3, <1>4, <1>5, <1>6, <1>7

LEMMA PartUnansweredStep ==
    ASSUME UploadInv, NEW p \in Numbers, PartUnanswered(p)
    PROVE  UploadInv'
<1> USE DEF UploadInv, caller, server
<1>1. UploadTypes'
  <2>0. tries' \in [Numbers \cup {0} -> 0..MaxUploadRetries]
    <3>1. p \in Numbers \cup {0} /\ tries[p] \in 0..MaxUploadRetries /\ MaxUploadRetries \in Nat
      BY UploadAssumption DEF UploadTypes
    <3>2. MayRetry(p) => tries[p] + 1 \in 0..MaxUploadRetries
      BY <3>1 DEF MayRetry
    <3> QED BY <3>2 DEF PartUnanswered, UploadTypes
  <2>1. task' \in [Numbers -> {"none", "sending", "done", "failed"}]
    BY DEF PartUnanswered, UploadTypes
  <2>2. late' \subseteq {<<"part", q>> : q \in Numbers} \cup {<<c, 0>> : c \in Calling}
    BY DEF PartUnanswered, NoAnswer, UploadTypes
  <2>3. letGo' \in BOOLEAN
    BY DEF PartUnanswered, NoAnswer, UploadTypes
  <2> QED BY <2>0, <2>1, <2>2, <2>3 DEF PartUnanswered, UploadTypes
<1>2. ChainInv'
  BY DEF PartUnanswered, NoAnswer, MayRetry, ChainInv, UploadTypes, Numbers
<1>3. SizeInv'
  BY DEF PartUnanswered, NoAnswer, MayRetry, SizeInv, UploadTypes
<1>4. PlaceInv'
  BY DEF PartUnanswered, NoAnswer, MayRetry, PlaceInv, UploadTypes, Still
<1>5. CompleteInv'
  BY DEF PartUnanswered, NoAnswer, MayRetry, CompleteInv, UploadTypes, Frozen
<1>6. ObjectInv'
  BY DEF PartUnanswered, NoAnswer, MayRetry, ObjectInv, Frozen, IsWhole
<1>7. OrphanInv'
  BY DEF PartUnanswered, NoAnswer, MayRetry, OrphanInv, UploadTypes
<1> QED BY <1>1, <1>2, <1>3, <1>4, <1>5, <1>6, <1>7

LEMMA SettleStep ==
    ASSUME UploadInv, Settle
    PROVE  UploadInv'
<1> USE DEF UploadInv, caller, server
<1>0. inflight # <<>> => Tail(inflight) \in Seq(Numbers) /\ ToSet(inflight) = ToSet(Tail(inflight)) \cup {Head(inflight)}
  BY ToSetTail DEF UploadTypes
<1>1. UploadTypes'
  BY <1>0 DEF Settle, HasSettled, UploadTypes, Calling
<1>2. ChainInv'
  BY DEF Settle, HasSettled, ChainInv, UploadTypes, Numbers
<1>3. SizeInv'
  BY DEF Settle, HasSettled, SizeInv, UploadTypes
<1>4. PlaceInv'
  BY <1>0 DEF Settle, HasSettled, PlaceInv, UploadTypes, Still
<1>5. CompleteInv'
  BY DEF Settle, HasSettled, CompleteInv, UploadTypes, Frozen
<1>6. ObjectInv'
  BY DEF Settle, HasSettled, ObjectInv, Frozen, IsWhole
<1>7. OrphanInv'
  BY DEF Settle, HasSettled, OrphanInv, UploadTypes
<1> QED BY <1>1, <1>2, <1>3, <1>4, <1>5, <1>6, <1>7

LEMMA HarvestStep ==
    ASSUME UploadInv, Harvest
    PROVE  UploadInv'
<1> USE DEF UploadInv, caller, server
<1>0. /\ mode = "stream" /\ pc \in {"writing", "finishing"}
      /\ inflight # <<>> /\ task[Head(inflight)] \in {"done", "failed"}
  <2>1. mode = "stream" /\ MustHarvest /\ pc # "parts" /\ inflight \in Seq(Numbers) /\ Window \in Nat /\ Window >= 1
    BY UploadAssumption DEF Harvest, SizeInv, UploadTypes
  <2>2. HasPart /\ Len(inflight) >= InFlightMax => Len(inflight) >= 1
    BY <2>1 DEF InFlightMax
  <2> QED BY <2>1, <2>2 DEF Harvest, MustHarvest, HasPart
<1> DEFINE h == Head(inflight)
           a == Tail(inflight)
           b == Append(completed, h)
<1>a. h \in Numbers /\ a \in Seq(Numbers) /\ ToSet(inflight) = ToSet(a) \cup {h}
  BY <1>0, ToSetTail DEF UploadTypes
<1>b. b \in Seq(Numbers) /\ ToSet(b) = ToSet(completed) \cup {h}
  BY <1>a, ToSetAppend DEF UploadTypes
<1>c. /\ inflight' = a /\ UNCHANGED <<mode, written, cut, nextPart, content, task, tries, server, late, letGo, warned>>
      /\ \/ task[h] = "done" /\ completed' = b /\ UNCHANGED <<pc, done, result>>
         \/ task[h] = "failed" /\ UNCHANGED completed /\ pc' = "settling" /\ done' = TRUE /\ result' = "error"
  BY <1>0 DEF Harvest, FailUpload
<1> HIDE DEF h, a, b
<1>1. UploadTypes'
  BY <1>a, <1>b, <1>c DEF UploadTypes
<1>2. ChainInv'
  BY <1>c DEF ChainInv
<1>3. SizeInv'
  BY <1>0, <1>c DEF SizeInv
<1>4. PlaceInv'
  BY <1>0, <1>a, <1>b, <1>c DEF PlaceInv, Still
<1>5. CompleteInv'
  BY <1>0, <1>c DEF CompleteInv, Frozen
<1>6. ObjectInv'
  BY <1>0, <1>c DEF ObjectInv, Frozen, IsWhole
<1>7. OrphanInv'
  BY <1>0, <1>c DEF OrphanInv, ObjectInv, Frozen
<1> QED BY <1>1, <1>2, <1>3, <1>4, <1>5, <1>6, <1>7

LEMMA TakePartStep ==
    ASSUME UploadInv, TakePart
    PROVE  UploadInv'
<1> USE DEF UploadInv, caller, server
<1>0. PICK i \in DOMAIN inflight :
        /\ task[inflight[i]] = "done"
        /\ inflight' = RemoveAt(inflight, i)
        /\ completed' = Append(completed, inflight[i])
  BY DEF TakePart
<1> DEFINE h == inflight[i]
           a == RemoveAt(inflight, i)
           b == Append(completed, h)
<1>a. h \in Numbers /\ a \in Seq(Numbers) /\ ToSet(inflight) = ToSet(a) \cup {h}
  BY <1>0, ToSetRemoveAt DEF UploadTypes
<1>b. b \in Seq(Numbers) /\ ToSet(b) = ToSet(completed) \cup {h}
  BY <1>a, ToSetAppend DEF UploadTypes
<1>c. /\ inflight' = a /\ completed' = b /\ task[h] = "done" /\ pc = "parts"
      /\ UNCHANGED <<mode, pc, written, cut, nextPart, content, done, result, task, tries, server, late, letGo, warned>>
  BY <1>0 DEF TakePart
<1> HIDE DEF h, a, b
<1>1. UploadTypes'
  BY <1>a, <1>b, <1>c DEF UploadTypes
<1>2. ChainInv'
  BY <1>c DEF ChainInv
<1>3. SizeInv'
  BY <1>c DEF SizeInv
<1>4. PlaceInv'
  BY <1>a, <1>b, <1>c DEF PlaceInv, Still
<1>5. CompleteInv'
  BY <1>c DEF CompleteInv, Frozen
<1>6. ObjectInv'
  BY <1>c DEF ObjectInv, IsWhole
<1>7. OrphanInv'
  BY <1>c DEF OrphanInv
<1> QED BY <1>1, <1>2, <1>3, <1>4, <1>5, <1>6, <1>7

LEMMA PartsFailStep ==
    ASSUME UploadInv, PartsFail
    PROVE  UploadInv'
<1> USE DEF UploadInv, caller, server
<1> DEFINE dropped == {p \in ToSet(inflight) : task[p] = "sending"}
<1>0. /\ pc = "parts" /\ pc' = "aborting" /\ result' = "error" /\ inflight' = <<>>
      /\ late' = late \cup {<<"part", p>> : p \in dropped}
      /\ letGo' = (letGo \/ dropped # {})
      /\ task' = [p \in Numbers |-> IF p \in dropped THEN "failed" ELSE task[p]]
      /\ UNCHANGED <<mode, written, cut, nextPart, content, completed, done, tries, server, warned>>
  BY DEF PartsFail
<1>a. dropped \subseteq Numbers
  BY DEF UploadTypes, ToSet
<1>b. \A p \in Numbers : task'[p] # "sending" /\ (task'[p] # "none" => task[p] # "none")
  BY <1>0 DEF PlaceInv
<1>c. <<"completing", 0>> \in late' => <<"completing", 0>> \in late
  BY <1>0
<1>d. <<"putting", 0>> \in late' => <<"putting", 0>> \in late
  BY <1>0
<1>e. letGo' \in BOOLEAN /\ (~letGo' => ~letGo /\ dropped = {})
  BY <1>0 DEF UploadTypes
<1> HIDE DEF dropped
<1>1. UploadTypes'
  <2>1. late' \subseteq {<<"part", p>> : p \in Numbers} \cup {<<c, 0>> : c \in Calling}
    BY <1>0, <1>a DEF UploadTypes
  <2>2. task' \in [Numbers -> {"none", "sending", "done", "failed"}]
    BY <1>0 DEF UploadTypes
  <2>3. inflight' \in Seq(Numbers)
    BY <1>0
  <2> QED BY <1>0, <1>e, <2>1, <2>2, <2>3 DEF UploadTypes, Calling
<1>2. ChainInv'
  BY <1>0, <1>b DEF ChainInv
<1>3. SizeInv'
  BY <1>0 DEF SizeInv
<1>4. PlaceInv'
  BY <1>0, <1>b DEF PlaceInv, Still
<1>5. CompleteInv'
  BY <1>0, <1>c DEF CompleteInv, Frozen
<1>6. ObjectInv'
  BY <1>0, <1>d DEF ObjectInv, Frozen, IsWhole
<1>7. OrphanInv'
  <2>1. ASSUME ~letGo' PROVE late' = {}
    BY <1>0, <1>e, <2>1 DEF OrphanInv
  <2> QED BY <1>0, <1>e, <2>1 DEF OrphanInv, ObjectInv, Frozen
<1> QED BY <1>1, <1>2, <1>3, <1>4, <1>5, <1>6, <1>7

LEMMA PartAnsweredStep ==
    ASSUME UploadInv, NEW p \in Numbers, PartAnswered(p)
    PROVE  UploadInv'
<1> USE DEF UploadInv, caller, server
<1>0. p \in ToSet(inflight) /\ pc \notin Still
  <2>1. p \in ToSet(inflight)
    BY DEF PartAnswered, PlaceInv
  <2> QED BY <2>1 DEF PlaceInv, ToSet
<1>1. UploadTypes'
  BY DEF PartAnswered, UploadPart, UploadTypes, Calling
<1>2. ChainInv'
  BY DEF PartAnswered, UploadPart, ChainInv, UploadTypes, Numbers
<1>3. SizeInv'
  BY DEF PartAnswered, UploadPart, SizeInv, UploadTypes
<1>4. PlaceInv'
  BY DEF PartAnswered, UploadPart, PlaceInv, UploadTypes, Still
<1>5. CompleteInv'
  BY DEF PartAnswered, UploadPart, CompleteInv, UploadTypes, Frozen
<1>6. ObjectInv'
  BY DEF PartAnswered, UploadPart, ObjectInv, Frozen, IsWhole
<1>7. OrphanInv'
  BY <1>0 DEF PartAnswered, UploadPart, OrphanInv, UploadTypes, Still, Calling
<1> QED BY <1>1, <1>2, <1>3, <1>4, <1>5, <1>6, <1>7

LEMMA DispatchStep ==
    ASSUME UploadInv, Dispatch
    PROVE  UploadInv'
<1> USE DEF UploadInv, caller, server
<1> DEFINE n == nextPart
           e == NextEnd
<1>0. /\ cut' = e /\ content' = [content EXCEPT ![n] = <<cut + 1, e>>] /\ task' = [task EXCEPT ![n] = "sending"]
      /\ inflight' = Append(inflight, n) /\ nextPart' = n + 1 /\ (mode = "put" \/ n <= MaxParts)
      /\ UNCHANGED <<mode, pc, written, completed, done, result, tries, server, late, letGo, warned>>
  BY DEF Dispatch
<1>a. /\ MaxParts \in Nat /\ MaxPartSize \in Nat /\ PartSize \in Nat /\ PartSize >= 1 /\ PartSize <= MaxPartSize
      /\ MaxData \in Nat /\ Modes \subseteq {"put", "stream"}
  BY UploadAssumption
<1>b. /\ written \in Nat /\ cut \in Nat /\ n \in Nat /\ written <= MaxData /\ n >= 1 /\ n - 1 <= cut
      /\ mode \in {"put", "stream"}
  BY <1>a DEF UploadTypes, ChainInv
<1>c. pc \in {"writing", "finishing", "parts"} /\ cut < written /\ (mode = "put" <=> pc = "parts")
  BY <1>a, <1>b DEF Dispatch, HasPart, SizeInv
<1>d. n \in Numbers
  BY <1>a, <1>b, <1>c DEF Numbers
<1>e. Size \in Nat /\ Size >= 1 /\ Size <= MaxPartSize
  <2>1. PartSizeOf(written) \in Nat /\ PartSizeOf(written) >= PartSize
    BY <1>b, PartSizes
  <2>2. mode = "put" => PartSizeOf(written) <= MaxPartSize
    BY <1>a, <1>c, <2>1 DEF SizeInv, TooLarge
  <2> QED BY <1>a, <2>1, <2>2 DEF Size
<1>f. e \in Nat /\ e >= cut + 1 /\ e <= written /\ e <= cut + Size /\ (e = written \/ e = cut + Size)
  BY <1>b, <1>c, <1>e DEF NextEnd
<1>g. n <= MaxParts /\ (mode = "put" => cut + Size = n * Size)
  <2>1. CASE mode = "put"
    <3> DEFINE z == PartSizeOf(written)
    <3>1. cut = (n - 1) * z /\ Size = z
      BY <1>b, <1>c, <2>1 DEF SizeInv, Size
    <3>2. z \in Nat /\ z >= 1 /\ written <= MaxParts * z
      BY <1>a, <1>b, PartSizes
    <3> HIDE DEF z
    <3>3. (n - 1) * z < MaxParts * z
      BY <1>a, <1>b, <1>c, <3>1, <3>2
    <3>4. ~(MaxParts <= n - 1)
      BY <1>a, <1>b, <3>2, <3>3
    <3>5. (n - 1) * z + z = n * z
      BY <1>b, <3>2
    <3> QED BY <1>a, <1>b, <3>1, <3>4, <3>5
  <2>2. CASE mode = "stream"
    BY <1>0, <2>2
  <2> QED BY <1>b, <2>1, <2>2
<1>h. Append(inflight, n) \in Seq(Numbers) /\ ToSet(Append(inflight, n)) = ToSet(inflight) \cup {n}
  BY <1>d, ToSetAppend DEF UploadTypes
<1>i. /\ content'[n] = <<cut + 1, e>> /\ (\A p \in Numbers : p # n => content'[p] = content[p])
      /\ content'[n][1] = cut + 1 /\ content'[n][2] = e
      /\ content \in [Numbers -> (0..MaxData) \X (0..MaxData)]
  BY <1>0, <1>d DEF UploadTypes
<1> HIDE DEF n, e
<1>1. UploadTypes'
  <2>1. cut' \in 0..MaxData /\ cut' <= written' /\ nextPart' \in 1..(MaxData + 1)
    BY <1>0, <1>a, <1>b, <1>d, <1>f DEF Numbers
  <2>2. content' \in [Numbers -> (0..MaxData) \X (0..MaxData)]
    <3>1. <<cut + 1, e>> \in (0..MaxData) \X (0..MaxData)
      BY <1>a, <1>b, <1>f
    <3> QED BY <1>0, <1>i, <3>1
  <2>3. task' \in [Numbers -> {"none", "sending", "done", "failed"}]
    BY <1>0 DEF UploadTypes
  <2> QED BY <1>0, <1>h, <2>1, <2>2, <2>3 DEF UploadTypes
<1>2. ChainInv'
  <2>1. nextPart' - 1 <= cut' /\ nextPart' # 1 /\ nextPart' - 1 = n
    BY <1>0, <1>b, <1>f
  <2>2. content'[1][1] = 1
    <3>1. CASE n = 1
      BY <1>b, <1>i, <3>1 DEF ChainInv, n
    <3>2. CASE n # 1
      <4>0. 1 \in Numbers
        BY <1>a, <1>d DEF Numbers
      <4>1. 1 \in Numbers /\ content[1][1] = 1
        BY <1>b, <3>2, <4>0 DEF ChainInv, n
      <4> QED BY <1>i, <3>2, <4>1
    <3> QED BY <3>1, <3>2
  <2>3. ASSUME NEW p \in Numbers, p + 1 < nextPart' PROVE content'[p + 1][1] = content'[p][2] + 1
    <3>0. p \in Nat /\ p < n /\ p \in Numbers
      BY <1>0, <1>b, <2>3 DEF Numbers
    <3>1. CASE p + 1 = n
      <4>1. content[p][2] = cut
        BY <1>b, <3>0, <3>1 DEF ChainInv, n, Numbers
      <4> QED BY <1>i, <3>0, <3>1, <4>1
    <3>2. CASE p + 1 < n
      <4>0. p + 1 \in Numbers
        BY <1>a, <1>b, <1>d, <3>0, <3>2 DEF Numbers
      <4>1. p + 1 \in Numbers /\ content[p + 1][1] = content[p][2] + 1
        BY <3>0, <3>2, <4>0 DEF ChainInv, n
      <4> QED BY <1>b, <1>i, <3>0, <3>2, <4>1
    <3> QED BY <1>b, <3>0, <3>1, <3>2
  <2>4. ASSUME NEW p \in Numbers, p < nextPart' PROVE p <= MaxParts /\ content'[p][2] - content'[p][1] < MaxPartSize
    <3>1. CASE p = n
      <4>1. e - (cut + 1) < MaxPartSize
        BY <1>a, <1>b, <1>e, <1>f
      <4> QED BY <1>g, <1>i, <3>1, <4>1
    <3>2. CASE p # n
      <4>1. p < n
        BY <1>0, <1>b, <2>4, <3>2 DEF Numbers
      <4> QED BY <1>i, <3>2, <4>1 DEF ChainInv, n
    <3> QED BY <3>1, <3>2
  <2>5. ASSUME NEW p \in Numbers, task'[p] # "none" PROVE p < nextPart'
    <3>1. CASE p = n
      BY <1>0, <1>b, <3>1
    <3>2. CASE p # n
      <4>1. p < n
        BY <1>0, <2>5, <3>2 DEF ChainInv, UploadTypes, n
      <4> QED BY <1>0, <1>b, <4>1 DEF Numbers
    <3> QED BY <3>1, <3>2
  <2> QED BY <1>0, <1>i, <2>1, <2>2, <2>3, <2>4, <2>5 DEF ChainInv
<1>3. SizeInv'
  <2>1. ASSUME mode = "put" PROVE cut' = written \/ cut' = (nextPart' - 1) * PartSizeOf(written)
    <3>1. Size = PartSizeOf(written) /\ nextPart' - 1 = n
      BY <1>0, <1>b, <2>1 DEF Size
    <3> QED BY <1>0, <1>f, <1>g, <2>1, <3>1
  <2>2. PartSizeOf(written)' = PartSizeOf(written) /\ TooLarge(written)' = TooLarge(written)
    BY <1>0 DEF PartSizeOf, TooLarge
  <2> QED BY <1>0, <1>c, <2>1, <2>2 DEF SizeInv
<1>4. PlaceInv'
  <2>1. \A p \in Numbers : task'[p] = "sending" => p \in ToSet(inflight')
    BY <1>0, <1>d, <1>h DEF PlaceInv, UploadTypes
  <2>2. ToSet(inflight') \cup ToSet(completed') = 1..(nextPart' - 1)
    <3>1. ToSet(inflight) \cup ToSet(completed) = 1..(n - 1)
      BY <1>c DEF PlaceInv, n
    <3>2. 1..(nextPart' - 1) = 1..(n - 1) \cup {n}
      BY <1>0, <1>b
    <3> QED BY <1>0, <1>h, <3>1, <3>2
  <2> QED BY <1>0, <1>c, <2>1, <2>2 DEF PlaceInv, Still
<1>5. CompleteInv'
  BY <1>0, <1>c DEF CompleteInv, Frozen
<1>6. ObjectInv'
  BY <1>0, <1>c DEF ObjectInv, Frozen, IsWhole
<1>7. OrphanInv'
  BY <1>0, <1>c DEF OrphanInv
<1> QED BY <1>1, <1>2, <1>3, <1>4, <1>5, <1>6, <1>7

\* A completion that names every part makes the blob that was written.
LEMMA FinishedWhole ==
    ASSUME UploadInv, cut = written, ToSet(completed) = 1..(nextPart - 1)
    PROVE  Finished.present /\ IsWhole(Finished.parts)
<1> DEFINE n == nextPart - 1
           f == [i \in 1..n |-> content[i]]
<1>0. n \in Nat /\ nextPart \in Nat /\ nextPart = n + 1 /\ n <= MaxData /\ MaxData \in Nat
  BY UploadAssumption DEF UploadInv, UploadTypes
<1>1. Sorted = [i \in 1..n |-> i]
  BY <1>0, SortedIs
<1>2. Finished.present /\ Finished.parts = f
  <2>1. DOMAIN Sorted = 1..n /\ \A i \in 1..n : Sorted[i] = i
    BY <1>1
  <2>2. [i \in DOMAIN Sorted |-> content[Sorted[i]]] = f
    BY <2>1
  <2> QED BY <2>2 DEF Finished, Blob
<1>3. DOMAIN f = 1..n /\ (\A i \in 1..n : f[i] = content[i]) /\ 1..n \subseteq Numbers
  BY <1>0 DEF Numbers
<1>4. Len(f) = n
  <2>1. f \in Seq((0..MaxData) \X (0..MaxData))
    BY <1>0, <1>3 DEF UploadInv, UploadTypes
  <2> QED BY <1>0, <1>3, <2>1
<1>5. f = <<>> => n = 0
  BY <1>0, <1>4
<1>6. n = 0 => written = 0
  BY <1>0 DEF UploadInv, ChainInv
<1>7. n # 0 => content[1][1] = 1 /\ content[n][2] = written
  BY <1>0 DEF UploadInv, ChainInv
<1>8. \A i \in 1..(n - 1) : content[i + 1][1] = content[i][2] + 1
  <2>1. ASSUME NEW i \in 1..(n - 1) PROVE content[i + 1][1] = content[i][2] + 1
    <3>1. i \in 1..n /\ i + 1 < nextPart
      BY <1>0
    <3> QED BY <1>3, <3>1 DEF UploadInv, ChainInv
  <2> QED BY <2>1
<1>9. n = 0 => f = <<>>
  BY <1>0, <1>3, <1>4
<1> HIDE DEF n, f
<1>10. IsWhole(f)
  <2>1. f # <<>> => f[1][1] = 1 /\ f[Len(f)][2] = written
    <3>1. ASSUME f # <<>> PROVE n # 0 /\ 1 \in 1..n /\ n \in 1..n
      BY <1>0, <1>9, <3>1
    <3> QED BY <1>3, <1>4, <1>7, <3>1
  <2>2. ASSUME NEW i \in 1..(Len(f) - 1) PROVE f[i + 1][1] = f[i][2] + 1
    <3>1. i \in 1..(n - 1) /\ i \in 1..n /\ i + 1 \in 1..n
      BY <1>0, <1>4
    <3> QED BY <1>3, <1>8, <3>1
  <2> QED BY <1>5, <1>6, <2>1, <2>2 DEF IsWhole
<1> QED BY <1>2, <1>10

\* So does a put of the whole body.
LEMMA WholeBodyWhole ==
    ASSUME written \in Nat
    PROVE  WholeBody.present /\ IsWhole(WholeBody.parts)
<1> DEFINE f == <<<<1, written>>>>
<1>1. Len(f) = 1 /\ f[1][1] = 1 /\ f[1][2] = written /\ f # <<>>
  OBVIOUS
<1>2. IsWhole(f)
  <2> HIDE DEF f
  <2>1. 1..(Len(f) - 1) = {}
    BY <1>1
  <2> QED BY <1>1, <2>1 DEF IsWhole
<1>3. written = 0 => IsWhole(<<>>)
  <2>1. Len(<<>>) = 0 /\ 1..(Len(<<>>) - 1) = {}
    OBVIOUS
  <2> QED BY <2>1 DEF IsWhole
<1>4. WholeBody.present /\ WholeBody.parts = IF written = 0 THEN <<>> ELSE f
  BY DEF WholeBody, Blob
<1> HIDE DEF f
<1> QED BY <1>2, <1>3, <1>4

\* The requests let go while the caller waits for its own.
LateGrows ==
    /\ late \subseteq late' /\ late' \subseteq late \cup {<<pc, 0>>}
    /\ letGo' \in BOOLEAN /\ (letGo => letGo') /\ (~letGo' => late' = late)
    /\ tries' \in [Numbers \cup {0} -> 0..MaxUploadRetries]
    /\ UNCHANGED <<mode, written, cut, nextPart, content, inflight, completed, task>>

LEMMA LateGrowsTells ==
    ASSUME UploadInv, pc \in Calling, LateGrows
    PROVE  /\ <<"completing", 0>> \in late' => pc = "completing" \/ <<"completing", 0>> \in late
           /\ <<"putting", 0>> \in late' => pc = "putting" \/ <<"putting", 0>> \in late
           /\ late' \subseteq {<<"part", p>> : p \in Numbers} \cup {<<c, 0>> : c \in Calling}
           /\ inflight = <<>> /\ result # "ok"
<1>1. ASSUME NEW c, <<c, 0>> \in late', <<c, 0>> \notin late PROVE pc = c
  <2>1. <<c, 0>> = <<pc, 0>>
    BY <1>1 DEF LateGrows
  <2> QED BY <2>1
<1>2. late' \subseteq {<<"part", p>> : p \in Numbers} \cup {<<c, 0>> : c \in Calling}
  BY DEF LateGrows, UploadInv, UploadTypes
<1>3. inflight = <<>> /\ result # "ok"
  BY DEF UploadInv, PlaceInv, ObjectInv, Calling, Still
<1> QED BY <1>1, <1>2, <1>3

\* A request given up, whoever gave it up.
LEMMA GivenUpStep ==
    ASSUME UploadInv, pc \in Calling, GivenUp, LateGrows, UNCHANGED server
    PROVE  UploadInv'
<1> USE DEF UploadInv, server
<1>a. /\ <<"completing", 0>> \in late' => pc = "completing" \/ <<"completing", 0>> \in late
      /\ late' \subseteq {<<"part", p>> : p \in Numbers} \cup {<<c, 0>> : c \in Calling}
      /\ inflight = <<>> /\ result # "ok"
  BY LateGrowsTells
<1>b. /\ pc' \in {"aborting", "putting", "ended"} /\ result' \in {result, "error"}
      /\ done' \in {done, TRUE} /\ warned' \in BOOLEAN /\ (warned => warned')
      /\ pc' \in {"putting", "ended"} /\ ~warned' => pc \in {"starting", "putting"} /\ ~warned
  BY DEF GivenUp, AfterAbort, Calling, UploadTypes
<1>c. UNCHANGED <<mode, written, cut, nextPart, content, inflight, completed, task, upload, parts, object>>
  BY DEF LateGrows
<1>1. UploadTypes'
  BY <1>a, <1>b, <1>c DEF UploadTypes, Calling, LateGrows
<1>2. ChainInv'
  BY <1>c DEF ChainInv
<1>3. SizeInv'
  BY <1>b, <1>c DEF SizeInv
<1>4. PlaceInv'
  BY <1>a, <1>b, <1>c DEF PlaceInv, Still
<1>5. CompleteInv'
  BY <1>a, <1>b, <1>c DEF CompleteInv, Frozen
<1>6. ObjectInv'
  BY <1>a, <1>b, <1>c DEF ObjectInv, Frozen, IsWhole
<1>7. OrphanInv'
  BY <1>a, <1>b, <1>c DEF OrphanInv, LateGrows, Calling
<1> QED BY <1>1, <1>2, <1>3, <1>4, <1>5, <1>6, <1>7

LEMMA TriesReset ==
    ASSUME UploadTypes
    PROVE  [tries EXCEPT ![0] = 0] \in [Numbers \cup {0} -> 0..MaxUploadRetries]
  BY UploadAssumption DEF UploadTypes

LEMMA RefusedStep ==
    ASSUME UploadInv, Refused
    PROVE  UploadInv'
<1>1. LateGrows
  BY TriesReset DEF Refused, LateGrows, UploadInv, UploadTypes
<1> QED BY <1>1, GivenUpStep DEF Refused

LEMMA UnansweredStep ==
    ASSUME UploadInv, Unanswered
    PROVE  UploadInv'
<1> USE DEF UploadInv, server
<1>1. tries' \in [Numbers \cup {0} -> 0..MaxUploadRetries]
  <2>1. 0 \in Numbers \cup {0} /\ tries[0] \in 0..MaxUploadRetries /\ MaxUploadRetries \in Nat
    BY UploadAssumption DEF UploadTypes
  <2>2. MayRetry(0) => tries[0] + 1 \in 0..MaxUploadRetries
    BY <2>1 DEF MayRetry
  <2> QED BY <2>2, TriesReset DEF Unanswered, UploadTypes
<1>2. LateGrows
  <2>1. CASE UNCHANGED <<late, letGo>>
    BY <1>1, <2>1 DEF Unanswered, LateGrows, UploadTypes
  <2>2. CASE late' = late \cup {<<pc, 0>>} /\ letGo' = TRUE
    BY <1>1, <2>2 DEF Unanswered, LateGrows
  <2> QED BY <2>1, <2>2 DEF Unanswered, NoAnswer
<1>3. CASE GivenUp
  BY <1>2, <1>3, GivenUpStep DEF Unanswered
<1>4. CASE UNCHANGED <<pc, done, result, warned>>
  <2>a. /\ <<"completing", 0>> \in late' => pc = "completing" \/ <<"completing", 0>> \in late
        /\ <<"putting", 0>> \in late' => pc = "putting" \/ <<"putting", 0>> \in late
        /\ late' \subseteq {<<"part", p>> : p \in Numbers} \cup {<<c, 0>> : c \in Calling}
    BY <1>2, LateGrowsTells DEF Unanswered
  <2>c. UNCHANGED <<mode, written, cut, nextPart, content, inflight, completed, task, upload, parts, object>>
    BY DEF Unanswered
  <2>1. UploadTypes'
    BY <1>2, <1>4, <2>a, <2>c DEF UploadTypes, LateGrows
  <2>2. ChainInv'
    BY <2>c DEF ChainInv
  <2>3. SizeInv'
    <3>1. PartSizeOf(written)' = PartSizeOf(written) /\ TooLarge(written)' = TooLarge(written)
      BY <2>c DEF PartSizeOf, TooLarge
    <3> QED BY <1>4, <2>c, <3>1 DEF SizeInv
  <2>4. PlaceInv'
    BY <1>4, <2>c DEF PlaceInv, Still
  <2>5. CompleteInv'
    BY <1>4, <2>a, <2>c DEF CompleteInv, Frozen
  <2>6. ObjectInv'
    BY <1>4, <2>a, <2>c DEF ObjectInv, Frozen, IsWhole
  <2>7. OrphanInv'
    BY <1>2, <1>4, <2>c DEF OrphanInv, LateGrows
  <2> QED BY <2>1, <2>2, <2>3, <2>4, <2>5, <2>6, <2>7
<1> QED BY <1>3, <1>4 DEF Unanswered

\* An answer that ends the upload, or makes the blob.
Settled ==
    /\ tries' \in [Numbers \cup {0} -> 0..MaxUploadRetries]
    /\ UNCHANGED <<mode, written, cut, nextPart, content, inflight, completed, task, late, letGo>>

LEMMA AnsweredStep ==
    ASSUME UploadInv, Answered
    PROVE  UploadInv'
<1> USE DEF UploadInv, server
<1>a. Settled
  BY TriesReset DEF Answered, Settled
<1>b. UNCHANGED <<mode, written, cut, nextPart, content, inflight, completed, task, late, letGo>>
  BY <1>a DEF Settled
<1>c. pc \in Calling /\ inflight = <<>> /\ result # "ok" /\ mode \in {"put", "stream"} /\ written \in Nat
  BY UploadAssumption DEF Answered, PlaceInv, ObjectInv, Calling, Still, UploadTypes
<1>d. ChainInv'
  BY <1>b DEF ChainInv
<1>e. PartSizeOf(written)' = PartSizeOf(written) /\ TooLarge(written)' = TooLarge(written)
  BY <1>b DEF PartSizeOf, TooLarge
<1>1. CASE pc = "starting"
  <2>1. upload' = "open" /\ UNCHANGED <<parts, object, done, result, warned>> /\ pc' = IF mode = "put" THEN "parts" ELSE "open"
    BY <1>1 DEF Answered, Create
  <2>2. UploadTypes'
    BY <1>a, <1>b, <2>1 DEF UploadTypes, Settled
  <2>3. SizeInv'
    BY <1>1, <1>b, <1>e, <2>1 DEF SizeInv
  <2>4. PlaceInv'
    BY <1>1, <1>b, <1>c, <2>1 DEF PlaceInv, Still
  <2>5. CompleteInv'
    BY <1>1, <1>b, <2>1 DEF CompleteInv, Frozen
  <2>6. ObjectInv'
    BY <1>1, <1>b, <1>c, <2>1 DEF ObjectInv, Frozen, IsWhole
  <2>7. OrphanInv'
    BY <1>1, <1>b, <2>1 DEF OrphanInv
  <2> QED BY <1>d, <2>2, <2>3, <2>4, <2>5, <2>6, <2>7
<1>2. CASE pc = "completing" /\ upload # "open"
  <2>1. LateGrows
    BY <1>a DEF Settled, LateGrows, UploadTypes
  <2>2. GivenUp /\ UNCHANGED server
    BY <1>2 DEF Answered, Complete
  <2> QED BY <1>c, <2>1, <2>2, GivenUpStep
<1>3. CASE pc = "completing" /\ upload = "open"
  <2>1. upload' = "completed" /\ parts' = {} /\ object' = Finished /\ pc' = "ended" /\ result' = "ok" /\ done' = TRUE /\ warned' = warned
    BY <1>3 DEF Answered, Complete
  <2>0. object'.present /\ IsWhole(object'.parts)
    BY <1>3, <2>1, FinishedWhole DEF CompleteInv
  <2>2. UploadTypes'
    BY <1>a, <1>b, <2>1 DEF UploadTypes, Settled
  <2>3. SizeInv'
    BY <1>b, <2>1 DEF SizeInv
  <2>4. PlaceInv'
    BY <1>b, <1>c, <2>1 DEF PlaceInv, Still
  <2>5. CompleteInv'
    BY <1>3, <1>b, <2>1 DEF CompleteInv, Frozen
  <2>6. ObjectInv'
    BY <1>b, <2>0, <2>1 DEF ObjectInv, Frozen, IsWhole
  <2>7. OrphanInv'
    BY <1>b, <2>1 DEF OrphanInv
  <2> QED BY <1>d, <2>2, <2>3, <2>4, <2>5, <2>6, <2>7
<1>4. CASE pc = "aborting"
  <2>1. /\ pc' \in {"aborting", "putting", "ended"} /\ done' = TRUE /\ result' = result
        /\ warned' = (warned \/ ~(upload = "open")) /\ object' = object
        /\ \/ upload = "open" /\ upload' = "aborted" /\ parts' = {}
           \/ upload # "open" /\ upload' = upload /\ parts' = parts
    BY <1>4 DEF Answered, AbortUpload, AfterAbort
  <2>2. UploadTypes'
    <3>1. warned' \in BOOLEAN
      BY <2>1 DEF UploadTypes
    <3> QED BY <1>a, <1>b, <2>1, <3>1 DEF UploadTypes, Settled, Calling
  <2>3. SizeInv'
    BY <1>b, <2>1 DEF SizeInv
  <2>4. PlaceInv'
    BY <1>b, <1>c, <2>1 DEF PlaceInv, Still
  <2>5. CompleteInv'
    BY <1>4, <1>b, <2>1 DEF CompleteInv, Frozen
  <2>6. ObjectInv'
    BY <1>b, <1>c, <2>1 DEF ObjectInv, Frozen, IsWhole
  <2>7. OrphanInv'
    BY <1>b, <2>1 DEF OrphanInv
  <2> QED BY <1>d, <2>2, <2>3, <2>4, <2>5, <2>6, <2>7
<1>5. CASE pc = "putting"
  <2>1. object' = WholeBody /\ pc' = "ended" /\ result' = "ok" /\ UNCHANGED <<upload, parts, done, warned>>
    BY <1>5 DEF Answered, PutObject
  <2>0. object'.present /\ IsWhole(object'.parts)
    BY <1>c, <2>1, WholeBodyWhole
  <2>2. UploadTypes'
    BY <1>a, <1>b, <2>1 DEF UploadTypes, Settled
  <2>3. SizeInv'
    BY <1>b, <2>1 DEF SizeInv
  <2>4. PlaceInv'
    BY <1>b, <1>c, <2>1 DEF PlaceInv, Still
  <2>5. CompleteInv'
    BY <1>5, <1>b, <2>1 DEF CompleteInv, Frozen
  <2>6. ObjectInv'
    BY <1>b, <2>0, <2>1 DEF ObjectInv, Frozen, IsWhole
  <2>7. OrphanInv'
    BY <1>5, <1>b, <2>1 DEF OrphanInv
  <2> QED BY <1>d, <2>2, <2>3, <2>4, <2>5, <2>6, <2>7
<1> QED BY <1>1, <1>2, <1>3, <1>4, <1>5, <1>c DEF Calling

LEMMA ArriveStep ==
    ASSUME UploadInv, Arrive
    PROVE  UploadInv'
<1> USE DEF UploadInv, server, caller
<1>0. PICK q \in late :
        /\ late' = late \ {q}
        /\ CASE q[1] = "part" -> UploadPart(q[2])
             [] q[1] = "starting" -> UNCHANGED server
             [] q[1] = "completing" -> Complete
             [] q[1] = "aborting" -> AbortUpload
             [] q[1] = "putting" -> PutObject
  BY DEF Arrive
<1>b. /\ UNCHANGED <<mode, pc, written, cut, nextPart, content, inflight, completed, done, result>>
      /\ UNCHANGED <<task, tries, letGo, warned>> /\ late' = late \ {q}
  BY <1>0 DEF Arrive
<1>c. letGo /\ written \in Nat
  BY <1>0 DEF OrphanInv, UploadTypes
<1>q. \/ \E p \in Numbers : q = <<"part", p>>
      \/ \E c \in Calling : q = <<c, 0>>
  BY <1>0 DEF UploadTypes
<1>s. /\ upload' \in {"none", "open", "completed", "aborted"} /\ parts' \subseteq Numbers
      /\ \/ object' = object
         \/ object'.present /\ IsWhole(object'.parts) /\ pc \in Frozen
  <2>1. CASE \E p \in Numbers : q = <<"part", p>>
    <3>1. PICK p \in Numbers : q = <<"part", p>>
      BY <2>1
    <3>2. UploadPart(p)
      BY <1>0, <3>1
    <3> QED BY <3>2 DEF UploadPart, UploadTypes
  <2>2. CASE q = <<"starting", 0>>
    BY <1>0, <2>2 DEF UploadTypes
  <2>3. CASE q = <<"completing", 0>>
    <3>1. Complete /\ pc \in Frozen /\ cut = written /\ ToSet(completed) = 1..(nextPart - 1)
      BY <1>0, <2>3 DEF CompleteInv
    <3>2. Finished.present /\ IsWhole(Finished.parts)
      BY <3>1, FinishedWhole
    <3> QED BY <3>1, <3>2 DEF Complete, UploadTypes
  <2>4. CASE q = <<"aborting", 0>>
    BY <1>0, <2>4 DEF AbortUpload, UploadTypes
  <2>5. CASE q = <<"putting", 0>>
    <3>1. PutObject /\ pc \in Frozen
      BY <1>0, <2>5 DEF ObjectInv
    <3>2. WholeBody.present /\ IsWhole(WholeBody.parts)
      BY <1>c, WholeBodyWhole
    <3> QED BY <3>1, <3>2 DEF PutObject, UploadTypes
  <2> QED BY <1>q, <2>1, <2>2, <2>3, <2>4, <2>5 DEF Calling
<1>1. UploadTypes'
  BY <1>b, <1>s DEF UploadTypes
<1>2. ChainInv'
  BY <1>b DEF ChainInv
<1>3. SizeInv'
  <2>1. PartSizeOf(written)' = PartSizeOf(written) /\ TooLarge(written)' = TooLarge(written)
    BY <1>b DEF PartSizeOf, TooLarge
  <2> QED BY <1>b, <2>1 DEF SizeInv
<1>4. PlaceInv'
  BY <1>b DEF PlaceInv, Still
<1>5. CompleteInv'
  BY <1>b DEF CompleteInv, Frozen
<1>6. ObjectInv'
  BY <1>b, <1>s DEF ObjectInv, Frozen, IsWhole
<1>7. OrphanInv'
  BY <1>b, <1>c DEF OrphanInv
<1> QED BY <1>1, <1>2, <1>3, <1>4, <1>5, <1>6, <1>7

LEMMA UploadStutter ==
    ASSUME UploadInv, UNCHANGED uploadVars
    PROVE  UploadInv'
<1> USE DEF UploadInv, uploadVars, caller, server
<1>1. UploadTypes'
  BY DEF UploadTypes
<1>2. ChainInv'
  BY DEF ChainInv
<1>3. SizeInv'
  BY DEF SizeInv, TooLarge, PartSizeOf
<1>4. PlaceInv'
  BY DEF PlaceInv, Still
<1>5. CompleteInv'
  BY DEF CompleteInv, Frozen
<1>6. ObjectInv'
  BY DEF ObjectInv, Frozen, IsWhole
<1>7. OrphanInv'
  BY DEF OrphanInv
<1> QED BY <1>1, <1>2, <1>3, <1>4, <1>5, <1>6, <1>7

LEMMA UploadStarts ==
    ASSUME UploadInit
    PROVE  UploadInv
<1>0. MaxData \in Nat /\ MaxUploadRetries \in Nat /\ 0 \in 0..MaxUploadRetries /\ 0 \in 0..MaxData
  BY UploadAssumption
<1>a. ToSet(<<>>) = {} /\ 1..(1 - 1) = {}
  BY DEF ToSet
<1>1. UploadTypes
  <2>1. content \in [Numbers -> (0..MaxData) \X (0..MaxData)]
    BY <1>0 DEF UploadInit
  <2>2. tries \in [Numbers \cup {0} -> 0..MaxUploadRetries]
    BY <1>0 DEF UploadInit
  <2>3. inflight \in Seq(Numbers) /\ completed \in Seq(Numbers) /\ 1 \in 1..(MaxData + 1)
    BY <1>0 DEF UploadInit
  <2>4. done \in BOOLEAN /\ letGo \in BOOLEAN /\ warned \in BOOLEAN
    BY DEF UploadInit
  <2>5. task \in [Numbers -> {"none", "sending", "done", "failed"}]
    BY DEF UploadInit
  <2>6. late \subseteq {<<"part", p>> : p \in Numbers} \cup {<<c, 0>> : c \in Calling}
    BY DEF UploadInit
  <2> QED BY <1>0, <2>1, <2>2, <2>3, <2>4, <2>5, <2>6 DEF UploadInit, UploadTypes
<1>2. ChainInv
  BY <1>0 DEF UploadInit, ChainInv, Numbers
<1>3. SizeInv
  BY DEF UploadInit, SizeInv
<1>4. PlaceInv
  BY <1>a DEF UploadInit, PlaceInv
<1>5. CompleteInv
  BY DEF UploadInit, CompleteInv
<1>6. ObjectInv
  BY DEF UploadInit, ObjectInv, Absent
<1>7. OrphanInv
  BY DEF UploadInit, OrphanInv, Absent
<1> QED BY <1>1, <1>2, <1>3, <1>4, <1>5, <1>6, <1>7 DEF UploadInv

LEMMA UploadInvImplies ==
    ASSUME UploadInv
    PROVE  UploadsSound
<1>1. UploadTypeOK
  <2>1. ToSet(inflight) \subseteq Numbers /\ ToSet(completed) \subseteq Numbers
    BY DEF UploadInv, UploadTypes, ToSet
  <2> QED BY <2>1 DEF UploadInv, UploadTypes, UploadTypeOK
<1>2. BlobIsWhole
  BY DEF UploadInv, ObjectInv, BlobIsWhole
<1>3. PartsWithinLimits
  BY DEF UploadInv, ChainInv, PartsWithinLimits
<1>4. NothingOrphaned
  BY DEF UploadInv, OrphanInv, NothingOrphaned
<1> QED BY <1>1, <1>2, <1>3, <1>4 DEF UploadsSound

\* upload.rs: whatever parts finish in what order, whichever requests are lost, repeated or
\* arrive after the caller gave them up, a blob that can be read is the one written, parts
\* keep to the limits of S3, and nothing stays behind unless a request was let go or the
\* warning printed; for every part size, window, number of retries and amount of data.
THEOREM UploadsHold == UploadSpec => []UploadsSound
<1>1. UploadInit => UploadInv
  BY UploadStarts
<1>2. UploadInv /\ [UploadNext]_uploadVars => UploadInv'
  <2> SUFFICES ASSUME UploadInv, [UploadNext]_uploadVars PROVE UploadInv'
    OBVIOUS
  <2>1. CASE Caller
    BY <2>1, PutStep, StartStreamStep, WriteReturnsStep, DispatchStep, TooManyPartsStep, HarvestStep,
       TakePartStep, PartsFailStep, PartsDoneStep, SettleStep, AnsweredStep, UnansweredStep, RefusedStep DEF Caller
  <2>2. CASE Finish \/ Abort \/ Arrive \/ UNCHANGED uploadVars
    BY <2>2, FinishStep, AbortStep, ArriveStep, UploadStutter
  <2>3. CASE \E n \in 1..MaxData : Write(n)
    BY <2>3, WriteStep
  <2>4. CASE \E p \in Numbers : Part(p)
    BY <2>4, PartAnsweredStep, PartUnansweredStep, PartRefusedStep DEF Part
  <2> QED BY <2>1, <2>2, <2>3, <2>4 DEF UploadNext
<1>3. UploadInv => UploadsSound
  BY UploadInvImplies
<1> QED BY <1>1, <1>2, <1>3, PTL DEF UploadSpec
=============================================================================
