----------------------------- MODULE MCTransport -----------------------------
(***************************************************************************)
(* The components in which tasks and threads wait for each other, in one    *)
(* instance: uploads, downloads, ranged reads and listings, the blocks of   *)
(* packs and the batches of a search.  (The request limiter has its own.)   *)
(*                                                                         *)
(* They share no state; a behaviour is one of the component it was started  *)
(* for, the others stay in their initial states.                            *)
(***************************************************************************)
EXTENDS BlobUpload, Downloads, RangedRead, PackBlocks, SearchBatch

VARIABLE component

Sizes == [s \in Sources |-> s]

\* One document that does not match and one outside the scope, anywhere.
SomeKinds ==
    {ks \in [1..MaxCandidates -> {"hit", "miss", "outside"}] :
        \A k \in {"miss", "outside"} : Cardinality({d \in 1..MaxCandidates : ks[d] = k}) = 1}

\* Only the component x takes a step.
Only(x) ==
    /\ component = x /\ UNCHANGED component
    /\ IF x = "upload" THEN TRUE ELSE UNCHANGED uploadVars
    /\ IF x = "downloads" THEN TRUE ELSE UNCHANGED downloadVars
    /\ IF x \in {"read", "listing"} THEN TRUE ELSE UNCHANGED <<readVars, listVars>>
    /\ IF x = "blocks" THEN TRUE ELSE UNCHANGED blockVars
    /\ IF x = "batch" THEN TRUE ELSE UNCHANGED searchVars

allVars == <<component, uploadVars, downloadVars, readVars, listVars, blockVars, searchVars>>

TransportInit ==
    /\ component \in {"upload", "downloads", "read", "listing", "blocks", "batch"}
    /\ UploadInit /\ DownloadsInit /\ ReadInit /\ BlocksInit /\ BatchInit

TransportNext ==
    \/ Only("upload") /\ UploadNext
    \/ Only("downloads") /\ DownloadsNext
    \/ Only("read") /\ ReadNext
    \/ Only("listing") /\ (StartListing \/ ListPage)
    \/ Only("blocks") /\ BlocksNext
    \/ Only("batch") /\ BatchNext

\* The fairness of the components.  As only one of them runs, the n-th fair action of
\* each can share a condition: it is a condition on the one that runs.
First ==
    \/ Only("upload") /\ Caller
    \/ Only("downloads") /\ DownloadStep
    \/ Only("listing") /\ ListPage
    \/ Only("batch") /\ SearchStep

LoaderSeq == SetToSeq(Loaders)

Another(n) ==
    \/ Only("upload") /\ Part(n)
    \/ n \in DOMAIN LoaderSeq /\ Only("blocks") /\ LoaderStep(LoaderSeq[n])

TransportSpec ==
    /\ TransportInit /\ [][TransportNext]_allVars
    /\ WF_allVars(First)
    /\ \A n \in Numbers : WF_allVars(Another(n))

\* Every call comes to its end: an upload, a download, a listing, a load of blocks and
\* a search, though they wait for permits, for full channels, for one another and for
\* answers that never come.
EveryCallEnds == CallsEnd /\ DownloadsEnd /\ ListingEnds /\ LoadsReturn /\ QueriesEnd
=============================================================================
