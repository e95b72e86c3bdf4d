----------------------------- MODULE IndexSearch -----------------------------
(***************************************************************************)
(* A search over an index that runs may update while it is read            *)
(* (SegmentedReader in crates/index/src/segment.rs, search_patterns in     *)
(* crates/index/src/search/mod.rs, search_with_reopen in                   *)
(* crates/cli/src/main.rs).                                                *)
(*                                                                         *)
(* A reader pins nothing.  It reads the root once, loads the term map and  *)
(* the dead set of every segment when it opens, and everything else - the  *)
(* document tables, the postings, the packs - when it gets there, by which *)
(* time a run may have swapped the root and deleted them.                  *)
(*                                                                         *)
(* Abstractions.  The local cache is a coin: a blob that is no longer in   *)
(* the store may or may not have been cached by an earlier search.  A      *)
(* segment's candidates form one batch.  The index finds every document    *)
(* that matches and, being an index of grams, some that do not.            *)
(***************************************************************************)
EXTENDS SegmentedIndex

CONSTANTS
    Matching,       \* the bodies the pattern matches
    MayBeCached     \* the values of the coin: {FALSE} for a cold cache

ASSUME SearchAssumption ==
    /\ Matching \subseteq Bodies
    /\ MayBeCached \subseteq BOOLEAN

VARIABLE search     \* the state of the one search

searchVars == <<vars, search>>

\* How a search ends: with every match, on the sink's request, without an index
\* it can use, after the index changed under it (with output already given, or
\* under the second reader too), or with another error.
Results == {"none", "complete", "stopped", "missing", "partial", "changed", "error"}

Search ==
    [pc : {"open", "load", "visit", "fetch", "failed", "done"},
     attempt : 1..2,                    \* search_with_reopen opens twice at most
     base : Root,                       \* the root the reader was opened on
     pos : Nat,                         \* the segment being loaded or visited
     batch : SUBSET (Keys \X Bodies),   \* candidate documents still to be fetched
     candidates : BOOLEAN,              \* candidates > 0
     reported : SUBSET (Keys \X Bodies),
     result : Results]

NewReader(attempt) ==
    [pc |-> "open", attempt |-> attempt, base |-> Absent, pos |-> 1, batch |-> {},
     candidates |-> FALSE, reported |-> {}, result |-> "none"]

SearchInit == Init /\ search = NewReader(1)

-----------------------------------------------------------------------------
Segments == search.base.segments
Current == Segments[search.pos]

End(result) == [search EXCEPT !.pc = "done", !.result = result]

\* The live documents of a segment.
LiveDocuments(m) == {<<k, m.table[k].body>> : k \in Documents(m.table) \ m.dead}
Matches(docs) == {d \in docs : d[2] \in Matching}

\* A segment's own files, and the dead set that goes with them at open.
Readable(m, cached) == m.id \in files \/ cached
DeadReadable(m, cached) == m.dead = {} \/ <<m.id, m.dead>> \in deads \/ cached

\* SegmentedReader::load reads segments.bin.
OpenRoot ==
    /\ search.pc = "open"
    /\ search' = IF root.state = "loaded"
                 THEN [search EXCEPT !.pc = "load", !.base = root, !.pos = 1]
                 ELSE End("missing")
    /\ UNCHANGED vars

\* load_segment, for each segment in turn.  It is tried a second time with the
\* segment's cache wiped; a failure is an ordinary error, not IndexChanged.
LoadSegment ==
    /\ search.pc = "load"
    /\ search.pos <= Len(Segments)
    /\ \E cached \in MayBeCached :
        search' = IF Readable(Current, cached) /\ DeadReadable(Current, cached)
                  THEN [search EXCEPT !.pos = @ + 1]
                  ELSE End("error")
    /\ UNCHANGED vars

Loading == search.pc = "load" /\ search.pos > Len(Segments)
StartVisit ==
    /\ Loading
    /\ search' = [search EXCEPT !.pc = "visit", !.pos = 1]
    /\ UNCHANGED vars

\* read_candidate_batches: the tables and postings of the next segment, and the
\* candidates it has.
Visit ==
    /\ search.pc = "visit"
    /\ search.pos <= Len(Segments)
    /\ \E cached \in MayBeCached :
        IF Readable(Current, cached)
        THEN \E batch \in SUBSET LiveDocuments(Current) :
                /\ Matches(LiveDocuments(Current)) \subseteq batch
                /\ search' = IF batch = {}
                             THEN [search EXCEPT !.pos = @ + 1]
                             ELSE [search EXCEPT !.pc = "fetch", !.batch = batch,
                                                 !.candidates = TRUE]
        ELSE search' = [search EXCEPT !.pc = "failed"]
    /\ UNCHANGED vars

\* search_batch: each candidate is fetched from the segment's packs, in any
\* order, and reported (on_doc) if it really matches.
FetchDocument ==
    /\ search.pc = "fetch"
    /\ \E doc \in search.batch, cached \in MayBeCached :
        search' = IF PackIds(Current.table) \subseteq packs \/ cached
                  THEN [search EXCEPT !.batch = @ \ {doc}, !.reported = @ \cup Matches({doc})]
                  ELSE [search EXCEPT !.pc = "failed"]
    /\ UNCHANGED vars

\* The sink asks for no more (SinkFlow::Stop).
StopEarly ==
    /\ search.pc = "fetch"
    /\ search.reported # {}
    /\ search' = End("stopped")
    /\ UNCHANGED vars

NextSegment ==
    /\ search.pc = "fetch"
    /\ search.batch = {}
    /\ search' = [search EXCEPT !.pc = "visit", !.pos = @ + 1]
    /\ UNCHANGED vars

\* Every segment has been visited.
Complete ==
    /\ search.pc = "visit"
    /\ search.pos > Len(Segments)
    /\ search' = End("complete")
    /\ UNCHANGED vars

\* has_changed_root: the version compared is derived from the content.
HasChangedRoot == root # search.base

\* Mutant of CanReopen: the search starts over after it has reported matches.
CanReopenAnyTime(s) == s.attempt = 1

\* search_patterns gives up when candidates were processed already;
\* search_with_reopen opens a new reader once.
CanReopen(s) == ~s.candidates /\ s.attempt = 1

\* classify_index_result, some time after the read failed.
Classify ==
    /\ search.pc = "failed"
    /\ search' = IF ~HasChangedRoot THEN End("error")
                 ELSE IF CanReopen(search)
                 THEN [NewReader(2) EXCEPT !.reported = search.reported]
                 ELSE End(IF search.candidates THEN "partial" ELSE "changed")
    /\ UNCHANGED vars

SearchStep ==
    \/ OpenRoot \/ LoadSegment \/ StartVisit \/ Visit \/ FetchDocument
    \/ StopEarly \/ NextSegment \/ Complete \/ Classify

SearchNext == (Next /\ UNCHANGED search) \/ SearchStep

SearchSpec == SearchInit /\ [][SearchNext]_searchVars

-----------------------------------------------------------------------------
\* Every field of the search has its type.
SearchTypeOK == search \in Search

\* The documents of an index that match, by the version each key is live under.
Answer(list) ==
    {d \in Keys \X Matching : \E j \in LiveAt(list, d[1]) : list[j].table[d[1]].body = d[2]}

\* However often the root is swapped and blobs deleted under a search, all it
\* has reported comes from one root, and once it ends by itself that is all that
\* root has: reopening after a report would mix two.
AnswersOneRoot ==
    LET answer == Answer(Segments)
    IN  /\ SearchTypeOK
        /\ search.reported \subseteq answer
        /\ search.result = "complete" => search.reported = answer

\* A blob that an open reader misses means the root was swapped, and stays
\* swapped until the reader looks: the failure is never taken for damage.
MissingMeansChanged == search.pc = "failed" => HasChangedRoot

\* ARCHITECTURE.md: "readers detect a missing old segment or pack as an
\* `IndexChanged` error", so a search over a sound store ends in no other error.
NoOtherError == search.result # "error"
=============================================================================
