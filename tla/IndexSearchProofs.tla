--------------------------- MODULE IndexSearchProofs ---------------------------
(***************************************************************************)
(* Proofs about a search over an index that runs update while it is read:  *)
(* it answers from one root, and a blob it misses means that the root was  *)
(* swapped and stays so.                                                   *)
(*                                                                         *)
(* The second result rests on the invariant of the index: a reader is to   *)
(* the root what a run is that has loaded it.  Each of its segments is in  *)
(* the root as it was or will never be again, so the root cannot come back *)
(* to the content the reader was opened on.                                *)
(***************************************************************************)
EXTENDS IndexSearch, SegmentedIndexPackProofs

\* What the search has reported, phase by phase: all that matched in the segments
\* before the current one, what was fetched of the current one, and nothing
\* before the first candidate.
Visited(s) ==
    /\ s.pos \in Nat \ {0}
    /\ s.reported \subseteq Answer(s.base.segments)
    /\ \A h \in DOMAIN s.base.segments :
          h < s.pos => Matches(LiveDocuments(s.base.segments[h])) \subseteq s.reported

Fetching(s) ==
    /\ s.pos \in DOMAIN s.base.segments
    /\ s.batch \subseteq LiveDocuments(s.base.segments[s.pos])
    /\ Matches(LiveDocuments(s.base.segments[s.pos])) \subseteq s.batch \cup s.reported

ReaderInv(s) ==
    /\ s \in Search
    /\ s.pos # 0
    /\ ~s.candidates => s.reported = {}
    /\ s.pc # "done" => s.result = "none"
    /\ s.pc \in {"open", "load"} => ~s.candidates
    /\ s.pc \in {"visit", "fetch"} => Visited(s)
    /\ s.pc = "fetch" => Fetching(s) /\ s.candidates
    /\ s.reported \subseteq Answer(s.base.segments)
    /\ s.result = "complete" => s.reported = Answer(s.base.segments)

\* The inductive invariant behind AnswersOneRoot.
AnswerInv == ReaderInv(search)

-----------------------------------------------------------------------------
\* A document is an answer if it matches and is live in some segment.
LEMMA AnswerSegments ==
    ASSUME NEW list \in Seq(SegmentMeta)
    PROVE  \A d : d \in Answer(list) <=>
               \E h \in DOMAIN list : d \in Matches(LiveDocuments(list[h]))
<1>0. Matching \subseteq Bodies /\ None \notin Bodies
  BY SearchAssumption, ConstantsAssumption
<1>1. ASSUME NEW h \in DOMAIN list
      PROVE  /\ list[h].table \in Table /\ DOMAIN list[h].table \subseteq Keys
             /\ \A k \in DOMAIN list[h].table : list[h].table[k] \in Entry
  <2>1. list[h] \in SegmentMeta
    OBVIOUS
  <2>2. list[h].table \in Table
    BY <2>1 DEF SegmentMeta
  <2> QED BY <2>2 DEF Table
<1>2. ASSUME NEW d, d \in Answer(list)
      PROVE  \E h \in DOMAIN list : d \in Matches(LiveDocuments(list[h]))
  <2>1. /\ d \in Keys \X Matching
        /\ \E j \in LiveAt(list, d[1]) : list[j].table[d[1]].body = d[2]
    BY <1>2 DEF Answer
  <2>2. PICK j \in LiveAt(list, d[1]) : list[j].table[d[1]].body = d[2]
    BY <2>1
  <2>3. j \in DOMAIN list /\ d[1] \in DOMAIN list[j].table /\ d[1] \notin list[j].dead
    BY <2>2 DEF LiveAt, Live, Sources
  <2>4. d[1] \in Documents(list[j].table) \ list[j].dead
    BY <1>0, <2>1, <2>2, <2>3 DEF Documents
  <2>5. d = <<d[1], list[j].table[d[1]].body>> /\ d[2] \in Matching
    BY <2>1, <2>2
  <2>6. d \in LiveDocuments(list[j])
    BY <2>4, <2>5 DEF LiveDocuments
  <2> QED BY <2>3, <2>5, <2>6 DEF Matches
<1>3. ASSUME NEW d, NEW h \in DOMAIN list, d \in Matches(LiveDocuments(list[h]))
      PROVE  d \in Answer(list)
  <2>1. d \in LiveDocuments(list[h]) /\ d[2] \in Matching
    BY <1>3 DEF Matches
  <2>2. PICK k \in Documents(list[h].table) \ list[h].dead : d = <<k, list[h].table[k].body>>
    BY <2>1 DEF LiveDocuments
  <2>3. k \in DOMAIN list[h].table /\ k \notin list[h].dead /\ k \in Keys
    BY <2>2, <1>1 DEF Documents
  <2>4. h \in LiveAt(list, k) /\ d[1] = k /\ d[2] = list[h].table[k].body
    BY <2>2, <2>3 DEF LiveAt, Live, Sources
  <2>5. d \in Keys \X Matching
    BY <2>1, <2>2, <2>3
  <2> QED BY <2>4, <2>5 DEF Answer
<1> QED BY <1>2, <1>3

LEMMA DocumentsType ==
    ASSUME NEW m \in SegmentMeta
    PROVE  LiveDocuments(m) \subseteq Keys \X Bodies
<1>1. m.table \in Table
  BY DEF SegmentMeta
<1>2. DOMAIN m.table \subseteq Keys /\ \A k \in DOMAIN m.table : m.table[k] \in Entry
  BY <1>1 DEF Table
<1> QED BY <1>2 DEF LiveDocuments, Documents, Entry

LEMMA NewReaderShows ==
    ASSUME NEW a \in 1..2
    PROVE  ReaderInv(NewReader(a))
<1> DEFINE s == NewReader(a)
<1>1. /\ s.pc = "open" /\ s.pos = 1 /\ s.reported = {} /\ s.candidates = FALSE /\ s.result = "none"
      /\ s.base = Absent
  BY DEF NewReader
<1>2. Absent \in Root
  BY DEF Absent, Root
<1>3. s \in Search
  BY <1>2 DEF NewReader, Search, Results
<1> HIDE DEF s
<1> QED BY <1>1, <1>3 DEF ReaderInv, s

\* A search that ends other than by itself keeps what it has reported.
LEMMA EndShows ==
    ASSUME AnswerInv, NEW res \in Results, res # "complete", search' = End(res)
    PROVE  AnswerInv'
<1> DEFINE s == End(res)
<1>1. search \in Search
  BY DEF AnswerInv, ReaderInv
<1>2. /\ s.pc = "done" /\ s.result = res /\ s.pos = search.pos /\ s.base = search.base
      /\ s.reported = search.reported /\ s.candidates = search.candidates /\ s \in Search
  BY <1>1 DEF End, Search
<1> HIDE DEF s
<1>3. ReaderInv(s)
  BY <1>2 DEF AnswerInv, ReaderInv
<1> QED BY <1>3 DEF AnswerInv, s

LEMMA SearchFacts ==
    ASSUME AnswerInv
    PROVE  /\ search \in Search /\ ReaderInv(search)
           /\ search.base \in Root /\ search.base.segments \in Seq(SegmentMeta)
           /\ search.pos \in Nat /\ search.pos # 0
<1>1. search \in Search /\ ReaderInv(search) /\ search.pos # 0
  BY DEF AnswerInv, ReaderInv
<1>2. search.base \in Root /\ search.pos \in Nat
  BY <1>1 DEF Search
<1> QED BY <1>1, <1>2 DEF Root

LEMMA OpenShows ==
    ASSUME TypeOK, AnswerInv, OpenRoot
    PROVE  AnswerInv'
<1> DEFINE s == [search EXCEPT !.pc = "load", !.base = root, !.pos = 1]
<1>1. search \in Search /\ ReaderInv(search) /\ root \in Root
  BY SearchFacts DEF TypeOK
<1>2. search.pc = "open" /\ (search' = s \/ search' = End("missing"))
  BY DEF OpenRoot
<1>3. /\ s.pc = "load" /\ s.pos = 1 /\ s.reported = search.reported
      /\ s.candidates = search.candidates /\ s.result = search.result /\ s.base = root
      /\ s \in Search
  BY <1>1 DEF Search
<1> HIDE DEF s
<1>4. search.reported = {} /\ ~search.candidates /\ search.result = "none"
  BY <1>1, <1>2 DEF ReaderInv
<1>5. ReaderInv(s)
  BY <1>3, <1>4 DEF ReaderInv
<1>6. CASE search' = s
  BY <1>5, <1>6 DEF AnswerInv
<1>7. CASE search' = End("missing")
  BY <1>7, EndShows DEF Results
<1> QED BY <1>2, <1>6, <1>7

LEMMA LoadShows ==
    ASSUME AnswerInv, LoadSegment \/ StartVisit
    PROVE  AnswerInv'
<1> DEFINE s == [search EXCEPT !.pos = @ + 1]
           v == [search EXCEPT !.pc = "visit", !.pos = 1]
<1>1. /\ search \in Search /\ ReaderInv(search) /\ search.pos \in Nat
      /\ search.base.segments \in Seq(SegmentMeta)
  BY SearchFacts
<1>2. search.pc = "load" /\ (search' = s \/ search' = v \/ search' = End("error"))
  BY DEF LoadSegment, StartVisit, Loading
<1>3. /\ s.pc = "load" /\ s.pos = search.pos + 1 /\ s.reported = search.reported
      /\ s.candidates = search.candidates /\ s.result = search.result /\ s.base = search.base
      /\ s \in Search
  BY <1>1, <1>2 DEF Search
<1>4. /\ v.pc = "visit" /\ v.pos = 1 /\ v.reported = search.reported
      /\ v.candidates = search.candidates /\ v.result = search.result /\ v.base = search.base
      /\ v \in Search
  BY <1>1, <1>2 DEF Search
<1> HIDE DEF s, v
<1>5. search.reported = {} /\ ~search.candidates /\ search.result = "none"
  BY <1>1, <1>2 DEF ReaderInv
<1>6. ReaderInv(s)
  BY <1>1, <1>3, <1>5 DEF ReaderInv
<1>7. Visited(v)
  <2>1. \A h \in DOMAIN v.base.segments : ~(h < v.pos)
    BY <1>1, <1>4
  <2> QED BY <2>1, <1>4, <1>5 DEF Visited
<1>8. ReaderInv(v)
  BY <1>4, <1>5, <1>7 DEF ReaderInv
<1>9. CASE search' = s
  BY <1>6, <1>9 DEF AnswerInv
<1>10. CASE search' = v
  BY <1>8, <1>10 DEF AnswerInv
<1>11. CASE search' = End("error")
  BY <1>11, EndShows DEF Results
<1> QED BY <1>2, <1>9, <1>10, <1>11

\* The reader goes on to the next segment: nothing is left of the current one.
LEMMA AdvanceShows ==
    ASSUME AnswerInv, search.pc \in {"visit", "fetch"}, search.pos \in DOMAIN Segments,
           Matches(LiveDocuments(Current)) \subseteq search.reported,
           NEW s \in Search, s.pc = "visit", s.pos = search.pos + 1,
           s.reported = search.reported, s.candidates = search.candidates,
           s.result = search.result, s.base = search.base, search' = s
    PROVE  AnswerInv'
<1>1. /\ ReaderInv(search) /\ search.pos \in Nat /\ search.base.segments \in Seq(SegmentMeta)
  BY SearchFacts
<1>2. Visited(search)
  BY <1>1 DEF ReaderInv
<1>3. Visited(s)
  <2>1. \A h \in DOMAIN s.base.segments : h < s.pos => h < search.pos \/ h = search.pos
    BY <1>1
  <2> QED BY <2>1, <1>1, <1>2 DEF Visited, Segments, Current
<1>4. ReaderInv(s)
  BY <1>1, <1>3 DEF ReaderInv
<1> QED BY <1>4 DEF AnswerInv

LEMMA FailShows ==
    ASSUME AnswerInv, search.pc # "done", search' = [search EXCEPT !.pc = "failed"]
    PROVE  AnswerInv'
<1> DEFINE s == [search EXCEPT !.pc = "failed"]
<1>1. search \in Search /\ ReaderInv(search)
  BY SearchFacts
<1>2. /\ s.pc = "failed" /\ s.pos = search.pos /\ s.reported = search.reported
      /\ s.candidates = search.candidates /\ s.result = search.result /\ s.base = search.base
      /\ s \in Search
  BY <1>1 DEF Search
<1> HIDE DEF s
<1>3. ReaderInv(s)
  BY <1>1, <1>2 DEF ReaderInv
<1> QED BY <1>3 DEF AnswerInv, s

LEMMA VisitShows ==
    ASSUME AnswerInv, Visit
    PROVE  AnswerInv'
<1>1. /\ search \in Search /\ ReaderInv(search) /\ search.pos \in Nat /\ search.pos # 0
      /\ search.base.segments \in Seq(SegmentMeta)
  BY SearchFacts
<1>2. search.pc = "visit" /\ search.pos <= Len(Segments)
  BY DEF Visit
<1>3. search.pos \in DOMAIN Segments /\ Current \in SegmentMeta
  BY <1>1, <1>2 DEF Segments, Current
<1>4. CASE search' = [search EXCEPT !.pc = "failed"]
  BY <1>2, <1>4, FailShows
<1>5. ASSUME NEW b \in SUBSET LiveDocuments(Current), Matches(LiveDocuments(Current)) \subseteq b,
             search' = IF b = {} THEN [search EXCEPT !.pos = @ + 1]
                       ELSE [search EXCEPT !.pc = "fetch", !.batch = b, !.candidates = TRUE]
      PROVE  AnswerInv'
  <2>1. CASE b = {}
    <3> DEFINE s == [search EXCEPT !.pos = @ + 1]
    <3>1. /\ s.pc = "visit" /\ s.pos = search.pos + 1 /\ s.reported = search.reported
          /\ s.candidates = search.candidates /\ s.result = search.result /\ s.base = search.base
          /\ s \in Search /\ search' = s
      BY <1>1, <1>2, <1>5, <2>1 DEF Search
    <3> HIDE DEF s
    <3> QED BY <3>1, <1>2, <1>3, <1>5, <2>1, AdvanceShows
  <2>2. CASE b # {}
    <3> DEFINE s == [search EXCEPT !.pc = "fetch", !.batch = b, !.candidates = TRUE]
    <3>1. b \subseteq Keys \X Bodies
      BY <1>3, <1>5, DocumentsType
    <3>2. /\ s.pc = "fetch" /\ s.pos = search.pos /\ s.reported = search.reported
          /\ s.candidates = TRUE /\ s.result = search.result /\ s.base = search.base
          /\ s.batch = b /\ s \in Search /\ search' = s
      BY <1>1, <1>5, <2>2, <3>1 DEF Search
    <3> HIDE DEF s
    <3>3. Visited(search)
      BY <1>1, <1>2 DEF ReaderInv
    <3>4. Visited(s)
      BY <3>2, <3>3 DEF Visited
    <3>5. Fetching(s)
      BY <3>2, <1>3, <1>5 DEF Fetching, Segments, Current
    <3>6. ReaderInv(s)
      BY <3>2, <3>4, <3>5, <1>1, <1>2 DEF ReaderInv
    <3> QED BY <3>2, <3>6 DEF AnswerInv
  <2> QED BY <2>1, <2>2
<1> QED BY <1>4, <1>5 DEF Visit

LEMMA FetchShows ==
    ASSUME AnswerInv, FetchDocument
    PROVE  AnswerInv'
<1>1. /\ search \in Search /\ ReaderInv(search) /\ search.pos \in Nat
      /\ search.base.segments \in Seq(SegmentMeta)
  BY SearchFacts
<1>2. search.pc = "fetch"
  BY DEF FetchDocument
<1>3. CASE search' = [search EXCEPT !.pc = "failed"]
  BY <1>2, <1>3, FailShows
<1>4. ASSUME NEW doc \in search.batch,
             search' = [search EXCEPT !.batch = @ \ {doc}, !.reported = @ \cup Matches({doc})]
      PROVE  AnswerInv'
  <2> DEFINE s == [search EXCEPT !.batch = @ \ {doc}, !.reported = @ \cup Matches({doc})]
  <2>1. Visited(search) /\ Fetching(search)
    BY <1>1, <1>2 DEF ReaderInv
  <2>2. doc \in LiveDocuments(search.base.segments[search.pos]) /\ search.pos \in DOMAIN search.base.segments
    BY <1>4, <2>1 DEF Fetching
  <2>3. search.base.segments[search.pos] \in SegmentMeta
    BY <1>1, <2>2
  <2>4. doc \in Keys \X Bodies /\ Matches({doc}) \subseteq Keys \X Bodies
    BY <2>2, <2>3, DocumentsType DEF Matches
  <2>5. Matches({doc}) \subseteq Answer(search.base.segments)
    <3>1. \A d \in Matches({doc}) : d \in Matches(LiveDocuments(search.base.segments[search.pos]))
      BY <2>2 DEF Matches
    <3> QED BY <3>1, <2>2, <1>1, AnswerSegments
  <2>6. /\ s.pc = "fetch" /\ s.pos = search.pos /\ s.reported = search.reported \cup Matches({doc})
        /\ s.candidates = search.candidates /\ s.result = search.result /\ s.base = search.base
        /\ s.batch = search.batch \ {doc} /\ s \in Search
    BY <1>1, <1>2, <2>4 DEF Search
  <2> HIDE DEF s
  <2>7. Visited(s)
    BY <2>1, <2>5, <2>6 DEF Visited
  <2>8. Fetching(s)
    <3>1. search.batch \subseteq LiveDocuments(search.base.segments[search.pos])
      BY <2>1 DEF Fetching
    <3>2. s.batch \subseteq LiveDocuments(s.base.segments[s.pos])
      BY <3>1, <2>6
    <3>3. ASSUME NEW d \in Matches(LiveDocuments(search.base.segments[search.pos]))
          PROVE  d \in s.batch \cup s.reported
      <4>1. d \in search.batch \cup search.reported
        BY <3>3, <2>1 DEF Fetching
      <4>2. CASE d = doc
        <5>1. d \in Matches({doc})
          BY <3>3, <4>2 DEF Matches
        <5> QED BY <5>1, <2>6
      <4>3. CASE d # doc
        BY <4>1, <4>3, <2>6
      <4> QED BY <4>2, <4>3
    <3> QED BY <3>2, <3>3, <2>2, <2>6 DEF Fetching
  <2>9. search.candidates
    BY <1>1, <1>2 DEF ReaderInv
  <2>10. ReaderInv(s)
    BY <2>5, <2>6, <2>7, <2>8, <2>9, <1>1, <1>2 DEF ReaderInv
  <2> QED BY <2>10, <1>4 DEF AnswerInv, s
<1> QED BY <1>3, <1>4 DEF FetchDocument

LEMMA StopShows ==
    ASSUME AnswerInv, StopEarly
    PROVE  AnswerInv'
<1>1. search' = End("stopped")
  BY DEF StopEarly
<1> QED BY <1>1, EndShows DEF Results

LEMMA NextShows ==
    ASSUME AnswerInv, NextSegment
    PROVE  AnswerInv'
<1> DEFINE s == [search EXCEPT !.pc = "visit", !.pos = @ + 1]
<1>1. search \in Search /\ ReaderInv(search) /\ search.pos \in Nat
  BY SearchFacts
<1>2. search.pc = "fetch" /\ search.batch = {} /\ search' = s
  BY DEF NextSegment
<1>3. Fetching(search)
  BY <1>1, <1>2 DEF ReaderInv
<1>4. search.pos \in DOMAIN Segments /\ Matches(LiveDocuments(Current)) \subseteq search.reported
  BY <1>2, <1>3 DEF Fetching, Segments, Current
<1>5. /\ s.pc = "visit" /\ s.pos = search.pos + 1 /\ s.reported = search.reported
      /\ s.candidates = search.candidates /\ s.result = search.result /\ s.base = search.base
      /\ s \in Search
  <2>1. search.pos + 1 \in Nat
    BY <1>1
  <2> QED BY <1>1, <2>1 DEF Search
<1> HIDE DEF s
<1> QED BY <1>2, <1>4, <1>5, AdvanceShows

\* Past the last segment, everything the root has is reported.
LEMMA CompleteShows ==
    ASSUME AnswerInv, Complete
    PROVE  AnswerInv'
<1> DEFINE s == End("complete")
<1>1. /\ search \in Search /\ ReaderInv(search) /\ search.pos \in Nat
      /\ search.base.segments \in Seq(SegmentMeta)
  BY SearchFacts
<1>2. search.pc = "visit" /\ search.pos > Len(search.base.segments) /\ search' = s
  BY DEF Complete, Segments
<1>3. Visited(search)
  BY <1>1, <1>2 DEF ReaderInv
<1>4. ASSUME NEW d \in Answer(search.base.segments)
      PROVE  d \in search.reported
  <2>1. PICK h \in DOMAIN search.base.segments : d \in Matches(LiveDocuments(search.base.segments[h]))
    BY <1>1, AnswerSegments
  <2>2. h < search.pos
    BY <1>1, <1>2
  <2> QED BY <2>1, <2>2, <1>3 DEF Visited
<1>5. search.reported = Answer(search.base.segments)
  BY <1>3, <1>4 DEF Visited
<1>6. /\ s.pc = "done" /\ s.result = "complete" /\ s.pos = search.pos /\ s.base = search.base
      /\ s.reported = search.reported /\ s.candidates = search.candidates /\ s \in Search
  BY <1>1 DEF End, Search, Results
<1> HIDE DEF s
<1>7. ReaderInv(s)
  BY <1>1, <1>5, <1>6 DEF ReaderInv
<1> QED BY <1>2, <1>7 DEF AnswerInv

\* The search starts over only when it has reported nothing.
LEMMA ClassifyShows ==
    ASSUME AnswerInv, Classify
    PROVE  AnswerInv'
<1> DEFINE s == [NewReader(2) EXCEPT !.reported = search.reported]
<1>1. ReaderInv(search)
  BY SearchFacts
<1>2. CASE CanReopen(search) /\ search' = s
  <2>1. search.reported = {}
    BY <1>1, <1>2 DEF CanReopen, ReaderInv
  <2>3. /\ s.pc = "open" /\ s.pos = 1 /\ s.reported = {} /\ s.candidates = FALSE
        /\ s.result = "none" /\ s.base = Absent
    BY <2>1 DEF NewReader
  <2>4. s \in Search
    <3> DEFINE n == NewReader(2)
    <3>1. n \in Search
      BY NewReaderShows DEF ReaderInv
    <3> HIDE DEF n
    <3>2. search.reported \subseteq Keys \X Bodies
      BY <2>1
    <3>3. [n EXCEPT !.reported = search.reported] \in Search
      BY <3>1, <3>2 DEF Search
    <3> QED BY <3>3 DEF n
  <2> HIDE DEF s
  <2>5. ReaderInv(s)
    BY <2>3, <2>4 DEF ReaderInv
  <2> QED BY <1>2, <2>5 DEF AnswerInv
<1>3. CASE search' = End("error") \/ search' = End("partial") \/ search' = End("changed")
  BY <1>3, EndShows DEF Results
<1> QED BY <1>2, <1>3 DEF Classify

LEMMA AnswerStep ==
    ASSUME TypeOK, AnswerInv, [SearchNext]_searchVars
    PROVE  AnswerInv'
<1>1. CASE SearchStep
  BY <1>1, OpenShows, LoadShows, VisitShows, FetchShows, StopShows, NextShows, CompleteShows,
     ClassifyShows DEF SearchStep
<1>2. CASE UNCHANGED search
  BY <1>2 DEF AnswerInv
<1> QED BY <1>1, <1>2 DEF SearchNext, searchVars

\* A search leaves the index alone, so all that holds of the index by itself
\* holds while it is searched.
LEMMA SearchKeepsIndex == SearchSpec => Spec
<1>1. SearchInit => Init
  BY DEF SearchInit
<1>2. [SearchNext]_searchVars => [Next]_vars
  BY DEF SearchNext, searchVars, SearchStep, OpenRoot, LoadSegment, StartVisit, Visit,
         FetchDocument, StopEarly, NextSegment, Complete, Classify
<1> QED BY <1>1, <1>2, PTL DEF SearchSpec, Spec

LEMMA AnswerInvariant == SearchSpec => []AnswerInv
<1>1. SearchInit => AnswerInv
  BY NewReaderShows DEF SearchInit, AnswerInv
<1>2. TypeOK /\ AnswerInv /\ [SearchNext]_searchVars => AnswerInv'
  BY AnswerStep
<1>3. SearchSpec => []TypeOK
  BY SearchKeepsIndex, TypeCorrect, PTL
<1> QED BY <1>1, <1>2, <1>3, PTL DEF SearchSpec

\* Whatever the runs do to the index under a search, what search_with_reopen has
\* reported comes from one root, and is all of it once the search completes.
THEOREM OneRootAnswered == SearchSpec => []AnswersOneRoot
<1>1. AnswerInv => AnswersOneRoot
  BY DEF AnswerInv, ReaderInv, AnswersOneRoot, SearchTypeOK, Segments
<1> QED BY <1>1, AnswerInvariant, PTL

-----------------------------------------------------------------------------
(***************************************************************************)
(* A reader and the root it was opened on.                                 *)
(***************************************************************************)

\* Segment b of the reader will never be in the root again.
Gone(s, rt, b) == Superseded(s.base.segments[b].id, s.base.segments[b].dead, rt.segments)

\* The reader knows no id a run has yet to publish, each of its segments is
\* current or gone for good, and one is gone if a read has failed.
Pinned(s, rt, n, runs) ==
    /\ \A x \in Ids(s.base.segments) : x < n
    /\ \A i \in Indexers : runs[i].drawn \cap Ids(s.base.segments) = {}
    /\ CurrentOrSuperseded(s, rt)
    /\ s.pc = "failed" => \E b \in DOMAIN s.base.segments : Gone(s, rt, b)

\* The inductive invariant behind MissingMeansChanged.
PinnedInv == Pinned(search, root, nextId, run)

\* A step draws the next id or none.
LEMMA DrawsNext ==
    ASSUME TypeOK, [Next]_vars
    PROVE  /\ nextId \in Nat /\ nextId' \in Nat /\ nextId' >= nextId
           /\ \A i \in Indexers : run'[i].drawn \subseteq run[i].drawn \cup {nextId}
<1>1. nextId \in Nat /\ run \in [Indexers -> Run]
  BY DEF TypeOK
<1>2. Idle.drawn = {}
  BY DEF Idle
<1>3. CASE UNCHANGED <<nextId, run>>
  BY <1>1, <1>3
<1>4. ASSUME NEW i \in Indexers, NEW s, run' = [run EXCEPT ![i] = s],
             s.drawn \subseteq run[i].drawn \cup {nextId}, nextId' \in {nextId, nextId + 1}
      PROVE  /\ nextId' \in Nat /\ nextId' >= nextId
             /\ \A j \in Indexers : run'[j].drawn \subseteq run[j].drawn \cup {nextId}
  BY <1>1, <1>4
<1>5. ASSUME NEW i \in Indexers, List(i) \/ Step(i) \/ FailDelete(i) \/ Abort(i)
      PROVE  \E s : /\ run' = [run EXCEPT ![i] = s]
                    /\ s.drawn \subseteq run[i].drawn \cup {nextId}
                    /\ nextId' \in {nextId, nextId + 1}
  <2> DEFINE r == run[i]
  <2>0. r \in Run
    BY <1>1
  <2>1. CASE List(i)
    <3>1. PICK rebuild \in BOOLEAN, purge \in PurgeModes :
              run' = [run EXCEPT ![i] = [Idle EXCEPT !.pc = "listed", !.listing = bucket,
                                                     !.rebuild = rebuild, !.purge = purge]]
      BY <2>1 DEF List
    <3>2. nextId' = nextId
      BY <2>1 DEF List
    <3> QED BY <3>1, <3>2 DEF Idle
  <2>2. CASE LoadRoot(i)
    BY <2>0, <2>2 DEF LoadRoot, Run
  <2>3. CASE Plan(i)
    <3>1. CASE UpToDate(r)
      BY <3>1, <2>3, <1>2 DEF Plan
    <3>2. CASE ~UpToDate(r)
      <4>1. nextId' = nextId
        BY <2>3 DEF Plan
      <4> DEFINE s(w, t, d, q, v) == [r EXCEPT !.pc = "update", !.work = w, !.toAdd = t, !.dirty = d,
                                               !.replaced = q, !.inventory = v]
      <4>2. \E w, t, d, q, v : run' = [run EXCEPT ![i] = s(w, t, d, q, v)]
        BY <3>2, <2>3 DEF Plan
      <4>3. \A w, t, d, q, v : s(w, t, d, q, v).drawn = r.drawn
        BY <2>0 DEF Run
      <4> HIDE DEF s
      <4>4. PICK w, t, d, q, v : run' = [run EXCEPT ![i] = s(w, t, d, q, v)]
        BY <4>2
      <4>5. s(w, t, d, q, v).drawn \subseteq run[i].drawn \cup {nextId}
        BY <4>3
      <4> QED BY <4>1, <4>4, <4>5
    <3> QED BY <3>1, <3>2
  <2>4. CASE Drop(i)
    BY <2>0, <2>4 DEF Drop, Run
  <2>5. CASE Keep(i)
    BY <2>0, <2>5 DEF Keep, Run
  <2>6. CASE Repack(i)
    BY <2>0, <2>6 DEF Repack, Run, NewSegment
  <2>7. CASE AddShard(i)
    BY <2>0, <2>7 DEF AddShard, Run, NewSegment
  <2>8. CASE FailFetch(i) \/ FailMerge(i) \/ LoseRace(i) \/ Finish(i) \/ Abort(i)
    BY <2>8, <1>2 DEF FailFetch, FailMerge, LoseRace, Finish, Abort
  <2>9. CASE PutFiles(i)
    BY <2>0, <2>9 DEF PutFiles, Run
  <2>10. CASE Compact(i)
    BY <2>0, <2>10 DEF Compact, Run, NewSegment
  <2>11. CASE SkipCompact(i)
    BY <2>0, <2>11, <1>2 DEF SkipCompact, Run
  <2>12. CASE Swap(i)
    BY <2>12 DEF Swap, Idle
  <2>13. CASE Delete(i)
    BY <2>0, <2>13 DEF Delete, Collect, Run
  <2>14. CASE FailDelete(i)
    BY <2>0, <2>14 DEF FailDelete, Collect, Run
  <2> QED BY <1>5, <2>1, <2>2, <2>3, <2>4, <2>5, <2>6, <2>7, <2>8, <2>9, <2>10, <2>11, <2>12,
             <2>13, <2>14 DEF Step
<1>6. CASE \E k \in Keys, b \in Bodies \cup {None} : Mutate(k, b)
  BY <1>3, <1>6 DEF Mutate
<1>7. CASE UNCHANGED vars
  BY <1>3, <1>7 DEF vars
<1>8. CASE \E i \in Indexers : List(i) \/ Step(i) \/ FailDelete(i) \/ Abort(i)
  BY <1>4, <1>5, <1>8, <1>1
<1> QED BY <1>1, <1>6, <1>7, <1>8 DEF Next

\* While the reader stays open, a step of the index keeps it pinned: a swap builds
\* on the root it replaces.
LEMMA IndexKeepsPinned ==
    ASSUME TypeOK, RootInv, search \in Search, PinnedInv, [Next]_vars, UNCHANGED search
    PROVE  PinnedInv'
<1> DEFINE list == search.base.segments
           old == root.segments
<1>1. list \in Seq(SegmentMeta) /\ old \in Seq(SegmentMeta) /\ \A x \in Ids(list) : x \in Nat
  <2>1. search.base \in Root /\ root \in Root
    BY DEF Search, TypeOK
  <2>2. list \in Seq(SegmentMeta) /\ old \in Seq(SegmentMeta)
    BY <2>1 DEF Root
  <2>3. \A h \in DOMAIN list : list[h] \in SegmentMeta
    BY <2>2
  <2>4. \A h \in DOMAIN list : list[h].id \in Nat
    BY <2>3 DEF SegmentMeta
  <2> QED BY <2>2, <2>4 DEF Ids
<1>2. \A x \in Ids(list) : x < nextId'
  BY <1>1, DrawsNext DEF PinnedInv, Pinned
<1>3. \A i \in Indexers : run'[i].drawn \cap Ids(list) = {}
  <2>1. nextId \notin Ids(list)
    <3>1. \A x \in Ids(list) : x < nextId
      BY DEF PinnedInv, Pinned
    <3>2. nextId \in Nat
      BY DEF TypeOK
    <3> QED BY <3>1, <3>2
  <2> QED BY <2>1, DrawsNext DEF PinnedInv, Pinned
<1>4. /\ CurrentOrSuperseded(search, root')
      /\ \A b \in DOMAIN list : Gone(search, root, b) => Gone(search, root', b)
  <2>1. CASE root' = root
    BY <2>1 DEF PinnedInv, Pinned
  <2>2. ASSUME NEW i \in Indexers, Swap(i)
        PROVE  /\ CurrentOrSuperseded(search, root')
               /\ \A b \in DOMAIN list : Gone(search, root, b) => Gone(search, root', b)
    <3> DEFINE r == run[i]
               keep == run[i].keep
    <3>1. r.base = root /\ root'.segments = keep
      BY <2>2 DEF Swap, CanSwap, Loaded
    <3>2. Local(r, nextId) /\ keep \in Seq(SegmentMeta)
      BY StateFacts DEF Run
    <3>3. \A h \in DOMAIN keep : \/ keep[h].id \in r.drawn
                                 \/ \E b \in DOMAIN old : Succeeds(keep[h], old[b])
      BY <3>1, <3>2 DEF Local, Origins
    <3>4. DistinctIds(keep) /\ DistinctIds(old)
      BY <3>1, <3>2 DEF Local, Distinct
    <3>5. \A b \in DOMAIN list : list[b].id \notin r.drawn
      BY DEF PinnedInv, Pinned, Ids
    <3> HIDE DEF r, keep, old
    <3>6. ASSUME NEW b \in DOMAIN list, Gone(search, root, b) PROVE Gone(search, root', b)
      <4>1. Superseded(list[b].id, list[b].dead, old)
        BY <3>6 DEF Gone, old
      <4>2. Superseded(list[b].id, list[b].dead, keep)
        BY <4>1, <3>3, <3>5, SupersededStays
      <4> QED BY <4>2, <3>1 DEF Gone
    <3>7. ASSUME NEW b \in DOMAIN list
          PROVE  \/ \E h \in DOMAIN keep : keep[h] = list[b]
                 \/ Superseded(list[b].id, list[b].dead, keep)
      <4>1. CASE \E g \in DOMAIN old : old[g] = list[b]
        <5>1. PICK g \in DOMAIN old : old[g] = list[b]
          BY <4>1
        <5> QED BY <5>1, <1>1, <3>2, <3>3, <3>4, <3>5, ReplacedOrSame
      <4>2. CASE Superseded(list[b].id, list[b].dead, old)
        BY <4>2, <3>3, <3>5, SupersededStays
      <4> QED BY <4>1, <4>2 DEF PinnedInv, Pinned, CurrentOrSuperseded, old
    <3> QED BY <3>1, <3>6, <3>7 DEF CurrentOrSuperseded
  <2>3. root' = root \/ \E i \in Indexers : Swap(i)
    BY DEF Next, Step, vars, store, Mutate, List, LoadRoot, Plan, Drop, Keep, Repack, AddShard,
       FailFetch, PutFiles, Compact, FailMerge, SkipCompact, LoseRace, Delete, FailDelete, Finish, Abort
  <2> QED BY <2>1, <2>2, <2>3
<1>5. search.pc = "failed" => \E b \in DOMAIN list : Gone(search, root', b)
  BY <1>4 DEF PinnedInv, Pinned
<1> QED BY <1>2, <1>3, <1>4, <1>5 DEF PinnedInv, Pinned

\* A reader that keeps its root stays pinned while it does not fail.
LEMMA SameRootPinned ==
    ASSUME PinnedInv, UNCHANGED vars, search'.base = search.base, search'.pc # "failed"
    PROVE  PinnedInv'
<1>1. root' = root /\ nextId' = nextId /\ run' = run
  BY DEF vars, store
<1> QED BY <1>1 DEF PinnedInv, Pinned, CurrentOrSuperseded

\* A segment one of whose blobs is missing is not in the root, so it is gone.
LEMMA MissingPinned ==
    ASSUME TypeOK, RootInv, PacksPresent, AnswerInv, PinnedInv, UNCHANGED vars,
           search.pos \in DOMAIN Segments,
           Current.id \notin files \/ ~(PackIds(Current.table) \subseteq packs),
           search' = [search EXCEPT !.pc = "failed"]
    PROVE  PinnedInv'
<1>1. search'.base = search.base /\ root' = root /\ nextId' = nextId /\ run' = run
  BY SearchFacts DEF Search, vars, store
<1>2. \A h \in DOMAIN root.segments : root.segments[h].id \in files
  BY StateFacts DEF Sound
<1>3. \A h \in DOMAIN root.segments : PackIds(root.segments[h].table) \subseteq packs
  <2>1. Blobs(ToSet(root.segments)).packs = UNION {PackIds(m.table) : m \in ToSet(root.segments)}
    BY DEF Blobs
  <2>2. ASSUME NEW h \in DOMAIN root.segments PROVE PackIds(root.segments[h].table) \subseteq packs
    <3>1. root.segments[h] \in ToSet(root.segments)
      BY DEF ToSet
    <3>2. PackIds(root.segments[h].table) \subseteq Blobs(ToSet(root.segments)).packs
      BY <2>1, <3>1
    <3> QED BY <3>2 DEF PacksPresent
  <2> QED BY <2>2
<1>4. \A h \in DOMAIN root.segments : root.segments[h] # Current
  BY <1>2, <1>3
<1>5. Gone(search, root, search.pos)
  BY <1>4 DEF PinnedInv, Pinned, CurrentOrSuperseded, Gone, Current, Segments
<1> QED BY <1>1, <1>5 DEF PinnedInv, Pinned, CurrentOrSuperseded, Gone, Segments

LEMMA PinnedStep ==
    ASSUME TypeOK, RootInv, PacksPresent, AnswerInv, PinnedInv, [SearchNext]_searchVars
    PROVE  PinnedInv'
<1>1. search \in Search /\ ReaderInv(search)
  BY SearchFacts
<1>2. CASE (Next /\ UNCHANGED search) \/ UNCHANGED searchVars
  BY <1>1, <1>2, IndexKeepsPinned DEF searchVars
<1>3. \A res : End(res).base = search.base /\ End(res).pc = "done"
  BY <1>1 DEF End, Search
<1>4. ASSUME UNCHANGED vars, search'.base = Absent, search'.pc = "open" PROVE PinnedInv'
  <2>1. DOMAIN search'.base.segments = {} /\ Ids(search'.base.segments) = {}
    BY <1>4 DEF Absent, Ids
  <2> QED BY <2>1, <1>4 DEF PinnedInv, Pinned, CurrentOrSuperseded
<1>5. CASE OpenRoot
  <2>1. CASE search' = End("missing")
    BY <2>1, <1>3, <1>5, SameRootPinned DEF OpenRoot
  <2>2. CASE search' = [search EXCEPT !.pc = "load", !.base = root, !.pos = 1]
    <3>1. search'.base = root /\ search'.pc = "load"
      BY <1>1, <2>2 DEF Search
    <3>2. root' = root /\ nextId' = nextId /\ run' = run
      BY <1>5 DEF OpenRoot, vars, store
    <3>3. \A x \in Ids(root.segments) : x < nextId
      BY StateFacts DEF Sound, Ids
    <3>4. \A i \in Indexers : run[i].drawn \cap Ids(root.segments) = {}
      <4>1. \A i \in Indexers : Grounded(run[i], root, files, deads)
        BY DEF RootInv, RootInvOf
      <4> QED BY <4>1 DEF Grounded
    <3> QED BY <3>1, <3>2, <3>3, <3>4 DEF PinnedInv, Pinned, CurrentOrSuperseded
  <2> QED BY <2>1, <2>2, <1>5 DEF OpenRoot
<1>6. CASE LoadSegment
  <2>1. UNCHANGED vars /\ search.pc = "load"
        /\ (search' = [search EXCEPT !.pos = @ + 1] \/ search' = End("error"))
    BY <1>6 DEF LoadSegment
  <2>2. search'.base = search.base /\ search'.pc # "failed"
    BY <2>1, <1>1, <1>3 DEF Search
  <2> QED BY <2>1, <2>2, SameRootPinned
<1>7. CASE StartVisit \/ NextSegment
  <2>1. search'.base = search.base /\ search'.pc # "failed" /\ UNCHANGED vars
    BY <1>1, <1>7 DEF Search, StartVisit, NextSegment
  <2> QED BY <2>1, SameRootPinned
<1>8. CASE StopEarly \/ Complete
  BY <1>3, <1>8, SameRootPinned DEF StopEarly, Complete
<1>9. CASE Visit
  <2>1. search.pos \in DOMAIN Segments /\ search.pc = "visit" /\ UNCHANGED vars
    <3>1. search.pc = "visit" /\ UNCHANGED vars /\ search.pos <= Len(search.base.segments)
      BY <1>9 DEF Visit, Segments
    <3>2. search.pos \in Nat /\ search.pos # 0 /\ search.base.segments \in Seq(SegmentMeta)
      BY SearchFacts
    <3> QED BY <3>1, <3>2 DEF Segments
  <2>2. CASE Current.id \notin files /\ search' = [search EXCEPT !.pc = "failed"]
    BY <2>1, <2>2, MissingPinned
  <2>3. ASSUME NEW b, search' = IF b = {}
                                THEN [search EXCEPT !.pos = @ + 1]
                                ELSE [search EXCEPT !.pc = "fetch", !.batch = b, !.candidates = TRUE]
        PROVE  PinnedInv'
    <3>1. search'.base = search.base /\ search'.pc # "failed"
      BY <1>1, <2>1, <2>3 DEF Search
    <3> QED BY <2>1, <3>1, SameRootPinned
  <2> QED BY <1>9, <2>2, <2>3 DEF Visit, Readable
<1>10. CASE FetchDocument
  <2>1. search.pos \in DOMAIN Segments /\ search.pc = "fetch" /\ UNCHANGED vars
    BY <1>1, <1>10 DEF FetchDocument, ReaderInv, Fetching, Segments
  <2>2. CASE ~(PackIds(Current.table) \subseteq packs) /\ search' = [search EXCEPT !.pc = "failed"]
    BY <2>1, <2>2, MissingPinned
  <2>3. ASSUME NEW doc, search' = [search EXCEPT !.batch = @ \ {doc}, !.reported = @ \cup Matches({doc})]
        PROVE  PinnedInv'
    <3>1. search'.base = search.base /\ search'.pc # "failed"
      BY <1>1, <2>1, <2>3 DEF Search
    <3> QED BY <2>1, <3>1, SameRootPinned
  <2> QED BY <1>10, <2>2, <2>3 DEF FetchDocument
<1>11. CASE Classify
  <2>1. UNCHANGED vars
    BY <1>11 DEF Classify
  <2>2. CASE \E res : search' = End(res)
    BY <2>1, <2>2, <1>3, SameRootPinned
  <2>3. CASE search' = [NewReader(2) EXCEPT !.reported = search.reported]
    BY <2>1, <2>3, <1>4 DEF NewReader
  <2> QED BY <1>11, <2>2, <2>3 DEF Classify
<1> QED BY <1>2, <1>5, <1>6, <1>7, <1>8, <1>9, <1>10, <1>11 DEF SearchNext, SearchStep

\* While one process at a time indexes the bucket, an open reader that misses a
\* segment file or a pack is on a root that was swapped, and that will not return
\* before has_changed_root looks: classify_index_result takes no missing blob for
\* damage to the index.
THEOREM MissingIsChange ==
    ASSUME OneIndexer
    PROVE  SearchSpec => []MissingMeansChanged
<1>1. SearchInit => PinnedInv
  <2> SUFFICES ASSUME SearchInit PROVE PinnedInv
    OBVIOUS
  <2>1. search.base = Absent /\ search.pc = "open"
    BY DEF SearchInit, NewReader
  <2>2. DOMAIN search.base.segments = {} /\ Ids(search.base.segments) = {}
    BY <2>1 DEF Absent, Ids
  <2> QED BY <2>1, <2>2 DEF PinnedInv, Pinned, CurrentOrSuperseded
<1>2. TypeOK /\ RootInv /\ PacksPresent /\ AnswerInv /\ PinnedInv /\ [SearchNext]_searchVars => PinnedInv'
  BY PinnedStep
<1>3. PinnedInv => MissingMeansChanged
  BY DEF PinnedInv, Pinned, Gone, Superseded, MissingMeansChanged, HasChangedRoot
<1>4. SearchSpec => []TypeOK /\ []RootInv /\ []PacksPresent
  BY SearchKeepsIndex, TypeCorrect, RootInvariant, PacksStay, PTL
<1> QED BY <1>1, <1>2, <1>3, <1>4, AnswerInvariant, PTL DEF SearchSpec
=============================================================================
