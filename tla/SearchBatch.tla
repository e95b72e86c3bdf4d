---------------------------- MODULE SearchBatch -----------------------------
(***************************************************************************)
(* The search of candidate batches (crates/index/src/search/mod.rs): for    *)
(* each batch a feeder fetches documents into a bounded channel and workers *)
(* verify them and hand the hits to the sink, or, for one line a document,  *)
(* the workers fetch for themselves; the sink may end the search, and what  *)
(* the feeder and the workers ran into is made one result.                  *)
(***************************************************************************)
EXTENDS Naturals, Sequences, FiniteSets

CONSTANTS
    Verifiers,      \* rayon's worker threads
    MaxCandidates,  \* candidates 1..MaxCandidates, in the order of the index
    BatchDocuments, \* candidates of a batch
    ChannelRoom,    \* places in the channel
    Kinds           \* what the candidates may be: functions from candidate to kind

VARIABLES
    kinds,          \* candidate -> "hit", "miss" or "outside" the key scope
    way,            \* "none", "pipe", "alone" (one thread), "until" (workers that fetch)
    batch,          \* candidates of the current batch, {} between batches
    upcoming,       \* the first candidate of the next batch
    counted,        \* candidates counted so far
    feed,           \* [next, hand, result]: documents to fetch, the one fetched (0: none),
                    \* and "none", "ok", "stop", "error" or "changed"
    fetched,        \* fetched documents on their way to the workers
    worker,         \* worker -> 0 at the channel, a document, or Gone
    taken,          \* documents a worker took
    failed,         \* what try_for_each will return: "none", "stop", "error", "changed"
    shown,          \* documents handed to the sink
    told,           \* what the sink, the fetches and the verification said beyond "go on"
    outcome         \* "none", "ok", "stopped", "error", "changed" (to be retried), "late"

searchVars == <<kinds, way, batch, upcoming, counted, feed, fetched, worker, taken, failed, shown, told, outcome>>
pipeVars == <<feed, fetched, worker, taken, failed, shown, told>>

ASSUME BatchAssumption ==
    /\ MaxCandidates \in Nat /\ {BatchDocuments, ChannelRoom} \subseteq Nat \ {0}
    /\ Verifiers # {}

CandidateIds == 1..MaxCandidates
Gone == MaxCandidates + 1
FirstIn(docs) == CHOOSE d \in docs : \A e \in docs : d <= e
Feeding(docs) == [next |-> docs, hand |-> 0, result |-> "none"]

BatchInit ==
    /\ kinds = [d \in CandidateIds |-> "miss"]
    /\ way = "none" /\ batch = {} /\ upcoming = 1 /\ counted = 0
    /\ feed = Feeding({}) /\ fetched = <<>>
    /\ worker = [v \in Verifiers |-> 0]
    /\ taken = {} /\ failed = "none" /\ shown = {} /\ told = {} /\ outcome = "none"

StartQuery(ks, w) ==
    /\ way = "none"
    /\ kinds' = ks /\ way' = w
    /\ UNCHANGED <<batch, upcoming, counted, outcome>> /\ UNCHANGED pipeVars

\* Mutant of Counts: the candidates of a batch count once it was searched.
CountsLater(docs) == counted

Counts(docs) == counted + Cardinality(docs)

\* The reader visits the next batch, of which the scope admits some.
NextBatch ==
    LET ids == upcoming..(IF upcoming + BatchDocuments > MaxCandidates + 1 THEN MaxCandidates ELSE upcoming + BatchDocuments - 1)
        docs == {d \in ids : kinds[d] # "outside"}
    IN  /\ way # "none" /\ outcome = "none" /\ batch = {} /\ upcoming <= MaxCandidates
        /\ upcoming' = upcoming + BatchDocuments
        /\ counted' = Counts(docs)
        /\ batch' = docs
        /\ feed' = IF way = "until" THEN [Feeding({}) EXCEPT !.result = "ok"] ELSE Feeding(docs)
        /\ worker' = [v \in Verifiers |-> 0]
        /\ failed' = "none" /\ taken' = {}
        /\ UNCHANGED <<kinds, way, fetched, shown, told, outcome>>

\* What an error of the reader becomes: once candidates were seen, the search is
\* not to be retried.
RaiseError(error) == IF error = "changed" /\ counted > 0 THEN "late" ELSE error

\* The reader fails between batches; the root it read may have been replaced.
VisitFails(error) ==
    /\ way # "none" /\ outcome = "none" /\ batch = {} /\ upcoming <= MaxCandidates
    /\ outcome' = RaiseError(error)
    /\ told' = told \cup {error}
    /\ UNCHANGED <<kinds, way, batch, upcoming, counted, feed, fetched, worker, taken, failed, shown>>

VisitEnds ==
    /\ way # "none" /\ outcome = "none" /\ batch = {} /\ upcoming > MaxCandidates
    /\ outcome' = "ok"
    /\ UNCHANGED <<kinds, way, batch, upcoming, counted>> /\ UNCHANGED pipeVars

-----------------------------------------------------------------------------
\* The receiver of what was fetched is dropped with the last worker.
ReceiverOpen == \E v \in Verifiers : worker[v] # Gone

Fetching == feed.result = "none" /\ feed.hand = 0 /\ feed.next # {}

\* fetch_initial fetches the next document and record_fetch notes it ...
FetchNext ==
    /\ way = "pipe" /\ Fetching
    /\ feed' = [feed EXCEPT !.next = @ \ {FirstIn(@)}, !.hand = FirstIn(feed.next)]
    /\ UNCHANGED <<fetched, worker, taken, failed, shown, told>>

FetchFailed(error) ==
    /\ way \in {"pipe", "alone"} /\ Fetching
    /\ feed' = [feed EXCEPT !.result = error]
    /\ told' = told \cup {error}
    /\ UNCHANGED <<fetched, worker, taken, failed, shown>>

\* ... it is sent when there is room, and the fetching ends when nobody receives.
SendDocument ==
    /\ feed.result = "none" /\ feed.hand # 0
    /\ IF ReceiverOpen
       THEN /\ Len(fetched) < ChannelRoom
            /\ fetched' = Append(fetched, feed.hand)
            /\ feed' = [feed EXCEPT !.hand = 0]
       ELSE /\ feed' = [feed EXCEPT !.hand = 0, !.result = "stop"]
            /\ UNCHANGED fetched
    /\ UNCHANGED <<worker, taken, failed, shown, told>>

FeedDone ==
    /\ feed.result = "none" /\ feed.next = {} /\ feed.hand = 0
    /\ feed' = [feed EXCEPT !.result = "ok"]
    /\ UNCHANGED <<fetched, worker, taken, failed, shown, told>>

Receive(v) ==
    /\ way = "pipe" /\ worker[v] = 0 /\ fetched # <<>>
    /\ worker' = [worker EXCEPT ![v] = Head(fetched)]
    /\ fetched' = Tail(fetched)
    /\ taken' = taken \cup {Head(fetched)}
    /\ UNCHANGED <<feed, failed, shown, told>>

\* The sender is gone and nothing is left.
ChannelEnds(v) ==
    /\ way = "pipe" /\ worker[v] = 0 /\ fetched = <<>> /\ feed.result # "none"
    /\ worker' = [worker EXCEPT ![v] = Gone]
    /\ UNCHANGED <<feed, fetched, taken, failed, shown, told>>

\* into_par_iter over the documents.
TakeDocument(v) ==
    /\ way = "until" /\ worker[v] = 0
    /\ \E d \in batch \ taken :
          /\ worker' = [worker EXCEPT ![v] = d]
          /\ taken' = taken \cup {d}
    /\ UNCHANGED <<feed, fetched, failed, shown, told>>

NothingToTake(v) ==
    /\ way = "until" /\ worker[v] = 0 /\ batch # {} /\ batch = taken
    /\ worker' = [worker EXCEPT ![v] = Gone]
    /\ UNCHANGED <<feed, fetched, taken, failed, shown, told>>

\* What verify_caught can answer: nothing found, a hit that the sink takes, takes as
\* the last one or fails on, or a failure (a panic is one).
Says(d) == IF kinds[d] = "hit" THEN {"go", "stop", "error"} ELSE {"go"}
Verdicts(d) ==
    {[shown |-> kinds[d] = "hit", says |-> s] : s \in Says(d)}
        \cup {[shown |-> FALSE, says |-> e] : e \in {"error", "changed"}}

Shows(d, verdict) ==
    /\ shown' = IF verdict.shown THEN shown \cup {d} ELSE shown
    /\ told' = told \cup ({verdict.says} \ {"go"})

\* A worker that fails ends, and so does one that sees that another has failed; of
\* two failures either may be kept.
VerifyTaken(v, verdict) ==
    /\ worker[v] \in CandidateIds
    /\ verdict \in Verdicts(worker[v])
    /\ Shows(worker[v], verdict)
    /\ failed' \in IF verdict.says = "go" THEN {failed}
                   ELSE {verdict.says} \cup ({failed} \ {"none"})
    /\ worker' = [worker EXCEPT ![v] = IF failed' = "none" THEN 0 ELSE Gone]
    /\ UNCHANGED <<feed, fetched, taken>>

\* A failure is seen before the next document is taken.
SeeFailure(v) ==
    /\ way = "until" /\ worker[v] = 0 /\ failed # "none"
    /\ worker' = [worker EXCEPT ![v] = Gone]
    /\ UNCHANGED <<feed, fetched, taken, failed, shown, told>>

\* One thread fetches and verifies; a failure ends the fetching.
VerifyAlone(verdict) ==
    /\ way = "alone" /\ Fetching
    /\ LET d == FirstIn(feed.next) IN
       /\ verdict \in Verdicts(d)
       /\ Shows(d, verdict)
       /\ failed' = IF verdict.says = "go" THEN "none" ELSE verdict.says
       /\ feed' = [next |-> feed.next \ {d}, hand |-> 0, result |-> IF verdict.says = "go" THEN "none" ELSE "stop"]
       /\ taken' = taken \cup {d}
    /\ UNCHANGED <<fetched, worker>>

-----------------------------------------------------------------------------
\* Mutant of Combined: a stop is a stop, whatever the feeder ran into.
CombinedStopFirst ==
    IF failed = "stop" THEN "stopped" ELSE IF failed # "none" THEN failed
    ELSE IF feed.result = "stop" THEN "error" ELSE feed.result

\* Mutant of Combined: only the workers are asked.
CombinedWorkers == IF failed = "stop" THEN "stopped" ELSE IF failed # "none" THEN failed ELSE "ok"

\* Mutant of Combined: a stop is an error like the others.
CombinedStopFails ==
    IF failed # "none" THEN IF failed = "stop" THEN "error" ELSE failed
    ELSE IF feed.result = "stop" THEN "error" ELSE feed.result

\* What the feeder and the workers ended with, as one result; a feeder that was
\* stopped though no worker failed would be an error.
Combined ==
    IF failed = "stop" THEN IF feed.result \in {"error", "changed"} THEN feed.result ELSE "stopped"
    ELSE IF failed # "none" THEN failed
    ELSE IF feed.result = "stop" THEN "error" ELSE feed.result

EndBatch ==
    /\ batch # {} /\ feed.result # "none" /\ outcome = "none"
    /\ way # "alone" => \A v \in Verifiers : worker[v] = Gone
    /\ outcome' = IF Combined = "ok" THEN "none" ELSE RaiseError(Combined)
    /\ batch' = {} /\ fetched' = <<>>
    /\ UNCHANGED <<kinds, way, upcoming, counted, feed, worker, taken, failed, shown, told>>

Answers == UNION {Verdicts(d) : d \in CandidateIds}
WorkerStep(v) ==
    \/ Receive(v) \/ ChannelEnds(v) \/ TakeDocument(v) \/ NothingToTake(v) \/ SeeFailure(v)
    \/ \E verdict \in Answers : VerifyTaken(v, verdict)

Pipeline ==
    \/ FetchNext \/ SendDocument \/ FeedDone
    \/ \E v \in Verifiers : WorkerStep(v)
    \/ \E verdict \in Answers : VerifyAlone(verdict)
    \/ \E error \in {"error", "changed"} : FetchFailed(error)

SearchStep ==
    \/ NextBatch \/ VisitEnds \/ EndBatch
    \/ batch # {} /\ Pipeline /\ UNCHANGED <<kinds, way, batch, upcoming, counted, outcome>>

BatchNext ==
    \/ \E ks \in Kinds, w \in {"pipe", "alone", "until"} : StartQuery(ks, w)
    \/ \E error \in {"error", "changed"} : VisitFails(error)
    \/ SearchStep

\* Every thread goes on.
BatchFairness == WF_searchVars(SearchStep)

-----------------------------------------------------------------------------
Admitted == {d \in CandidateIds : kinds[d] # "outside"}

\* A search that ends by itself has shown every hit the scope admits, and has met no
\* failure of the feeder, a worker or the sink.
EndsComplete ==
    outcome = "ok" => told = {} /\ shown = {d \in Admitted : kinds[d] = "hit"}

\* A search is said to be stopped only when the sink asked for it, and never when
\* the feeder had failed.
StopIsAsked ==
    outcome = "stopped" => "stop" \in told /\ feed.result \notin {"error", "changed"}

\* A search fails only if something did.
FailureIsTrue == outcome \in {"error", "changed", "late"} => told \cap {"error", "changed"} # {}

\* The caller retries a search on a changed index: no document was shown before, or
\* the output would repeat it.
RetryShowsOnce == outcome = "changed" => shown = {}

\* No worker and no feeder waits for ever.
QueriesEnd == []<>(way = "none" \/ outcome # "none")

\* What search_patterns returns is what happened: everything was shown, or the sink
\* asked to stop, or something failed; and only a search that showed nothing is begun
\* again.
OutcomeIsTrue == EndsComplete /\ StopIsAsked /\ FailureIsTrue /\ RetryShowsOnce
=============================================================================
