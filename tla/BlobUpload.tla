----------------------------- MODULE BlobUpload -----------------------------
(***************************************************************************)
(* Writing one blob to S3 (crates/s3/src/client/upload.rs): put and        *)
(* put_file, which send a large body as a multipart upload, and            *)
(* StreamingUpload, which is fed piece by piece and sends parts while the  *)
(* caller still writes.                                                    *)
(*                                                                         *)
(* Every request goes through run_resilient: an attempt that is refused or *)
(* gets no answer in time is repeated, MaxUploadRetries times.  A request   *)
(* without an answer may reach the store later, or may have reached it.    *)
(*                                                                         *)
(* Data are numbered units; a part is the interval of the units it holds.  *)
(***************************************************************************)
EXTENDS Naturals, FiniteSets, Sequences, SequencesExt

CONSTANTS
    Modes,          \* ways to write a blob: "put", "stream"
    PartSize,       \* MULTIPART_PART_SIZE, STREAM_PART_SIZE
    MaxParts,       \* MAX_MULTIPART_PARTS
    MaxPartSize,    \* MAX_MULTIPART_PART_SIZE
    Mib,            \* the granularity of part sizes
    Window,         \* MULTIPART_CONCURRENCY, STREAM_PARTS_IN_FLIGHT
    Budget,         \* MULTIPART_BUFFER_BUDGET
    MaxUploadRetries, \* max_retries
    MaxData         \* bound: units written

ASSUME UploadAssumption ==
    /\ Modes \subseteq {"put", "stream"}
    /\ {PartSize, MaxParts, MaxPartSize, Mib, Window, Budget} \subseteq Nat \ {0}
    /\ PartSize <= MaxPartSize
    /\ {MaxUploadRetries, MaxData} \subseteq Nat

VARIABLES
    mode, pc,
    written,    \* units the caller has handed over
    cut,        \* units that went into parts; the rest is buffered
    nextPart,
    content,    \* the interval in each part sent so far
    task,       \* what has become of the upload of each part
    inflight,   \* parts whose result has not been taken, in order
    completed,  \* parts taken as done, in order
    done,       \* nothing is left to do when the upload is dropped
    result,     \* what the caller was told
    tries,      \* repetitions of each part's request; of the caller's, at 0
    upload,     \* the multipart upload in the store
    parts,      \* parts in the store, which are paid for
    object,     \* the blob in the store
    late,       \* requests no answer is awaited for that may yet arrive
    letGo,      \* a request was ever let go
    warned      \* "failed to abort multipart upload" was printed

caller == <<mode, pc, written, cut, nextPart, content, inflight, completed, done, result>>
server == <<upload, parts, object>>
uploadVars == <<caller, task, tries, server, late, letGo, warned>>

Absent == [present |-> FALSE, parts |-> <<>>]
Blob(list) == [present |-> TRUE, parts |-> list]

-----------------------------------------------------------------------------
\* Mutant of PartSizeOf: the limit on the number of parts is forgotten.
PartSizeOfFixed(len) == PartSize

DivCeil(a, b) == (a + b - 1) \div b

\* multipart_part_size: parts grow so that there are not too many.
PartSizeOf(len) ==
    LET needed == DivCeil(len, MaxParts)
    IN  Mib * DivCeil(IF needed > PartSize THEN needed ELSE PartSize, Mib)

TooLarge(len) == len > MaxParts * MaxPartSize \/ PartSizeOf(len) > MaxPartSize

\* multipart_concurrency.
Concurrency(size) ==
    LET fit == Budget \div size
    IN  IF fit < 1 THEN 1 ELSE IF fit > Window THEN Window ELSE fit

\* The size of the next part and how many may be under way.
Size == IF mode = "put" THEN PartSizeOf(written) ELSE PartSize
InFlightMax == IF mode = "put" THEN Concurrency(Size) ELSE Window

\* Mutant of Sorted: parts are listed in the order they finish.
SortedNot == completed

\* The parts of the finished upload, sorted by number: the n-th has n - 1 below it.
Sorted ==
    LET ps == ToSet(completed)
    IN  [n \in 1..Cardinality(ps) |-> CHOOSE p \in ps : Cardinality({q \in ps : q < p}) = n - 1]
Finished == Blob([n \in DOMAIN Sorted |-> content[Sorted[n]]])
WholeBody == Blob(IF written = 0 THEN <<>> ELSE <<<<1, written>>>>)

Numbers == 1..MaxData

UploadInit ==
    /\ mode \in Modes
    /\ pc = "idle" /\ written = 0 /\ cut = 0 /\ nextPart = 1
    /\ content = [p \in Numbers |-> <<0, 0>>]
    /\ task = [p \in Numbers |-> "none"]
    /\ inflight = <<>> /\ completed = <<>>
    /\ done = FALSE /\ result = "none"
    /\ tries = [p \in Numbers \cup {0} |-> 0]
    /\ upload = "none" /\ parts = {} /\ object = Absent
    /\ late = {} /\ letGo = FALSE /\ warned = FALSE

-----------------------------------------------------------------------------
(***************************************************************************)
(* The caller.                                                             *)
(***************************************************************************)

\* put_with_progress, put_file_with_progress: a small body is put at once.
Put ==
    /\ mode = "put" /\ pc = "idle"
    /\ written' \in 0..MaxData
    /\ done' = TRUE
    /\ IF written' <= PartSize
       THEN pc' = "putting" /\ UNCHANGED result
       ELSE IF TooLarge(written')
       THEN pc' = "ended" /\ result' = "error"
       ELSE pc' = "starting" /\ UNCHANGED result
    /\ UNCHANGED <<mode, cut, nextPart, content, inflight, completed, task, tries, server, late, letGo, warned>>

\* start_streaming_upload.
StartStream ==
    /\ mode = "stream" /\ pc = "idle"
    /\ pc' = "starting"
    /\ UNCHANGED <<mode, written, cut, nextPart, content, inflight, completed, done, result,
                   task, tries, server, late, letGo, warned>>

\* StreamingUpload::write.
Write(n) ==
    /\ pc = "open" /\ written + n <= MaxData
    /\ written' = written + n
    /\ pc' = "writing"
    /\ UNCHANGED <<mode, cut, nextPart, content, inflight, completed, done, result,
                   task, tries, server, late, letGo, warned>>

WriteReturns ==
    /\ pc = "writing" /\ written - cut < PartSize
    /\ pc' = "open"
    /\ UNCHANGED <<mode, written, cut, nextPart, content, inflight, completed, done, result,
                   task, tries, server, late, letGo, warned>>

\* StreamingUpload::finish: without any part yet, the upload is aborted and the
\* body put at once.
Finish ==
    /\ pc = "open"
    /\ IF completed = <<>> /\ inflight = <<>>
       THEN pc' = "aborting" /\ done' = TRUE
       ELSE pc' = "finishing" /\ UNCHANGED done
    /\ UNCHANGED <<mode, written, cut, nextPart, content, inflight, completed, result,
                   task, tries, server, late, letGo, warned>>

\* StreamingUpload::abort, or drop.
Abort ==
    /\ pc = "open"
    /\ pc' = "settling" /\ done' = TRUE /\ result' = "aborted"
    /\ UNCHANGED <<mode, written, cut, nextPart, content, inflight, completed,
                   task, tries, server, late, letGo, warned>>

\* There is a part to be sent: a full one, or the last one.
HasPart ==
    \/ pc = "writing" /\ written - cut >= PartSize
    \/ pc \in {"finishing", "parts"} /\ cut < written

\* A part is full, or the rest of the data.
NextEnd == IF cut + Size < written THEN cut + Size ELSE written

\* dispatch, and the streams of upload_parts and upload_file_parts.
Dispatch ==
    /\ HasPart
    /\ Len(inflight) < InFlightMax
    /\ mode = "put" \/ nextPart <= MaxParts
    /\ cut' = NextEnd
    /\ content' = [content EXCEPT ![nextPart] = <<cut + 1, NextEnd>>]
    /\ task' = [task EXCEPT ![nextPart] = "sending"]
    /\ inflight' = Append(inflight, nextPart)
    /\ nextPart' = nextPart + 1
    /\ UNCHANGED <<mode, pc, written, completed, done, result, tries, server, late, letGo, warned>>

\* The upload is dropped with an error: in flight parts settle first.
FailUpload == pc' = "settling" /\ done' = TRUE /\ result' = "error"

\* The 10,000-part limit of a streamed blob.
TooManyParts ==
    /\ mode = "stream" /\ HasPart
    /\ Len(inflight) < InFlightMax
    /\ nextPart > MaxParts
    /\ FailUpload
    /\ UNCHANGED <<mode, written, cut, nextPart, content, inflight, completed,
                   task, tries, server, late, letGo, warned>>

\* harvest_one: the oldest part, when the window is full or the caller finishes.
MustHarvest ==
    \/ HasPart /\ Len(inflight) >= InFlightMax
    \/ pc = "finishing" /\ cut = written /\ inflight # <<>>

Harvest ==
    /\ mode = "stream" /\ MustHarvest
    /\ task[Head(inflight)] \in {"done", "failed"}
    /\ inflight' = Tail(inflight)
    /\ IF task[Head(inflight)] = "done"
       THEN completed' = Append(completed, Head(inflight)) /\ UNCHANGED <<pc, done, result>>
       ELSE FailUpload /\ UNCHANGED completed
    /\ UNCHANGED <<mode, written, cut, nextPart, content, task, tries, server, late, letGo, warned>>

\* buffer_unordered yields parts in any order.
TakePart ==
    /\ pc = "parts"
    /\ \E i \in DOMAIN inflight :
        /\ task[inflight[i]] = "done"
        /\ inflight' = RemoveAt(inflight, i)
        /\ completed' = Append(completed, inflight[i])
    /\ UNCHANGED <<mode, pc, written, cut, nextPart, content, done, result,
                   task, tries, server, late, letGo, warned>>

\* The first error drops the stream, and with it the requests under way.
PartsFail ==
    /\ pc = "parts"
    /\ \E p \in ToSet(inflight) : task[p] = "failed"
    /\ LET dropped == {p \in ToSet(inflight) : task[p] = "sending"} IN
        /\ late' = late \cup {<<"part", p>> : p \in dropped}
        /\ letGo' = (letGo \/ dropped # {})
        /\ task' = [p \in Numbers |-> IF p \in dropped THEN "failed" ELSE task[p]]
    /\ pc' = "aborting" /\ result' = "error" /\ inflight' = <<>>
    /\ UNCHANGED <<mode, written, cut, nextPart, content, completed, done, tries, server, warned>>

\* All parts are there: finish_multipart.
PartsDone ==
    /\ pc \in {"parts", "finishing"} /\ cut = written /\ inflight = <<>>
    /\ pc' = "completing"
    /\ UNCHANGED <<mode, written, cut, nextPart, content, inflight, completed, done, result,
                   task, tries, server, late, letGo, warned>>

\* Mutants of HasSettled: the abort does not wait; only successes are waited for.
HasSettledNow(p) == TRUE
HasSettledDone(p) == task[p] = "done"

\* abort_inner waits for the parts in flight, whatever becomes of them.
HasSettled(p) == task[p] \in {"done", "failed"}

Settle ==
    /\ pc = "settling"
    /\ IF inflight = <<>>
       THEN pc' = "aborting" /\ UNCHANGED inflight
       ELSE HasSettled(Head(inflight)) /\ inflight' = Tail(inflight) /\ UNCHANGED pc
    /\ UNCHANGED <<mode, written, cut, nextPart, content, completed, done, result,
                   task, tries, server, late, letGo, warned>>

-----------------------------------------------------------------------------
(***************************************************************************)
(* Requests.  What the store does with one is the same whether it arrives  *)
(* in time or late.                                                        *)
(***************************************************************************)

Create == upload' = "open" /\ UNCHANGED <<parts, object>>

\* A part that arrives after the abort may be kept, and paid for.
UploadPart(p) ==
    /\ \/ upload = "open" /\ parts' = parts \cup {p}
       \/ upload = "aborted" /\ parts' = parts \cup {p}
       \/ upload # "open" /\ UNCHANGED parts
    /\ UNCHANGED <<upload, object>>

Complete ==
    IF upload = "open"
    THEN upload' = "completed" /\ parts' = {} /\ object' = Finished
    ELSE UNCHANGED server

AbortUpload ==
    IF upload = "open"
    THEN upload' = "aborted" /\ parts' = {} /\ UNCHANGED object
    ELSE UNCHANGED server

PutObject == object' = WholeBody /\ UNCHANGED <<upload, parts>>

Calling == {"starting", "completing", "aborting", "putting"}

\* After an abort: a failed finish drops the upload, which aborts it once more;
\* a blob without parts is put at once.
AfterAbort(succeeded) ==
    /\ pc' = IF ~done THEN "aborting" ELSE IF result = "none" THEN "putting" ELSE "ended"
    /\ done' = TRUE
    /\ warned' = (warned \/ ~succeeded)
    /\ UNCHANGED result

\* The request has failed for good.
GivenUp ==
    CASE pc \in {"starting", "putting"} ->
           pc' = "ended" /\ result' = "error" /\ UNCHANGED <<done, warned>>
      [] pc = "completing" -> pc' = "aborting" /\ result' = "error" /\ UNCHANGED <<done, warned>>
      [] pc = "aborting" -> AfterAbort(FALSE)

\* The caller's request has an answer; one about an upload that is no more is
\* NotFound.
Answered ==
    /\ pc \in Calling
    /\ tries' = [tries EXCEPT ![0] = 0]
    /\ CASE pc = "starting" ->
              /\ Create
              /\ pc' = IF mode = "put" THEN "parts" ELSE "open"
              /\ UNCHANGED <<done, result, warned>>
         [] pc = "completing" ->
              /\ Complete
              /\ IF upload = "open"
                 THEN pc' = "ended" /\ result' = "ok" /\ done' = TRUE /\ UNCHANGED warned
                 ELSE GivenUp
         [] pc = "aborting" -> AbortUpload /\ AfterAbort(upload = "open")
         [] pc = "putting" ->
              PutObject /\ pc' = "ended" /\ result' = "ok" /\ UNCHANGED <<done, warned>>
    /\ UNCHANGED <<mode, written, cut, nextPart, content, inflight, completed, task, late, letGo>>

\* Mutant of MayRetry: one attempt too many.
MayRetryOnce(r) == tries[r] <= MaxUploadRetries

\* run_resilient repeats an attempt the store throttled or did not answer.
MayRetry(r) == tries[r] < MaxUploadRetries

\* Throttled, or not answered in time: then the request may yet arrive.
NoAnswer(q) ==
    \/ UNCHANGED <<late, letGo>>
    \/ late' = late \cup {q} /\ letGo' = TRUE

Unanswered ==
    /\ pc \in Calling
    /\ NoAnswer(<<pc, 0>>)
    /\ \/ MayRetry(0) /\ tries' = [tries EXCEPT ![0] = @ + 1] /\ UNCHANGED <<pc, done, result, warned>>
       \/ ~MayRetry(0) /\ tries' = [tries EXCEPT ![0] = 0] /\ GivenUp
    /\ UNCHANGED <<mode, written, cut, nextPart, content, inflight, completed, task, server>>

\* Fatal or NotFound: no attempt follows.
Refused ==
    /\ pc \in Calling
    /\ tries' = [tries EXCEPT ![0] = 0]
    /\ GivenUp
    /\ UNCHANGED <<mode, written, cut, nextPart, content, inflight, completed, task, server, late, letGo>>

\* upload_part.
PartAnswered(p) ==
    /\ task[p] = "sending"
    /\ UploadPart(p)
    /\ task' = [task EXCEPT ![p] = IF upload = "open" THEN "done" ELSE "failed"]
    /\ UNCHANGED <<caller, tries, late, letGo, warned>>

PartUnanswered(p) ==
    /\ task[p] = "sending"
    /\ NoAnswer(<<"part", p>>)
    /\ \/ MayRetry(p) /\ tries' = [tries EXCEPT ![p] = @ + 1] /\ UNCHANGED task
       \/ ~MayRetry(p) /\ task' = [task EXCEPT ![p] = "failed"] /\ UNCHANGED tries
    /\ UNCHANGED <<caller, server, warned>>

PartRefused(p) ==
    /\ task[p] = "sending"
    /\ task' = [task EXCEPT ![p] = "failed"]
    /\ UNCHANGED <<caller, server, tries, late, letGo, warned>>

\* A request that was let go reaches the store.  An upload created for nobody
\* is another one.
Arrive ==
    /\ \E q \in late :
        /\ late' = late \ {q}
        /\ CASE q[1] = "part" -> UploadPart(q[2])
             [] q[1] = "starting" -> UNCHANGED server
             [] q[1] = "completing" -> Complete
             [] q[1] = "aborting" -> AbortUpload
             [] q[1] = "putting" -> PutObject
    /\ UNCHANGED <<caller, task, tries, letGo, warned>>

Caller ==
    \/ Put \/ StartStream \/ WriteReturns
    \/ Dispatch \/ TooManyParts \/ Harvest \/ TakePart \/ PartsFail \/ PartsDone
    \/ Settle \/ Answered \/ Unanswered \/ Refused

Part(p) == PartAnswered(p) \/ PartUnanswered(p) \/ PartRefused(p)

UploadNext ==
    \/ Caller \/ Finish \/ Abort
    \/ \E n \in 1..MaxData : Write(n)
    \/ \E p \in Numbers : Part(p)
    \/ Arrive

UploadSpec == UploadInit /\ [][UploadNext]_uploadVars

\* The runtime polls its tasks and requests have deadlines.
UploadFairSpec ==
    UploadSpec /\ WF_uploadVars(Caller) /\ \A p \in Numbers : WF_uploadVars(Part(p))

-----------------------------------------------------------------------------
\* The values the variables range over; the attempts of a request are counted.
UploadTypeOK ==
    /\ mode \in Modes
    /\ pc \in Calling \cup {"idle", "open", "writing", "finishing", "parts", "settling", "ended"}
    /\ {written, cut} \subseteq 0..MaxData /\ cut <= written
    /\ nextPart \in 1..(MaxData + 1)
    /\ content \in [Numbers -> (0..MaxData) \X (0..MaxData)]
    /\ task \in [Numbers -> {"none", "sending", "done", "failed"}]
    /\ {ToSet(inflight), ToSet(completed)} \subseteq SUBSET Numbers
    /\ {done, letGo, warned} \subseteq BOOLEAN
    /\ result \in {"none", "ok", "error", "aborted"}
    /\ tries \in [Numbers \cup {0} -> 0..MaxUploadRetries]
    /\ upload \in {"none", "open", "completed", "aborted"}
    /\ parts \subseteq Numbers
    /\ late \subseteq {<<"part", p>> : p \in Numbers} \cup {<<c, 0>> : c \in Calling}

\* Each unit written is in the list of parts, once and in order.
IsWhole(list) ==
    /\ list = <<>> => written = 0
    /\ list # <<>> => list[1][1] = 1 /\ list[Len(list)][2] = written
    /\ \A n \in 1..(Len(list) - 1) : list[n + 1][1] = list[n][2] + 1

\* Parts finish in any order and requests arrive late, yet a blob that can be
\* read is the one written, and a caller told Ok finds it there.
BlobIsWhole ==
    /\ object.present => IsWhole(object.parts)
    /\ result = "ok" => object.present

\* S3 takes no more parts than MaxParts and none above MaxPartSize.
PartsWithinLimits ==
    \A p \in Numbers : task[p] # "none" =>
        p <= MaxParts /\ content[p][2] - content[p][1] < MaxPartSize

\* Dropping an unfinished upload aborts it "so no orphaned parts accrue storage":
\* unless a request was left under way or the warning printed, nothing of the
\* upload stays behind, and there is a blob only if the caller was told Ok.
NothingOrphaned ==
    pc = "ended" /\ ~letGo /\ ~warned =>
        parts = {} /\ upload # "open" /\ (object.present => result = "ok")

\* "a dropped or aborted handle leaves no blob behind", and the blob becomes
\* observable only after finish returns Ok.
FailureLeavesNoBlob == pc = "ended" /\ result # "ok" => ~object.present

\* No call blocks for ever.
CallsEnd == []<>(pc \in {"idle", "open", "ended"})

\* What a caller, a reader and the owner of the bucket rely on, whatever requests are
\* lost, late or repeated: a blob that can be read is whole, parts keep to the limits
\* of S3, and nothing is left behind without a warning.
UploadsSound == UploadTypeOK /\ BlobIsWhole /\ PartsWithinLimits /\ NothingOrphaned
=============================================================================
