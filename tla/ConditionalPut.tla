--------------------------- MODULE ConditionalPut ---------------------------
(***************************************************************************)
(* The compare-and-swap that publishes a root: put_if of the S3 store      *)
(* (crates/s3/src/client.rs) and of the local directory store              *)
(* (crates/core/src/store.rs).                                             *)
(*                                                                         *)
(* A root is the set of updates it contains.  A writer reads the root with *)
(* its version, which is derived from the content, and puts the root with  *)
(* its own update added.  On S3 a request may be lost, throttled, answered *)
(* too late or not at all, and applied after its sender has given up;      *)
(* put_if sends it again.  On a local directory a writer holds the lock    *)
(* file from the comparison to the rename, and may die in between.         *)
(***************************************************************************)
EXTENDS Naturals, FiniteSets

CONSTANTS
    Writers,
    NoWriter,
    MaxPutTries     \* max_retries + 1

ASSUME ConditionalPutAssumption ==
    NoWriter \notin Writers /\ MaxPutTries \in Nat \ {0}

VARIABLES
    backend,    \* "s3" or "local", once a writer has started
    rootBlob,   \* the updates in the published root
    inFlight,   \* requests the store has not processed: [by, expected, try]
    writer,     \* writer -> what it is doing
    rootLock    \* who holds segments.lock

putVars == <<backend, rootBlob, inFlight, writer, rootLock>>

PutIdle == [pc |-> "idle", seen |-> {}, try |-> 1]

PutInit ==
    /\ backend = "none"
    /\ rootBlob = {}
    /\ inFlight = {}
    /\ writer = [w \in Writers |-> PutIdle]
    /\ rootLock = NoWriter

Moves(w, pc) == writer' = [writer EXCEPT ![w].pc = pc]

\* The version put_if compares with: of the content the writer has read.
\* Mutant of TagMatches: if_match is left out of the request.
MatchesAny(expected) == TRUE

TagMatches(expected) == rootBlob = expected

-----------------------------------------------------------------------------
\* get_versioned, then a call of put_if.
ReadRoot(w) ==
    /\ writer[w].pc = "idle"
    /\ backend' \in IF backend = "none" THEN {"s3", "local"} ELSE {backend}
    /\ writer' = [writer EXCEPT ![w] =
           [pc |-> IF backend' = "s3" THEN "send" ELSE "lock", seen |-> rootBlob, try |-> 1]]
    /\ UNCHANGED <<rootBlob, inFlight, rootLock>>

SendPut(w) ==
    /\ writer[w].pc = "send"
    /\ inFlight' = inFlight \cup {[by |-> w, expected |-> writer[w].seen, try |-> writer[w].try]}
    /\ Moves(w, "wait")
    /\ UNCHANGED <<backend, rootBlob, rootLock>>

\* run_resilient: a throttled, failed or timed-out request is sent again, a
\* limited number of times.
AfterOutage(w) == IF writer[w].try < MaxPutTries THEN "send" ELSE "error"

NoReply(w) ==
    /\ writer[w].pc = "wait"
    /\ writer' = [writer EXCEPT ![w].pc = AfterOutage(w), ![w].try = @ + 1]
    /\ UNCHANGED <<backend, rootBlob, inFlight, rootLock>>

Awaited(r) == writer[r.by].pc = "wait" /\ writer[r.by].try = r.try

\* The store compares and writes in one step, whether or not the writer is still
\* waiting; its answer may be lost.
ApplyPut(r) ==
    /\ r \in inFlight
    /\ inFlight' = inFlight \ {r}
    /\ TagMatches(r.expected)
    /\ rootBlob' = r.expected \cup {r.by}
    /\ \/ Awaited(r) /\ Moves(r.by, "true")
       \/ UNCHANGED writer
    /\ UNCHANGED <<backend, rootLock>>

\* 412 when the version differs, 409 when another write is under way: both are
\* PreconditionFailed, and put_if returns false.
RefusePut(r) ==
    /\ r \in inFlight
    /\ inFlight' = inFlight \ {r}
    /\ ~TagMatches(r.expected) \/ \E q \in inFlight : q.by # r.by
    /\ \/ Awaited(r) /\ Moves(r.by, "false")
       \/ UNCHANGED writer
    /\ UNCHANGED <<backend, rootBlob, rootLock>>

LosePut(r) ==
    /\ r \in inFlight
    /\ inFlight' = inFlight \ {r}
    /\ UNCHANGED <<backend, rootBlob, writer, rootLock>>

\* Mutant of LockFree: the lock file is not locked.
LockFreeAlways == TRUE

LockFree == rootLock = NoWriter

LockRoot(w) ==
    /\ writer[w].pc = "lock"
    /\ LockFree
    /\ rootLock' = w
    /\ Moves(w, "compare")
    /\ UNCHANGED <<backend, rootBlob, inFlight>>

\* The version of the file under the lock; a mismatch returns and unlocks.
CompareRoot(w) ==
    /\ writer[w].pc = "compare"
    /\ Moves(w, IF TagMatches(writer[w].seen) THEN "rename" ELSE "false")
    /\ rootLock' = IF TagMatches(writer[w].seen) THEN rootLock ELSE NoWriter
    /\ UNCHANGED <<backend, rootBlob, inFlight>>

\* write_atomic, whose rename is the only visible step.
RenameRoot(w) ==
    /\ writer[w].pc = "rename"
    /\ rootBlob' = writer[w].seen \cup {w}
    /\ rootLock' = NoWriter
    /\ Moves(w, "true")
    /\ UNCHANGED <<backend, inFlight>>

\* The process dies, or writing the temporary file fails: the lock goes with it.
LocalFails(w) ==
    /\ writer[w].pc \in {"compare", "rename"}
    /\ rootLock' = NoWriter
    /\ Moves(w, "error")
    /\ UNCHANGED <<backend, rootBlob, inFlight>>

\* The writer starts over, as a later run, unless it has published.
TryAgain(w) ==
    /\ writer[w].pc \in {"false", "error"}
    /\ w \notin rootBlob
    /\ ~\E r \in inFlight : r.by = w
    /\ writer' = [writer EXCEPT ![w] = PutIdle]
    /\ UNCHANGED <<backend, rootBlob, inFlight, rootLock>>

PutStep(w) ==
    SendPut(w) \/ NoReply(w) \/ LockRoot(w) \/ CompareRoot(w) \/ RenameRoot(w)

PutNext ==
    \/ \E w \in Writers : ReadRoot(w) \/ PutStep(w) \/ LocalFails(w) \/ TryAgain(w)
    \/ \E r \in inFlight : ApplyPut(r) \/ RefusePut(r) \/ LosePut(r)

PutSpec == PutInit /\ [][PutNext]_putVars

-----------------------------------------------------------------------------
\* "never silently overwrites": once put_if has returned true the update is in
\* the root for good, whatever late and repeated requests the store still holds.
NoLostUpdate ==
    \A w \in Writers : writer[w].pc = "true" => w \in rootBlob

\* No update disappears from the root, not even one whose writer was told false
\* or saw an error.
RootGrows == [][rootBlob \subseteq rootBlob']_putVars

\* "Returns false when another writer won the race": the update is not there.
FalseMeansLost ==
    \A w \in Writers : writer[w].pc = "false" => w \notin rootBlob
=============================================================================
