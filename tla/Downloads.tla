------------------------------ MODULE Downloads ------------------------------
(***************************************************************************)
(* Fetching many sources (crates/s3/src/lib.rs, client/download.rs and     *)
(* ObjectCache::get_each of cache.rs).                                     *)
(*                                                                         *)
(* S3Fetcher::fetch_each groups documents by source and first asks the     *)
(* cache: worker threads take the next key from a counter and send what    *)
(* they find down a bounded channel to the caller, who consumes hits and   *)
(* collects misses.  The misses go to get_each_requests: a driver task     *)
(* keeps a window of fetches going, each under permits for its size, and   *)
(* sends the bodies down another bounded channel.  The permits of a body   *)
(* are returned when it has been consumed.  Whatever fails ends the call.  *)
(***************************************************************************)
EXTENDS Integers, Sequences, FiniteSets, FiniteSetsExt, SequencesExt

CONSTANTS
    Workers,        \* threads of the cache pool
    Sources,        \* 1..n, the groups in order
    SourceSize,           \* source -> permits its size needs, before clamping
    BytePermits,    \* max_inflight_bytes in permits
    FetchWindow,         \* cap of buffer_unordered
    ChannelCap      \* capacity of either channel

ASSUME DownloadsAssumption ==
    /\ Workers # {}
    /\ IsFiniteSet(Sources) /\ Sources = 1..Cardinality(Sources)
    /\ SourceSize \in [Sources -> Nat]
    /\ {BytePermits, FetchWindow, ChannelCap} \subseteq Nat \ {0}

VARIABLES
    phase,      \* "idle", "cache", "join", "network", "driver", "done" or "failed"
    nextKey,    \* the pool's counter
    cancelled,  \* the pool's flag
    pool,       \* worker -> "ready", the source it reads, sends, or 0 when it has ended
    channel,    \* bodies sent and not received
    wanted,     \* misses, in the order they were met
    fetch,      \* source -> state of its request
    driving,    \* the driver still runs
    driverError,
    eaten       \* source -> times it was consumed or found gone

downloadVars == <<phase, nextKey, cancelled, pool, channel, wanted, fetch, driving, driverError, eaten>>

Ready == [pc |-> "ready", key |-> 0]
Ended == [pc |-> "ended", key |-> 0]

DownloadsInit ==
    /\ phase = "idle"
    /\ nextKey = 1 /\ cancelled = FALSE
    /\ pool = [w \in Workers |-> Ready]
    /\ channel = <<>> /\ wanted = <<>>
    /\ fetch = [s \in Sources |-> "none"]
    /\ driving = FALSE /\ driverError = FALSE
    /\ eaten = [s \in Sources |-> 0]

NetworkUnchanged == UNCHANGED <<wanted, fetch, driving, driverError, eaten>>
PoolUnchanged == UNCHANGED <<nextKey, cancelled, pool>>
InPool == phase \in {"cache", "join"}

-----------------------------------------------------------------------------
\* fetch_each: every source is looked up in the object cache first.
CallDownloads ==
    /\ phase = "idle" /\ phase' = "cache"
    /\ PoolUnchanged /\ NetworkUnchanged /\ UNCHANGED channel

\* A worker looks at the flag, takes the next key, or ends.
TakeKey(w) ==
    /\ InPool /\ pool[w].pc = "ready"
    /\ IF cancelled \/ nextKey \notin Sources
       THEN pool' = [pool EXCEPT ![w] = Ended] /\ UNCHANGED nextKey
       ELSE /\ pool' = [pool EXCEPT ![w] = [pc |-> "read", key |-> nextKey]]
            /\ nextKey' = nextKey + 1
    /\ UNCHANGED <<phase, cancelled, channel>> /\ NetworkUnchanged

\* get_body, caught when it panics: a body, nothing, or an error.
ReadCache(w) ==
    /\ InPool /\ pool[w].pc = "read"
    /\ \E found \in {"hit", "miss", "error"} :
        /\ pool' = [pool EXCEPT ![w].pc = found]
        /\ cancelled' = (cancelled \/ found = "error")
    /\ UNCHANGED <<phase, nextKey, channel>> /\ NetworkUnchanged

\* The caller drops its end of the channel when it stops.
Received == phase = "cache"

SendFound(w) ==
    /\ InPool /\ pool[w].pc \in {"hit", "miss", "error"}
    /\ IF Received
       THEN /\ Len(channel) < ChannelCap
            /\ channel' = Append(channel, pool[w])
            /\ pool' = [pool EXCEPT ![w] = IF @.pc = "error" THEN Ended ELSE Ready]
       ELSE pool' = [pool EXCEPT ![w] = Ended] /\ UNCHANGED channel
    /\ UNCHANGED <<phase, nextKey, cancelled>> /\ NetworkUnchanged

\* The caller takes the next result: a hit is decoded and consumed, which may
\* fail, and a miss is remembered.
TakeFound ==
    /\ phase = "cache" /\ channel # <<>>
    /\ LET found == Head(channel) IN
        \/ /\ found.pc = "hit"
           /\ eaten' = [eaten EXCEPT ![found.key] = @ + 1]
           /\ channel' = Tail(channel)
           /\ UNCHANGED <<phase, cancelled, wanted>>
        \/ /\ found.pc = "miss"
           /\ wanted' = Append(wanted, found.key)
           /\ channel' = Tail(channel)
           /\ UNCHANGED <<phase, cancelled, eaten>>
        \/ /\ found.pc \in {"hit", "error"}
           /\ phase' = "join" /\ cancelled' = TRUE
           /\ channel' = <<>>
           /\ UNCHANGED <<wanted, eaten>>
    /\ UNCHANGED <<nextKey, pool, fetch, driving, driverError>>

\* Mutant of Missed: every source is fetched, found or not.
MissedAll == Sources

\* indexed_keys: what the cache did not have.
Missed == ToSet(wanted)

PoolOver == \A w \in Workers : pool[w] = Ended

\* The scope joins its threads; without a failure the misses are fetched.
JoinPool ==
    /\ PoolOver /\ channel = <<>>
    /\ \/ phase = "join" /\ phase' = "failed" /\ UNCHANGED <<fetch, driving>>
       \/ /\ phase = "cache" /\ phase' = "network"
          /\ driving' = TRUE
          /\ fetch' = [s \in Sources |-> IF s \in Missed THEN "queued" ELSE "none"]
    /\ PoolUnchanged /\ UNCHANGED <<channel, wanted, driverError, eaten>>

-----------------------------------------------------------------------------
InWindow == {s \in Sources : fetch[s] \in {"waiting", "fetching", "body", "gone", "error"}}

\* Mutant of Retained: the permits go back when the body is sent.
HoldingUnsent == {s \in Sources : fetch[s] \in {"fetching", "body", "gone", "error"}}

\* The permits of a source go back when it has been consumed.
Retained == {s \in Sources : fetch[s] \in {"fetching", "body", "gone", "error", "sent"}}

\* Mutant of Needed: a source larger than the budget asks for all it needs.
NeededUnclamped(s) == Max({SourceSize[s], 1})

\* The permits a source asks for.
Needed(s) == Min({Max({SourceSize[s], 1}), BytePermits})

\* Each permit held, with its source.
Held == {x \in Retained \X (1..BytePermits) : x[2] <= Needed(x[1])}

FreePermits == BytePermits - Cardinality(Held)

\* No source before s is in the state s is in.
FirstWanted(s) ==
    \A i \in 1..Len(wanted) :
        fetch[wanted[i]] = fetch[s] => \E j \in 1..i : wanted[j] = s

\* buffer_unordered takes the next request while the window has room.
StartFetch ==
    /\ driving
    /\ Cardinality(InWindow) < FetchWindow
    /\ \E s \in Sources :
        /\ fetch[s] = "queued"
        /\ FirstWanted(s)
        /\ fetch' = [fetch EXCEPT ![s] = "waiting"]
    /\ PoolUnchanged /\ UNCHANGED <<phase, channel, wanted, driving, driverError, eaten>>

\* acquire_many_owned is fair: the one that has waited longest comes first.
AcquirePermits(s) ==
    /\ driving /\ fetch[s] = "waiting"
    /\ FirstWanted(s)
    /\ Needed(s) <= FreePermits
    /\ fetch' = [fetch EXCEPT ![s] = "fetching"]
    /\ PoolUnchanged /\ UNCHANGED <<phase, channel, wanted, driving, driverError, eaten>>

\* fetch_source: the body of the version asked for, nothing, or an error.
EndFetch(s) ==
    /\ driving /\ fetch[s] = "fetching"
    /\ \E result \in {"body", "gone", "error"} : fetch' = [fetch EXCEPT ![s] = result]
    /\ PoolUnchanged /\ UNCHANGED <<phase, channel, wanted, driving, driverError, eaten>>

\* The driver sends a result down the channel, or ends with the error.
SendBody(s) ==
    /\ driving /\ phase = "network"
    /\ fetch[s] \in {"body", "gone", "error"}
    /\ IF fetch[s] = "error"
       THEN driving' = FALSE /\ driverError' = TRUE /\ UNCHANGED <<fetch, channel>>
       ELSE /\ Len(channel) < ChannelCap
            /\ channel' = Append(channel, [pc |-> fetch[s], key |-> s])
            /\ fetch' = [fetch EXCEPT ![s] = "sent"]
            /\ UNCHANGED <<driving, driverError>>
    /\ PoolUnchanged /\ UNCHANGED <<phase, wanted, eaten>>

\* All is sent, or the caller has dropped its end.
EndDriver ==
    /\ driving
    /\ \/ phase = "driver"
       \/ InWindow = {} /\ \A s \in Sources : fetch[s] # "queued"
    /\ driving' = FALSE
    /\ PoolUnchanged /\ UNCHANGED <<phase, channel, wanted, fetch, driverError, eaten>>

\* The caller consumes a body and returns its permits; consuming may fail.
TakeBody ==
    /\ phase = "network" /\ channel # <<>>
    /\ LET s == Head(channel).key IN
        \/ /\ eaten' = [eaten EXCEPT ![s] = @ + 1]
           /\ fetch' = [fetch EXCEPT ![s] = "none"]
           /\ channel' = Tail(channel)
           /\ UNCHANGED phase
        \/ /\ Head(channel).pc = "body"
           /\ phase' = "driver"
           /\ channel' = <<>>
           /\ UNCHANGED <<fetch, eaten>>
    /\ PoolUnchanged /\ UNCHANGED <<wanted, driving, driverError>>

\* The channel is closed and empty, or consuming failed; the driver has ended.
EndCall ==
    /\ ~driving
    /\ \/ /\ phase = "network" /\ channel = <<>>
          /\ phase' = IF driverError THEN "failed" ELSE "done"
       \/ phase = "driver" /\ phase' = "failed"
    /\ PoolUnchanged /\ UNCHANGED <<channel, wanted, fetch, driving, driverError, eaten>>

DownloadStep ==
    \/ \E w \in Workers : TakeKey(w) \/ ReadCache(w) \/ SendFound(w)
    \/ TakeFound \/ JoinPool
    \/ StartFetch \/ EndDriver \/ TakeBody \/ EndCall
    \/ \E s \in Sources : AcquirePermits(s) \/ EndFetch(s) \/ SendBody(s)

DownloadsNext == CallDownloads \/ DownloadStep

DownloadsSpec == DownloadsInit /\ [][DownloadsNext]_downloadVars

-----------------------------------------------------------------------------
\* A call that succeeds has handed over every source once, or found it gone: no
\* key is skipped or served twice by the two pools.
EachConsumedOnce ==
    /\ \A s \in Sources : eaten[s] <= 1
    /\ phase = "done" => \A s \in Sources : eaten[s] = 1

\* The bodies in memory never exceed the budget, counting a source larger than
\* the budget as the whole of it.
BudgetKept ==
    LET inMemory == {s \in Sources : fetch[s] \in {"fetching", "body", "gone", "error", "sent"}}
    IN  Cardinality({x \in inMemory \X (1..BytePermits) : x[2] <= SourceSize[x[1]]}) <= BytePermits

\* Every call returns: full channels, waiting permits and a caller that stops
\* early leave nobody waiting for ever.
DownloadsEnd == []<>(phase \in {"idle", "done", "failed"})

\* Two pools, a budget and a caller that may fail: each source is handed over once,
\* and no more is held in memory than the budget allows.
DownloadsSound == EachConsumedOnce /\ BudgetKept
=============================================================================
