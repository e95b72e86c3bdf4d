----------------------------- MODULE PackBlocks -----------------------------
(***************************************************************************)
(* Blocks of packs shared by the workers of a candidate batch              *)
(* (crates/index/src/pack.rs, load_blocks_with): a block is loaded by one   *)
(* worker, the others wait on a condition variable; what is read from the  *)
(* disk cache or fetched is verified before it is kept or cached; a worker *)
(* that fails withdraws its claims.                                        *)
(***************************************************************************)
EXTENDS Naturals, FiniteSets

CONSTANTS
    Loaders,        \* worker threads
    MaxBlock,       \* blocks 1..MaxBlock of one pack, in the order of the file
    MaxFaults       \* fetches that fail or bring something else, and damaged cache files

VARIABLES
    slots,        \* block -> "none", "loading", "good" or "bad" (ready with what was stored)
    onDisk,         \* block -> "none", "good" or "bad": the pack block cache
    loader,         \* [at, wants, claimed, left, result]
    faults

blockVars == <<slots, onDisk, loader, faults>>

ASSUME BlocksAssumption == MaxBlock \in Nat \ {0} /\ MaxFaults \in Nat

PackBlockIds == 1..MaxBlock
NotLoading == [at |-> "start", wants |-> {}, claimed |-> {}, left |-> {}, result |-> "none"]
IsReady(b) == slots[b] \in {"good", "bad"}

BlocksInit ==
    /\ slots = [b \in PackBlockIds |-> "none"]
    /\ onDisk = [b \in PackBlockIds |-> "none"]
    /\ loader = [l \in Loaders |-> NotLoading]
    /\ faults = 0

CallLoad(l, ids) ==
    /\ loader[l].at = "start"
    /\ loader' = [loader EXCEPT ![l].at = IF ids = {} THEN "end" ELSE "look", ![l].wants = ids,
                                ![l].result = IF ids = {} THEN "ok" ELSE "none"]
    /\ UNCHANGED <<slots, onDisk, faults>>

\* Mutant of HasAll: a block that somebody is loading is as good as ready.
HasAllClaimed(l) == \A b \in loader[l].wants : slots[b] # "none"

HasAll(l) == \A b \in loader[l].wants : IsReady(b)

AllReady(l) ==
    /\ loader[l].at = "look"
    /\ HasAll(l)
    /\ loader' = [loader EXCEPT ![l].at = "end", ![l].result = "ok"]
    /\ UNCHANGED <<slots, onDisk, faults>>

\* Mutant of MustWait: nothing is waited for.
MustWaitNever(l) == FALSE

MustWait(l) == \E b \in loader[l].wants : slots[b] = "loading"

Wait(l) ==
    /\ loader[l].at = "look" /\ MustWait(l)
    /\ loader' = [loader EXCEPT ![l].at = "wait"]
    /\ UNCHANGED <<slots, onDisk, faults>>

Claim(l) ==
    /\ loader[l].at = "look" /\ ~MustWait(l)
    /\ LET claimed == {b \in loader[l].wants : ~IsReady(b)} IN
       /\ claimed # {}
       /\ slots' = [b \in PackBlockIds |-> IF b \in claimed THEN "loading" ELSE slots[b]]
       /\ loader' = [loader EXCEPT ![l].at = "load", ![l].claimed = claimed, ![l].left = claimed]
    /\ UNCHANGED <<onDisk, faults>>

\* block_runs: the first claimed blocks that lie next to each other.
NextRun(left) ==
    LET first == CHOOSE b \in left : \A c \in left : b <= c
    IN  {b \in left : first..b \subseteq left}

\* Mutant of Cached: a cached block is used as it is.
CachedUnverified(b) == onDisk[b] # "none"

\* PackBlockCache::read: a file that does not have the block's hash is no hit.
Cached(b) == onDisk[b] = "good"

StoreReady(run, disk) ==
    slots' = [b \in PackBlockIds |-> IF b \in run /\ slots[b] = "loading" THEN disk[b] ELSE slots[b]]

\* visit_blocks: a run all of whose blocks are cached.
VisitCached(l) ==
    /\ loader[l].at = "load" /\ loader[l].left # {}
    /\ LET run == NextRun(loader[l].left) IN
       /\ \A b \in run : Cached(b)
       /\ StoreReady(run, onDisk)
       /\ loader' = [loader EXCEPT ![l].left = @ \ run]
    /\ UNCHANGED <<onDisk, faults>>

\* ... and one that is fetched; what verifies is cached, if it can be.
VisitFetched(l, written) ==
    /\ loader[l].at = "load" /\ loader[l].left # {}
    /\ LET run == NextRun(loader[l].left) IN
       /\ ~\A b \in run : Cached(b)
       /\ written \subseteq run
       /\ StoreReady(run, [b \in run |-> "good"])
       /\ onDisk' = [b \in PackBlockIds |-> IF b \in written THEN "good" ELSE onDisk[b]]
       /\ loader' = [loader EXCEPT ![l].left = @ \ run]
    /\ UNCHANGED faults

Fault == faults < MaxFaults /\ faults' = faults + 1

\* Mutant of StoredAtFailure: a block is cached before its hash is compared.
StoredAtFailureToo(b, written) ==
    [c \in PackBlockIds |-> IF c = b THEN "bad" ELSE IF c \in written THEN "good" ELSE onDisk[c]]

StoredAtFailure(b, written) == [c \in PackBlockIds |-> IF c \in written THEN "good" ELSE onDisk[c]]

\* The fetch fails or block b is not what it should be: the ones in front were cached.
VisitBroken(l, b, written) ==
    /\ loader[l].at = "load" /\ Fault
    /\ loader[l].left # {}
    /\ LET run == NextRun(loader[l].left) IN
       /\ ~\A c \in run : Cached(c)
       /\ b \in run /\ written \subseteq {c \in run : c < b}
    /\ onDisk' = StoredAtFailure(b, written)
    /\ loader' = [loader EXCEPT ![l].at = "drop", ![l].result = "error"]
    /\ UNCHANGED slots

\* Everything claimed was visited: is all that was wanted there?
CheckComplete(l) ==
    /\ loader[l].at = "load" /\ loader[l].left = {}
    /\ loader' = [loader EXCEPT ![l].at = "drop",
                     ![l].result = IF HasAll(l) THEN "ok" ELSE "error"]
    /\ UNCHANGED <<slots, onDisk, faults>>

\* Mutant of Woken: one waiter is told.
WokenOne(ls) == {l \in {CHOOSE x \in Loaders : TRUE} : ls[l].at = "wait"}

\* notify_all.
Woken(ls) == {l \in Loaders : ls[l].at = "wait"}

Withdrawn(claimed) == [b \in PackBlockIds |-> IF b \in claimed /\ slots[b] = "loading" THEN "none" ELSE slots[b]]

\* LoadingClaims::drop.
DropClaims(l) ==
    /\ loader[l].at = "drop"
    /\ slots' = Withdrawn(loader[l].claimed)
    /\ loader' = [m \in Loaders |->
                     IF m = l THEN [loader[m] EXCEPT !.at = "end", !.claimed = {}]
                     ELSE IF m \in Woken(loader) THEN [loader[m] EXCEPT !.at = "look"] ELSE loader[m]]
    /\ UNCHANGED <<onDisk, faults>>

\* A cache file is damaged, or evicted.
DamageCache(b, how) ==
    /\ onDisk[b] = "good" /\ Fault
    /\ onDisk' = [onDisk EXCEPT ![b] = how]
    /\ UNCHANGED <<slots, loader>>

LoaderStep(l) ==
    \/ AllReady(l) \/ Wait(l) \/ Claim(l) \/ VisitCached(l) \/ CheckComplete(l) \/ DropClaims(l)
    \/ \E written \in SUBSET PackBlockIds : VisitFetched(l, written)

BlocksNext ==
    \/ \E l \in Loaders : \/ LoaderStep(l)
                          \/ \E ids \in SUBSET PackBlockIds : CallLoad(l, ids)
                          \/ \E b \in PackBlockIds, written \in SUBSET PackBlockIds : VisitBroken(l, b, written)
    \/ \E b \in PackBlockIds, how \in {"none", "bad"} : DamageCache(b, how)

\* Every worker thread runs; waiting needs the notification.
BlocksFairness == \A l \in Loaders : WF_blockVars(LoaderStep(l))

-----------------------------------------------------------------------------
\* A block is being loaded by exactly one worker while others see it as loading,
\* so a block is fetched at most once at a time and never by nobody.
SingleFlight ==
    \A b \in PackBlockIds :
        slots[b] = "loading" <=> Cardinality({l \in Loaders : b \in loader[l].claimed /\ ~IsReady(b)}) = 1

\* Whatever is in the cache or comes from the store, a block that is ready holds the
\* bytes of the pack.
ReadyIsVerified == \A b \in PackBlockIds : slots[b] # "bad"

\* "a corrupt fetch must stay a transient failure, never a written artifact": no step
\* of a worker leaves bytes in the cache that are not the block's.
CorruptNotWritten ==
    [][\A b \in PackBlockIds : onDisk'[b] = "bad" /\ onDisk[b] # "bad" => UNCHANGED loader]_blockVars

\* A call that returns without an error has all its blocks ready, though some of
\* them were the claim of another worker that may have failed meanwhile.
OkMeansReady == \A l \in Loaders : loader[l].result = "ok" => \A b \in loader[l].wants : IsReady(b)

\* No worker waits for ever, whatever fails.
LoadsReturn == \A l \in Loaders : []<>(loader[l].at \in {"start", "end"})

\* Threads that share blocks load each of them once, never use bytes that were not
\* verified, and return Ok only with all their blocks.
BlocksSound == SingleFlight /\ ReadyIsVerified /\ OkMeansReady
=============================================================================
