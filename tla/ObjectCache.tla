----------------------------- MODULE ObjectCache -----------------------------
(***************************************************************************)
(* The cache of fetched objects on the local disk (crates/s3/src/cache.rs).*)
(*                                                                         *)
(* Any number of threads and processes share one directory: one file per   *)
(* entry, with its insertion stamp and a checksum in the header, and the   *)
(* file cache.state with the total size and the last stamp.  Entries are   *)
(* read without the lock; everything else holds it.  A process may die     *)
(* between any two file operations, which releases its lock, and the disk  *)
(* may damage an entry.                                                    *)
(*                                                                         *)
(* A task is a thread: the mutex in front of the file lock makes threads   *)
(* of one process and processes alike.  A length includes the header.      *)
(***************************************************************************)
EXTENDS Naturals, FiniteSets, FiniteSetsExt

CONSTANTS
    Tasks,
    CacheKeys,
    BodyLen,        \* length of each key's entry
    HeaderLen,      \* HEADER_LEN
    CapBytes,       \* cap_bytes
    Nobody,         \* no task
    MaxStamp,       \* the largest insertion stamp
    MaxDamage,      \* bound: damaged entries
    MaxCrashes      \* bound: processes that die

ASSUME CacheAssumption ==
    /\ IsFiniteSet(CacheKeys) /\ CacheKeys # {}
    /\ BodyLen \in [CacheKeys -> Nat]
    /\ \A k \in CacheKeys : BodyLen[k] >= HeaderLen
    /\ {HeaderLen, CapBytes} \subseteq Nat \ {0}
    /\ Nobody \notin Tasks
    /\ {MaxStamp, MaxDamage, MaxCrashes} \subseteq Nat

VARIABLES
    entries,    \* key -> [len, stamp, good], or Missing
    temps,      \* there are temporary files
    stateFile,  \* cache.state: [total, stamp], or Dirty
    cacheLock,  \* the task that holds cache.lock, or Nobody
    doing,      \* what each task is doing
    damages, crashes

cacheVars == <<entries, temps, stateFile, cacheLock, doing, damages, crashes>>

Missing == [len |-> 0, stamp |-> 0, good |-> FALSE]
Dirty == [total |-> 0, stamp |-> MaxStamp + 1]
Resting == [pc |-> "idle", op |-> "none", key |-> CHOOSE k \in CacheKeys : TRUE,
            old |-> 0, mem |-> [total |-> 0, stamp |-> 0], then |-> "save",
            found |-> [k \in CacheKeys |-> 0]]

Present == {k \in CacheKeys : entries[k] # Missing}

\* How many bytes some entries have: a byte is named by its entry and its place.
TotalLen(ks) == Cardinality(UNION {{k} \X (1..entries[k].len) : k \in ks})

CacheInit ==
    /\ entries = [k \in CacheKeys |-> Missing]
    /\ temps = FALSE
    /\ stateFile = Dirty
    /\ cacheLock = Nobody
    /\ doing = [t \in Tasks |-> Resting]
    /\ damages = 0 /\ crashes = 0

\* Task t goes on at pc, and leaves the files alone.
Proceed(t, pc) == doing' = [doing EXCEPT ![t].pc = pc]
Unlock(t) == doing' = [doing EXCEPT ![t] = Resting] /\ cacheLock' = Nobody
KeepFiles == UNCHANGED <<entries, temps, stateFile, damages, crashes>>

-----------------------------------------------------------------------------
\* A call of open, get_body or put_body.  get_body reads without the lock and
\* is over unless it meets a damaged entry; a body above the cap is not put.
CallOpen(t) ==
    /\ doing[t].pc = "idle"
    /\ doing' = [doing EXCEPT ![t] = [Resting EXCEPT !.pc = "lock", !.op = "open"]]
    /\ KeepFiles /\ UNCHANGED cacheLock

CallGet(t, k) ==
    /\ doing[t].pc = "idle"
    /\ k \in Present /\ ~entries[k].good
    /\ doing' = [doing EXCEPT ![t] = [Resting EXCEPT !.pc = "lock", !.op = "get", !.key = k]]
    /\ KeepFiles /\ UNCHANGED cacheLock

CallPut(t, k) ==
    /\ doing[t].pc = "idle"
    /\ BodyLen[k] <= CapBytes
    /\ doing' = [doing EXCEPT ![t] = [Resting EXCEPT !.pc = "lock", !.op = "put", !.key = k]]
    /\ KeepFiles /\ UNCHANGED cacheLock

\* Mutant of MustRemove: the entry is not read again under the lock.
MustRemoveStale(t) == TRUE

\* get_body, under the lock: the entry is still damaged.
MustRemove(t) == doing[t].key \in Present /\ ~entries[doing[t].key].good

\* Mutant of CacheLockFree: the lock file is opened and not locked.
CacheLockFreeAlways == TRUE

\* FileExt::lock returns.
CacheLockFree == cacheLock = Nobody

TakeLock(t) ==
    /\ doing[t].pc = "lock"
    /\ CacheLockFree
    /\ cacheLock' = t
    /\ Proceed(t, IF doing[t].op = "open" THEN "clean" ELSE "locked")
    /\ KeepFiles

\* get_body: the entry was repaired or removed meanwhile.
GiveUp(t) ==
    /\ doing[t].pc = "locked" /\ doing[t].op = "get"
    /\ ~MustRemove(t)
    /\ Unlock(t)
    /\ KeepFiles

\* read_state: a state file that was left dirty is made up anew.
ReadState(t) ==
    /\ doing[t].pc = "locked"
    /\ doing[t].op = "get" => MustRemove(t)
    /\ doing' = [doing EXCEPT ![t] =
           [@ EXCEPT !.old = entries[doing[t].key].len,
                     !.pc = IF stateFile = Dirty THEN "clean" ELSE "mark",
                     !.mem = IF stateFile = Dirty THEN doing[t].mem ELSE stateFile,
                     !.then = "repair"]]
    /\ KeepFiles /\ UNCHANGED cacheLock

\* remove_temps, and the scan of evict: entries without a whole header go, sizes
\* and stamps are read, the sizes for good.
Scan(t) ==
    /\ doing[t].pc \in {"clean", "scan"}
    /\ temps' = (temps /\ doing[t].pc = "scan")
    /\ LET whole == {k \in Present : entries[k].len >= HeaderLen} IN
        /\ entries' = [k \in CacheKeys |-> IF k \in whole THEN entries[k] ELSE Missing]
        /\ doing' = [doing EXCEPT ![t] =
               [@ EXCEPT !.pc = "evict",
                         !.found = [k \in CacheKeys |-> IF k \in whole THEN entries[k].len ELSE 0],
                         !.mem = [total |-> TotalLen(whole),
                                  stamp |-> Max({0} \cup {entries[k].stamp : k \in whole})]]]
    /\ UNCHANGED <<stateFile, cacheLock, damages, crashes>>

\* Mutant of Victim: the last one inserted goes first.
VictimNewest == CHOOSE k \in Present : \A h \in Present : entries[k].stamp >= entries[h].stamp

\* The first entry in the order of insertion stamps.
Victim == CHOOSE k \in Present : \A h \in Present : entries[k].stamp <= entries[h].stamp

Evict(t) ==
    /\ doing[t].pc = "evict"
    /\ doing[t].mem.total > CapBytes
    /\ entries' = [entries EXCEPT ![Victim] = Missing]
    /\ doing' = [doing EXCEPT ![t].mem.total = @ - doing[t].found[Victim]]
    /\ UNCHANGED <<temps, stateFile, cacheLock, damages, crashes>>

EvictDone(t) ==
    /\ doing[t].pc = "evict"
    /\ doing[t].mem.total <= CapBytes
    /\ doing' = [doing EXCEPT ![t] = [@ EXCEPT !.pc = doing[t].then, !.found = Resting.found]]
    /\ KeepFiles /\ UNCHANGED cacheLock

Repair(t) ==
    /\ doing[t].pc = "repair"
    /\ stateFile' = doing[t].mem
    /\ Proceed(t, "mark")
    /\ UNCHANGED <<entries, temps, cacheLock, damages, crashes>>

\* Mutant of Marked: the state file keeps saying what it said.
MarkedLate == stateFile

\* write_state(None): until it is written again the file says nothing.
Marked == Dirty

Mark(t) ==
    /\ doing[t].pc = "mark"
    /\ stateFile' = Marked
    /\ Proceed(t, IF doing[t].op = "get" THEN "remove" ELSE "write")
    /\ UNCHANGED <<entries, temps, cacheLock, damages, crashes>>

\* get_body removes the damaged entry.  Another put may have replaced it only
\* before the lock was taken.
RemoveDamaged(t) ==
    LET k == doing[t].key
        total == doing[t].mem.total
    IN
    /\ doing[t].pc = "remove"
    /\ entries' = [entries EXCEPT ![k] = Missing]
    /\ doing' = [doing EXCEPT ![t] =
           [@ EXCEPT !.pc = "save",
                     !.mem.total = IF total < doing[t].old THEN 0 ELSE total - doing[t].old]]
    /\ UNCHANGED <<temps, stateFile, cacheLock, damages, crashes>>

\* put_body writes a temporary file, removes the old entry and renames the file.
WriteTemp(t) ==
    /\ doing[t].pc = "write"
    /\ doing[t].mem.stamp < MaxStamp
    /\ temps' = TRUE
    /\ doing' = [doing EXCEPT ![t] = [@ EXCEPT !.pc = "unlink", !.mem.stamp = doing[t].mem.stamp + 1]]
    /\ UNCHANGED <<entries, stateFile, cacheLock, damages, crashes>>

\* "object cache insertion sequence exhausted": the error leaves the file dirty.
NoStampLeft(t) ==
    /\ doing[t].pc = "write"
    /\ doing[t].mem.stamp = MaxStamp
    /\ Unlock(t)
    /\ KeepFiles

Unlink(t) ==
    /\ doing[t].pc = "unlink"
    /\ entries' = [entries EXCEPT ![doing[t].key] = Missing]
    /\ Proceed(t, "persist")
    /\ UNCHANGED <<temps, stateFile, cacheLock, damages, crashes>>

\* The total is counted down by the length the old entry had; counting below
\* zero is an error that leaves the state file dirty.
Persist(t) ==
    LET k == doing[t].key
        total == (doing[t].mem.total + BodyLen[k]) - doing[t].old
    IN
    /\ doing[t].pc = "persist"
    /\ temps' = FALSE
    /\ entries' = [entries EXCEPT ![k] =
           [len |-> BodyLen[k], stamp |-> doing[t].mem.stamp, good |-> TRUE]]
    /\ IF doing[t].mem.total < doing[t].old
       THEN Unlock(t)
       ELSE /\ doing' = [doing EXCEPT ![t] =
                   [@ EXCEPT !.mem.total = total, !.then = "save",
                             !.pc = IF total > CapBytes THEN "scan" ELSE "save"]]
            /\ UNCHANGED cacheLock
    /\ UNCHANGED <<stateFile, damages, crashes>>

Save(t) ==
    /\ doing[t].pc = "save"
    /\ stateFile' = doing[t].mem
    /\ Unlock(t)
    /\ UNCHANGED <<entries, temps, damages, crashes>>

\* The process dies, or a file operation fails and the call returns the error:
\* then its temporary file is removed.
Crash(t) ==
    /\ doing[t].pc # "idle"
    /\ crashes < MaxCrashes
    /\ crashes' = crashes + 1
    /\ temps' \in {temps, temps /\ cacheLock # t}
    /\ doing' = [doing EXCEPT ![t] = Resting]
    /\ cacheLock' = IF cacheLock = t THEN Nobody ELSE cacheLock
    /\ UNCHANGED <<entries, stateFile, damages>>

\* The disk loses part of an entry, or returns other bytes for it.
Damage(k) ==
    /\ damages < MaxDamage
    /\ damages' = damages + 1
    /\ k \in Present
    /\ \E len \in {HeaderLen - 1, entries[k].len} :
        entries' = [entries EXCEPT ![k] = [@ EXCEPT !.len = len, !.good = FALSE]]
    /\ UNCHANGED <<temps, stateFile, cacheLock, doing, crashes>>

CacheStep(t) ==
    \/ TakeLock(t) \/ GiveUp(t) \/ ReadState(t) \/ Scan(t) \/ Evict(t) \/ EvictDone(t)
    \/ Repair(t) \/ Mark(t) \/ RemoveDamaged(t) \/ WriteTemp(t) \/ NoStampLeft(t) \/ Unlink(t) \/ Persist(t)
    \/ Save(t)

CacheNext ==
    \/ \E t \in Tasks :
        \/ CallOpen(t) \/ CacheStep(t) \/ Crash(t)
        \/ \E k \in CacheKeys : CallGet(t, k) \/ CallPut(t, k)
    \/ \E k \in CacheKeys : Damage(k)

CacheSpec == CacheInit /\ [][CacheNext]_cacheVars

-----------------------------------------------------------------------------
\* The values the variables range over; whoever is past the lock holds it.
CacheTypeOK ==
    /\ entries \in [CacheKeys -> [len : Nat, stamp : 0..MaxStamp, good : BOOLEAN]]
    /\ temps \in BOOLEAN
    /\ stateFile \in [total : Nat, stamp : 0..(MaxStamp + 1)]
    /\ cacheLock \in Tasks \cup {Nobody}
    /\ \A t \in Tasks : doing[t].pc \notin {"idle", "lock"} => cacheLock = t
    /\ damages \in 0..MaxDamage /\ crashes \in 0..MaxCrashes

\* The state file is trusted without a scan, so what it says decides whether the
\* cache keeps to its cap.  A put returns with its entry "atomically committed
\* and accounted": the entries take up no more than the file says.
EntriesAccounted ==
    cacheLock = Nobody /\ stateFile # Dirty => TotalLen(CacheKeys) <= stateFile.total

\* The file never says more than the cap, and what is missing from it is at most
\* one entry for each process that died and each entry damaged: put_body measures
\* the old entry before the scan that makes up a dirty state file may remove it.
LargestLen == Max({BodyLen[k] : k \in CacheKeys})
CacheBounded ==
    cacheLock = Nobody /\ stateFile # Dirty =>
        /\ stateFile.total <= CapBytes
        /\ TotalLen(CacheKeys) <= stateFile.total + (crashes + damages) * LargestLen

\* What was just put survives the eviction it causes: it carries the last stamp,
\* though stamps start again from the entries found after a crash.
PutSurvives ==
    \A t \in Tasks : doing[t].pc = "save" /\ doing[t].op = "put" =>
        LET k == doing[t].key IN
        \/ k \in Present /\ \A h \in Present \ {k} : entries[h].stamp < entries[k].stamp
        \/ damages > 0

\* Cleaning up a damaged entry never removes the entry another thread has put in
\* its place.
OnlyDamagedRemoved ==
    [][\A t \in Tasks, k \in CacheKeys :
          doing[t].pc = "remove" /\ k \in Present /\ entries[k].good => entries'[k] # Missing]_cacheVars

\* Whatever processes die and whatever entries are damaged: the lock is held by one
\* task, the cache is no larger than it knows by more than the faults explain, and a
\* put is not undone by the eviction it causes.
CacheSound == CacheTypeOK /\ CacheBounded /\ PutSurvives
=============================================================================
