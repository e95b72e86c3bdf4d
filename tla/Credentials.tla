----------------------------- MODULE Credentials -----------------------------
(***************************************************************************)
(* The disk cache of SSO credentials (crates/s3/src/creds.rs) and its use  *)
(* when a client connects (client.rs).                                     *)
(*                                                                         *)
(* The identity that credentials stand for is decided by two inputs, the   *)
(* profile files and the login token, which a user may change at any time. *)
(* A process takes a snapshot of both, which is the key of the cache       *)
(* entry, then lets the SDK read them in its own time, and stores what the *)
(* SDK resolved only if both still match the snapshot.  An input takes a   *)
(* new value with each change.                                             *)
(***************************************************************************)
EXTENDS Naturals

CONSTANTS
    Processes,
    MaxEdits,       \* bound: changes of either input
    MaxHours,       \* bound: the clock
    Lifetime        \* how long credentials live, above EXPIRY_MARGIN, which is 1

ASSUME CredentialsAssumption == {MaxEdits, MaxHours, Lifetime} \subseteq Nat /\ Lifetime > 1

VARIABLES
    profile, token,     \* the inputs on disk
    stash,              \* the entries: [key, identity, expires]
    hours,              \* the time of day
    proc                \* process -> [pc, key, sdk, cred]

credentialVars == <<profile, token, stash, hours, proc>>

NoCredentials == [identity |-> <<0, 0>>, expires |-> 0]
Fresh == [pc |-> "start", key |-> <<0, 0>>, sdk |-> 0, cred |-> NoCredentials]

CredentialsInit ==
    /\ profile = 1 /\ token = 1
    /\ stash = {}
    /\ hours = 0
    /\ proc = [p \in Processes |-> Fresh]

Inputs == UNCHANGED <<profile, token, hours>>
Set(p, rec) == proc' = [proc EXCEPT ![p] = rec]

-----------------------------------------------------------------------------
\* key_base reads the profile files, then the token cache.  Where the profile
\* has another source of credentials, or no login is valid, nothing is cached.
SnapProfile(p) ==
    /\ proc[p].pc = "start"
    /\ \/ Set(p, [Fresh EXCEPT !.pc = "snap", !.key = <<profile, 0>>])
       \/ Set(p, [Fresh EXCEPT !.pc = "chain"])
    /\ Inputs /\ UNCHANGED stash

SnapToken(p) ==
    /\ proc[p].pc = "snap"
    /\ \/ Set(p, [proc[p] EXCEPT !.pc = "load", !.key = <<proc[p].key[1], token>>])
       \/ Set(p, [Fresh EXCEPT !.pc = "chain"])
    /\ Inputs /\ UNCHANGED stash

\* ConfigLoader::load reads the profile files.
SdkLoads(p) ==
    /\ proc[p].pc = "load"
    /\ Set(p, [proc[p] EXCEPT !.pc = "cached", !.sdk = profile])
    /\ Inputs /\ UNCHANGED stash

\* Mutant of Usable: an entry is used up to its last moment.
UsableToTheEnd(e) == e.expires > hours

\* read_cached: not within the margin of its expiry.
Usable(e) == e.expires > hours + 1

ReadCached(p) ==
    /\ proc[p].pc = "cached"
    /\ \/ \E e \in stash :
            /\ e.key = proc[p].key /\ Usable(e)
            /\ Set(p, [proc[p] EXCEPT !.pc = "use", !.cred = [identity |-> e.identity, expires |-> e.expires]])
       \/ /\ ~\E e \in stash : e.key = proc[p].key /\ Usable(e)
          /\ Set(p, [proc[p] EXCEPT !.pc = "resolve"])
    /\ Inputs /\ UNCHANGED stash

\* The SDK resolves with the profile it has loaded and the token it now reads;
\* without a valid login it fails, and does not fall through to another source.
ResolveCredentials(p) ==
    /\ proc[p].pc = "resolve"
    /\ \/ Set(p, [proc[p] EXCEPT !.pc = "verify",
                  !.cred = [identity |-> <<proc[p].sdk, token>>, expires |-> hours + Lifetime]])
       \/ Set(p, Fresh)
    /\ Inputs /\ UNCHANGED stash

\* Mutant of StillCurrent: only the profile is compared.
StillCurrentProfile(p) == proc[p].key[1] = profile

\* base_is_current: key_base again.
StillCurrent(p) == proc[p].key = <<profile, token>>

\* write_cached replaces the entry in one rename.
WriteCached(p) ==
    /\ proc[p].pc = "verify"
    /\ Set(p, [proc[p] EXCEPT !.pc = "use"])
    /\ \/ /\ StillCurrent(p)
          /\ stash' = {e \in stash : e.key # proc[p].key} \cup
                       {[key |-> proc[p].key, identity |-> proc[p].cred.identity,
                         expires |-> proc[p].cred.expires]}
       \/ UNCHANGED stash      \* not current, or the write failed
    /\ Inputs

\* The SDK asks again before its credentials expire: the same snapshot.
Refresh(p) ==
    /\ proc[p].pc = "use"
    /\ proc[p].cred.expires <= hours + 1
    /\ Set(p, [proc[p] EXCEPT !.pc = "cached"])
    /\ Inputs /\ UNCHANGED stash

\* The default chain, or a process that ends.
Leave(p) ==
    /\ proc[p].pc \in {"chain", "use"}
    /\ Set(p, Fresh)
    /\ Inputs /\ UNCHANGED stash

EditProfile ==
    /\ profile <= MaxEdits /\ profile' = profile + 1
    /\ UNCHANGED <<token, stash, hours, proc>>

Login ==
    /\ token <= MaxEdits /\ token' = token + 1
    /\ UNCHANGED <<profile, stash, hours, proc>>

HourPasses ==
    /\ hours < MaxHours /\ hours' = hours + 1
    /\ UNCHANGED <<profile, token, stash, proc>>

CredentialsNext ==
    \/ \E p \in Processes :
        \/ SnapProfile(p) \/ SnapToken(p) \/ SdkLoads(p) \/ ReadCached(p) \/ ResolveCredentials(p)
        \/ WriteCached(p) \/ Refresh(p) \/ Leave(p)
    \/ EditProfile \/ Login \/ HourPasses

-----------------------------------------------------------------------------
\* "credentials can never be stored under a key describing inputs the SDK did not
\* use", though the snapshot, the SDK and the comparison read the two inputs at
\* different times.
StoredUnderItsKey == \A e \in stash : e.identity = e.key

\* A process that starts from the disk begins with credentials that are valid for
\* a while, and with the identity its snapshot asks for.
StartsWithOwnIdentity ==
    [][\A p \in Processes :
          proc[p].pc = "cached" /\ proc'[p].pc = "use" =>
              /\ proc'[p].cred.identity = proc[p].key
              /\ proc'[p].cred.expires > hours + 1]_credentialVars
=============================================================================
