---------------------------- MODULE ComponentProofs ----------------------------
(***************************************************************************)
(* Proofs about the components that stand by themselves: the conditional   *)
(* put, the cache of credentials, the watch loop, the cache of segment     *)
(* files and the search command.                                           *)
(***************************************************************************)
EXTENDS ConditionalPut, Credentials, WatchLoop, SegmentCache, SearchCommand, SequenceTheorems, TLAPS

-----------------------------------------------------------------------------
(***************************************************************************)
(* The conditional put.                                                    *)
(***************************************************************************)

WriterState ==
    [pc : {"idle", "send", "wait", "lock", "compare", "rename", "true", "false", "error"},
     seen : SUBSET Writers, try : Nat]

PutTypeOK ==
    /\ backend \in {"none", "s3", "local"}
    /\ rootBlob \subseteq Writers
    /\ inFlight \subseteq [by : Writers, expected : SUBSET Writers, try : Nat]
    /\ writer \in [Writers -> WriterState]
    /\ rootLock \in Writers \cup {NoWriter}

\* Nobody mixes the two protocols; who compares or renames holds the lock, so what
\* was compared is still there when it is replaced.
PutInv ==
    /\ PutTypeOK
    /\ inFlight # {} => backend = "s3"
    /\ \A w \in Writers :
        /\ writer[w].pc \in {"send", "wait"} => backend = "s3"
        /\ writer[w].pc \in {"lock", "compare", "rename"} => backend = "local"
        /\ writer[w].pc \in {"compare", "rename"} => rootLock = w
        /\ writer[w].pc = "rename" => rootBlob = writer[w].seen
        /\ writer[w].pc = "true" => w \in rootBlob

\* Writer w goes on at pc, the root, the requests and the lock staying as they are.
LEMMA WriterMoves ==
    ASSUME PutInv, NEW w \in Writers, NEW pc, Moves(w, pc),
           pc \in {"idle", "send", "wait", "lock", "compare", "rename", "true", "false", "error"}
    PROVE  /\ writer' \in [Writers -> WriterState]
           /\ writer'[w].pc = pc /\ writer'[w].seen = writer[w].seen
           /\ \A v \in Writers \ {w} : writer'[v] = writer[v]
<1>1. writer \in [Writers -> WriterState]
  BY DEF PutInv, PutTypeOK
<1> QED BY <1>1 DEF Moves, WriterState

LEMMA PutKeepsInv ==
    ASSUME PutInv, [PutNext]_putVars
    PROVE  PutInv' /\ rootBlob \subseteq rootBlob'
<1>0. PutTypeOK /\ writer \in [Writers -> WriterState] /\ NoWriter \notin Writers
  BY ConditionalPutAssumption DEF PutInv, PutTypeOK
<1>1. ASSUME NEW w \in Writers, ReadRoot(w) PROVE PutInv' /\ rootBlob \subseteq rootBlob'
  <2> DEFINE s == [pc |-> IF backend' = "s3" THEN "send" ELSE "lock", seen |-> rootBlob, try |-> 1]
  <2>1. s \in WriterState /\ s.pc = (IF backend' = "s3" THEN "send" ELSE "lock") /\ s.seen = rootBlob
    BY <1>0 DEF WriterState, PutTypeOK
  <2>2. writer' = [writer EXCEPT ![w] = s] /\ UNCHANGED <<rootBlob, inFlight, rootLock>>
    BY <1>1 DEF ReadRoot
  <2> HIDE DEF s
  <2>3. backend' \in {"s3", "local"} /\ (backend # "none" => backend' = backend)
    BY <1>0, <1>1 DEF ReadRoot, PutTypeOK
  <2> QED BY <1>0, <2>1, <2>2, <2>3 DEF PutInv, PutTypeOK
<1>2. ASSUME NEW w \in Writers, SendPut(w) PROVE PutInv' /\ rootBlob \subseteq rootBlob'
  <2> DEFINE q == [by |-> w, expected |-> writer[w].seen, try |-> writer[w].try]
  <2>1. q \in [by : Writers, expected : SUBSET Writers, try : Nat]
    BY <1>0 DEF WriterState
  <2>2. inFlight' = inFlight \cup {q} /\ Moves(w, "wait") /\ UNCHANGED <<backend, rootBlob, rootLock>>
    BY <1>2 DEF SendPut
  <2> HIDE DEF q
  <2> QED BY <1>0, <1>2, <2>1, <2>2, WriterMoves DEF PutInv, PutTypeOK, SendPut
<1>3. ASSUME NEW w \in Writers, NoReply(w) PROVE PutInv' /\ rootBlob \subseteq rootBlob'
  <2> DEFINE s == [writer[w] EXCEPT !.pc = AfterOutage(w), !.try = @ + 1]
  <2>0. AfterOutage(w) \in {"send", "error"}
    BY DEF AfterOutage
  <2>1. s \in WriterState /\ s.pc \in {"send", "error"}
    <3>1. writer[w] \in WriterState /\ writer[w].try + 1 \in Nat
      BY <1>0 DEF WriterState
    <3>2. s = [writer[w] EXCEPT !.pc = AfterOutage(w), !.try = writer[w].try + 1]
      OBVIOUS
    <3> QED BY <2>0, <3>1, <3>2 DEF WriterState
  <2>2. writer' = [writer EXCEPT ![w] = s] /\ UNCHANGED <<backend, rootBlob, inFlight, rootLock>>
    BY <1>3, <1>0 DEF NoReply
  <2> HIDE DEF s
  <2> QED BY <1>0, <1>3, <2>1, <2>2 DEF PutInv, PutTypeOK, NoReply
<1>4. ASSUME NEW w \in Writers, LockRoot(w) PROVE PutInv' /\ rootBlob \subseteq rootBlob'
  BY <1>0, <1>4, WriterMoves DEF LockRoot, LockFree, PutInv, PutTypeOK
<1>5. ASSUME NEW w \in Writers, CompareRoot(w) PROVE PutInv' /\ rootBlob \subseteq rootBlob'
  <2>1. /\ Moves(w, IF TagMatches(writer[w].seen) THEN "rename" ELSE "false")
        /\ rootLock' = IF TagMatches(writer[w].seen) THEN rootLock ELSE NoWriter
        /\ writer[w].pc = "compare" /\ UNCHANGED <<backend, rootBlob, inFlight>>
    BY <1>5 DEF CompareRoot
  <2>2. CASE TagMatches(writer[w].seen)
    BY <1>0, <2>1, <2>2, WriterMoves DEF PutInv, PutTypeOK, TagMatches
  <2>3. CASE ~TagMatches(writer[w].seen)
    BY <1>0, <2>1, <2>3, WriterMoves DEF PutInv, PutTypeOK
  <2> QED BY <2>2, <2>3
<1>6. ASSUME NEW w \in Writers, RenameRoot(w) PROVE PutInv' /\ rootBlob \subseteq rootBlob'
  <2>1. rootBlob' = rootBlob \cup {w} /\ rootLock = w
    BY <1>6 DEF RenameRoot, PutInv
  <2> QED BY <1>0, <1>6, <2>1, WriterMoves DEF RenameRoot, PutInv, PutTypeOK
<1>7. ASSUME NEW w \in Writers, LocalFails(w) PROVE PutInv' /\ rootBlob \subseteq rootBlob'
  BY <1>0, <1>7, WriterMoves DEF LocalFails, PutInv, PutTypeOK
<1>8. ASSUME NEW w \in Writers, TryAgain(w) PROVE PutInv' /\ rootBlob \subseteq rootBlob'
  <2>1. PutIdle \in WriterState /\ PutIdle.pc = "idle"
    BY DEF PutIdle, WriterState
  <2> QED BY <1>0, <1>8, <2>1 DEF TryAgain, PutInv, PutTypeOK
<1>9. ASSUME NEW r \in inFlight, ApplyPut(r) \/ RefusePut(r) \/ LosePut(r)
      PROVE  PutInv' /\ rootBlob \subseteq rootBlob'
  <2>1. r.by \in Writers /\ backend = "s3"
    BY <1>0, <1>9 DEF PutInv, PutTypeOK
  <2>2. CASE ApplyPut(r)
    <3>1. /\ rootBlob' = rootBlob \cup {r.by} /\ inFlight' = inFlight \ {r}
          /\ UNCHANGED <<backend, rootLock>>
          /\ Moves(r.by, "true") \/ UNCHANGED writer
      BY <2>2 DEF ApplyPut, TagMatches
    <3>2. CASE Moves(r.by, "true")
      BY <1>0, <2>1, <3>1, <3>2, WriterMoves DEF PutInv, PutTypeOK
    <3>3. CASE UNCHANGED writer
      BY <1>0, <2>1, <3>1, <3>3 DEF PutInv, PutTypeOK
    <3> QED BY <3>1, <3>2, <3>3
  <2>3. CASE RefusePut(r) \/ LosePut(r)
    <3>1. /\ inFlight' = inFlight \ {r} /\ UNCHANGED <<backend, rootBlob, rootLock>>
          /\ Moves(r.by, "false") \/ UNCHANGED writer
      BY <2>3 DEF RefusePut, LosePut
    <3>2. CASE Moves(r.by, "false")
      BY <1>0, <2>1, <3>1, <3>2, WriterMoves DEF PutInv, PutTypeOK
    <3>3. CASE UNCHANGED writer
      BY <1>0, <2>1, <3>1, <3>3 DEF PutInv, PutTypeOK
    <3> QED BY <3>1, <3>2, <3>3
  <2> QED BY <1>9, <2>2, <2>3
<1>10. CASE UNCHANGED putVars
  BY <1>10 DEF putVars, PutInv, PutTypeOK
<1> QED BY <1>1, <1>2, <1>3, <1>4, <1>5, <1>6, <1>7, <1>8, <1>9, <1>10 DEF PutNext, PutStep

LEMMA PutInvariant == PutSpec => []PutInv
<1>1. PutInit => PutInv
  <2>1. PutIdle \in WriterState /\ PutIdle.pc = "idle"
    BY DEF PutIdle, WriterState
  <2> QED BY <2>1 DEF PutInit, PutInv, PutTypeOK
<1>2. PutInv /\ [PutNext]_putVars => PutInv'
  BY PutKeepsInv
<1> QED BY <1>1, <1>2, PTL DEF PutSpec

\* Once put_if has returned true the update is in the root, for any number of
\* writers, retries, and requests that the store applies late or twice.
THEOREM UpdatesKept == PutSpec => []NoLostUpdate
<1>1. PutInv => NoLostUpdate
  BY DEF PutInv, NoLostUpdate
<1> QED BY <1>1, PutInvariant, PTL

\* put_if never takes an update out of the root that is there, over S3 as over a
\* local directory.
THEOREM RootOnlyGrows == PutSpec => RootGrows
<1>1. PutInv /\ [PutNext]_putVars => [rootBlob \subseteq rootBlob']_putVars
  BY PutKeepsInv
<1> QED BY <1>1, PutInvariant, PTL DEF PutSpec, RootGrows

-----------------------------------------------------------------------------
(***************************************************************************)
(* The cache of credentials.                                               *)
(***************************************************************************)

CredentialsSpec == CredentialsInit /\ [][CredentialsNext]_credentialVars

Credential == [identity : Nat \X Nat, expires : Nat]

ProcessState ==
    [pc : {"start", "snap", "load", "cached", "resolve", "verify", "use", "chain"},
     key : Nat \X Nat, sdk : Nat, cred : Credential]

CredentialsTypeOK ==
    /\ profile \in Nat /\ token \in Nat /\ hours \in Nat
    /\ stash \subseteq [key : Nat \X Nat, identity : Nat \X Nat, expires : Nat]
    /\ proc \in [Processes -> ProcessState]

\* The inputs only take new values, so what a process has read is in order: the
\* snapshot, then what the SDK read, then what is on disk now.
InOrder(q) ==
    /\ q.pc \in {"snap", "load", "cached", "resolve", "verify", "use"} => q.key[1] <= profile
    /\ q.pc \in {"load", "cached", "resolve", "verify", "use"} => q.key[2] <= token
    /\ q.pc \in {"cached", "resolve", "verify", "use"} => q.key[1] <= q.sdk /\ q.sdk <= profile
    /\ q.pc = "verify" =>
          /\ q.cred.identity[1] = q.sdk
          /\ q.key[2] <= q.cred.identity[2] /\ q.cred.identity[2] <= token

\* The inductive invariant behind StoredUnderItsKey.
CredentialsInv ==
    /\ CredentialsTypeOK
    /\ \A p \in Processes : InOrder(proc[p])
    /\ StoredUnderItsKey

LEMMA FreshState == Fresh \in ProcessState /\ Fresh.pc = "start" /\ InOrder(Fresh)
<1>1. NoCredentials \in Credential
  BY DEF NoCredentials, Credential
<1>2. Fresh \in ProcessState /\ Fresh.pc = "start"
  BY <1>1 DEF Fresh, ProcessState
<1> QED BY <1>2 DEF InOrder

\* Process p goes on as q, the inputs and the entries staying as they are.
LEMMA ProcessMoves ==
    ASSUME CredentialsInv, NEW p \in Processes, NEW q \in ProcessState, InOrder(q),
           Set(p, q), Inputs, UNCHANGED stash
    PROVE  CredentialsInv'
<1>1. proc' = [proc EXCEPT ![p] = q] /\ profile' = profile /\ token' = token /\ hours' = hours
  BY DEF Set, Inputs
<1>2. proc \in [Processes -> ProcessState] /\ CredentialsTypeOK
  BY DEF CredentialsInv, CredentialsTypeOK
<1>3. CredentialsTypeOK'
  BY <1>1, <1>2 DEF CredentialsTypeOK
<1>4. ASSUME NEW o \in Processes PROVE InOrder(proc[o])'
  <2>1. InOrder(proc'[o])
    BY <1>1, <1>2 DEF CredentialsInv
  <2> QED BY <2>1, <1>1 DEF InOrder
<1> QED BY <1>3, <1>4 DEF CredentialsInv, StoredUnderItsKey

LEMMA CredentialsStep ==
    ASSUME CredentialsInv, [CredentialsNext]_credentialVars
    PROVE  CredentialsInv'
<1>0. /\ CredentialsTypeOK /\ proc \in [Processes -> ProcessState] /\ Lifetime \in Nat
      /\ profile \in Nat /\ token \in Nat /\ hours \in Nat
      /\ \A p \in Processes : proc[p] \in ProcessState /\ InOrder(proc[p])
  BY CredentialsAssumption DEF CredentialsInv, CredentialsTypeOK
<1>1. ASSUME NEW p \in Processes, SnapProfile(p) PROVE CredentialsInv'
  <2> DEFINE q == [Fresh EXCEPT !.pc = "snap", !.key = <<profile, 0>>]
             c == [Fresh EXCEPT !.pc = "chain"]
  <2>1. q \in ProcessState /\ q.pc = "snap" /\ q.key = <<profile, 0>>
    BY <1>0, FreshState DEF ProcessState
  <2>2. c \in ProcessState /\ c.pc = "chain"
    BY FreshState DEF ProcessState
  <2>3. (Set(p, q) \/ Set(p, c)) /\ Inputs /\ UNCHANGED stash
    BY <1>1 DEF SnapProfile
  <2> HIDE DEF q, c
  <2>4. InOrder(q) /\ InOrder(c)
    BY <1>0, <2>1, <2>2 DEF InOrder
  <2> QED BY <2>1, <2>2, <2>3, <2>4, ProcessMoves
<1>2. ASSUME NEW p \in Processes, SnapToken(p) PROVE CredentialsInv'
  <2> DEFINE q == [proc[p] EXCEPT !.pc = "load", !.key = <<proc[p].key[1], token>>]
             c == [Fresh EXCEPT !.pc = "chain"]
  <2>1. q \in ProcessState /\ q.pc = "load" /\ q.key = <<proc[p].key[1], token>>
    BY <1>0 DEF ProcessState
  <2>2. c \in ProcessState /\ c.pc = "chain"
    BY FreshState DEF ProcessState
  <2>3. (Set(p, q) \/ Set(p, c)) /\ Inputs /\ UNCHANGED stash /\ proc[p].pc = "snap"
    BY <1>2 DEF SnapToken
  <2> HIDE DEF q, c
  <2>4. InOrder(q) /\ InOrder(c)
    BY <1>0, <2>1, <2>2, <2>3 DEF InOrder
  <2> QED BY <2>1, <2>2, <2>3, <2>4, ProcessMoves
<1>3. ASSUME NEW p \in Processes, SdkLoads(p) PROVE CredentialsInv'
  <2> DEFINE q == [proc[p] EXCEPT !.pc = "cached", !.sdk = profile]
  <2>1. q \in ProcessState /\ q.pc = "cached" /\ q.key = proc[p].key /\ q.sdk = profile
    BY <1>0 DEF ProcessState
  <2>2. Set(p, q) /\ Inputs /\ UNCHANGED stash /\ proc[p].pc = "load"
    BY <1>3 DEF SdkLoads
  <2> HIDE DEF q
  <2>3. InOrder(q)
    BY <1>0, <2>1, <2>2 DEF InOrder
  <2> QED BY <2>1, <2>2, <2>3, ProcessMoves
<1>4. ASSUME NEW p \in Processes, ReadCached(p) PROVE CredentialsInv'
  <2>1. proc[p].pc = "cached" /\ Inputs /\ UNCHANGED stash
    BY <1>4 DEF ReadCached
  <2>2. ASSUME NEW e \in stash,
               Set(p, [proc[p] EXCEPT !.pc = "use",
                                      !.cred = [identity |-> e.identity, expires |-> e.expires]])
        PROVE  CredentialsInv'
    <3> DEFINE c == [identity |-> e.identity, expires |-> e.expires]
               q == [proc[p] EXCEPT !.pc = "use", !.cred = c]
    <3>1. c \in Credential
      BY <1>0 DEF CredentialsTypeOK, Credential
    <3> HIDE DEF c
    <3>2. q \in ProcessState /\ q.pc = "use" /\ q.key = proc[p].key /\ q.sdk = proc[p].sdk
      BY <1>0, <3>1 DEF ProcessState
    <3>3. Set(p, q)
      BY <2>2 DEF c
    <3> HIDE DEF q
    <3>4. InOrder(q)
      BY <1>0, <2>1, <3>2 DEF InOrder
    <3> QED BY <2>1, <3>2, <3>3, <3>4, ProcessMoves
  <2>3. CASE Set(p, [proc[p] EXCEPT !.pc = "resolve"])
    <3> DEFINE q == [proc[p] EXCEPT !.pc = "resolve"]
    <3>1. q \in ProcessState /\ q.pc = "resolve" /\ q.key = proc[p].key /\ q.sdk = proc[p].sdk
      BY <1>0 DEF ProcessState
    <3> HIDE DEF q
    <3>2. InOrder(q)
      BY <1>0, <2>1, <3>1 DEF InOrder
    <3> QED BY <2>1, <2>3, <3>1, <3>2, ProcessMoves DEF q
  <2> QED BY <1>4, <2>2, <2>3 DEF ReadCached
<1>5. ASSUME NEW p \in Processes, ResolveCredentials(p) PROVE CredentialsInv'
  <2> DEFINE c == [identity |-> <<proc[p].sdk, token>>, expires |-> hours + Lifetime]
             q == [proc[p] EXCEPT !.pc = "verify", !.cred = c]
  <2>1. c \in Credential /\ c.identity[1] = proc[p].sdk /\ c.identity[2] = token
    BY <1>0 DEF Credential, ProcessState
  <2>2. proc[p].pc = "resolve" /\ Inputs /\ UNCHANGED stash /\ (Set(p, q) \/ Set(p, Fresh))
    BY <1>5 DEF ResolveCredentials
  <2> HIDE DEF c
  <2>3. q \in ProcessState /\ q.pc = "verify" /\ q.key = proc[p].key /\ q.sdk = proc[p].sdk /\ q.cred = c
    BY <1>0, <2>1 DEF ProcessState
  <2> HIDE DEF q
  <2>4. InOrder(q)
    BY <1>0, <2>1, <2>2, <2>3 DEF InOrder
  <2> QED BY <2>2, <2>3, <2>4, FreshState, ProcessMoves
<1>6. ASSUME NEW p \in Processes, WriteCached(p) PROVE CredentialsInv'
  <2> DEFINE q == [proc[p] EXCEPT !.pc = "use"]
             n == [key |-> proc[p].key, identity |-> proc[p].cred.identity, expires |-> proc[p].cred.expires]
  <2>1. proc[p].pc = "verify" /\ Inputs /\ Set(p, q)
    BY <1>6 DEF WriteCached
  <2>2. q \in ProcessState /\ q.pc = "use" /\ q.key = proc[p].key /\ q.sdk = proc[p].sdk
    BY <1>0 DEF ProcessState
  <2> HIDE DEF q
  <2>3. InOrder(q)
    BY <1>0, <2>1, <2>2 DEF InOrder
  <2>4. CASE UNCHANGED stash
    BY <2>1, <2>2, <2>3, <2>4, ProcessMoves
  <2>5. CASE StillCurrent(p) /\ stash' = {e \in stash : e.key # proc[p].key} \cup {n}
    <3>1. /\ proc[p].key \in Nat \X Nat /\ proc[p].sdk \in Nat /\ proc[p].cred \in Credential
      BY <1>0 DEF ProcessState
    <3>2. proc[p].cred.identity \in Nat \X Nat /\ proc[p].cred.expires \in Nat
      BY <3>1 DEF Credential
    <3>3. proc[p].key[1] = profile /\ proc[p].key[2] = token
      BY <2>5 DEF StillCurrent
    <3>4. proc[p].cred.identity[1] = profile /\ proc[p].cred.identity[2] = token
      BY <1>0, <2>1, <3>1, <3>2, <3>3 DEF InOrder
    <3>5. proc[p].cred.identity = proc[p].key
      BY <3>1, <3>2, <3>3, <3>4
    <3>6. n.identity = n.key /\ n \in [key : Nat \X Nat, identity : Nat \X Nat, expires : Nat]
      BY <3>1, <3>2, <3>5
    <3> HIDE DEF n
    <3>7. StoredUnderItsKey'
      BY <2>5, <3>6 DEF CredentialsInv, StoredUnderItsKey
    <3>8. stash' \subseteq [key : Nat \X Nat, identity : Nat \X Nat, expires : Nat]
      BY <1>0, <2>5, <3>6 DEF CredentialsTypeOK
    <3>9. profile' = profile /\ token' = token /\ hours' = hours /\ proc' = [proc EXCEPT ![p] = q]
      BY <2>1 DEF Inputs, Set
    <3>10. CredentialsTypeOK'
      BY <1>0, <2>2, <3>8, <3>9 DEF CredentialsTypeOK
    <3>11. ASSUME NEW o \in Processes PROVE InOrder(proc[o])'
      <4>1. InOrder(proc'[o])
        BY <1>0, <2>3, <3>9
      <4> QED BY <4>1, <3>9 DEF InOrder
    <3> QED BY <3>7, <3>10, <3>11 DEF CredentialsInv
  <2> QED BY <1>6, <2>4, <2>5 DEF WriteCached
<1>7. ASSUME NEW p \in Processes, Refresh(p) PROVE CredentialsInv'
  <2> DEFINE q == [proc[p] EXCEPT !.pc = "cached"]
  <2>1. proc[p].pc = "use" /\ Inputs /\ UNCHANGED stash /\ Set(p, q)
    BY <1>7 DEF Refresh
  <2>2. q \in ProcessState /\ q.pc = "cached" /\ q.key = proc[p].key /\ q.sdk = proc[p].sdk
    BY <1>0 DEF ProcessState
  <2> HIDE DEF q
  <2>3. InOrder(q)
    BY <1>0, <2>1, <2>2 DEF InOrder
  <2> QED BY <2>1, <2>2, <2>3, ProcessMoves
<1>8. ASSUME NEW p \in Processes, Leave(p) PROVE CredentialsInv'
  BY <1>8, FreshState, ProcessMoves DEF Leave
<1>9. CASE EditProfile \/ Login \/ HourPasses \/ UNCHANGED credentialVars
  <2>1. /\ proc' = proc /\ stash' = stash
        /\ profile' \in Nat /\ token' \in Nat /\ hours' \in Nat
        /\ profile <= profile' /\ token <= token'
    BY <1>0, <1>9 DEF EditProfile, Login, HourPasses, credentialVars
  <2>2. ASSUME NEW o \in Processes PROVE InOrder(proc[o])'
    <3>1. /\ proc[o].key[1] \in Nat /\ proc[o].key[2] \in Nat /\ proc[o].sdk \in Nat
          /\ proc[o].cred \in Credential
      BY <1>0 DEF ProcessState
    <3>2. proc[o].cred.identity[2] \in Nat
      BY <3>1 DEF Credential
    <3> QED BY <1>0, <2>1, <3>1, <3>2 DEF InOrder
  <2> QED BY <1>0, <2>1, <2>2 DEF CredentialsInv, CredentialsTypeOK, StoredUnderItsKey
<1> QED BY <1>1, <1>2, <1>3, <1>4, <1>5, <1>6, <1>7, <1>8, <1>9 DEF CredentialsNext

LEMMA CredentialsInvariant == CredentialsSpec => []CredentialsInv
<1>1. CredentialsInit => CredentialsInv
  BY FreshState DEF CredentialsInit, CredentialsInv, CredentialsTypeOK, StoredUnderItsKey
<1>2. CredentialsInv /\ [CredentialsNext]_credentialVars => CredentialsInv'
  BY CredentialsStep
<1> QED BY <1>1, <1>2, PTL DEF CredentialsSpec

\* write_cached never stores credentials under a key describing inputs the SDK did
\* not use, however often the profile and the login change between the reads.
THEOREM IdentityIsKey == CredentialsSpec => []StoredUnderItsKey
<1>1. CredentialsInv => StoredUnderItsKey
  BY DEF CredentialsInv
<1> QED BY <1>1, CredentialsInvariant, PTL

\* What read_cached gives a process has the identity of its own snapshot and more
\* than the margin left to live.
THEOREM OwnIdentity == CredentialsSpec => StartsWithOwnIdentity
<1>1. ASSUME CredentialsInv, CredentialsNext, NEW p \in Processes,
             proc[p].pc = "cached", proc'[p].pc = "use"
      PROVE  proc'[p].cred.identity = proc[p].key /\ proc'[p].cred.expires > hours + 1
  <2>0. \A o \in Processes : proc[o] \in ProcessState
    BY <1>1 DEF CredentialsInv, CredentialsTypeOK
  <2>1. ReadCached(p)
    BY <1>1, <2>0 DEF CredentialsNext, CredentialsInv, CredentialsTypeOK, Set, SnapProfile, SnapToken,
       SdkLoads, ReadCached, ResolveCredentials, WriteCached, Refresh, Leave, EditProfile, Login, HourPasses
  <2>2. PICK e \in stash :
            /\ e.key = proc[p].key /\ Usable(e)
            /\ Set(p, [proc[p] EXCEPT !.pc = "use",
                                      !.cred = [identity |-> e.identity, expires |-> e.expires]])
    <3>1. ~Set(p, [proc[p] EXCEPT !.pc = "resolve"])
      BY <1>1, <2>0 DEF Set, ProcessState, CredentialsInv, CredentialsTypeOK
    <3> QED BY <2>1, <3>1 DEF ReadCached
  <2>3. proc'[p].cred.identity = e.identity /\ proc'[p].cred.expires = e.expires
    BY <1>1, <2>0, <2>2 DEF Set, ProcessState, CredentialsInv, CredentialsTypeOK
  <2> QED BY <1>1, <2>2, <2>3 DEF Usable, CredentialsInv, StoredUnderItsKey
<1>2. CredentialsInv /\ [CredentialsNext]_credentialVars =>
          [\A p \in Processes :
              proc[p].pc = "cached" /\ proc'[p].pc = "use" =>
                  /\ proc'[p].cred.identity = proc[p].key
                  /\ proc'[p].cred.expires > hours + 1]_credentialVars
  BY <1>1
<1> QED BY <1>2, CredentialsInvariant, PTL DEF CredentialsSpec, StartsWithOwnIdentity

-----------------------------------------------------------------------------
(***************************************************************************)
(* The watch loop.                                                         *)
(***************************************************************************)

WatchSpec == WatchInit /\ [][WatchNext]_watchVars

WatchTypeOK ==
    /\ watched \in BOOLEAN /\ succeeded \in BOOLEAN /\ failFast \in BOOLEAN /\ stop \in BOOLEAN
    /\ loop \in {"idle", "open", "build", "check", "pause", "exited"}
    /\ cycle \in Nat /\ signalled \in 0..2
    /\ events \in Seq({"indexed", "error", "stopped"})
    /\ exit \in {0, 2, 3}

\* The loop goes on only after a success; the last event and failFast tell how the
\* latest cycle ended; and a signal stays in the channel until the loop ends, which
\* it does at the first check.
LoopInv ==
    /\ loop \in {"idle", "open"} => cycle = 0 /\ events = <<>> /\ ~succeeded /\ signalled = 0
    /\ loop \in {"build", "check", "pause"} =>
          /\ Len(events) = cycle
          /\ \A i \in DOMAIN events : events[i] # "stopped"
    /\ loop = "build" => (watched /\ succeeded) \/ (cycle = 0 /\ ~succeeded)
    /\ loop = "check" =>
          /\ cycle > 0
          /\ failFast <=> events[cycle] = "error" /\ Fatal
          /\ events[cycle] = "indexed" => succeeded
    /\ loop = "pause" => watched /\ succeeded
    /\ loop # "exited" /\ signalled > 0 => stop
    /\ loop \in {"build", "pause"} => signalled <= 1

\* The inductive invariant behind WatchSound.
WatchInv == WatchTypeOK /\ LoopInv /\ ExitTellsSuccess /\ OneEventPerCycle

LEMMA ReportFacts ==
    ASSUME WatchTypeOK, NEW e \in {"indexed", "error", "stopped"}, events' = Append(events, e)
    PROVE  /\ events' \in Seq({"indexed", "error", "stopped"}) /\ Len(events') = Len(events) + 1
           /\ events'[Len(events) + 1] = e /\ Last(events') = e
           /\ \A i \in DOMAIN events' : i # Len(events) + 1 => i \in DOMAIN events /\ events'[i] = events[i]
           /\ Len(events) \in Nat
BY DEF WatchTypeOK, Last

LEMMA WatchStep ==
    ASSUME WatchInv, [WatchNext]_watchVars
    PROVE  WatchInv'
<1>0. WatchTypeOK /\ cycle \in Nat /\ signalled \in 0..2
  BY DEF WatchInv, LoopInv, WatchTypeOK
<1>1. CASE StartIndex
  BY <1>0, <1>1 DEF StartIndex, WatchInv, LoopInv, WatchTypeOK, ExitTellsSuccess, OneEventPerCycle
<1>2. CASE OpenStorage
  <2>1. CASE loop' = "build" /\ UNCHANGED <<events, exit>>
    BY <1>0, <1>2, <2>1 DEF OpenStorage, WatchInv, LoopInv, WatchTypeOK, ExitTellsSuccess, OneEventPerCycle
  <2>2. CASE Report("error") /\ Exit(2)
    BY <1>0, <1>2, <2>2, ReportFacts
       DEF OpenStorage, Report, Exit, WatchInv, LoopInv, WatchTypeOK, ExitTellsSuccess, OneEventPerCycle, Broken
  <2> QED BY <1>2, <2>1, <2>2 DEF OpenStorage
<1>3. CASE BuildCycle
  <2>1. /\ loop = "build" /\ cycle' = cycle + 1 /\ UNCHANGED <<watched, stop>>
        /\ signalled' = (IF signalled = 0 THEN 0 ELSE signalled + 1) /\ signalled' \in 0..2
        /\ signalled' > 0 => signalled > 0
    BY <1>0, <1>3 DEF BuildCycle, WatchInv, LoopInv
  <2>2. CASE /\ succeeded' = TRUE /\ failFast' = FALSE
             /\ Report("indexed") /\ loop' = "check" /\ UNCHANGED exit
    <3>1. /\ events' \in Seq({"indexed", "error", "stopped"}) /\ Len(events') = Len(events) + 1
          /\ events'[Len(events) + 1] = "indexed"
          /\ \A i \in DOMAIN events' : i # Len(events) + 1 => i \in DOMAIN events /\ events'[i] = events[i]
      BY <1>0, <2>2, ReportFacts DEF Report
    <3>2. Len(events) = cycle /\ \A i \in DOMAIN events : events[i] # "stopped"
      BY <2>1 DEF WatchInv, LoopInv
    <3>3. \A i \in DOMAIN events' : events'[i] # "stopped"
      BY <3>1, <3>2
    <3>4. WatchTypeOK'
      <4>1. succeeded' \in BOOLEAN /\ failFast' \in BOOLEAN
        BY <2>2, Zenon
      <4> QED BY <1>0, <2>1, <2>2, <3>1, <4>1 DEF WatchTypeOK
    <3>5. signalled' > 0 => stop
      BY <2>1 DEF WatchInv, LoopInv
    <3>6. LoopInv'
      BY <1>0, <2>1, <2>2, <3>1, <3>2, <3>3, <3>5 DEF LoopInv, Fatal
    <3> QED BY <1>0, <2>1, <2>2, <3>1, <3>2, <3>3, <3>4, <3>6 DEF WatchInv, ExitTellsSuccess, OneEventPerCycle
  <2>3. CASE /\ failFast' = Fatal /\ UNCHANGED succeeded
             /\ events' = FailureEvents /\ loop' = "check" /\ UNCHANGED exit
    <3>1. /\ events' \in Seq({"indexed", "error", "stopped"}) /\ Len(events') = Len(events) + 1
          /\ events'[Len(events) + 1] = "error"
          /\ \A i \in DOMAIN events' : i # Len(events) + 1 => i \in DOMAIN events /\ events'[i] = events[i]
      BY <1>0, <2>3, ReportFacts DEF FailureEvents
    <3>2. Len(events) = cycle /\ \A i \in DOMAIN events : events[i] # "stopped"
      BY <2>1 DEF WatchInv, LoopInv
    <3>3. \A i \in DOMAIN events' : events'[i] # "stopped"
      BY <3>1, <3>2
    <3>4. WatchTypeOK'
      BY <1>0, <2>1, <2>3, <3>1 DEF WatchTypeOK, Fatal
    <3>5. signalled' > 0 => stop
      BY <2>1 DEF WatchInv, LoopInv
    <3>6. failFast' <=> Fatal'
      BY <2>1, <2>3, Zenon DEF Fatal
    <3>7. LoopInv'
      BY <1>0, <2>1, <2>3, <3>1, <3>2, <3>3, <3>5, <3>6 DEF LoopInv
    <3> QED BY <1>0, <2>1, <2>3, <3>1, <3>2, <3>3, <3>4, <3>7 DEF WatchInv, ExitTellsSuccess, OneEventPerCycle
  <2>4. CASE Exit(2) /\ UNCHANGED <<succeeded, failFast, events>>
    BY <1>0, <2>1, <2>4
       DEF Exit, WatchInv, LoopInv, WatchTypeOK, ExitTellsSuccess, OneEventPerCycle, Broken
  <2> QED BY <1>3, <2>2, <2>3, <2>4 DEF BuildCycle
<1>4. CASE CheckStop
  <2>1. loop = "check" /\ UNCHANGED <<watched, cycle, succeeded, failFast, signalled>>
    BY <1>4 DEF CheckStop
  <2>2. CASE ~watched /\ Exit(CycleEnds) /\ UNCHANGED <<stop, events>>
    BY <1>0, <2>1, <2>2
       DEF Exit, CycleEnds, WatchInv, LoopInv, WatchTypeOK, Fatal, ExitTellsSuccess, OneEventPerCycle, Broken, Last
  <2>3. CASE watched /\ Heard /\ stop' = FALSE /\ Report("stopped") /\ Exit(CycleEnds)
    <3>1. /\ events' \in Seq({"indexed", "error", "stopped"}) /\ Len(events') = Len(events) + 1
          /\ \A i \in DOMAIN events' : i # Len(events) + 1 => i \in DOMAIN events /\ events'[i] = events[i]
      BY <1>0, <2>3, ReportFacts DEF Report
    <3>2. Len(events) = cycle /\ \A i \in DOMAIN events : events[i] # "stopped"
      BY <2>1 DEF WatchInv, LoopInv
    <3>3. loop' = "exited" /\ exit' = CycleEnds /\ watched'
      BY <2>1, <2>3 DEF Exit
    <3>4. WatchTypeOK'
      BY <1>0, <2>1, <2>3, <3>1, <3>3 DEF WatchTypeOK, CycleEnds
    <3>5. exit' = IF succeeded' THEN 0 ELSE 2
      <4>1. CASE failFast
        BY <2>1, <2>3, <3>3, <4>1 DEF WatchInv, LoopInv, Fatal, CycleEnds
      <4>2. CASE ~failFast
        <5>1. events[cycle] \in {"indexed", "error"}
          BY <1>0, <2>1, <3>2 DEF WatchTypeOK, WatchInv, LoopInv
        <5> QED BY <2>1, <2>3, <3>3, <4>2, <5>1 DEF WatchInv, LoopInv, Fatal, CycleEnds
      <4> QED BY <4>1, <4>2
    <3>6. LoopInv'
      BY <3>3 DEF LoopInv
    <3> QED BY <1>0, <2>1, <3>1, <3>2, <3>3, <3>4, <3>5, <3>6 DEF WatchInv, ExitTellsSuccess, OneEventPerCycle
  <2>4. CASE watched /\ ~Heard /\ failFast /\ Exit(2) /\ UNCHANGED <<stop, events>>
    BY <1>0, <2>1, <2>4
       DEF Exit, WatchInv, LoopInv, WatchTypeOK, Fatal, ExitTellsSuccess, OneEventPerCycle, Broken
  <2>5. CASE watched /\ ~Heard /\ ~failFast /\ loop' = "pause" /\ UNCHANGED <<exit, stop, events>>
    BY <1>0, <2>1, <2>5
       DEF Heard, WatchInv, LoopInv, WatchTypeOK, Fatal, ExitTellsSuccess, OneEventPerCycle
  <2> QED BY <1>4, <2>2, <2>3, <2>4, <2>5 DEF CheckStop
<1>5. CASE Pause
  <2>1. loop = "pause" /\ UNCHANGED <<watched, cycle, succeeded, failFast, signalled>>
    BY <1>5 DEF Pause
  <2>2. CASE Heard /\ stop' = FALSE /\ Report("stopped") /\ Exit(0)
    BY <1>0, <2>1, <2>2, ReportFacts
       DEF Exit, Report, WatchInv, LoopInv, WatchTypeOK, ExitTellsSuccess, OneEventPerCycle, Broken
  <2>3. CASE ~Heard /\ loop' = "build" /\ UNCHANGED <<exit, stop, events>>
    <3>1. signalled = 0
      BY <1>0, <2>1, <2>3 DEF Heard, WatchInv, LoopInv
    <3>2. WatchTypeOK'
      BY <1>0, <2>1, <2>3 DEF WatchTypeOK
    <3>3. LoopInv'
      <4>1. Len(events) = cycle /\ \A i \in DOMAIN events : events[i] # "stopped"
        BY <2>1 DEF WatchInv, LoopInv
      <4>2. watched /\ succeeded
        BY <2>1 DEF WatchInv, LoopInv
      <4>3. watched' /\ succeeded'
        BY <2>1, <4>2, Zenon
      <4>4. loop' = "build" /\ events' = events /\ cycle' = cycle /\ signalled' = 0
        BY <2>1, <2>3, <3>1
      <4> QED BY <4>1, <4>3, <4>4 DEF LoopInv, Fatal
    <3> QED BY <2>1, <2>3, <3>2, <3>3 DEF WatchInv, ExitTellsSuccess, OneEventPerCycle
  <2> QED BY <1>5, <2>2, <2>3 DEF Pause
<1>6. CASE Signal
  BY <1>0, <1>6 DEF Signal, WatchInv, LoopInv, WatchTypeOK, Fatal, ExitTellsSuccess, OneEventPerCycle
<1>7. CASE UNCHANGED watchVars
  BY <1>7 DEF watchVars, WatchInv, LoopInv, WatchTypeOK, Fatal, ExitTellsSuccess, OneEventPerCycle, Broken
<1> QED BY <1>1, <1>2, <1>3, <1>4, <1>5, <1>6, <1>7 DEF WatchNext

\* The exit status of run_cycles, the events it reports and its reaction to a signal
\* agree with what the cycles did, for any number of cycles.
THEOREM WatchTells == WatchSpec => []WatchSound
<1>1. WatchInit => WatchInv
  <2> SUFFICES ASSUME WatchInit PROVE WatchInv
    OBVIOUS
  <2>1. /\ watched = FALSE /\ loop = "idle" /\ cycle = 0 /\ succeeded = FALSE /\ failFast = FALSE
        /\ stop = FALSE /\ signalled = 0 /\ events = <<>> /\ exit = 3
    BY DEF WatchInit
  <2>2. WatchTypeOK
    <3>1. watched \in BOOLEAN /\ succeeded \in BOOLEAN /\ failFast \in BOOLEAN /\ stop \in BOOLEAN
      BY <2>1, Zenon
    <3> QED BY <2>1, <3>1 DEF WatchTypeOK
  <2>3. LoopInv
    BY <2>1 DEF LoopInv
  <2>4. ExitTellsSuccess /\ OneEventPerCycle
    BY <2>1 DEF ExitTellsSuccess, OneEventPerCycle
  <2> QED BY <2>2, <2>3, <2>4 DEF WatchInv
<1>2. WatchInv /\ [WatchNext]_watchVars => WatchInv'
  BY WatchStep
<1>3. WatchInv => WatchSound
  BY DEF WatchInv, LoopInv, WatchTypeOK, WatchSound, StopsAtCycleEnd
<1> QED BY <1>1, <1>2, <1>3, PTL DEF WatchSpec

-----------------------------------------------------------------------------
(***************************************************************************)
(* The cache of segment files.                                             *)
(***************************************************************************)

OpenerPcs ==
    {"start", "marked", "hash", "unlink", "unmark", "fetch", "persist", "mark", "stamp", "map",
     "open", "failed"}

\* The segment of a reader that has not begun is anything.
SegmentTypeOK ==
    /\ clock \in 0..MaxTime
    /\ file \in [SegIds -> [time : 0..MaxTime, whole : BOOLEAN]]
    /\ marker \in [SegIds -> 0..(MaxTime + 1)]
    /\ aged \subseteq SegIds
    /\ opener \in [Openers -> [pc : OpenerPcs, seg : SegIds \cup {Waiting.seg}, mapped : BOOLEAN]]
    /\ \A o \in Openers : opener[o].pc # "start" => opener[o].seg \in SegIds

\* Times are given out once, so a marker vouches for the file it was written for
\* and for no later one.
Vouched(s) ==
    /\ file[s].time <= clock
    /\ file[s].time = 0 => file[s] = NoFile
    /\ marker[s] <= clock \/ marker[s] = EmptyMarker
    /\ file[s] # NoFile /\ marker[s] = file[s].time => file[s].whole

\* A file that is whole, or none where a reader was robbed of it.
HasFile(o, f, robbed) == f.whole \/ (f = NoFile /\ o \in robbed)

\* A reader past the hash has a whole file before it, or was robbed of it; while it
\* is putting one in place the directory is fresh.
OpenerInv(o) ==
    /\ opener[o].pc \in {"mark", "stamp", "map"} =>
          HasFile(o, file[opener[o].seg], raced)
    /\ opener[o].pc \in {"persist", "stamp"} => opener[o].seg \notin aged
    /\ opener[o].pc = "open" => opener[o].mapped
    /\ opener[o].pc = "failed" => o \in raced

\* The inductive invariant behind SegmentFilesSound and EvictionSparesFresh.
SegmentInv ==
    /\ SegmentTypeOK
    /\ \A s \in SegIds : Vouched(s)
    /\ \A o \in Openers : OpenerInv(o)

LEMMA NoFileFacts ==
    /\ NoFile.time = 0 /\ NoFile.whole = FALSE /\ NoFile \in [time : 0..MaxTime, whole : BOOLEAN]
    /\ EmptyMarker = MaxTime + 1 /\ MaxTime \in Nat /\ EmptyMarker \in 0..(MaxTime + 1)
BY SegmentCacheAssumption DEF NoFile, EmptyMarker

\* Opener o goes on at pc.
LEMMA OpenerMoves ==
    ASSUME SegmentInv, NEW o \in Openers, opener[o].pc # "start", NEW pc \in OpenerPcs, GoOn(o, pc)
    PROVE  /\ opener' \in [Openers -> [pc : OpenerPcs, seg : SegIds \cup {Waiting.seg}, mapped : BOOLEAN]]
           /\ opener'[o].pc = pc /\ opener'[o].seg = opener[o].seg /\ opener'[o].mapped = opener[o].mapped
           /\ opener[o].seg \in SegIds
           /\ \A p \in Openers \ {o} : opener'[p] = opener[p]
           /\ \A p \in Openers : opener'[p].pc # "start" => opener'[p].seg \in SegIds
<1>1. /\ opener \in [Openers -> [pc : OpenerPcs, seg : SegIds \cup {Waiting.seg}, mapped : BOOLEAN]]
      /\ \A p \in Openers : opener[p].pc # "start" => opener[p].seg \in SegIds
  BY DEF SegmentInv, SegmentTypeOK
<1> HIDE DEF Waiting
<1>2. /\ opener' \in [Openers -> [pc : OpenerPcs, seg : SegIds \cup {Waiting.seg}, mapped : BOOLEAN]]
      /\ opener'[o].pc = pc /\ opener'[o].seg = opener[o].seg /\ opener'[o].mapped = opener[o].mapped
      /\ \A p \in Openers \ {o} : opener'[p] = opener[p]
  BY <1>1 DEF GoOn
<1> QED BY <1>1, <1>2

\* Only the opener moves, to a place where nothing is asked of it that was not.
LEMMA OnlyMoves ==
    ASSUME SegmentInv, NEW o \in Openers, opener[o].pc # "start", NEW pc \in OpenerPcs, GoOn(o, pc),
           UNCHANGED <<file, marker, clock>>, aged' \subseteq aged, raced' = raced,
           pc \in {"mark", "stamp", "map"} =>
              HasFile(o, file[opener[o].seg], raced),
           pc \in {"persist", "stamp"} => opener[o].seg \notin aged',
           pc # "open", pc = "failed" => o \in raced
    PROVE  SegmentInv'
<1>1. SegmentTypeOK'
  BY OpenerMoves DEF SegmentInv, SegmentTypeOK
<1>2. \A s \in SegIds : Vouched(s)'
  BY DEF SegmentInv, Vouched
<1>3. ASSUME NEW p \in Openers PROVE OpenerInv(p)'
  <2>1. CASE p = o
    BY <2>1, OpenerMoves DEF OpenerInv
  <2>2. CASE p # o
    <3>1. opener'[p] = opener[p] /\ OpenerInv(p)
      BY <2>2, OpenerMoves DEF SegmentInv
    <3> QED BY <3>1 DEF OpenerInv
  <2> QED BY <2>1, <2>2
<1> QED BY <1>1, <1>2, <1>3 DEF SegmentInv

LEMMA SegmentStep ==
    ASSUME SegmentInv, [SegmentNext]_segmentVars
    PROVE  SegmentInv'
<1>0. /\ SegmentTypeOK /\ clock \in Nat /\ MaxTime \in Nat
      /\ \A s \in SegIds : /\ Vouched(s) /\ file[s] \in [time : 0..MaxTime, whole : BOOLEAN]
                           /\ file[s].time \in Nat /\ file[s].whole \in BOOLEAN /\ marker[s] \in Nat
      /\ \A o \in Openers : OpenerInv(o) /\ opener[o].pc \in OpenerPcs
  <2>1. SegmentTypeOK /\ MaxTime \in Nat
    BY NoFileFacts DEF SegmentInv
  <2>2. \A s \in SegIds : file[s] \in [time : 0..MaxTime, whole : BOOLEAN] /\ marker[s] \in 0..(MaxTime + 1)
    BY <2>1 DEF SegmentTypeOK
  <2>3. \A s \in SegIds : file[s].time \in Nat /\ file[s].whole \in BOOLEAN /\ marker[s] \in Nat
    BY <2>1, <2>2
  <2>4. clock \in Nat /\ \A o \in Openers : opener[o].pc \in OpenerPcs
    BY <2>1 DEF SegmentTypeOK
  <2> QED BY <2>1, <2>2, <2>3, <2>4 DEF SegmentInv
<1>1. ASSUME NEW o \in Openers, NEW s \in SegIds, OpenSegment(o, s) PROVE SegmentInv'
  <2> DEFINE q == [pc |-> "marked", seg |-> s, mapped |-> FALSE]
  <2>1. /\ opener' = [opener EXCEPT ![o] = q] /\ raced' = raced \ {o} /\ opener[o].pc = "start"
        /\ UNCHANGED <<file, marker, aged, clock, deaths>>
    BY <1>1 DEF OpenSegment, At
  <2>2. q \in [pc : OpenerPcs, seg : SegIds \cup {Waiting.seg}, mapped : BOOLEAN] /\ q.pc = "marked" /\ q.seg = s
    BY DEF OpenerPcs
  <2> HIDE DEF q
  <2>3. SegmentTypeOK'
    BY <1>0, <2>1, <2>2 DEF SegmentTypeOK
  <2>4. \A t \in SegIds : Vouched(t)'
    BY <1>0, <2>1 DEF Vouched
  <2>5. ASSUME NEW p \in Openers PROVE OpenerInv(p)'
    <3>1. CASE p = o
      BY <1>0, <2>1, <2>2, <3>1 DEF OpenerInv, SegmentTypeOK
    <3>2. CASE p # o
      BY <1>0, <2>1, <3>2 DEF OpenerInv, HasFile, SegmentTypeOK
    <3> QED BY <3>1, <3>2
  <2> QED BY <2>3, <2>4, <2>5 DEF SegmentInv
<1>2. ASSUME NEW o \in Openers, CheckMarker(o) PROVE SegmentInv'
  <2> DEFINE pc == IF Verified(opener[o].seg) THEN "map" ELSE "hash"
  <2>1. /\ opener[o].pc = "marked" /\ GoOn(o, pc) /\ UNCHANGED <<file, marker, aged, raced, clock>>
    BY <1>2 DEF CheckMarker, At
  <2>2. opener[o].seg \in SegIds
    BY <1>0, <2>1 DEF SegmentTypeOK
  <2>3. Verified(opener[o].seg) => file[opener[o].seg].whole
    BY <1>0, <2>2 DEF Verified, Vouched
  <2>4. pc \in OpenerPcs /\ pc \notin {"persist", "stamp", "open", "failed"}
    BY DEF OpenerPcs
  <2>5. pc \in {"mark", "stamp", "map"} => HasFile(o, file[opener[o].seg], raced)
    BY <2>3 DEF HasFile
  <2> HIDE DEF pc
  <2> QED BY <2>1, <2>4, <2>5, OnlyMoves
<1>3. ASSUME NEW o \in Openers, CheckHash(o) PROVE SegmentInv'
  <2> DEFINE pc == IF file[opener[o].seg].whole THEN "mark" ELSE "unlink"
  <2>1. /\ opener[o].pc = "hash" /\ GoOn(o, pc) /\ UNCHANGED <<file, marker, aged, raced, clock>>
    BY <1>3 DEF CheckHash, At
  <2>2. pc \in OpenerPcs /\ pc \notin {"persist", "stamp", "open", "failed"}
    BY DEF OpenerPcs
  <2>3. pc \in {"mark", "stamp", "map"} => HasFile(o, file[opener[o].seg], raced)
    BY DEF HasFile
  <2> HIDE DEF pc
  <2> QED BY <2>1, <2>2, <2>3, OnlyMoves
<1>4. ASSUME NEW o \in Openers, RemoveUnverified(o) PROVE SegmentInv'
  <2> DEFINE s == opener[o].seg
  <2>1. /\ opener[o].pc = "unlink" /\ GoOn(o, "unmark") /\ file' = [file EXCEPT ![s] = NoFile]
        /\ aged' \subseteq aged /\ UNCHANGED <<marker, clock>>
        /\ raced' = IF file[s] = NoFile THEN raced ELSE raced \cup Others(o, s)
    BY <1>4 DEF RemoveUnverified, At
  <2>2. "unmark" \in OpenerPcs
    BY DEF OpenerPcs
  <2>3. /\ opener'[o].pc = "unmark" /\ s \in SegIds /\ \A p \in Openers \ {o} : opener'[p] = opener[p]
        /\ opener' \in [Openers -> [pc : OpenerPcs, seg : SegIds \cup {Waiting.seg}, mapped : BOOLEAN]]
        /\ \A p \in Openers : opener'[p].pc # "start" => opener'[p].seg \in SegIds
    BY <2>1, <2>2, OpenerMoves
  <2>4. file' \in [SegIds -> [time : 0..MaxTime, whole : BOOLEAN]]
    BY <1>0, <2>1, NoFileFacts DEF SegmentTypeOK
  <2>5. \A t \in SegIds : file'[t] = IF t = s THEN NoFile ELSE file[t]
    BY <1>0, <2>1 DEF SegmentTypeOK
  <2>6. SegmentTypeOK'
    BY <1>0, <2>1, <2>3, <2>4 DEF SegmentTypeOK
  <2>7. ASSUME NEW t \in SegIds PROVE Vouched(t)'
    BY <1>0, <2>1, <2>5, NoFileFacts DEF Vouched
  <2>8. ASSUME NEW p \in Openers PROVE OpenerInv(p)'
    <3>1. CASE p = o
      BY <2>3, <3>1 DEF OpenerInv
    <3>2. CASE p # o
      <4>1. opener'[p] = opener[p] /\ OpenerInv(p) /\ raced \subseteq raced'
        BY <1>0, <2>1, <2>3, <3>2
      <4>2. ASSUME opener[p].pc \in {"mark", "stamp", "map"}
            PROVE  HasFile(p, file'[opener[p].seg], raced')
        <5>1. opener[p].seg \in SegIds
          BY <4>2, <1>0 DEF SegmentTypeOK
        <5>2. CASE opener[p].seg # s
          BY <4>1, <4>2, <5>1, <5>2, <2>5 DEF OpenerInv, HasFile
        <5>3. CASE opener[p].seg = s
          <6>1. p \in Others(o, s)
            BY <3>2, <4>2, <5>3 DEF Others
          <6> QED BY <6>1, <5>1, <5>3, <4>1, <4>2, <2>1, <2>5, NoFileFacts DEF OpenerInv, HasFile
        <5> QED BY <5>2, <5>3
      <4> QED BY <4>1, <4>2, <2>1 DEF OpenerInv
    <3> QED BY <3>1, <3>2
  <2> QED BY <2>6, <2>7, <2>8 DEF SegmentInv
<1>5. ASSUME NEW o \in Openers, NEW s \in SegIds, NEW pc \in OpenerPcs, NEW v \in 0..(MaxTime + 1),
             opener[o].pc # "start", GoOn(o, pc), marker' = [marker EXCEPT ![s] = v],
             UNCHANGED <<file, clock>>, aged' \subseteq aged, raced' = raced,
             v <= clock \/ v = EmptyMarker, v = file[s].time => file[s].whole \/ file[s] = NoFile,
             pc \in {"mark", "stamp", "map"} =>
                HasFile(o, file[opener[o].seg], raced),
             pc \in {"persist", "stamp"} => opener[o].seg \notin aged',
             pc # "open", pc = "failed" => o \in raced
      PROVE  SegmentInv'
  <2>1. marker' \in [SegIds -> 0..(MaxTime + 1)] /\ \A t \in SegIds : marker'[t] = IF t = s THEN v ELSE marker[t]
    BY <1>0, <1>5 DEF SegmentTypeOK
  <2>2. SegmentTypeOK'
    BY <1>0, <1>5, <2>1, OpenerMoves DEF SegmentTypeOK
  <2>3. ASSUME NEW t \in SegIds PROVE Vouched(t)'
    BY <1>0, <1>5, <2>1 DEF Vouched, EmptyMarker
  <2>4. ASSUME NEW p \in Openers PROVE OpenerInv(p)'
    <3>1. CASE p = o
      BY <1>5, <3>1, OpenerMoves DEF OpenerInv
    <3>2. CASE p # o
      <4>1. opener'[p] = opener[p] /\ OpenerInv(p)
        BY <1>0, <1>5, <3>2, OpenerMoves
      <4> QED BY <4>1, <1>5 DEF OpenerInv
    <3> QED BY <3>1, <3>2
  <2> QED BY <2>2, <2>3, <2>4 DEF SegmentInv
<1>6. ASSUME NEW o \in Openers, RemoveMarker(o) PROVE SegmentInv'
  <2>1. /\ opener[o].pc = "unmark" /\ GoOn(o, "fetch") /\ marker' = [marker EXCEPT ![opener[o].seg] = 0]
        /\ UNCHANGED <<file, aged, raced, clock>>
    BY <1>6 DEF RemoveMarker, At, NoMarker
  <2>2. opener[o].seg \in SegIds /\ "fetch" \in OpenerPcs
    BY <1>0, <2>1 DEF SegmentTypeOK, OpenerPcs
  <2>3. file[opener[o].seg].time = 0 => file[opener[o].seg] = NoFile
    BY <1>0, <2>2 DEF Vouched
  <2>4. 0 \in 0..(MaxTime + 1) /\ 0 <= clock
    BY <1>0
  <2> QED BY <1>5, <2>1, <2>2, <2>3, <2>4
<1>7. ASSUME NEW o \in Openers, CreateMarker(o) PROVE SegmentInv'
  <2>1. /\ opener[o].pc = "mark" /\ GoOn(o, "stamp") /\ marker' = [marker EXCEPT ![opener[o].seg] = EmptyMarker]
        /\ UNCHANGED <<file, raced, clock>> /\ aged' = aged \ {opener[o].seg}
    BY <1>7 DEF CreateMarker, At
  <2>2. opener[o].seg \in SegIds /\ "stamp" \in OpenerPcs
    BY <1>0, <2>1 DEF SegmentTypeOK, OpenerPcs
  <2>3. HasFile(o, file[opener[o].seg], raced)
    BY <1>0, <2>1 DEF OpenerInv
  <2>4. file[opener[o].seg].whole \/ file[opener[o].seg] = NoFile
    BY <2>3 DEF HasFile
  <2>5. EmptyMarker \in 0..(MaxTime + 1)
    BY NoFileFacts
  <2> QED BY <1>5, <2>1, <2>2, <2>3, <2>4, <2>5
<1>8. ASSUME NEW o \in Openers, WriteMarker(o) PROVE SegmentInv'
  <2> DEFINE s == opener[o].seg
             v == IF file[s] = NoFile \/ marker[s] = NoMarker THEN marker[s] ELSE file[s].time
             pc == IF file[s] = NoFile THEN "failed" ELSE "map"
  <2>1. /\ opener[o].pc = "stamp" /\ GoOn(o, pc) /\ UNCHANGED <<file, aged, raced, clock>>
    BY <1>8 DEF WriteMarker, At
  <2>2. s \in SegIds /\ pc \in OpenerPcs
    BY <1>0, <2>1 DEF SegmentTypeOK, OpenerPcs
  <2>3. HasFile(o, file[s], raced)
    BY <1>0, <2>1 DEF OpenerInv
  <2>4. marker' = [marker EXCEPT ![s] = v]
    BY <1>0, <1>8, <2>2 DEF WriteMarker, SegmentTypeOK
  <2>5. v \in 0..(MaxTime + 1) /\ (v <= clock \/ v = EmptyMarker)
    BY <1>0, <2>2 DEF SegmentTypeOK, Vouched
  <2>6. pc # "open" /\ (pc = "failed" => o \in raced) /\ pc \notin {"persist", "stamp"}
    BY <2>3, NoFileFacts DEF HasFile
  <2>7. file[s].whole \/ file[s] = NoFile
    BY <2>3 DEF HasFile
  <2> HIDE DEF v, pc
  <2> QED BY <1>5, <2>1, <2>2, <2>3, <2>4, <2>5, <2>6, <2>7
<1>9. ASSUME NEW o \in Openers, Fetch(o) PROVE SegmentInv'
  <2>1. /\ opener[o].pc = "fetch" /\ GoOn(o, "persist") /\ UNCHANGED <<file, marker, raced, clock>>
        /\ aged' = aged \ {opener[o].seg}
    BY <1>9 DEF Fetch, At, AfterFetch
  <2> QED BY <2>1, OnlyMoves DEF OpenerPcs
<1>10. ASSUME NEW o \in Openers, FetchFails(o) \/ Die(o) \/ FailOpen(o) PROVE SegmentInv'
  <2>1. opener[o].pc # "start" /\ GoOn(o, "start") /\ UNCHANGED <<file, marker, aged, raced, clock>>
    BY <1>10 DEF FetchFails, Die, FailOpen, At
  <2> QED BY <2>1, OnlyMoves DEF OpenerPcs
<1>11. ASSUME NEW o \in Openers, PersistFile(o) PROVE SegmentInv'
  <2> DEFINE s == opener[o].seg
             f == [time |-> clock + 1, whole |-> TRUE]
  <2>1. /\ opener[o].pc = "persist" /\ GoOn(o, "mark") /\ file' = [file EXCEPT ![s] = f]
        /\ clock < MaxTime /\ clock' = clock + 1 /\ aged' \subseteq aged /\ UNCHANGED <<marker, raced>>
    BY <1>11 DEF PersistFile, At
  <2>2. "mark" \in OpenerPcs
    BY DEF OpenerPcs
  <2>3. /\ opener'[o].pc = "mark" /\ opener'[o].seg = s /\ s \in SegIds
        /\ \A p \in Openers \ {o} : opener'[p] = opener[p]
        /\ opener' \in [Openers -> [pc : OpenerPcs, seg : SegIds \cup {Waiting.seg}, mapped : BOOLEAN]]
        /\ \A p \in Openers : opener'[p].pc # "start" => opener'[p].seg \in SegIds
    BY <2>1, <2>2, OpenerMoves
  <2>4. f \in [time : 0..MaxTime, whole : BOOLEAN] /\ f.whole /\ f.time = clock + 1
    BY <1>0, <2>1
  <2> HIDE DEF f
  <2>5. /\ file' \in [SegIds -> [time : 0..MaxTime, whole : BOOLEAN]]
        /\ \A t \in SegIds : file'[t] = IF t = s THEN f ELSE file[t]
    BY <1>0, <2>1, <2>4 DEF SegmentTypeOK
  <2>6. clock' \in 0..MaxTime
    BY <1>0, <2>1
  <2>7. SegmentTypeOK'
    BY <1>0, <2>1, <2>3, <2>5, <2>6 DEF SegmentTypeOK
  <2>8. ASSUME NEW t \in SegIds PROVE Vouched(t)'
    <3>1. Vouched(t) /\ file[t].time \in Nat /\ marker[t] \in Nat /\ clock \in Nat
      BY <1>0
    <3>2. CASE t = s
      BY <2>1, <2>4, <2>5, <3>1, <3>2 DEF Vouched, EmptyMarker
    <3>3. CASE t # s
      BY <2>1, <2>5, <3>1, <3>3 DEF Vouched, EmptyMarker
    <3> QED BY <3>2, <3>3
  <2>9. ASSUME NEW p \in Openers PROVE OpenerInv(p)'
    <3>1. CASE p = o
      BY <2>3, <2>4, <2>5, <3>1 DEF OpenerInv, HasFile
    <3>2. CASE p # o
      <4>1. opener'[p] = opener[p] /\ OpenerInv(p)
        BY <1>0, <2>3, <3>2
      <4>2. opener[p].pc # "start" => opener[p].seg \in SegIds
        BY <1>0 DEF SegmentTypeOK
      <4> QED BY <2>1, <2>4, <2>5, <4>1, <4>2 DEF OpenerInv, HasFile
    <3> QED BY <3>1, <3>2
  <2> QED BY <2>7, <2>8, <2>9 DEF SegmentInv
<1>12. ASSUME NEW o \in Openers, MapFile(o) PROVE SegmentInv'
  <2> DEFINE s == opener[o].seg
             pc == IF file[s] = NoFile THEN "failed" ELSE "open"
             q == [opener[o] EXCEPT !.pc = pc, !.mapped = file[s].whole]
  <2>1. /\ opener[o].pc = "map" /\ opener' = [opener EXCEPT ![o] = q]
        /\ UNCHANGED <<file, marker, aged, raced, clock>>
    BY <1>0, <1>12 DEF MapFile, At, SegmentTypeOK
  <2>2. /\ opener \in [Openers -> [pc : OpenerPcs, seg : SegIds \cup {Waiting.seg}, mapped : BOOLEAN]]
        /\ s \in SegIds /\ HasFile(o, file[s], raced)
    BY <1>0, <2>1 DEF SegmentTypeOK, OpenerInv
  <2>3. file[s].whole \in BOOLEAN /\ pc \in OpenerPcs
    BY <1>0, <2>2 DEF OpenerPcs
  <2>4. (pc = "failed" => o \in raced) /\ (pc = "open" => file[s].whole)
        /\ pc \notin {"mark", "stamp", "map", "persist"}
    BY <2>2, NoFileFacts DEF HasFile
  <2> HIDE DEF pc
  <2>5. /\ q \in [pc : OpenerPcs, seg : SegIds \cup {Waiting.seg}, mapped : BOOLEAN]
        /\ q.pc = pc /\ q.seg = s /\ q.mapped = file[s].whole
    BY <2>2, <2>3
  <2> HIDE DEF q
  <2>6. SegmentTypeOK'
    BY <1>0, <2>1, <2>2, <2>5 DEF SegmentTypeOK
  <2>7. \A t \in SegIds : Vouched(t)'
    BY <1>0, <2>1 DEF Vouched
  <2>8. ASSUME NEW p \in Openers PROVE OpenerInv(p)'
    <3>1. CASE p = o
      BY <2>1, <2>2, <2>4, <2>5, <3>1 DEF OpenerInv
    <3>2. CASE p # o
      BY <1>0, <2>1, <2>2, <3>2 DEF OpenerInv
    <3> QED BY <3>1, <3>2
  <2> QED BY <2>6, <2>7, <2>8 DEF SegmentInv
<1>13. ASSUME NEW o \in Openers, EvictStale(o) PROVE SegmentInv'
  <2> DEFINE gone == {s \in SegIds : Evictable(o, s)}
  <2>1. /\ opener[o].pc = "open" /\ GoOn(o, "start") /\ clock' = clock /\ aged' = aged \ gone
        /\ file' = [s \in SegIds |-> IF s \in gone THEN NoFile ELSE file[s]]
        /\ marker' = [s \in SegIds |-> IF s \in gone THEN NoMarker ELSE marker[s]]
        /\ raced' = raced \cup UNION {Others(o, s) : s \in gone}
    BY <1>13 DEF EvictStale, At
  <2> HIDE DEF gone
  <2>2. "start" \in OpenerPcs
    BY DEF OpenerPcs
  <2>3. /\ opener'[o].pc = "start" /\ \A p \in Openers \ {o} : opener'[p] = opener[p]
        /\ opener' \in [Openers -> [pc : OpenerPcs, seg : SegIds \cup {Waiting.seg}, mapped : BOOLEAN]]
        /\ \A p \in Openers : opener'[p].pc # "start" => opener'[p].seg \in SegIds
    BY <2>1, <2>2, OpenerMoves
  <2>4. /\ file' \in [SegIds -> [time : 0..MaxTime, whole : BOOLEAN]]
        /\ marker' \in [SegIds -> 0..(MaxTime + 1)]
    BY <1>0, <2>1, NoFileFacts DEF SegmentTypeOK, NoMarker
  <2>5. SegmentTypeOK'
    BY <1>0, <2>1, <2>3, <2>4 DEF SegmentTypeOK
  <2>6. ASSUME NEW t \in SegIds PROVE Vouched(t)'
    <3>1. CASE t \in gone
      <4>1. file'[t] = NoFile /\ marker'[t] = 0 /\ clock' = clock
        BY <2>1, <3>1 DEF NoMarker
      <4> QED BY <4>1, <1>0, NoFileFacts DEF Vouched
    <3>2. CASE t \notin gone
      BY <1>0, <2>1, <3>2 DEF Vouched
    <3> QED BY <3>1, <3>2
  <2>7. ASSUME NEW p \in Openers PROVE OpenerInv(p)'
    <3>1. CASE p = o
      BY <2>3, <3>1 DEF OpenerInv
    <3>2. CASE p # o
      <4>1. opener'[p] = opener[p] /\ OpenerInv(p) /\ raced \subseteq raced' /\ aged' \subseteq aged
        BY <1>0, <2>1, <2>3, <3>2
      <4>2. ASSUME opener[p].pc \in {"mark", "stamp", "map"}
            PROVE  HasFile(p, file'[opener[p].seg], raced')
        <5>1. opener[p].seg \in SegIds
          BY <4>2, <1>0 DEF SegmentTypeOK
        <5>2. CASE opener[p].seg \notin gone
          BY <4>1, <4>2, <5>1, <5>2, <2>1 DEF OpenerInv, HasFile
        <5>3. CASE opener[p].seg \in gone
          <6>1. p \in Others(o, opener[p].seg)
            BY <3>2, <4>2 DEF Others
          <6>2. p \in raced' /\ file'[opener[p].seg] = NoFile
            BY <6>1, <5>1, <5>3, <2>1
          <6> QED BY <6>2 DEF HasFile
        <5> QED BY <5>2, <5>3
      <4> QED BY <4>1, <4>2 DEF OpenerInv
    <3> QED BY <3>1, <3>2
  <2> QED BY <2>5, <2>6, <2>7 DEF SegmentInv
<1>14. ASSUME NEW s \in SegIds, GracePasses(s) PROVE SegmentInv'
  <2>1. /\ aged' = aged \cup {s} /\ UNCHANGED <<file, marker, opener, raced, clock>>
        /\ \A o \in Openers : opener[o].seg = s => opener[o].pc \notin {"persist", "mark", "stamp"}
    BY <1>14 DEF GracePasses
  <2>2. SegmentTypeOK'
    BY <1>0, <2>1 DEF SegmentTypeOK
  <2>3. \A t \in SegIds : Vouched(t)'
    BY <1>0, <2>1 DEF Vouched
  <2>4. \A o \in Openers : OpenerInv(o)'
    BY <1>0, <2>1 DEF OpenerInv
  <2> QED BY <2>2, <2>3, <2>4 DEF SegmentInv
<1>15. ASSUME NEW s \in SegIds, Spoil(s) PROVE SegmentInv'
  <2> DEFINE f == [time |-> clock + 1, whole |-> FALSE]
  <2>1. /\ file' = [file EXCEPT ![s] = f] /\ UNCHANGED <<marker, aged, opener, raced>>
        /\ clock < MaxTime /\ clock' = clock + 1
        /\ \A o \in Openers : opener[o].seg = s => opener[o].pc \in {"start", "open", "failed"}
    BY <1>15 DEF Spoil
  <2>2. f \in [time : 0..MaxTime, whole : BOOLEAN] /\ f.time = clock + 1
    BY <1>0, <2>1
  <2> HIDE DEF f
  <2>3. /\ file' \in [SegIds -> [time : 0..MaxTime, whole : BOOLEAN]]
        /\ \A t \in SegIds : file'[t] = IF t = s THEN f ELSE file[t]
    BY <1>0, <2>1, <2>2 DEF SegmentTypeOK
  <2>4. clock' \in 0..MaxTime
    BY <1>0, <2>1
  <2>5. SegmentTypeOK'
    BY <1>0, <2>1, <2>3, <2>4 DEF SegmentTypeOK
  <2>6. ASSUME NEW t \in SegIds PROVE Vouched(t)'
    <3>1. Vouched(t) /\ file[t].time \in Nat /\ marker[t] \in Nat /\ clock \in Nat /\ MaxTime \in Nat
      BY <1>0
    <3>2. CASE t = s
      BY <2>1, <2>2, <2>3, <3>1, <3>2 DEF Vouched, EmptyMarker
    <3>3. CASE t # s
      BY <2>1, <2>3, <3>1, <3>3 DEF Vouched, EmptyMarker
    <3> QED BY <3>2, <3>3
  <2>7. ASSUME NEW p \in Openers PROVE OpenerInv(p)'
    <3>1. opener[p].pc # "start" => opener[p].seg \in SegIds
      BY <1>0 DEF SegmentTypeOK
    <3>2. OpenerInv(p)
      BY <1>0
    <3> QED BY <2>1, <2>3, <3>1, <3>2 DEF OpenerInv
  <2> QED BY <2>5, <2>6, <2>7 DEF SegmentInv
<1>16. CASE UNCHANGED segmentVars
  <2>1. UNCHANGED <<file, marker, aged, opener, raced, clock>>
    BY <1>16 DEF segmentVars
  <2>2. SegmentTypeOK'
    BY <1>0, <2>1 DEF SegmentTypeOK
  <2> QED BY <1>0, <2>1, <2>2 DEF SegmentInv, Vouched, OpenerInv
<1> QED BY <1>1, <1>2, <1>3, <1>4, <1>6, <1>7, <1>8, <1>9, <1>10, <1>11, <1>12, <1>13, <1>14, <1>15,
           <1>16 DEF SegmentNext

LEMMA SegmentInvariant == SegmentSpec => []SegmentInv
<1>1. SegmentInit => SegmentInv
  <2> SUFFICES ASSUME SegmentInit PROVE SegmentInv
    OBVIOUS
  <2>1. /\ file = [s \in SegIds |-> NoFile] /\ marker = [s \in SegIds |-> 0] /\ aged = {}
        /\ opener = [o \in Openers |-> Waiting] /\ clock = 0
    BY DEF SegmentInit, NoMarker
  <2>2. Waiting.pc = "start" /\ Waiting \in [pc : OpenerPcs, seg : SegIds \cup {Waiting.seg}, mapped : BOOLEAN]
    BY DEF Waiting, OpenerPcs
  <2>3. SegmentTypeOK
    BY <2>1, <2>2, NoFileFacts DEF SegmentTypeOK
  <2>4. \A s \in SegIds : Vouched(s)
    BY <2>1, NoFileFacts DEF Vouched
  <2>5. \A o \in Openers : OpenerInv(o)
    BY <2>1, <2>2 DEF OpenerInv
  <2> QED BY <2>3, <2>4, <2>5 DEF SegmentInv
<1>2. SegmentInv /\ [SegmentNext]_segmentVars => SegmentInv'
  BY SegmentStep
<1> QED BY <1>1, <1>2, PTL DEF SegmentSpec

\* cached_file maps only bytes that were hashed, and fails on the cache only when
\* another process took the file away, for any number of readers, segments and deaths.
THEOREM SegmentFilesHold == SegmentSpec => []SegmentFilesSound
<1>1. SegmentInv => SegmentFilesSound
  BY DEF SegmentInv, OpenerInv, SegmentFilesSound, MappedIsBlob, FailsOnlyWhenRaced
<1> QED BY <1>1, SegmentInvariant, PTL

\* evict_stale_segments_older_than leaves the file and the marker of a segment that
\* another process is putting in place.
THEOREM FreshSpared == SegmentSpec => EvictionSparesFresh
<1>1. ASSUME SegmentInv, [SegmentNext]_segmentVars, NEW o \in Openers, NEW s \in SegIds,
             opener[o].pc \in {"persist", "stamp"}, opener[o].seg = s,
             NEW p \in Openers, opener[p].pc = "open", opener'[p].pc = "start"
      PROVE  file'[s] = file[s] /\ marker'[s] = marker[s]
  <2>1. s \notin aged /\ file = [t \in SegIds |-> file[t]] /\ marker = [t \in SegIds |-> marker[t]]
    BY <1>1 DEF SegmentInv, OpenerInv, SegmentTypeOK
  <2>2. \A q \in Openers : opener[q] \in [pc : OpenerPcs, seg : SegIds \cup {Waiting.seg}, mapped : BOOLEAN]
    BY <1>1 DEF SegmentInv, SegmentTypeOK
  <2>3. DOMAIN opener = Openers
    BY <1>1 DEF SegmentInv, SegmentTypeOK
  <2>4. EvictStale(p) \/ Die(p)
    <3>1. opener' # opener
      BY <1>1
    <3>2. ASSUME NEW q \in Openers, NEW pc, GoOn(q, pc) PROVE q = p
      BY <1>1, <2>3, <3>2 DEF GoOn
    <3>3. ASSUME NEW q \in Openers, MapFile(q) \/ \E t \in SegIds : OpenSegment(q, t) PROVE q = p
      BY <1>1, <2>3, <3>3 DEF MapFile, OpenSegment
    <3>4. ASSUME NEW q \in Openers,
                 \/ CheckMarker(q) \/ CheckHash(q) \/ RemoveUnverified(q) \/ RemoveMarker(q)
                 \/ Fetch(q) \/ FetchFails(q) \/ PersistFile(q) \/ CreateMarker(q) \/ WriteMarker(q)
                 \/ MapFile(q) \/ FailOpen(q) \/ \E t \in SegIds : OpenSegment(q, t)
          PROVE  FALSE
      <4>1. q = p
        BY <3>2, <3>3, <3>4 DEF CheckMarker, CheckHash, RemoveUnverified, RemoveMarker, Fetch,
           FetchFails, PersistFile, CreateMarker, WriteMarker, FailOpen
      <4>2. opener[q].pc # "open"
        BY <3>4 DEF At, CheckMarker, CheckHash, RemoveUnverified, RemoveMarker, Fetch,
           FetchFails, PersistFile, CreateMarker, WriteMarker, MapFile, FailOpen, OpenSegment
      <4> QED BY <1>1, <4>1, <4>2
    <3>5. ASSUME NEW q \in Openers, EvictStale(q) \/ Die(q) PROVE q = p
      BY <3>2, <3>5 DEF EvictStale, Die
    <3>6. ASSUME NEW t \in SegIds, GracePasses(t) \/ Spoil(t) PROVE FALSE
      BY <3>1, <3>6 DEF GracePasses, Spoil
    <3>7. ~UNCHANGED segmentVars
      BY <3>1 DEF segmentVars
    <3> QED BY <1>1, <3>4, <3>5, <3>6, <3>7 DEF SegmentNext
  <2>5. CASE Die(p)
    BY <2>5 DEF Die
  <2>6. CASE EvictStale(p)
    BY <2>1, <2>6 DEF EvictStale, Evictable
  <2> QED BY <2>4, <2>5, <2>6
<1>2. SegmentInv /\ [SegmentNext]_segmentVars =>
          [\A o \in Openers, s \in SegIds :
              opener[o].pc \in {"persist", "stamp"} /\ opener[o].seg = s =>
                  \A p \in Openers : opener[p].pc = "open" /\ opener'[p].pc = "start"
                      => file'[s] = file[s] /\ marker'[s] = marker[s]]_segmentVars
  BY <1>1
<1> QED BY <1>2, SegmentInvariant, PTL DEF SegmentSpec, EvictionSparesFresh

-----------------------------------------------------------------------------
(***************************************************************************)
(* The search command.                                                     *)
(***************************************************************************)

CommandSpec == CommandInit /\ [][CommandNext]_commandVars

SearchFields == {"pc", "target", "explicit", "mode", "at", "tried", "printed", "left", "map", "exit"}

\* What is remembered for a source, in the file or in the copy a process read, was
\* opened for it.
Served(map, ans) == \A s \in Places : map[s] # NoIndex => <<s, map[s]>> \in ans

\* The state of one search: only a search without --index looks around, and it has
\* printed nothing before it reports; one that reports has opened its location.
CommandInvOf(q, ans) ==
    /\ DOMAIN q = SearchFields
    /\ q.printed \in Nat
    /\ DOMAIN q.map = Places /\ Served(q.map, ans)
    /\ q.pc \in {"off", "again", "probe", "recall"} => ~q.explicit
    /\ q.pc \in {"off", "open", "again", "probe", "recall"} => q.printed = 0
    /\ q.pc \in {"report", "remember"} => <<q.target, q.at>> \in ans
    /\ q.pc = "exited" =>
          /\ q.exit = 0 => q.printed > 0
          /\ q.exit = 1 => q.printed = 0
          /\ q.mode = "quiet" /\ q.printed > 0 => q.exit = 0

\* The inductive invariant behind CommandSound and SearchedCovers.
CommandInv ==
    /\ DOMAIN search = Searches
    /\ DOMAIN remembered = Places
    /\ RememberedServed
    /\ \A p \in Searches : CommandInvOf(search[p], answered)

\* Search p goes on as q.
LEMMA SearchMoves ==
    ASSUME CommandInv, NEW p \in Searches, NEW q, RunSearch(p, q), answered \subseteq answered',
           CommandInvOf(q, answered'), remembered' = remembered
    PROVE  CommandInv'
<1>1. DOMAIN search' = Searches /\ \A o \in Searches : search'[o] = IF o = p THEN q ELSE search[o]
  BY DEF RunSearch, CommandInv
<1>2. RememberedServed'
  BY DEF RememberedServed, CommandInv
<1>3. ASSUME NEW o \in Searches PROVE CommandInvOf(search'[o], answered')
  <2>1. CASE o = p
    BY <1>1, <2>1
  <2>2. CASE o # p
    <3>1. CommandInvOf(search[o], answered) /\ search'[o] = search[o]
      BY <1>1, <2>2 DEF CommandInv
    <3> QED BY <3>1 DEF CommandInvOf, Served
  <2> QED BY <2>1, <2>2
<1> QED BY <1>1, <1>2, <1>3 DEF CommandInv

\* A search ends, with a status that tells what it printed.
LEMMA FinishMoves ==
    ASSUME CommandInv, NEW p \in Searches, NEW n \in 0..2, Finishes(p, n), answered' = answered,
           remembered' = remembered,
           n = 0 => search[p].printed > 0, n = 1 => search[p].printed = 0,
           search[p].mode = "quiet" /\ search[p].printed > 0 => n = 0
    PROVE  CommandInv'
<1> DEFINE q == [search[p] EXCEPT !.pc = "exited", !.exit = n]
<1>1. CommandInvOf(search[p], answered)
  BY DEF CommandInv
<1>2. /\ DOMAIN q = SearchFields /\ q.printed = search[p].printed /\ q.map = search[p].map
      /\ q.pc = "exited" /\ q.exit = n /\ q.mode = search[p].mode
  BY <1>1 DEF CommandInvOf, SearchFields
<1>3. RunSearch(p, q)
  BY DEF Finishes
<1> HIDE DEF q
<1>4. CommandInvOf(q, answered')
  BY <1>1, <1>2 DEF CommandInvOf, Served
<1> QED BY <1>3, <1>4, SearchMoves

LEMMA CommandStep ==
    ASSUME CommandInv, [CommandNext]_commandVars
    PROVE  CommandInv'
<1>0. ASSUME NEW p \in Searches
      PROVE  /\ CommandInvOf(search[p], answered) /\ DOMAIN search[p] = SearchFields
             /\ search[p].printed \in Nat
  BY DEF CommandInv, CommandInvOf
<1>1. ASSUME NEW p \in Searches, NEW target \in Places, BeginCommand(p, target) PROVE CommandInv'
  <2>1. PICK mode \in {"quiet", "lines"}, explicit \in BOOLEAN, location \in Places :
            RunSearch(p, [Off EXCEPT !.pc = "open", !.target = target, !.mode = mode,
                                     !.explicit = explicit, !.at = location])
    BY <1>1 DEF BeginCommand
  <2> DEFINE q == [Off EXCEPT !.pc = "open", !.target = target, !.mode = mode,
                              !.explicit = explicit, !.at = location]
  <2>2. /\ DOMAIN q = SearchFields /\ q.pc = "open" /\ q.printed = 0
        /\ q.map = [s \in Places |-> NoIndex]
    BY DEF Off, SearchFields
  <2>3. RunSearch(p, q) /\ answered' = answered /\ remembered' = remembered
    BY <1>1, <2>1 DEF BeginCommand
  <2> HIDE DEF q
  <2>4. DOMAIN q.map = Places /\ Served(q.map, answered)
    BY <2>2 DEF Served
  <2>5. CommandInvOf(q, answered')
    BY <2>2, <2>3, <2>4 DEF CommandInvOf
  <2> QED BY <2>3, <2>5, SearchMoves
<1>2. ASSUME NEW p \in Searches, OpenIndex(p) PROVE CommandInv'
  <2>1. PICK n \in 0..MaxHits : RunSearch(p, [search[p] EXCEPT !.pc = "report", !.left = n])
    BY <1>2 DEF OpenIndex
  <2> DEFINE q == [search[p] EXCEPT !.pc = "report", !.left = n]
  <2>2. /\ DOMAIN q = SearchFields /\ q.pc = "report" /\ q.printed = search[p].printed
        /\ q.map = search[p].map /\ q.target = search[p].target /\ q.at = search[p].at
    BY <1>0 DEF SearchFields
  <2>3. /\ RunSearch(p, q) /\ remembered' = remembered
        /\ answered' = answered \cup {<<search[p].target, search[p].at>>}
    BY <1>2, <2>1 DEF OpenIndex
  <2> HIDE DEF q
  <2>4. CommandInvOf(q, answered')
    BY <1>0, <2>2, <2>3 DEF CommandInvOf, Served
  <2> QED BY <2>3, <2>4, SearchMoves
<1>3. ASSUME NEW p \in Searches, IndexNotOpened(p) PROVE CommandInv'
  <2>1. /\ search[p].pc \in {"open", "again"} /\ answered' = answered /\ remembered' = remembered
    BY <1>3 DEF IndexNotOpened
  <2> DEFINE q == [search[p] EXCEPT !.pc = "probe", !.tried = {search[p].target}]
  <2>2. CASE MayDiscover(p) /\ RunSearch(p, q)
    <3>1. /\ DOMAIN q = SearchFields /\ q.pc = "probe" /\ q.printed = search[p].printed
          /\ q.map = search[p].map /\ q.explicit = search[p].explicit
      BY <1>0 DEF SearchFields
    <3> HIDE DEF q
    <3>2. CommandInvOf(q, answered')
      BY <1>0, <2>1, <2>2, <3>1 DEF CommandInvOf, MayDiscover
    <3> QED BY <2>1, <2>2, <3>2, SearchMoves
  <2>3. CASE GivesUp(p)
    <3>1. search[p].printed = 0
      BY <1>0, <2>1 DEF CommandInvOf
    <3> QED BY <2>1, <2>3, <3>1, FinishMoves DEF GivesUp
  <2> QED BY <1>3, <2>2, <2>3 DEF IndexNotOpened
<1>4. ASSUME NEW p \in Searches, search[p].pc \in {"probe", "recall"},
             NEW pc \in {"again", "probe", "recall"}, NEW q, RunSearch(p, q),
             answered' = answered, remembered' = remembered,
             DOMAIN q = SearchFields, q.pc = pc, q.printed = search[p].printed,
             q.explicit = search[p].explicit, q.map \in {search[p].map, remembered}
      PROVE  CommandInv'
  <2>1. DOMAIN q.map = Places /\ Served(q.map, answered)
    BY <1>0, <1>4 DEF CommandInv, CommandInvOf, RememberedServed, Served
  <2>2. CommandInvOf(q, answered')
    BY <1>0, <1>4, <2>1 DEF CommandInvOf
  <2> QED BY <1>4, <2>2, SearchMoves
<1>5. ASSUME NEW p \in Searches, ProbeParent(p) PROVE CommandInv'
  <2>1. search[p].pc = "probe" /\ answered' = answered /\ remembered' = remembered
    BY <1>5 DEF ProbeParent
  <2> DEFINE a == [search[p] EXCEPT !.pc = "again", !.at = Nearest(p)]
             t == [search[p] EXCEPT !.tried = @ \cup {Nearest(p)}]
  <2>2. RunSearch(p, a) \/ RunSearch(p, t)
    BY <1>5 DEF ProbeParent
  <2>3. /\ DOMAIN a = SearchFields /\ a.pc = "again" /\ a.printed = search[p].printed
        /\ a.explicit = search[p].explicit /\ a.map = search[p].map
    BY <1>0 DEF SearchFields
  <2>4. /\ DOMAIN t = SearchFields /\ t.pc = "probe" /\ t.printed = search[p].printed
        /\ t.explicit = search[p].explicit /\ t.map = search[p].map
    BY <1>0, <2>1 DEF SearchFields
  <2> HIDE DEF a, t
  <2> QED BY <1>4, <2>1, <2>2, <2>3, <2>4
<1>6. ASSUME NEW p \in Searches, ReadRemembered(p) PROVE CommandInv'
  <2> DEFINE q == [search[p] EXCEPT !.pc = "recall", !.tried = {}, !.map = remembered]
  <2>1. search[p].pc = "probe" /\ answered' = answered /\ remembered' = remembered /\ RunSearch(p, q)
    BY <1>6 DEF ReadRemembered
  <2>2. /\ DOMAIN q = SearchFields /\ q.pc = "recall" /\ q.printed = search[p].printed
        /\ q.explicit = search[p].explicit /\ q.map = remembered
    BY <1>0 DEF SearchFields
  <2> HIDE DEF q
  <2> QED BY <1>4, <2>1, <2>2
<1>7. ASSUME NEW p \in Searches, Recall(p) PROVE CommandInv'
  <2> DEFINE a == [search[p] EXCEPT !.pc = "again", !.at = search[p].map[Nearest(p)]]
             t == [search[p] EXCEPT !.tried = @ \cup {Nearest(p)}]
  <2>1. search[p].pc = "recall" /\ answered' = answered /\ remembered' = remembered
    BY <1>7 DEF Recall
  <2>2. RunSearch(p, a) \/ RunSearch(p, t) \/ Finishes(p, 2)
    BY <1>7 DEF Recall
  <2>3. /\ DOMAIN a = SearchFields /\ a.pc = "again" /\ a.printed = search[p].printed
        /\ a.explicit = search[p].explicit /\ a.map = search[p].map
    BY <1>0 DEF SearchFields
  <2>4. /\ DOMAIN t = SearchFields /\ t.pc = "recall" /\ t.printed = search[p].printed
        /\ t.explicit = search[p].explicit /\ t.map = search[p].map
    BY <1>0, <2>1 DEF SearchFields
  <2> HIDE DEF a, t
  <2>5. CASE Finishes(p, 2)
    <3>1. search[p].printed = 0
      BY <1>0, <2>1 DEF CommandInvOf
    <3> QED BY <2>1, <2>5, <3>1, FinishMoves
  <2> QED BY <1>4, <2>1, <2>2, <2>3, <2>4, <2>5
<1>8. ASSUME NEW p \in Searches, ReportDocument(p) PROVE CommandInv'
  <2>1. PICK flow \in {"continue", "stop"} :
            RunSearch(p, [search[p] EXCEPT !.printed = @ + 1, !.left = IF flow = "stop" THEN 0 ELSE @ - 1])
    BY <1>8 DEF ReportDocument
  <2> DEFINE l == IF flow = "stop" THEN 0 ELSE search[p].left - 1
             q == [search[p] EXCEPT !.printed = search[p].printed + 1, !.left = l]
  <2>2. /\ search[p].pc = "report" /\ answered' = answered /\ remembered' = remembered
        /\ RunSearch(p, q)
    BY <1>0, <1>8, <2>1 DEF ReportDocument
  <2> HIDE DEF l
  <2>3. /\ DOMAIN q = SearchFields /\ q.pc = "report" /\ q.printed = search[p].printed + 1
        /\ q.map = search[p].map /\ q.target = search[p].target /\ q.at = search[p].at
    BY <1>0, <2>2 DEF SearchFields
  <2> HIDE DEF q
  <2>4. CommandInvOf(q, answered')
    BY <1>0, <2>2, <2>3 DEF CommandInvOf
  <2> QED BY <2>2, <2>4, SearchMoves
<1>9. ASSUME NEW p \in Searches, ReportFails(p) PROVE CommandInv'
  <2>1. Finishes(p, ErrorStatus(p)) /\ answered' = answered /\ remembered' = remembered
    BY <1>9 DEF ReportFails
  <2>2. CASE search[p].mode = "quiet" /\ search[p].printed > 0
    <3>1. ErrorStatus(p) = 0
      BY <2>2 DEF ErrorStatus
    <3> QED BY <2>1, <2>2, <3>1, FinishMoves
  <2>3. CASE ~(search[p].mode = "quiet" /\ search[p].printed > 0)
    <3>1. ErrorStatus(p) = 2
      BY <2>3 DEF ErrorStatus
    <3> QED BY <2>1, <2>3, <3>1, FinishMoves
  <2> QED BY <2>2, <2>3
<1>10. ASSUME NEW p \in Searches, SearchEnds(p) PROVE CommandInv'
  <2> DEFINE q == [search[p] EXCEPT !.pc = "remember", !.map = remembered]
             n == IF search[p].printed > 0 THEN 0 ELSE 1
  <2>1. /\ search[p].pc = "report" /\ answered' = answered /\ remembered' = remembered
        /\ RunSearch(p, q) \/ Finishes(p, n)
    BY <1>10 DEF SearchEnds
  <2>2. CASE RunSearch(p, q)
    <3>1. /\ DOMAIN q = SearchFields /\ q.pc = "remember" /\ q.printed = search[p].printed
          /\ q.map = remembered /\ q.target = search[p].target /\ q.at = search[p].at
      BY <1>0 DEF SearchFields
    <3> HIDE DEF q
    <3>2. DOMAIN q.map = Places /\ Served(q.map, answered)
      BY <3>1 DEF CommandInv, RememberedServed, Served
    <3>3. CommandInvOf(q, answered')
      BY <1>0, <2>1, <3>1, <3>2 DEF CommandInvOf
    <3> QED BY <2>1, <2>2, <3>3, SearchMoves
  <2>3. CASE Finishes(p, n)
    <3>1. n \in 0..2 /\ (n = 0 => search[p].printed > 0) /\ (n = 1 => search[p].printed = 0)
          /\ (search[p].printed > 0 => n = 0)
      BY <1>0
    <3> HIDE DEF n
    <3> QED BY <2>1, <2>3, <3>1, FinishMoves
  <2> QED BY <2>1, <2>2, <2>3
<1>11. ASSUME NEW p \in Searches, Remember(p) PROVE CommandInv'
  <2> DEFINE n == IF search[p].printed > 0 THEN 0 ELSE 1
             q == [search[p] EXCEPT !.pc = "exited", !.exit = n]
             m == [search[p].map EXCEPT ![search[p].target] = search[p].at]
  <2>1. /\ search[p].pc = "remember" /\ answered' = answered /\ RunSearch(p, q)
        /\ remembered' \in {remembered, m}
    BY <1>11 DEF Remember, Finishes
  <2>2. n \in 0..2 /\ (n = 0 => search[p].printed > 0) /\ (n = 1 => search[p].printed = 0)
        /\ (search[p].printed > 0 => n = 0)
    BY <1>0
  <2> HIDE DEF n
  <2>3. /\ DOMAIN q = SearchFields /\ q.printed = search[p].printed /\ q.map = search[p].map
        /\ q.pc = "exited" /\ q.exit = n /\ q.mode = search[p].mode
    BY <1>0 DEF SearchFields
  <2>4. /\ DOMAIN m = Places
        /\ \A s \in Places : m[s] = IF s = search[p].target THEN search[p].at ELSE search[p].map[s]
    BY <1>0 DEF CommandInvOf
  <2> HIDE DEF q, m
  <2>5. Served(m, answered)
    BY <1>0, <2>1, <2>4 DEF CommandInvOf, Served
  <2>6. DOMAIN remembered' = Places /\ RememberedServed'
    BY <2>1, <2>4, <2>5 DEF CommandInv, RememberedServed, Served
  <2>7. CommandInvOf(q, answered)
    BY <1>0, <2>2, <2>3 DEF CommandInvOf
  <2>8. DOMAIN search' = Searches /\ \A o \in Searches : search'[o] = IF o = p THEN q ELSE search[o]
    BY <2>1 DEF RunSearch, CommandInv
  <2>9. \A o \in Searches : CommandInvOf(search'[o], answered')
    BY <1>0, <2>1, <2>7, <2>8
  <2> QED BY <2>6, <2>8, <2>9 DEF CommandInv
<1>12. ASSUME UNCHANGED <<remembered, search, answered>> PROVE CommandInv'
  BY <1>12 DEF CommandInv, RememberedServed
<1>13. CASE \E location \in Places : RemoveIndex(location) \/ \E source \in Places : BuildIndex(location, source)
  BY <1>12, <1>13 DEF RemoveIndex, BuildIndex
<1>14. CASE UNCHANGED commandVars
  BY <1>12, <1>14 DEF commandVars
<1> QED BY <1>1, <1>2, <1>3, <1>5, <1>6, <1>7, <1>8, <1>9, <1>10, <1>11, <1>13, <1>14 DEF CommandNext

LEMMA CommandInvariant == CommandSpec => []CommandInv
<1>1. CommandInit => CommandInv
  <2> SUFFICES ASSUME CommandInit PROVE CommandInv
    OBVIOUS
  <2>1. /\ DOMAIN Off = SearchFields /\ Off.pc = "off" /\ Off.printed = 0 /\ Off.explicit = FALSE
        /\ Off.map = [s \in Places |-> NoIndex]
    BY DEF Off, SearchFields
  <2>2. CommandInvOf(Off, answered)
    BY <2>1 DEF CommandInvOf, Served
  <2> QED BY <2>2 DEF CommandInit, CommandInv, RememberedServed
<1>2. CommandInv /\ [CommandNext]_commandVars => CommandInv'
  BY CommandStep
<1> QED BY <1>1, <1>2, PTL DEF CommandSpec

\* remember_index records only what served its source, and the exit status of
\* run_search tells what was printed, whatever other processes build, remove and
\* remember.
THEOREM CommandTells == CommandSpec => []CommandSound
<1>1. CommandInv => CommandSound
  BY DEF CommandInv, CommandInvOf, CommandSound, RememberedServed, ExitTellsMatch
<1> QED BY <1>1, CommandInvariant, PTL

\* One search goes from q to r as SearchedCovers demands.
CoveredMove(q, r) ==
    /\ q.pc \in {"open", "again"} /\ r.pc = "report" => IsPrefix(indexAt[q.at], q.target)
    /\ q.explicit /\ q.pc # "exited" => r.at = q.at

LEMMA CoveredMoves ==
    ASSUME CommandInv, NEW p \in Searches, NEW q, RunSearch(p, q), CoveredMove(search[p], q)
    PROVE  \A o \in Searches : CoveredMove(search[o], search'[o])
<1>1. search' = [search EXCEPT ![p] = q] /\ DOMAIN search = Searches
  BY DEF RunSearch, CommandInv
<1>2. ASSUME NEW o \in Searches PROVE CoveredMove(search[o], search'[o])
  <2>1. CASE o = p
    BY <1>1, <2>1
  <2>2. CASE o # p
    <3>1. search'[o] = search[o]
      BY <1>1, <2>2
    <3> QED BY <3>1 DEF CoveredMove
  <2> QED BY <2>1, <2>2
<1> QED BY <1>2

\* A step that leaves the location alone and does not begin the report.
LEMMA LocationKept ==
    ASSUME CommandInv, NEW p \in Searches, NEW q, RunSearch(p, q),
           q.at = search[p].at, search[p].pc \in {"open", "again"} => q.pc # "report"
    PROVE  \A o \in Searches : CoveredMove(search[o], search'[o])
BY CoveredMoves DEF CoveredMove

\* A step of a search that was given no location and does not open an index.
LEMMA LocationFree ==
    ASSUME CommandInv, NEW p \in Searches, NEW q, RunSearch(p, q), search[p].pc \in {"off", "probe", "recall"}
    PROVE  \A o \in Searches : CoveredMove(search[o], search'[o])
<1>1. ~search[p].explicit
  BY DEF CommandInv, CommandInvOf
<1> QED BY <1>1, CoveredMoves DEF CoveredMove

LEMMA FinishKeeps ==
    ASSUME CommandInv, NEW p \in Searches, NEW n, Finishes(p, n)
    PROVE  \A o \in Searches : CoveredMove(search[o], search'[o])
<1> DEFINE q == [search[p] EXCEPT !.pc = "exited", !.exit = n]
<1>1. DOMAIN search[p] = SearchFields
  BY DEF CommandInv, CommandInvOf
<1>2. q.at = search[p].at /\ q.pc = "exited"
  BY <1>1 DEF SearchFields
<1>3. RunSearch(p, q)
  BY DEF Finishes
<1> HIDE DEF q
<1> QED BY <1>2, <1>3, LocationKept

LEMMA CoveredStep ==
    ASSUME CommandInv, [CommandNext]_commandVars
    PROVE  \A o \in Searches : CoveredMove(search[o], search'[o])
<1> DEFINE Goal == \A o \in Searches : CoveredMove(search[o], search'[o])
<1>0. ASSUME NEW p \in Searches PROVE DOMAIN search[p] = SearchFields
  BY DEF CommandInv, CommandInvOf
<1>1. ASSUME NEW p \in Searches, NEW target \in Places, BeginCommand(p, target) PROVE Goal
  <2>1. PICK q : RunSearch(p, q)
    BY <1>1 DEF BeginCommand
  <2> QED BY <1>1, <2>1, LocationFree DEF BeginCommand
<1>2. ASSUME NEW p \in Searches, OpenIndex(p) PROVE Goal
  <2>1. PICK n \in 0..MaxHits : RunSearch(p, [search[p] EXCEPT !.pc = "report", !.left = n])
    BY <1>2 DEF OpenIndex
  <2> DEFINE q == [search[p] EXCEPT !.pc = "report", !.left = n]
  <2>2. q.at = search[p].at
    BY <1>0 DEF SearchFields
  <2>3. IsPrefix(indexAt[search[p].at], search[p].target)
    BY <1>2 DEF OpenIndex, Covers
  <2>4. RunSearch(p, q)
    BY <2>1
  <2> HIDE DEF q
  <2>5. CoveredMove(search[p], q)
    BY <2>2, <2>3 DEF CoveredMove
  <2> QED BY <2>4, <2>5, CoveredMoves
<1>3. ASSUME NEW p \in Searches, IndexNotOpened(p) PROVE Goal
  <2> DEFINE q == [search[p] EXCEPT !.pc = "probe", !.tried = {search[p].target}]
  <2>1. q.at = search[p].at /\ q.pc = "probe"
    BY <1>0 DEF SearchFields
  <2>2. RunSearch(p, q) \/ Finishes(p, 2)
    BY <1>3 DEF IndexNotOpened, GivesUp
  <2> HIDE DEF q
  <2> QED BY <2>1, <2>2, LocationKept, FinishKeeps
<1>4. ASSUME NEW p \in Searches, ProbeParent(p) \/ ReadRemembered(p) \/ Recall(p) PROVE Goal
  <2>1. search[p].pc \in {"off", "probe", "recall"}
    BY <1>4 DEF ProbeParent, ReadRemembered, Recall
  <2>2. \E q : RunSearch(p, q)
    <3>1. CASE ProbeParent(p)
      BY <3>1 DEF ProbeParent
    <3>2. CASE ReadRemembered(p)
      BY <3>2 DEF ReadRemembered
    <3>3. CASE Recall(p)
      BY <3>3 DEF Recall, Finishes
    <3> QED BY <1>4, <3>1, <3>2, <3>3
  <2> QED BY <2>1, <2>2, LocationFree
<1>5. ASSUME NEW p \in Searches, ReportDocument(p) PROVE Goal
  <2>1. PICK flow \in {"continue", "stop"} :
            RunSearch(p, [search[p] EXCEPT !.printed = @ + 1, !.left = IF flow = "stop" THEN 0 ELSE @ - 1])
    BY <1>5 DEF ReportDocument
  <2> DEFINE q == [search[p] EXCEPT !.printed = @ + 1, !.left = IF flow = "stop" THEN 0 ELSE @ - 1]
  <2>2. q.at = search[p].at /\ search[p].pc = "report"
    BY <1>0, <1>5 DEF SearchFields, ReportDocument
  <2>3. RunSearch(p, q)
    BY <2>1
  <2> HIDE DEF q
  <2> QED BY <2>2, <2>3, LocationKept
<1>6. ASSUME NEW p \in Searches, ReportFails(p) PROVE Goal
  BY <1>6, FinishKeeps DEF ReportFails
<1>7. ASSUME NEW p \in Searches, SearchEnds(p) PROVE Goal
  <2> DEFINE q == [search[p] EXCEPT !.pc = "remember", !.map = remembered]
  <2>1. q.at = search[p].at /\ q.pc = "remember"
    BY <1>0 DEF SearchFields
  <2>2. RunSearch(p, q) \/ \E n : Finishes(p, n)
    BY <1>7 DEF SearchEnds
  <2> HIDE DEF q
  <2> QED BY <2>1, <2>2, LocationKept, FinishKeeps
<1>8. ASSUME NEW p \in Searches, Remember(p) PROVE Goal
  BY <1>8, FinishKeeps DEF Remember
<1>9. ASSUME UNCHANGED search PROVE Goal
  BY <1>9 DEF CoveredMove
<1>10. CASE \E location \in Places : RemoveIndex(location) \/ \E source \in Places : BuildIndex(location, source)
  BY <1>9, <1>10 DEF RemoveIndex, BuildIndex
<1>11. CASE UNCHANGED commandVars
  BY <1>9, <1>11 DEF commandVars
<1> QED BY <1>1, <1>2, <1>3, <1>4, <1>5, <1>6, <1>7, <1>8, <1>10, <1>11 DEF CommandNext

\* A search reports only from an index whose root covers its target when it opens
\* it, and one that was given --index never reads another, wherever discovery leads
\* the others.
THEOREM OnlyCoveringSearched == CommandSpec => SearchedCovers
<1>1. CommandInv /\ [CommandNext]_commandVars =>
        [\A p \in Searches :
            /\ search[p].pc \in {"open", "again"} /\ search'[p].pc = "report" =>
                  IsPrefix(indexAt[search[p].at], search[p].target)
            /\ search[p].explicit /\ search[p].pc # "exited" => search'[p].at = search[p].at]_commandVars
  BY CoveredStep DEF CoveredMove
<1> QED BY <1>1, CommandInvariant, PTL DEF CommandSpec, SearchedCovers
=============================================================================
