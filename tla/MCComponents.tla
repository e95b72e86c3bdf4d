---------------------------- MODULE MCComponents ----------------------------
(***************************************************************************)
(* The caches, the conditional put, credentials, the watch loop, the search *)
(* command, and what is stored and found: packs, candidates, verification,  *)
(* proof bounds, posting lists and decoding.                                *)
(*                                                                         *)
(* They share no state; a behaviour is one of the component it was started  *)
(* for, the others stay in their initial states.                            *)
(***************************************************************************)
EXTENDS ObjectCache, SegmentCache, ConditionalPut, Credentials, WatchLoop, SearchCommand,
        RegionalSearch, ProofGraph, Decoding, PostingIndex

VARIABLE component

-----------------------------------------------------------------------------
\* ObjectCache and SearchCommand.
Lens == [k \in CacheKeys |-> k]
TwoPlaces == {<<>>, <<"a">>}

-----------------------------------------------------------------------------
\* PackLayout: byte 0 ends a line.
SmallBodies == {<<>>, <<1>>, <<1, 0>>} \cup {b \in [1..6 -> {0, 1}] : b[2] = 1}
SmallAsked ==
    {<<FullLines(a, 4, p, q)>> : a \in {0, 2, 3}, p \in 0..1, q \in 0..1}
    \cup {<<Regional(a, a + 1, s), r>> : a \in 0..5, s \in 1..2,
          r \in {FullLines(b, b + 1, 0, 0) : b \in 0..5} \cup {Regional(5, 6, 1)}}

-----------------------------------------------------------------------------
\* Candidates: short texts, in which a literal may straddle blocks and documents.
Pat(k, ws) == [kind |-> k, words |-> ws]
Word == Pat("word", <<<<1, 1>>>>)
SomeWeights == {[p \in ((0..3) \X (0..3)) |-> (p[1] * k + p[2] * m) % 4] : k \in {0, 1, 3}, m \in {1, 2}}
Text(n, k) == {t \in [1..n -> {0, 1, 2}] : Cardinality({i \in 1..n : t[i] # 2}) <= k}
ShortTexts == {<<t>> : t \in Text(7, 3)} \cup {<<t, u>> : t \in {<<>>, <<2>>, <<2, 1, 2>>}, u \in Text(4, 2)}
OnePattern ==
    {Word, Pat("word", <<<<1, 0, 2>>, <<1, 1>>>>), Pat("word", <<<<1, 2>>, <<1>>>>), Pat("more", <<<<2, 1>>>>),
     Pat("less", <<<<2, 1>>>>), Pat("line", <<<<1, 2>>>>), Pat("top", <<<<2, 1>>>>),
     Pat("gap", <<<<1, 2>>, <<2, 1>>>>), Pat("end", <<<<>>>>)}
ShortPatterns ==
    {<<p>> : p \in OnePattern}
    \cup {<<p, q>> : p \in OnePattern, q \in {Pat("word", <<<<2, 1>>>>), Pat("line", <<<<2, 2>>>>)}}

\* RegionalSearch: texts of many blocks, with matches at their ends, across lines and
\* twice in a line.
Core == {c \in [1..4 -> {0, 1, 2}] : \E i \in 1..4 : c[i] = 1}
Long(c, at) == [i \in 1..16 |-> IF i - at \in 1..4 THEN c[i - at] ELSE IF i \in {9, 15} THEN 0 ELSE 2]
Ends == {<<2, 1, 1>>, <<1, 0, 1>>, <<1, 2, 0>>, <<0, 1, 2>>}
Both(c, d) == [i \in 1..24 |-> IF i <= 3 THEN c[i] ELSE IF i > 21 THEN d[i - 21] ELSE IF i = 12 THEN 0 ELSE 2]
TwoInLine == [i \in 1..24 |-> IF i \in {1, 2, 23, 24} THEN 1 ELSE 2]
Mixed ==
    [i \in 1..36 |-> IF i - 1 \in {6, 13, 20, 28, 33} THEN 0 ELSE IF i - 1 \in {18, 19, 34} THEN 1 ELSE IF i = 36 THEN 3 ELSE 2]
LongTexts ==
    {<<Mixed>>, <<TwoInLine>>} \cup {<<Long(c, at)>> : c \in Core, at \in {0, 3, 6, 12}}
    \cup {<<Both(c, d)>> : c, d \in Ends}
LongPatterns ==
    {<<Word, Pat("line", <<<<1, 3>>>>)>>, <<Word, Pat("more", <<<<1, 2>>>>)>>,
     <<Pat("gap", <<<<1, 2>>, <<2, 1>>>>), Pat("line", <<<<1, 2>>>>)>>}
    \cup {<<p>> : p \in {Word, Pat("word", <<<<1, 2>>, <<1>>>>), Pat("more", <<<<2, 1>>>>), Pat("less", <<<<1, 2>>>>),
                         Pat("line", <<<<1, 2>>>>), Pat("top", <<<<2, 1>>>>), Pat("gap", <<<<1, 2>>, <<2, 1>>>>),
                         Pat("end", <<<<>>>>)}}
SomeOptions ==
    {[before |-> 1, after |-> 0, max |-> 0], [before |-> 0, after |-> 1, max |-> 1], [before |-> 1, after |-> 1, max |-> 2]}
AllTexts == ShortTexts \cup LongTexts
AllPatterns == ShortPatterns \cup LongPatterns

-----------------------------------------------------------------------------
\* Decoding: texts, frames whole and cut, and archives in each other whose members
\* have the same name, the same path, a path that looks numbered or nested, or none.
Plain(id, n) == [kind |-> "text", id |-> <<id>>, size |-> n, grows |-> 0]
Frame(b, cut, hinted) == [kind |-> "frame", size |-> 1, cut |-> cut, hinted |-> hinted, inner |-> b]
Frames ==
    {Frame(b, c, h) : b \in {Plain("x", 1), Plain("y", 2)}, c \in {-1, 0, 1}, h \in BOOLEAN}
    \cup {Frame(Frame(Plain("x", 1), -1, h), -1, FALSE) : h \in BOOLEAN}
Named(raw, clean, hint, how, b) == [raw |-> raw, clean |-> clean, hint |-> hint, how |-> how, body |-> b]
SomeMembers ==
    {Named("a", <<"a">>, FALSE, "file", Plain("x", 1)), Named("./a", <<"a">>, FALSE, "file", Plain("y", 2)),
     Named("a#2", <<"a", "#2">>, FALSE, "file", Plain("y", 1)), Named("z!/a", <<"z", "!", "a">>, FALSE, "file", Plain("v", 1)),
     Named("d", <<"d">>, FALSE, "other", Plain("x", 1)), Named("a.br", <<"b">>, TRUE, "file", Frame(Plain("x", 1), -1, TRUE)),
     Named("..", <<>>, FALSE, "file", Plain("x", 1)), Named("l", <<"l">>, FALSE, "locked", Plain("x", 1))}
Archive(kind, ms) == [kind |-> kind, size |-> 3, members |-> ms]
Inner ==
    {Archive(k, <<m>>) : k \in {"zip", "tar"}, m \in SomeMembers}
    \cup {Archive(k, <<m, n>>) : k \in {"zip", "tar"}, m, n \in SomeMembers}
Nest(b) == Named("z", <<"z">>, FALSE, "file", b)
SomeSources ==
    {Plain("x", 1), Plain("y", 2), [Plain("w", 2) EXCEPT !.grows = 1]} \cup Frames \cup Inner
    \cup {Archive(k, <<m, n, o>>) : k \in {"zip", "tar"}, m, n, o \in SomeMembers}
    \cup {Archive("tar", <<m, Nest(b), n>>) : b \in Inner \cup Frames, m, n \in SomeMembers}
    \cup {Archive("zip", <<Nest(Archive("tar", <<Nest(b)>>))>>) : b \in Inner \cup Frames}
    \cup {Frame(Archive("tar", <<Nest(b)>>), -1, FALSE) : b \in Inner \cup Frames}

-----------------------------------------------------------------------------
searchingVars == <<candidateVars, verified>>
allVars ==
    <<component, cacheVars, segmentVars, putVars, credentialVars, watchVars, commandVars,
      packVars, searchingVars, proofVars, decodeVars, postingVars>>

\* Only the component x takes a step.
Only(x) ==
    /\ component = x /\ UNCHANGED component
    /\ IF x = "objects" THEN TRUE ELSE UNCHANGED cacheVars
    /\ IF x = "segments" THEN TRUE ELSE UNCHANGED segmentVars
    /\ IF x = "put" THEN TRUE ELSE UNCHANGED putVars
    /\ IF x = "credentials" THEN TRUE ELSE UNCHANGED credentialVars
    /\ IF x = "watch" THEN TRUE ELSE UNCHANGED watchVars
    /\ IF x = "command" THEN TRUE ELSE UNCHANGED commandVars
    /\ IF x = "packs" THEN TRUE ELSE UNCHANGED packVars
    /\ IF x \in {"candidates", "search"} THEN TRUE ELSE UNCHANGED searchingVars
    /\ IF x = "proof" THEN TRUE ELSE UNCHANGED proofVars
    /\ IF x = "decode" THEN TRUE ELSE UNCHANGED decodeVars
    /\ IF x = "postings" THEN TRUE ELSE UNCHANGED postingVars

ComponentsInit ==
    /\ component \in {"objects", "segments", "put", "credentials", "watch", "command",
                      "packs", "candidates", "search", "proof", "decode", "postings"}
    /\ CacheInit /\ SegmentInit /\ PutInit /\ CredentialsInit /\ WatchInit /\ CommandInit
    /\ PackInit /\ SearchInit /\ ProofInit /\ DecodeInit /\ PostingInit

ComponentsNext ==
    \/ Only("objects") /\ CacheNext
    \/ Only("segments") /\ SegmentNext
    \/ Only("put") /\ PutNext
    \/ Only("credentials") /\ CredentialsNext
    \/ Only("watch") /\ WatchNext
    \/ Only("command") /\ CommandNext
    \/ Only("packs") /\ PackNext
    \/ Only("candidates") /\ CandidatesNext /\ UNCHANGED verified
         /\ texts' \in ShortTexts /\ patterns' \in ShortPatterns \cup {<<>>} /\ detail' \in {"none", "lines", "count"}
    \/ Only("search") /\ SearchNext
         /\ texts' \in LongTexts /\ patterns' \in LongPatterns \cup {<<>>}
    \/ Only("proof") /\ ProofNext
    \/ Only("decode") /\ DecodeNext
    \/ Only("postings") /\ PostingNext

ComponentsSpec == ComponentsInit /\ [][ComponentsNext]_allVars
=============================================================================
