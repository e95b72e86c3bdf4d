----------------------------- MODULE RangedRead -----------------------------
(***************************************************************************)
(* Reading one object in several ranged requests                           *)
(* (crates/s3/src/client/download.rs), and listing a bucket page by page   *)
(* (client.rs).                                                            *)
(*                                                                         *)
(* The parts of an object are fetched concurrently and may arrive in any   *)
(* order, while the object is overwritten or deleted.  A read of a source  *)
(* pins the version it was listed with; get_file and get_ranges do not,    *)
(* and compare the versions of the parts they get.  A listing follows the  *)
(* continuation tokens the store returns.                                  *)
(***************************************************************************)
EXTENDS Naturals, FiniteSets

CONSTANTS
    Parts,          \* the ranges of one read
    MaxVersion,     \* bound: versions of the object; 0 is no object
    ReadWindow,     \* requests at a time
    Tokens          \* continuation tokens

ASSUME RangedReadAssumption ==
    /\ IsFiniteSet(Parts) /\ Parts # {}
    /\ {MaxVersion, ReadWindow} \subseteq Nat \ {0}
    /\ IsFiniteSet(Tokens) /\ Tokens \subseteq Nat \ {0}

VARIABLES
    stored,     \* the version in the store
    newest,     \* versions that have existed
    pinned,     \* the version asked for, 0 when none is
    asked,      \* parts asked for
    got,        \* part -> the version that came, 0 before
    filled,    \* parts handed to the caller
    common,     \* check_range_version's expected version, 0 before the first
    read,       \* "none", "reading", "whole", "missing" or "stale"
    listing,    \* "idle", "more", "listed" or "error"
    page,       \* the token the next request carries, 0 for the first
    tokensSeen  \* tokens met so far

readVars == <<stored, newest, pinned, asked, got, filled, common, read>>
listVars == <<listing, page, tokensSeen>>

ReadInit ==
    /\ stored = 1 /\ newest = 1 /\ pinned = 0
    /\ asked = {} /\ got = [p \in Parts |-> 0]
    /\ filled = {} /\ common = 0 /\ read = "none"
    /\ listing = "idle" /\ page = 0 /\ tokensSeen = {}

-----------------------------------------------------------------------------
\* fetch_source with the listed version, or get_file and get_ranges without one.
StartRead ==
    /\ read = "none" /\ stored # 0
    /\ pinned' \in {0, stored}
    /\ read' = "reading"
    /\ UNCHANGED <<stored, newest, asked, got, filled, common>>

AskPart(p) ==
    /\ read = "reading" /\ p \notin asked
    /\ Cardinality({q \in asked : got[q] = 0}) < ReadWindow
    /\ asked' = asked \cup {p}
    /\ UNCHANGED <<stored, newest, pinned, got, filled, common, read>>

\* Mutant of Served: the request does not carry the version.
AnswersAny == TRUE

\* if_match: another version is a 412, which is StaleSource.
Served == pinned \in {0, stored}

\* send_get at the store: the part of the version stored now, no object, or a
\* failed precondition; either of the last two ends the read.
AnswerPart(p) ==
    /\ read = "reading" /\ p \in asked /\ got[p] = 0
    /\ IF stored = 0 \/ ~Served
       THEN read' = (IF stored = 0 THEN "missing" ELSE "stale") /\ UNCHANGED got
       ELSE got' = [got EXCEPT ![p] = stored] /\ UNCHANGED read
    /\ UNCHANGED <<stored, newest, pinned, asked, filled, common>>

\* check_range_version, for reads of several parts that pin no version.
Agrees(version) == Cardinality(Parts) = 1 \/ pinned # 0 \/ common \in {0, version}

ReceivePart(p) ==
    /\ read = "reading" /\ p \notin filled
    /\ \E version \in 1..MaxVersion :
        /\ got[p] = version
        /\ IF Agrees(version)
           THEN /\ filled' = filled \cup {p}
                /\ common' = IF common = 0 THEN version ELSE common
                /\ read' = IF filled' = Parts THEN "whole" ELSE read
           ELSE read' = "stale" /\ UNCHANGED <<filled, common>>
    /\ UNCHANGED <<stored, newest, pinned, asked, got>>

\* Others put and delete the object; a put is a new version.
Overwrite ==
    /\ newest < MaxVersion
    /\ newest' = newest + 1 /\ stored' = newest + 1
    /\ UNCHANGED <<pinned, asked, got, filled, common, read>>

DeleteObject ==
    /\ stored # 0
    /\ stored' = 0
    /\ UNCHANGED <<newest, pinned, asked, got, filled, common, read>>

ReadNext ==
    /\ \/ StartRead \/ Overwrite \/ DeleteObject
       \/ \E p \in Parts : AskPart(p) \/ AnswerPart(p) \/ ReceivePart(p)
    /\ UNCHANGED listVars

-----------------------------------------------------------------------------
\* Mutant of NewToken: a token met before is followed again.
NewTokenAny(t) == TRUE

\* "ListObjectsV2 repeated continuation token" is an error.
NewToken(t) == t \notin tokensSeen

\* list_with_progress, page after page.
StartListing ==
    /\ listing = "idle" /\ listing' = "more"
    /\ UNCHANGED <<page, tokensSeen, readVars>>

\* A page comes back: truncated with a token, or the last one.  A malformed page
\* is an error; run_resilient has repeated what failed on the way.
ListPage ==
    /\ listing = "more"
    /\ \/ \E t \in Tokens :
            /\ tokensSeen' = tokensSeen \cup {t}
            /\ page' = t
            /\ listing' = IF NewToken(t) THEN "more" ELSE "error"
       \/ listing' \in {"listed", "error"} /\ UNCHANGED <<page, tokensSeen>>
    /\ UNCHANGED readVars

-----------------------------------------------------------------------------
\* What a read returns is one version of the object, the pinned one if there is
\* one, however the parts are interleaved with overwrites.
OneVersion ==
    read = "whole" =>
        \E version \in 1..MaxVersion :
            /\ \A p \in Parts : got[p] = version
            /\ pinned \in {0, version}

\* Following continuation tokens ends, even when the store repeats one.
ListingEnds == []<>(listing # "more")
=============================================================================
