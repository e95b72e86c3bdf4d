---------------------------- MODULE SearchCommand ----------------------------
(***************************************************************************)
(* A search from the command line: where its index is, what it prints and  *)
(* its exit status (crates/cli/src/main.rs, discover.rs, printer.rs).      *)
(*                                                                         *)
(* Locations are the key prefixes of one bucket, as sequences of names;    *)
(* the default index of a prefix lies in its own .seagrep namespace.  An   *)
(* index was built for some source prefix and serves every prefix below    *)
(* it.  While a search looks for an index, others build and remove them.   *)
(* Locations given with --index are remembered in a file that all          *)
(* processes read, change and replace without a lock.                      *)
(***************************************************************************)
EXTENDS Naturals, Sequences, SequencesExt

CONSTANTS
    Searches,       \* processes
    Places,       \* the prefixes of the bucket, closed under prefix
    MaxHits,       \* matching documents of any index
    MaxBuilds       \* bound: indexes built and removed meanwhile

ASSUME SearchCommandAssumption ==
    /\ \A p \in Places : \A i \in 0..Len(p) : SubSeq(p, 1, i) \in Places
    /\ MaxBuilds \in Nat /\ MaxHits \in Nat

VARIABLES
    indexAt,    \* location -> the source its index was built for, or NoIndex
    remembered, \* source -> location, or NoIndex
    search,     \* process -> what it is doing
    answered,     \* pairs of a source and a location that was opened for it
    builds

commandVars == <<indexAt, remembered, search, answered, builds>>

NoIndex == <<"none">>
Off == [pc |-> "off", target |-> <<>>, explicit |-> FALSE, mode |-> "quiet", at |-> <<>>, tried |-> {},
        printed |-> 0, left |-> 0, map |-> [s \in Places |-> NoIndex], exit |-> 3]

CommandInit ==
    /\ indexAt = [l \in Places |-> NoIndex]
    /\ remembered = [s \in Places |-> NoIndex]
    /\ search = [p \in Searches |-> Off]
    /\ answered = {} /\ builds = 0

RunSearch(p, rec) == search' = [search EXCEPT ![p] = rec]
StoreSame == UNCHANGED <<indexAt, builds>>

\* Mutant of Covers: any index will do.
CoversAny(location, target) == indexAt[location] # NoIndex

\* SegmentedReader::open checks the source identity of the root.
Covers(location, target) ==
    indexAt[location] # NoIndex /\ IsPrefix(indexAt[location], target)

-----------------------------------------------------------------------------
\* run_search: the target, the output mode, and perhaps an --index location.
BeginCommand(p, target) ==
    /\ search[p].pc = "off"
    /\ \E mode \in {"quiet", "lines"}, explicit \in BOOLEAN, location \in Places :
        /\ ~explicit => location = target
        /\ RunSearch(p, [Off EXCEPT !.pc = "open", !.target = target, !.mode = mode,
                              !.explicit = explicit, !.at = location])
    /\ StoreSame /\ UNCHANGED <<remembered, answered>>

Finishes(p, status) == RunSearch(p, [search[p] EXCEPT !.pc = "exited", !.exit = status])

\* The index is opened and bound to the source; documents will be reported.
OpenIndex(p) ==
    /\ search[p].pc \in {"open", "again"}
    /\ Covers(search[p].at, search[p].target)
    /\ \E n \in 0..MaxHits : RunSearch(p, [search[p] EXCEPT !.pc = "report", !.left = n])
    /\ answered' = answered \cup {<<search[p].target, search[p].at>>}
    /\ StoreSame /\ UNCHANGED remembered

\* Mutant of MayDiscover: discovery runs for an explicit location too.
MayDiscoverAlways(p) == search[p].pc = "open"

\* Discovery runs once, for a default location.
MayDiscover(p) == search[p].pc = "open" /\ ~search[p].explicit

\* Mutant of GivesUp: the location is remembered before it has been opened.
GivesUpRemembering(p) ==
    IF search[p].explicit THEN RunSearch(p, [search[p] EXCEPT !.pc = "remember", !.map = remembered])
    ELSE Finishes(p, 2)

GivesUp(p) == Finishes(p, 2)

\* IndexMissing leads to discovery; any other failure ends the search.
IndexNotOpened(p) ==
    /\ search[p].pc \in {"open", "again"}
    /\ ~Covers(search[p].at, search[p].target)
    /\ IF indexAt[search[p].at] = NoIndex /\ MayDiscover(p)
       THEN RunSearch(p, [search[p] EXCEPT !.pc = "probe", !.tried = {search[p].target}])
       ELSE GivesUp(p)
    /\ StoreSame /\ UNCHANGED <<remembered, answered>>

\* parent_chain: the parents not probed yet, nearest first.
Untried(p) ==
    {i \in 0..Len(search[p].target) : SubSeq(search[p].target, 1, i) \notin search[p].tried}
Nearest(p) ==
    LET i == CHOOSE i \in Untried(p) : \A j \in Untried(p) : j <= i
    IN  SubSeq(search[p].target, 1, i)

\* discover_fallback at the next parent: an index that can be read and covers the
\* source is taken, anything else is skipped with a note.
ProbeParent(p) ==
    /\ search[p].pc = "probe" /\ Untried(p) # {}
    /\ \/ /\ Covers(Nearest(p), search[p].target)
          /\ RunSearch(p, [search[p] EXCEPT !.pc = "again", !.at = Nearest(p)])
       \/ RunSearch(p, [search[p] EXCEPT !.tried = @ \cup {Nearest(p)}])
    /\ StoreSame /\ UNCHANGED <<remembered, answered>>

\* Then the remembered locations, of the target itself and of its parents.
ReadRemembered(p) ==
    /\ search[p].pc = "probe" /\ Untried(p) = {}
    /\ RunSearch(p, [search[p] EXCEPT !.pc = "recall", !.tried = {}, !.map = remembered])
    /\ StoreSame /\ UNCHANGED <<remembered, answered>>

Recall(p) ==
    /\ search[p].pc = "recall"
    /\ IF Untried(p) = {} THEN Finishes(p, 2)
       ELSE LET location == search[p].map[Nearest(p)] IN
            IF location # NoIndex /\ Covers(location, search[p].target)
            THEN RunSearch(p, [search[p] EXCEPT !.pc = "again", !.at = location])
            ELSE RunSearch(p, [search[p] EXCEPT !.tried = @ \cup {Nearest(p)}])
    /\ StoreSame /\ UNCHANGED <<remembered, answered>>

\* A document is given to the sink.  A quiet sink stops the search, as does a
\* closed pipe; another write error ends it, and so may the index.
ReportDocument(p) ==
    /\ search[p].pc = "report" /\ search[p].left > 0
    /\ \E flow \in {"continue", "stop"} :
        /\ search[p].mode = "quiet" => flow = "stop"
        /\ RunSearch(p, [search[p] EXCEPT !.printed = @ + 1,
                                    !.left = IF flow = "stop" THEN 0 ELSE @ - 1])
    /\ StoreSame /\ UNCHANGED <<remembered, answered>>

\* Mutant of ErrorStatus: an error always wins.
ErrorStatusAlways(p) == 2

\* "a found match wins over later errors", with --quiet.
ErrorStatus(p) == IF search[p].mode = "quiet" /\ search[p].printed > 0 THEN 0 ELSE 2

ReportFails(p) ==
    /\ search[p].pc = "report"
    /\ search[p].mode = "quiet" \/ search[p].left > 0
    /\ Finishes(p, ErrorStatus(p))
    /\ StoreSame /\ UNCHANGED <<remembered, answered>>

\* hit_count decides between 0 and 1; a search with --index remembers it first.
SearchEnds(p) ==
    /\ search[p].pc = "report" /\ search[p].left = 0
    /\ IF search[p].explicit
       THEN RunSearch(p, [search[p] EXCEPT !.pc = "remember", !.map = remembered])
       ELSE Finishes(p, IF search[p].printed > 0 THEN 0 ELSE 1)
    /\ StoreSame /\ UNCHANGED <<remembered, answered>>

\* remember_index: the map read before is changed and replaces the file.
Remember(p) ==
    /\ search[p].pc = "remember"
    /\ remembered' \in {remembered, [search[p].map EXCEPT ![search[p].target] = search[p].at]}
    /\ Finishes(p, IF search[p].printed > 0 THEN 0 ELSE 1)
    /\ StoreSame /\ UNCHANGED answered

\* Others build an index at a location for a source, or remove one.
BuildIndex(location, source) ==
    /\ builds < MaxBuilds
    /\ builds' = builds + 1
    /\ indexAt[location] = NoIndex
    /\ indexAt' = [indexAt EXCEPT ![location] = source]
    /\ UNCHANGED <<remembered, search, answered>>

RemoveIndex(location) ==
    /\ builds < MaxBuilds
    /\ builds' = builds + 1
    /\ indexAt[location] # NoIndex
    /\ indexAt' = [indexAt EXCEPT ![location] = NoIndex]
    /\ UNCHANGED <<remembered, search, answered>>

CommandNext ==
    \/ \E p \in Searches :
        \/ \E target \in Places : BeginCommand(p, target)
        \/ OpenIndex(p) \/ IndexNotOpened(p) \/ ProbeParent(p) \/ ReadRemembered(p) \/ Recall(p)
        \/ ReportDocument(p) \/ ReportFails(p) \/ SearchEnds(p) \/ Remember(p)
    \/ \E location \in Places :
        RemoveIndex(location) \/ \E source \in Places : BuildIndex(location, source)

-----------------------------------------------------------------------------
\* A search reports only from an index that covers its target when it opens it,
\* though the index found by probing may be replaced before it is searched; and one
\* that was given a location with --index reads no other.
SearchedCovers ==
    [][\A p \in Searches :
          /\ search[p].pc \in {"open", "again"} /\ search'[p].pc = "report" =>
                IsPrefix(indexAt[search[p].at], search[p].target)
          /\ search[p].explicit /\ search[p].pc # "exited" => search'[p].at = search[p].at]_commandVars

\* Nothing is remembered that did not serve its source, whatever processes write
\* the file at the same time.
RememberedServed ==
    \A s \in Places : remembered[s] # NoIndex => <<s, remembered[s]>> \in answered

\* The exit status is 0 only when something matched, and never 1 when something
\* was printed; in quiet mode a match is never turned into an error.
ExitTellsMatch ==
    \A p \in Searches : search[p].pc = "exited" =>
        /\ search[p].exit = 0 => search[p].printed > 0
        /\ search[p].exit = 1 => search[p].printed = 0
        /\ search[p].mode = "quiet" /\ search[p].printed > 0 => search[p].exit = 0

\* What is remembered has served, and the exit status tells what was printed.
CommandSound == RememberedServed /\ ExitTellsMatch
=============================================================================
