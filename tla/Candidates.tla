----------------------------- MODULE Candidates -----------------------------
(***************************************************************************)
(* From patterns to candidate ranges: the gram query of a pattern          *)
(* (crates/query/src/lib.rs), its bounds and extent                        *)
(* (crates/core/src/pattern.rs, crates/index/src/search/plan.rs), the      *)
(* evaluation of queries over posting lists of blocks                      *)
(* (crates/index/src/eval.rs) and the ranges of blocks a search reads      *)
(* (crates/index/src/candidate.rs).                                        *)
(*                                                                         *)
(* A pattern is given by its kind and its literals:                        *)
(*   word  one of the literals          more  a literal, its last byte any *)
(*   less  the mirror image of more           number of times more         *)
(*   line  a literal at the start of a line                                *)
(*   top   a literal at the start of the document                          *)
(*   gap   a literal, anything, another  end  the empty end of a line      *)
(***************************************************************************)
EXTENDS PackLayout

CONSTANTS
    Segments,       \* sequences of decoded documents
    PatternSets,    \* sequences of patterns a search is for
    Details,        \* what a search wants: "lines", "count", "documents", "full", "windows"
    MaxGrams        \* BLOCK_MAX_GRAMS_PER_AND

VARIABLES
    texts,      \* the decoded documents
    patterns,   \* the patterns of the search, empty before it starts
    detail      \* what it wants of them

candidateVars == <<texts, patterns, detail>>

CandidatesInit == texts = <<>> /\ patterns = <<>> /\ detail = "none"

OpenTexts ==
    /\ texts = <<>>
    /\ texts' \in Segments
    /\ UNCHANGED <<patterns, detail>>

StartSearch ==
    /\ patterns = <<>> /\ texts # <<>>
    /\ patterns' \in PatternSets /\ detail' \in Details
    /\ UNCHANGED texts

CandidatesNext == OpenTexts \/ StartSearch

-----------------------------------------------------------------------------
\* Queries.
AllQuery == [op |-> "all"]
GramQuery(g) == [op |-> "gram", gram |-> g]
Compound(op, subs) == [op |-> op, subs |-> subs]

LitQuery(lit) ==
    LET grams == FixedGrams(lit)
    IN  IF grams = {} THEN AllQuery
        ELSE Compound("and", SetToSeq({GramQuery(g) : g \in grams}))

\* Mutant of SideQuery: a literal without a gram is left out of the alternatives.
SideQueryKnown(literals) ==
    Compound("or", SelectSeq([i \in DOMAIN literals |-> LitQuery(literals[i])], LAMBDA q : q # AllQuery))

\* One side of a pattern: a literal without a gram makes it useless.
SideQuery(literals) ==
    LET AnyOf(branches) == IF AllQuery \in ToSet(branches) THEN AllQuery ELSE Compound("or", branches)
    IN  AnyOf([i \in DOMAIN literals |-> LitQuery(literals[i])])

\* hir_query: the literals every match starts and ends with.
PatternQuery(p) ==
    LET sides == CASE p.kind = "end" -> {}
                   [] p.kind = "gap" -> {<<p.words[1]>>, <<p.words[2]>>}
                   [] OTHER -> {p.words}
        Both(unique) == IF unique = {} THEN AllQuery
                        ELSE IF Cardinality(unique) = 1 THEN CHOOSE q \in unique : TRUE
                        ELSE Compound("and", SetToSeq(unique))
    IN  Both({SideQuery(literals) : literals \in sides} \ {AllQuery})

-----------------------------------------------------------------------------
\* Extents.
Bytes(span) == [kind |-> "bytes", span |-> span]
WholeLines == [kind |-> "lines", span |-> 0]
WholeDocument == [kind |-> "document", span |-> 0]

WordLens(p) == {Len(p.words[i]) : i \in DOMAIN p.words}

\* find_exact_bytes and find_proof: how far a match, or a proof of one, reaches.
\* Anchors have neither; what repeats has a proof from its fixed side only.
ExactBytes(p) == IF p.kind = "word" THEN Max(WordLens(p)) ELSE 0
WitnessBytes(p) == IF p.kind \in {"more", "less"} THEN Max(WordLens(p)) ELSE ExactBytes(p)

\* choose_fallback: an anchor of the whole text needs the whole text.
Fallback(p) == IF p.kind = "top" THEN WholeDocument ELSE WholeLines

\* build_plans: only counting needs the matches themselves.
ExtentOf(p, d) ==
    LET span == IF d = "count" THEN ExactBytes(p) ELSE WitnessBytes(p)
    IN  IF PatternQuery(p) # AllQuery /\ span > 0 /\ span <= LineBlock THEN Bytes(span) ELSE Fallback(p)

-----------------------------------------------------------------------------
\* The blocks of all documents, one after the other, are the ids of the postings.
BlockCount(t) == (Len(t) + LineBlock - 1) \div LineBlock
BlockBases(ts) ==
    FoldLeft(LAMBDA bases, t : Append(bases, Last(bases) + BlockCount(t)), <<0>>, ts)
BlockDocument(id, bases) == Max({d \in DOMAIN bases : bases[d] <= id})
Postings(ts, gram) ==
    LET bases == BlockBases(ts)
    IN  UNION {{bases[d] + bg[1] : bg \in {x \in BlockGrams(ts[d]) : x[2] = gram}} : d \in DOMAIN ts}

NoIds == [op |-> "none"]
OneId(id) == [op |-> "doc", id |-> id]

LessCommon(a, b) == a.count < b.count

\* prune_and: an id makes the lists redundant; otherwise the rarest lists are kept.
PruneAnd(children) ==
    LET lists == SelectSeq(children, LAMBDA c : c.op = "gram")
        others == SelectSeq(children, LAMBDA c : c.op # "gram")
        kept == IF Len(lists) > MaxGrams THEN SubSeq(SortSeq(lists, LessCommon), 1, MaxGrams) ELSE lists
        rest == IF \E i \in DOMAIN others : others[i].op = "doc" THEN others ELSE kept \o others
    IN  IF rest = <<>> THEN AllQuery ELSE IF Len(rest) = 1 THEN rest[1] ELSE Compound("and", rest)

\* resolve: a gram nobody has is nothing, one that every block has is everything,
\* and a single block is in the dictionary itself.
ResolveGram(ids, space) ==
    IF ids = {} THEN NoIds
    ELSE IF Cardinality(ids) = 1 THEN OneId(CHOOSE id \in ids : TRUE)
    ELSE IF Cardinality(ids) >= space THEN AllQuery
    ELSE [op |-> "gram", ids |-> ids, count |-> Cardinality(ids)]

RECURSIVE Resolve(_, _)
Resolve(q, ts) ==
    LET Has(op, seq) == \E i \in DOMAIN seq : seq[i].op = op
        subs == [i \in DOMAIN q.subs |-> Resolve(q.subs[i], ts)]
        Without(op) == SelectSeq(subs, LAMBDA r : r.op # op)
    IN  CASE q.op = "all" -> AllQuery
          [] q.op = "gram" -> ResolveGram(Postings(ts, q.gram), Last(BlockBases(ts)))
          [] q.op = "and" -> IF Has("none", subs) THEN NoIds ELSE PruneAnd(Without("all"))
          [] q.op = "or" ->
                 IF Has("all", subs) THEN AllQuery
                 ELSE IF Without("none") = <<>> THEN NoIds
                 ELSE IF Len(Without("none")) = 1 THEN Without("none")[1]
                 ELSE Compound("or", Without("none"))

\* How many blocks around one a match with a gram in it may reach.
Slack(t, extent) ==
    1 + (IF extent.kind = "bytes" THEN (extent.span - 1) \div LineBlock ELSE MaxLine(t) \div LineBlock)

\* expand_candidate_block: never into another document.
ExpandBlock(id, ts, extent) ==
    LET bases == BlockBases(ts)
        d == BlockDocument(id, bases)
        lo == bases[d]
        hi == bases[d + 1] - 1
        slack == Slack(ts[d], extent)
    IN  IF extent.kind = "document" THEN lo..hi ELSE Max({id - slack, lo})..Min({id + slack, hi})

AllIds == [all |-> TRUE, ids |-> {}]
TheIds(ids) == [all |-> FALSE, ids |-> ids]

\* eval: sets of blocks, each id standing for what a match around it may touch.
RECURSIVE Eval(_, _, _)
Eval(r, ts, extent) ==
    LET Expand(ids) == TheIds(UNION {ExpandBlock(id, ts, extent) : id \in ids})
        subs == {Eval(r.subs[i], ts, extent) : i \in DOMAIN r.subs}
        sets == {s.ids : s \in {s \in subs : ~s.all}}
    IN  CASE r.op = "all" -> AllIds
          [] r.op = "none" -> TheIds({})
          [] r.op = "doc" -> Expand({r.id})
          [] r.op = "gram" -> Expand(r.ids)
          [] r.op = "and" -> IF sets = {} THEN AllIds ELSE TheIds({i \in UNION sets : \A s \in sets : i \in s})
          [] r.op = "or" -> IF AllIds \in subs THEN AllIds ELSE TheIds(UNION sets)

-----------------------------------------------------------------------------
\* group_candidate_blocks: neighbouring blocks of a document are one range.
GroupBlocks(ids, base, extent) ==
    LET Add(ranges, id) ==
            IF ranges # <<>> /\ Last(ranges).hi = id - base
            THEN [ranges EXCEPT ![Len(ranges)].hi = @ + 1]
            ELSE Append(ranges, [lo |-> id - base, hi |-> id - base + 1, extent |-> extent])
    IN  FoldLeft(Add, <<>>, Ascending(ids))

\* pick_broader_extent.
Broader(a, b) ==
    IF WholeDocument \in {a, b} THEN WholeDocument
    ELSE IF WholeLines \in {a, b} THEN WholeLines
    ELSE Bytes(Max({a.span, b.span}))

\* merge_candidate_ranges: what overlaps becomes one range of the broader extent,
\* what touches only when the extents agree.
MergeCandidates(ranges) ==
    LET Add(merged, r) ==
            LET p == Last(merged)
                overlaps == r.lo < p.hi
            IN  IF merged # <<>> /\ (overlaps \/ (r.lo = p.hi /\ r.extent = p.extent))
                THEN [merged EXCEPT ![Len(merged)] =
                        [p EXCEPT !.hi = Max({@, r.hi}),
                                  !.extent = IF overlaps THEN Broader(@, r.extent) ELSE @]]
                ELSE Append(merged, r)
    IN  FoldLeft(Add, <<>>, SortSeq(ranges, LAMBDA a, b : a.lo < b.lo \/ (a.lo = b.lo /\ a.hi < b.hi)))

NotCandidate == [read |-> "none", ranges |-> <<>>]
ReadWhole == [read |-> "whole", ranges |-> <<>>]

\* candidate_documents and add_candidate_selection: what one pattern adds to what
\* is read of a document.
AddSelection(current, d, ts, selection, extent) ==
    LET bases == BlockBases(ts)
        mine == {id \in selection.ids : BlockDocument(id, bases) = d}
    IN  IF selection.all \/ (mine # {} /\ extent = WholeDocument) \/ current = ReadWhole THEN ReadWhole
        ELSE IF mine = {} THEN current
        ELSE [read |-> "ranges",
              ranges |-> MergeCandidates(current.ranges \o GroupBlocks(mine, bases[d], extent))]

\* visit_candidate_selections: what a search reads of a document.
CandidateRanges(d, ts, ps, wants) ==
    LET Add(acc, p, extent) == AddSelection(acc, d, ts, Eval(Resolve(PatternQuery(p), ts), ts, extent), extent)
    IN  FoldLeft(LAMBDA acc, p : Add(acc, p, ExtentOf(p, wants)), NotCandidate, ps)

-----------------------------------------------------------------------------
\* Where a pattern matches at position i: the end of the match, or -1.
MatchEnd(p, bytes, i) ==
    LET Reads(j, w) == j + Len(w) <= Len(bytes) /\ SubSeq(bytes, j + 1, j + Len(w)) = w
        At(w) == Reads(i, w)
        Run(b, j) == Max({n \in 0..Max({Len(bytes) - j, 0}) : \A k \in 1..n : bytes[j + k] = b})
        w1 == p.words[1]
        first == {k \in DOMAIN p.words : At(p.words[k])}
        w2 == p.words[2]
        ends == {e \in (i + Len(w1) + Len(w2))..Len(bytes) :
                    /\ SubSeq(bytes, e - Len(w2) + 1, e) = w2
                    /\ \A k \in (i + 1)..e : bytes[k] # Newline}
    IN  CASE p.kind = "word" -> IF first = {} THEN -1 ELSE i + Len(p.words[Min(first)])
          [] p.kind = "more" -> IF At(w1) THEN i + Len(w1) + Run(Last(w1), i + Len(w1)) ELSE -1
          [] p.kind = "less" ->
                 LET n == Run(Head(w1), i)
                 IN  IF n > 0 /\ Reads(i + n, Tail(w1)) THEN i + n + Len(w1) - 1 ELSE -1
          [] p.kind = "line" -> IF At(w1) /\ (i = 0 \/ bytes[i] = Newline) THEN i + Len(w1) ELSE -1
          [] p.kind = "top" -> IF At(w1) /\ i = 0 THEN i + Len(w1) ELSE -1
          [] p.kind = "gap" -> IF At(w1) /\ ends # {} THEN Max(ends) ELSE -1
          [] p.kind = "end" -> IF i = Len(bytes) \/ bytes[i + 1] = Newline THEN i ELSE -1

\* What has to be seen of a match: all of it, or what proves it.
ProofOf(p, i, end) ==
    CASE p.kind = "more" -> [lo |-> i, hi |-> i + WitnessBytes(p)]
      [] p.kind = "less" -> [lo |-> end - WitnessBytes(p), hi |-> end]
      [] OTHER -> [lo |-> i, hi |-> end]

\* A match of p is in the ranges, and in an extent as broad as p needs.
IsRead(p, i, end, extent, ranges) ==
    LET seen == IF extent.kind = "bytes" THEN ProofOf(p, i, end) ELSE [lo |-> i, hi |-> end]
        Covers(r) == r.lo * LineBlock <= seen.lo /\ seen.hi <= r.hi * LineBlock
    IN  end # -1 => \E j \in DOMAIN ranges : Covers(ranges[j]) /\ Broader(ranges[j].extent, extent) = ranges[j].extent
AllRead(bytes, read) ==
    read # ReadWhole => \A k \in DOMAIN patterns, i \in 0..(Len(bytes) - 1) :
        IsRead(patterns[k], i, MatchEnd(patterns[k], bytes, i), ExtentOf(patterns[k], detail), read.ranges)

\* Every match, or what proves it, lies in a range that is read in an extent as
\* broad as its pattern needs; what is not read holds no match.
MatchesAreRead ==
    patterns # <<>> => \A d \in DOMAIN texts : AllRead(texts[d], CandidateRanges(d, texts, patterns, detail))

\* Reading a document window by window from a file gives the grams, the newlines
\* and the longest line that it has in memory.
FileIsMemory ==
    patterns = <<>> => \A d \in DOMAIN texts :
        FileBlocks(texts[d]) = [grams |-> BlockGrams(texts[d]), newlines |-> BlockNewlines(texts[d]),
                                maxLine |-> MaxLine(texts[d])]

\* Every text that holds a literal has all the sparse grams that cover it.
SparseCovers ==
    patterns = <<>> /\ Len(texts) = 1 => \A w \in PairWeights :
        LET t == texts[1]
            indexed == SparseGrams(w, t)
        IN  \A i, j \in DOMAIN t : i < j => CoveringGrams(w, SubSeq(t, i, j)) \subseteq indexed

\* The index has every gram that a query may ask for, and the ranges read have every
\* match: nothing is missed silently.
NoMatchMissed == FileIsMemory /\ SparseCovers /\ MatchesAreRead
=============================================================================
