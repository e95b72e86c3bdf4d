--------------------------- MODULE RegionalSearch ---------------------------
(***************************************************************************)
(* Verification of a candidate document                                    *)
(* (crates/index/src/search/verify.rs, crates/core/src/grep.rs): the       *)
(* document is read whole or in the regions its candidate ranges give, the *)
(* patterns are run over what was read, and what the search wants is made  *)
(* of the matches: whether there is one, the matching lines, how many      *)
(* matches, the lines themselves with context, or windows around matches.  *)
(***************************************************************************)
EXTENDS Candidates

CONSTANTS
    Options,        \* [before, after, max]: context and the cap on lines, 0 for none
    FileChunk,      \* FILE_MATCH_CHUNK
    WindowMax       \* bytes of a match window

VARIABLE
    verified        \* the document that was verified: [document, options, answer]

NotVerified == [document |-> 0]

-----------------------------------------------------------------------------
\* find_iter: leftmost matches one after the other, the first pattern of the
\* program winning, no empty match right behind another one.
FindIter(ids, bytes) ==
    LET Ends(i) == {k \in ids : MatchEnd(patterns[k], bytes, i) # -1}
        At(i, k) == [pattern |-> k, start |-> i, end |-> MatchEnd(patterns[k], bytes, i)]
        RECURSIVE From(_, _), Take(_, _, _)
        From(at, last) ==
            LET hits == {i \in at..Len(bytes) : Ends(i) # {}}
                start == Min(hits)
            IN  IF hits = {} THEN <<>> ELSE Take(at, last, At(start, Min(Ends(start))))
        Take(at, last, m) ==
            IF m.start = m.end /\ m.end = last THEN From(at + 1, last) ELSE <<m>> \o From(m.end, m.end)
    IN  From(0, -1)

Programs(full) ==
    {k \in DOMAIN patterns :
        ExtentOf(patterns[k], detail).kind \in {"bytes"} \cup (IF full THEN {"lines"} ELSE {})}

\* Mutant of LineValid: a match at the end is in no line.
LineValidBefore(bytes, at, start, size) == start < size

\* region_match_is_line_valid: an empty match at the very end is in the last line
\* unless that has been ended.
LineValid(bytes, at, start, size) ==
    \/ start < size
    \/ start = size /\ at > 0 /\ bytes[at] # Newline

\* The line of a position, counted from where the bytes start.
LineAt(bytes, at, line, lineOffset, start) ==
    LET seen == {i \in 1..at : bytes[i] = Newline}
    IN  [line |-> line + Cardinality(seen),
         lineOffset |-> IF seen = {} THEN lineOffset ELSE start + Max(seen)]

Matched(m, at, lo, hi) ==
    [pattern |-> m.pattern, lo |-> lo, hi |-> hi, line |-> at.line, lineOffset |-> at.lineOffset]

\* Mutant of CapLines: the cap is on matches.
CapLinesEach(matches, max) == IF max = 0 THEN matches ELSE SubSeq(matches, 1, Min({max, Len(matches)}))

\* sort_region_matches: each match once, by line and place, the lines capped.
CapLines(matches, max) ==
    LET once == FoldLeft(LAMBDA acc, m : IF m \in ToSet(acc) THEN acc ELSE Append(acc, m), <<>>, matches)
        sorted == SortSeq(once, LAMBDA a, b : a.lo < b.lo \/ (a.lo = b.lo /\ (a.hi < b.hi \/ (a.hi = b.hi /\ a.pattern < b.pattern))))
        Before(m) == {n.line : n \in {n \in ToSet(matches) : n.line < m.line}}
    IN  SelectSeq(sorted, LAMBDA m : max = 0 \/ Cardinality(Before(m)) < max)

\* find_region_matches: in a region of bytes a match counts as what proves it.
RegionMatches(region, size) ==
    LET Span(m) == IF region.full THEN [lo |-> m.start, hi |-> m.end]
                   ELSE ProofOf(patterns[m.pattern], m.start, m.end)
        Valid(m) == LineValid(region.bytes, Span(m).lo, region.start + Span(m).lo, size)
        At(m, s) == Matched(m, LineAt(region.bytes, s.lo, region.line, region.lineOffset, region.start),
                            region.start + s.lo, region.start + s.hi)
        Placed(valid) == [i \in DOMAIN valid |-> At(valid[i], Span(valid[i]))]
    IN  Placed(SelectSeq(FindIter(Programs(region.full), region.bytes), Valid))

FindRegionMatches(regions, size, max) ==
    CapLines(FlattenSeq([i \in DOMAIN regions |-> RegionMatches(regions[i], size)]), max)

\* find_whole_matches.
FindWholeMatches(bytes, max) ==
    LET Valid(m) == LineValid(bytes, m.start, m.start, Len(bytes))
        At(m) == Matched(m, LineAt(bytes, m.start, 1, 0, 0), m.start, m.end)
        Placed(found) == [i \in DOMAIN found |-> At(found[i])]
    IN  CapLines(Placed(SelectSeq(FindIter(DOMAIN patterns, bytes), Valid)), max)

\* build_count_events: one event for each line.
CountEvents(matches) ==
    LET lines == {m.line : m \in ToSet(matches)}
        First(l) == Min({i \in DOMAIN matches : matches[i].line = l})
    IN  [i \in 1..Cardinality(lines) |->
            LET l == Ascending(lines)[i]
            IN  [line |-> l, offset |-> matches[First(l)].lineOffset,
                 count |-> Cardinality({j \in DOMAIN matches : matches[j].line = l})]]

-----------------------------------------------------------------------------
\* The lines of some bytes: where each starts, where its content ends, where it ends.
LinesOf(bytes) ==
    LET RECURSIVE From(_)
        From(pos) ==
            LET ends == {i \in (pos + 1)..Len(bytes) : bytes[i] = Newline}
                line == IF ends = {} THEN [lo |-> pos, content |-> Len(bytes), hi |-> Len(bytes)]
                        ELSE [lo |-> pos, content |-> Min(ends) - 1, hi |-> Min(ends)]
            IN  IF pos >= Len(bytes) THEN <<>> ELSE <<line>> \o From(line.hi)
    IN  From(0)

Event(bytes, l, line, match, subs) ==
    [line |-> l, match |-> match, offset |-> line.lo, text |-> SubSeq(bytes, line.lo + 1, line.hi), subs |-> subs]

\* Mutant of Drained: a capped search stops with its last line.
DrainedAtOnce(acc, opts) == opts.max > 0 /\ acc.matched = opts.max

\* No line can follow: the cap is reached, or no match is left, and the context is out.
Drained(acc, opts) == ((opts.max > 0 /\ acc.matched = opts.max) \/ acc.left = <<>>) /\ acc.after = 0

\* grep_matches: line by line with a ring of lines that may become context.  A line
\* with matches, a line of context behind one, or one that may come in front.
GrepLine(acc, bytes, lines, l, mine, opts) ==
    LET line == lines[l]
        subs == [i \in DOMAIN mine |-> [lo |-> mine[i].start - line.lo,
                                        hi |-> Max({Min({mine[i].end, line.content}), mine[i].start}) - line.lo]]
        ring == IF opts.before = 0 THEN <<>>
                ELSE IF Len(acc.ring) = opts.before THEN Append(Tail(acc.ring), l) ELSE Append(acc.ring, l)
        rest == [acc EXCEPT !.left = SubSeq(@, Len(mine) + 1, Len(@))]
    IN  IF mine # <<>> /\ ~(opts.max > 0 /\ acc.matched = opts.max)
        THEN [rest EXCEPT !.out = @ \o [i \in DOMAIN acc.ring |-> Event(bytes, acc.ring[i], lines[acc.ring[i]], FALSE, <<>>)]
                                    \o <<Event(bytes, l, line, TRUE, subs)>>,
                          !.ring = <<>>, !.matched = @ + 1, !.after = opts.after]
        ELSE IF acc.after > 0
        THEN [rest EXCEPT !.out = Append(@, Event(bytes, l, line, FALSE, subs)), !.after = @ - 1]
        ELSE [rest EXCEPT !.ring = ring]

GrepLines(bytes, lines, matches, opts) ==
    LET Checked(acc) == [acc EXCEPT !.stopped = Drained(acc, opts)]
        Mine(acc, line) == SelectSeq(acc.left, LAMBDA m : m.start <= line.content)
        Step(acc, l) == IF acc.stopped THEN acc
                        ELSE Checked(GrepLine(acc, bytes, lines, l, Mine(acc, lines[l]), opts))
    IN  FoldLeft(Step, [out |-> <<>>, ring |-> <<>>, matched |-> 0, after |-> 0, left |-> matches, stopped |-> FALSE],
                 [l \in DOMAIN lines |-> l]).out

GrepMatches(bytes, matches, opts) == GrepLines(bytes, LinesOf(bytes), matches, opts)

\* merge_line_events: a line that two regions show.
Merged(a, b) ==
    IF a.match = b.match THEN [a EXCEPT !.subs = IF a.match THEN SetToSortSeq(ToSet(a.subs) \cup ToSet(b.subs),
                                                       LAMBDA x, y : x.lo < y.lo \/ (x.lo = y.lo /\ x.hi < y.hi)) ELSE @]
    ELSE IF b.match THEN b ELSE a

MergeEvents(events) ==
    LET Add(acc, e) == IF acc # <<>> /\ Last(acc).line = e.line
                       THEN [acc EXCEPT ![Len(acc)] = Merged(@, e)] ELSE Append(acc, e)
    IN  FoldLeft(Add, <<>>, SortSeq(events, LAMBDA a, b : a.line < b.line \/ (a.line = b.line /\ a.match /\ ~b.match)))

\* The document as the pack reader sees it.
Slice == [first |-> 1, offset |-> 0]
Blocks(bytes) == <<[pack |-> 1, offset |-> 0, len |-> 1, bytes |-> bytes]>>
ReadRegions(bytes, ranges) == FetchRegions(Slice, Len(bytes), Blocks(bytes), BlockNewlines(bytes), ranges)

\* collect_line_events: region after region until the cap is used up.
CollectLines(fetched, opts) ==
    LET Add(acc, region, found) ==
            [events |-> acc.events \o [i \in DOMAIN found |->
                            [found[i] EXCEPT !.line = @ + region.line - 1, !.offset = @ + region.start]],
             matched |-> acc.matched + Len(SelectSeq(found, LAMBDA e : e.match))]
        Step(acc, region) ==
            LET left == IF opts.max = 0 THEN 0 ELSE opts.max - acc.matched
            IN  IF opts.max > 0 /\ left = 0 THEN acc
                ELSE Add(acc, region, GrepMatches(region.bytes, FindIter(Programs(region.full), region.bytes),
                                                  [opts EXCEPT !.max = left]))
    IN  IF fetched.whole THEN GrepMatches(fetched.body, FindIter(DOMAIN patterns, fetched.body), opts)
        ELSE MergeEvents(FoldLeft(Step, [events |-> <<>>, matched |-> 0], fetched.regions).events)

\* fetch_full_lines: the lines of the matches are read again, with their context.
FullLinesOf(bytes, matches, opts) ==
    LET Read(m) == IF m.lo = m.hi THEN LET a == Min({m.lo, Len(bytes) - 1}) IN FullLines(a, a + 1, opts.before, opts.after)
                    ELSE FullLines(m.lo, m.hi, opts.before, opts.after)
    IN  CollectLines(ReadRegions(bytes, [i \in DOMAIN matches |-> Read(matches[i])]), opts)

-----------------------------------------------------------------------------
\* Mutant of WindowClip: what is spare on one side is not used on the other.
WindowClipCentred(line, end, lo, hi) ==
    LET spare == WindowMax - (hi - lo)
    IN  IF spare < 0 THEN [lo |-> lo, hi |-> lo + WindowMax]
        ELSE [lo |-> Max({lo - spare \div 2, line}), hi |-> hi + (spare - spare \div 2)]

\* window_clip_range: around the match, in its line, as long as allowed.
WindowClip(line, end, lo, hi) ==
    LET spare == WindowMax - (hi - lo)
        a == Max({lo - spare \div 2, line, 0})
        b == Min({hi + (spare - spare \div 2), end})
        left == a - Min({WindowMax - (b - a), a - line})
    IN  IF spare < 0 THEN [lo |-> lo, hi |-> Min({lo + WindowMax, end})]
        ELSE [lo |-> left, hi |-> b + Min({WindowMax - (b - left), end - b})]

\* What a window is cut from: enough is read around the first match of its line.
WindowSource(bytes, ms, whole) ==
    LET anchor == Min({Max({1} \cup {m.hi - m.lo : m \in ToSet(ms)}), WindowMax})
        seed == Regional(Max({ms[1].lo - WindowMax, 0}), Min({ms[1].lo + anchor + WindowMax, Len(bytes)}), 1)
        Part(fetched) == IF fetched.whole THEN [from |-> 0, bytes |-> fetched.body]
                         ELSE [from |-> fetched.regions[1].start, bytes |-> fetched.regions[1].bytes]
    IN  IF whole THEN [from |-> 0, bytes |-> bytes] ELSE Part(ReadRegions(bytes, <<seed>>))

\* The window and the matches that are seen in it.
Window(ms, source, lineEnd, lo, hi) ==
    LET Visible(m) == IF m.lo = m.hi THEN lo <= m.lo /\ m.lo <= hi ELSE m.lo < hi /\ m.hi > lo
        Place(x) == Min({Max({x - lo, 0}), hi - lo})
        Shown(m) == [lo |-> m.lo, hi |-> m.hi, from |-> Place(m.lo), to |-> Place(m.hi),
                     left |-> m.lo < lo, right |-> m.hi > hi]
        shown == SelectSeq(ms, Visible)
    IN  [line |-> ms[1].line, lineOffset |-> ms[1].lineOffset, offset |-> lo,
         text |-> SubSeq(source.bytes, lo - source.from + 1, hi - source.from),
         matches |-> [i \in DOMAIN shown |-> Shown(shown[i])],
         left |-> lo > ms[1].lineOffset, right |-> hi < lineEnd]

\* build_windows, for one line: where the line ends in the source, and the window in it.
BuildWindow(ms, source, size) ==
    LET first == ms[1]
        rel == Max({first.lineOffset - source.from, 0})
        ends == {i \in (rel + 1)..Len(source.bytes) : source.bytes[i] = Newline}
        Clipped(lineEnd, clip) ==
            Window(ms, source, lineEnd, Max({clip.lo, source.from}), Min({clip.hi, source.from + Len(source.bytes)}))
        In(lineEnd) == Clipped(lineEnd, WindowClip(first.lineOffset, lineEnd, first.lo, first.hi))
    IN  In(IF ends = {} THEN size ELSE source.from + Min(ends))

BuildWindows(bytes, matches, whole) ==
    LET lines == Ascending({m.line : m \in ToSet(matches)})
        Of(ms) == BuildWindow(ms, WindowSource(bytes, ms, whole), Len(bytes))
    IN  [i \in DOMAIN lines |-> Of(SelectSeq(matches, LAMBDA m : m.line = lines[i]))]

\* Mutant of StreamOverlap: as much as a match is kept, but its last byte twice.
StreamOverlapShort(spans) == Max(spans) - 2

StreamOverlap(spans) == Max(spans) - 1

\* has_stream_match: chunk after chunk, the end of one kept in front of the next.
HasStreamMatch(bytes, overlap) ==
    LET Kept(seen) == SubSeq(seen, Len(seen) - Min({Len(seen), overlap}) + 1, Len(seen))
        RECURSIVE From(_, _)
        From(pos, carry) ==
            LET seen == carry \o SubSeq(bytes, pos + 1, Min({pos + FileChunk, Len(bytes)}))
            IN  /\ pos < Len(bytes)
                /\ FindIter(DOMAIN patterns, seen) # <<>> \/ From(pos + FileChunk, Kept(seen))
    IN  From(0, <<>>)

\* has_line_match.
HasLineMatch(bytes) ==
    bytes # <<>> /\ \E m \in ToSet(FindIter(DOMAIN patterns, bytes)) : m.start < Len(bytes) \/ Last(bytes) # Newline

-----------------------------------------------------------------------------
\* fetch_initial: the bytes of the candidate ranges, in the extents they have.
InitialRanges(ranges, size) ==
    [i \in DOMAIN ranges |->
        LET lo == ranges[i].lo * LineBlock
            hi == Min({ranges[i].hi * LineBlock, size})
        IN  IF ranges[i].extent.kind = "bytes" THEN Regional(lo, hi, ranges[i].extent.span)
            ELSE FullLines(lo, hi, 0, 0)]

FetchInitial(bytes, read) ==
    IF read = ReadWhole THEN [whole |-> TRUE, body |-> bytes, regions |-> <<>>]
    ELSE ReadRegions(bytes, InitialRanges(read.ranges, Len(bytes)))

\* verify_document of a document that was read whole, maybe from a file.
WholeAnswer(bytes, matches, opts) ==
    LET Plain(m) == [pattern |-> m.pattern, start |-> m.lo, end |-> m.hi]
    IN  CASE detail \in {"lines", "count"} -> CountEvents(matches)
          [] detail = "full" ->
                 IF matches = <<>> THEN <<>> ELSE GrepMatches(bytes, [i \in DOMAIN matches |-> Plain(matches[i])], opts)
          [] detail = "windows" -> BuildWindows(bytes, matches, TRUE)

WholeMatch(bytes, extents) ==
    {HasLineMatch(bytes)}
        \cup (IF \A e \in extents : e.kind = "bytes"
              THEN {HasStreamMatch(bytes, StreamOverlap({e.span : e \in extents}))} ELSE {})

VerifyWhole(bytes, opts) ==
    IF detail = "documents" THEN WholeMatch(bytes, {ExtentOf(patterns[k], detail) : k \in DOMAIN patterns})
    ELSE WholeAnswer(bytes, FindWholeMatches(bytes, IF detail = "full" THEN 0 ELSE opts.max), opts)

\* ... and of one that was read in regions.
RegionsAnswered(bytes, matches, opts) ==
    CASE detail = "documents" -> {matches # <<>>}
      [] detail \in {"lines", "count"} -> CountEvents(matches)
      [] detail = "full" -> IF matches = <<>> THEN <<>> ELSE FullLinesOf(bytes, matches, opts)
      [] detail = "windows" -> BuildWindows(bytes, matches, FALSE)

VerifyRegions(bytes, regions, opts) ==
    RegionsAnswered(bytes, FindRegionMatches(regions, Len(bytes), IF detail = "documents" THEN 0 ELSE opts.max), opts)

VerifyFetched(bytes, fetched, opts) ==
    IF fetched.whole THEN VerifyWhole(bytes, opts) ELSE VerifyRegions(bytes, fetched.regions, opts)

Matches(answer) == IF detail = "documents" THEN TRUE \in answer ELSE answer # <<>>

\* fetch_document_until: for one line, range after range ...
FetchOne(bytes, range) ==
    LET asked == InitialRanges(<<range>>, Len(bytes))[1]
        overlap == range.extent.span - 1
    IN  ReadRegions(bytes, <<IF range.extent.kind = "lines" THEN asked
                             ELSE Regional(Max({asked.lo - overlap, 0}), Min({asked.hi + overlap, Len(bytes)}), 1)>>)

Fetches(bytes, read, opts) ==
    IF opts.max = 1 /\ read # ReadWhole THEN [i \in DOMAIN read.ranges |-> FetchOne(bytes, read.ranges[i])]
    ELSE <<FetchInitial(bytes, read)>>

\* ... until one has a match or is the whole document.
VerifyUntil(bytes, fetched, opts) ==
    LET Until(answers) ==
            LET ends == {i \in DOMAIN fetched : fetched[i].whole \/ Matches(answers[i])}
            IN  answers[IF ends = {} THEN Len(answers) ELSE Min(ends)]
    IN  Until([i \in DOMAIN fetched |-> VerifyFetched(bytes, fetched[i], opts)])

\* search_batch of a candidate.
Verify(d, opts) ==
    /\ patterns # <<>> /\ verified = NotVerified
    /\ d \in DOMAIN texts
    /\ LET read == CandidateRanges(d, texts, patterns, detail)
       IN  /\ read # NotCandidate
           /\ verified' = [document |-> d, options |-> opts,
                           answer |-> VerifyUntil(texts[d], Fetches(texts[d], read, opts), opts)]
    /\ UNCHANGED candidateVars

SearchInit == CandidatesInit /\ verified = NotVerified
SearchNext ==
    \/ CandidatesNext /\ UNCHANGED verified
    \/ \E d \in 1..2, opts \in Options : Verify(d, opts)

-----------------------------------------------------------------------------
\* The lines with a match, looked for line by line in the whole document.
HitLines(bytes) ==
    LET lines == LinesOf(bytes)
    IN  {l \in DOMAIN lines : \E i \in lines[l].lo..lines[l].content, k \in DOMAIN patterns :
            MatchEnd(patterns[k], bytes, i) # -1}
FirstOf(hits, max) == {l \in hits : max = 0 \/ Cardinality({h \in hits : h < l}) < max}

Answer == verified.answer
Body == texts[verified.document]
Hits == FirstOf(HitLines(Body), verified.options.max)
Is(wants) == verified # NotVerified /\ detail = wants

\* A document is said to match exactly when one of its lines does.
DocumentsFound == Is("documents") => Answer = {HitLines(Body) # {}}

\* The matching lines are found, each once, up to the cap, and with their places,
\* whether the document was read whole or in regions.
LinesFound ==
    Is("lines") =>
        /\ {[line |-> e.line, offset |-> e.offset] : e \in ToSet(Answer)}
              = {[line |-> l, offset |-> LinesOf(Body)[l].lo] : l \in Hits}
        /\ Len(Answer) = Cardinality(Hits)

\* What a search of the whole document counts in each line.
TrueCounts ==
    LET found == ToSet(FindIter(DOMAIN patterns, Body))
        In(line) == {m \in found : line.lo <= m.start /\ m.start <= line.content}
        lines == LinesOf(Body)
    IN  {[line |-> l, offset |-> lines[l].lo, count |-> Cardinality(In(lines[l]))] : l \in Hits}

\* A search for counts reports for each matching line, up to the cap, the matches
\* that a search of the whole document finds there, though regions are cut anywhere.
CountsAgree == Is("count") /\ verified.options.max # 1 => ToSet(Answer) = TrueCounts

\* "`--count-matches -m` still uses exact match spans": the cap on lines does not
\* change how many matches a line is said to have.
FirstCountAgrees == Is("count") => ToSet(Answer) = TrueCounts

\* The lines shown are the matching ones up to the cap and those around them, in
\* order, each once, and a line is marked as a match exactly when it is one.
LinesShown ==
    Is("full") =>
        LET near == {l \in DOMAIN LinesOf(Body) : \E h \in Hits :
                        h - verified.options.before <= l /\ l <= h + verified.options.after}
            shown == Ascending(near)
            line(l) == LinesOf(Body)[l]
        IN  [i \in DOMAIN Answer |-> [Answer[i] EXCEPT !.subs = <<>>]]
              = [i \in DOMAIN shown |-> Event(Body, shown[i], line(shown[i]), shown[i] \in Hits, <<>>)]

\* A window lies in its line, is as long as it may be, holds the start of the first
\* match, and says truly what it shows and what it cuts off.
WindowsTrue ==
    Is("windows") =>
        /\ [i \in DOMAIN Answer |-> Answer[i].line] = Ascending(Hits)
        /\ \A i \in DOMAIN Answer :
              LET w == Answer[i]
                  line == LinesOf(Body)[w.line]
                  end == w.offset + Len(w.text)
              IN  /\ w.lineOffset = line.lo
                  /\ w.text = SubSeq(Body, w.offset + 1, end)
                  /\ line.lo <= w.offset /\ end <= line.hi
                  /\ Len(w.text) <= WindowMax
                  /\ Len(w.text) = Min({WindowMax, line.hi - line.lo}) \/ w.matches[1].hi - w.matches[1].lo > WindowMax
                  /\ w.left = (w.offset > line.lo) /\ w.right = (end < line.hi)
                  /\ \A j \in DOMAIN w.matches :
                        LET m == w.matches[j] IN
                        /\ SubSeq(w.text, m.from + 1, m.to) = SubSeq(Body, Max({m.lo, w.offset}) + 1, Min({m.hi, end}))
                        /\ m.left = (m.lo < w.offset) /\ m.right = (m.hi > end)
                  /\ w.matches # <<>>

\* Whatever a search wants and whatever it reads of a document, it answers what a
\* search of the whole document, line by line, would.
AnswersAgree == DocumentsFound /\ LinesFound /\ CountsAgree /\ LinesShown /\ WindowsTrue
=============================================================================
