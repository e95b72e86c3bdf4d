----------------------------- MODULE PackLayout -----------------------------
(***************************************************************************)
(* Regions of documents in packs (crates/index/src/pack.rs).               *)
(*                                                                         *)
(* From the blocks of a document (PackWriter) a reader cuts out the whole  *)
(* document or the regions a search asks for, extended to whole lines with *)
(* context; several documents are fetched in windows of bounded size.      *)
(***************************************************************************)
EXTENDS Grams, PackWriter

CONSTANTS
    RegionGap,          \* REGION_GAP_BYTES
    RegionMax,          \* REGION_MAX_RANGES
    LargeBytes,         \* LARGE_DOCUMENT_BYTES
    WindowBytes,        \* WINDOW_BYTES
    WindowDocuments,    \* WINDOW_DOCUMENTS
    Asked               \* sequences of ranges a search may ask for

ASSUME PackLayoutAssumption ==
    {RegionMax, LargeBytes, WindowBytes, WindowDocuments} \subseteq Nat \ {0} /\ RegionGap \in Nat

VARIABLE request    \* what a search asks of which document

packVars == <<writerVars, request>>

NoRequest == [document |-> 0, ranges |-> <<>>]

\* Whole lines with context, or bytes in which a match of a bounded length lies.
FullLines(lo, hi, before, after) ==
    [lo |-> lo, hi |-> hi, lines |-> TRUE, before |-> before, after |-> after, span |-> 1]
Regional(lo, hi, span) ==
    [lo |-> lo, hi |-> hi, lines |-> FALSE, before |-> 0, after |-> 0, span |-> span]

PackInit == WriterInit /\ request = NoRequest

-----------------------------------------------------------------------------
\* The newlines of each line block, which the index keeps with the document.
BlockNewlines(bytes) ==
    [b \in 1..((Len(bytes) + LineBlock - 1) \div LineBlock) |->
        NewlineCount(SubSeq(bytes, (b - 1) * LineBlock + 1, Min({b * LineBlock, Len(bytes)})))]

NewlinesAt(parts, blocks, lo, hi) ==
    LET Ends(bytes) == {lo + i - 1 : i \in {i \in DOMAIN bytes : bytes[i] = Newline}}
    IN  Ends(ReadRange(parts, blocks, lo, hi))

\* extend_line_range: back over the line blocks, not reading those without a
\* newline, until enough newlines are behind; then forward.
LineStartFrom(parts, blocks, counts, from, context) ==
    LET RECURSIVE Back(_, _)
        Back(start, needed) ==
            LET block == (start - 1) \div LineBlock
                seen == NewlinesAt(parts, blocks, block * LineBlock, start)
            IN  IF start = 0 THEN 0
                ELSE IF counts[block + 1] = 0 THEN Back(block * LineBlock, needed)
                ELSE IF Cardinality(seen) >= needed THEN NthLargest(seen, needed) + 1
                ELSE Back(block * LineBlock, needed - Cardinality(seen))
    IN  Back(from, context + 1)

\* Mutant of EndsLine: the last byte of the range is not looked at.
EndsLineNever(parts, blocks, end) == FALSE

EndsLine(parts, blocks, end) == end > 0 /\ NewlinesAt(parts, blocks, end - 1, end) # {}

LineEndFrom(parts, blocks, counts, size, from, context) ==
    LET RECURSIVE Forward(_, _)
        Forward(end, needed) ==
            LET block == end \div LineBlock
                blockEnd == Min({(block + 1) * LineBlock, size})
                seen == NewlinesAt(parts, blocks, end, blockEnd)
            IN  IF end = size \/ needed = 0 THEN end
                ELSE IF counts[block + 1] = 0 THEN Forward(blockEnd, needed)
                ELSE IF Cardinality(seen) >= needed THEN NthSmallest(seen, needed) + 1
                ELSE Forward(blockEnd, needed - Cardinality(seen))
    IN  Forward(from, IF EndsLine(parts, blocks, from) THEN context ELSE context + 1)

\* locate_line: the number and the start of the line a position is in, from the
\* counts of the blocks before it and the last newline in front of it.
LocateLine(parts, blocks, counts, offset) ==
    LET block == offset \div LineBlock
        before == {b \in 1..block : counts[b] > 0}
        Behind(within) ==
            IF within # {} \/ before = {} THEN within
            ELSE NewlinesAt(parts, blocks, (Max(before) - 1) * LineBlock, Max(before) * LineBlock)
        At(within, behind) ==
            [line |-> 1 + MapThenSumSet(LAMBDA b : counts[b], 1..block) + Cardinality(within),
             lineOffset |-> IF behind = {} THEN 0 ELSE Max(behind) + 1]
        From(within) == At(within, Behind(within))
    IN  From(IF block + 1 \in DOMAIN counts /\ counts[block + 1] > 0
             THEN NewlinesAt(parts, blocks, block * LineBlock, offset) ELSE {})

-----------------------------------------------------------------------------
\* merge_planned_ranges: ranges closer than a gap become one, which is read in
\* whole lines when either is.
MergeRanges(ranges, gap) ==
    LET Add(merged, r) ==
            LET p == Last(merged)
                both == [p EXCEPT !.hi = Max({@, r.hi}), !.lines = @ \/ r.lines,
                                  !.before = Max({@, r.before}), !.after = Max({@, r.after})]
            IN  IF merged # <<>> /\ r.lo - p.hi <= gap
                THEN [merged EXCEPT ![Len(merged)] = both] ELSE Append(merged, r)
    IN  FoldLeft(Add, <<>>, SortSeq(ranges, LAMBDA a, b : a.lo < b.lo))

Covered(ranges) == FoldLeft(LAMBDA n, r : n + (r.hi - r.lo), 0, ranges)

\* A match that touches the bytes may start or end up to its length outside.
Widened(r, size) ==
    [r EXCEPT !.lo = Max({@ - (r.span - 1), 0}), !.hi = Min({@ + (r.span - 1), size})]

\* plan_pack_ranges gives up when there are too many ranges or they cover most.
PlanRanges(ranges, size) ==
    MergeRanges([i \in DOMAIN ranges |-> Widened(ranges[i], size)], RegionGap)
ReadsWhole(plan, size) == Len(plan) > RegionMax \/ 2 * Covered(plan) > size

\* A range of whole lines is extended to where they start and end.
Extended(parts, blocks, counts, size, r) ==
    IF ~r.lines THEN r
    ELSE [r EXCEPT !.lo = LineStartFrom(parts, blocks, counts, r.lo, r.before),
                   !.hi = LineEndFrom(parts, blocks, counts, size, r.hi, r.after)]

\* A region knows the line it starts in.
ReadRegion(parts, blocks, counts, r) ==
    LET At(place) == [start |-> r.lo, line |-> place.line, lineOffset |-> place.lineOffset, full |-> r.lines,
                      bytes |-> ReadRange(parts, blocks, r.lo, r.hi)]
    IN  At(LocateLine(parts, blocks, counts, r.lo))

ReadExact(parts, blocks, counts, exact) ==
    [i \in DOMAIN exact |-> ReadRegion(parts, blocks, counts, exact[i])]

ReadPlan(parts, blocks, counts, size, plan) ==
    IF ReadsWhole(plan, size)
    THEN [whole |-> TRUE, body |-> ReadRange(parts, blocks, 0, size), regions |-> <<>>]
    ELSE [whole |-> FALSE, body |-> <<>>,
          regions |-> ReadExact(parts, blocks, counts,
                          MergeRanges([i \in DOMAIN plan |-> Extended(parts, blocks, counts, size, plan[i])], 0))]

\* fetch_regions: the document is read whole, or its ranges are extended, those
\* that touch then are merged, and each is read.
FetchRegions(slice, size, blocks, counts, ranges) ==
    ReadPlan(DocumentBlocks(slice, size, blocks), blocks, counts, size, PlanRanges(ranges, size))

\* Mutant of IsLarge: a document of exactly the limit is not large.
IsLargeAbove(size) == size > LargeBytes

IsLarge(size) == size >= LargeBytes

\* request_windows: how many documents are fetched at once; a large one goes alone.
RequestWindows(sizes) ==
    Batches(sizes, LAMBDA window, size :
        /\ Len(window) < WindowDocuments
        /\ ~IsLarge(size) /\ ~IsLarge(Last(window))
        /\ FoldLeft(LAMBDA n, s : n + s, 0, window) + size <= WindowBytes)

AskRegions(d, ranges) ==
    /\ packed /\ request = NoRequest
    /\ d \in DOMAIN documents
    /\ \A i \in DOMAIN ranges : ranges[i].hi <= Len(documents[d].bytes)
    /\ request' = [document |-> d, ranges |-> ranges]
    /\ UNCHANGED writerVars

PackNext ==
    \/ WriterNext /\ UNCHANGED request
    \/ \E d \in 1..MaxDocuments, ranges \in Asked : AskRegions(d, ranges)

-----------------------------------------------------------------------------
\* What lines a position is in and where whole lines with context end, counted
\* over the document itself.
NewlinesIn(bytes, lo, hi) == {i \in lo..(hi - 1) : bytes[i + 1] = Newline}
LineStarts(bytes) == {0} \cup {i + 1 : i \in NewlinesIn(bytes, 0, Len(bytes) - 1)}
LineEnds(bytes) == {i + 1 : i \in NewlinesIn(bytes, 0, Len(bytes))} \cup {Len(bytes)}
LinesFrom(bytes, r) ==
    LET above == {s \in LineStarts(bytes) : s <= r.lo}
        below == {e \in LineEnds(bytes) : e >= r.hi}
    IN  [lo |-> NthLargest(above, Min({r.before + 1, Cardinality(above)})),
         hi |-> NthSmallest(below, Min({r.after + 1, Cardinality(below)}))]

\* The bytes that a range asks for: whole lines with their context, or its own bytes
\* and as many on each side as a match may have beyond them.
Wanted(bytes, r) ==
    LET reach == {i \in 0..Len(bytes) : \E j \in r.lo..r.hi : i - j \in (1 - r.span)..(r.span - 1)}
    IN  IF r.lines THEN LinesFrom(bytes, r) ELSE [lo |-> Min(reach), hi |-> Max(reach)]

RegionEnd(g) == g.start + Len(g.bytes)
IsPlaced(bytes, g) ==
    /\ g.bytes = SubSeq(bytes, g.start + 1, RegionEnd(g))
    /\ g.line = 1 + Cardinality(NewlinesIn(bytes, 0, g.start))
    /\ g.lineOffset = Max({0} \cup {n + 1 : n \in NewlinesIn(bytes, 0, g.start)})
IsHeld(w, regions, alone) ==
    \E j \in DOMAIN regions :
        /\ regions[j].start <= w.lo /\ w.hi <= RegionEnd(regions[j])
        /\ alone => regions[j].start = w.lo /\ w.hi = RegionEnd(regions[j])

AnswersRanges(bytes, ranges, answer) ==
    IF answer.whole THEN answer.body = bytes
    ELSE /\ \A i \in DOMAIN answer.regions :
               /\ IsPlaced(bytes, answer.regions[i])
               /\ i > 1 => RegionEnd(answer.regions[i - 1]) < answer.regions[i].start
         /\ \A i \in DOMAIN ranges : IsHeld(Wanted(bytes, ranges[i]), answer.regions, Len(ranges) = 1)

\* Each range asked for is inside one region, with the lines and the context it
\* asks for and, when it is the only one, nothing else; regions are in order, hold
\* the bytes of the document, and start in the line they say.
RegionsAnswer ==
    request # NoRequest =>
        LET doc == documents[request.document]
        IN  AnswersRanges(doc.bytes, request.ranges,
                FetchRegions(doc.slice, Len(doc.bytes), builder.blocks, BlockNewlines(doc.bytes), request.ranges))

\* Windows hold every request once and in order, no more bytes than the limit
\* except for a single document, and a large document is never read with others.
WindowsBounded ==
    packed /\ request = NoRequest =>
        LET sizes == [d \in DOMAIN documents |-> Len(documents[d].bytes)]
            windows == RequestWindows(sizes)
        IN  /\ FlattenSeq(windows) = sizes
            /\ \A i \in DOMAIN windows : Len(windows[i]) > 1 =>
                  /\ FoldLeft(LAMBDA n, s : n + s, 0, windows[i]) <= WindowBytes
                  /\ \A j \in DOMAIN windows[i] : windows[i][j] < LargeBytes

\* Wherever documents, blocks and packs end: documents, ranges, regions and windows
\* are what a reader of the whole texts would make of them.
PacksSound ==
    /\ request = NoRequest => ReadsBack /\ RunsAreRanges /\ PacksBounded
    /\ RegionsAnswer /\ WindowsBounded
=============================================================================
