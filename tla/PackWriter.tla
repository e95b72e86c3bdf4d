----------------------------- MODULE PackWriter -----------------------------
(***************************************************************************)
(* Packs: how decoded documents are laid out in them and read back whole   *)
(* (crates/index/src/pack.rs).                                             *)
(*                                                                         *)
(* The builder writes the documents of a segment one after the other into  *)
(* blocks of a fixed size, compresses each block and appends it to a pack, *)
(* starting another pack when one is full.  A reader finds the blocks of a *)
(* document from the place of its first byte and fetches them in           *)
(* contiguous runs, some of them from a cache.                             *)
(*                                                                         *)
(* Blocks are numbered from 1, byte positions from 0.                      *)
(***************************************************************************)
EXTENDS Integers, Sequences, FiniteSets, SequencesExt, FiniteSetsExt

CONSTANTS
    Bodies,             \* decoded documents
    MaxDocuments,       \* bound: documents of the segment
    BlockBytes,         \* PACK_BLOCK_BYTES
    PackBytes,          \* PACK_TARGET_BYTES
    RangeBytes          \* RANGE_BYTES

ASSUME PackWriterAssumption ==
    /\ {BlockBytes, PackBytes, RangeBytes} \subseteq Nat \ {0} /\ MaxDocuments \in Nat
    /\ Bodies \subseteq Seq(0..255)

VARIABLES
    builder,    \* PackBuilder: [block, blocks, packs, active]
    documents,  \* what was appended: [bytes, slice]
    packed      \* finish has been called

writerVars == <<builder, documents, packed>>

\* The n-th element of a set of numbers from above or below; all of them in order.
NthLargest(s, n) == CHOOSE x \in s : Cardinality({y \in s : y > x}) = n - 1
NthSmallest(s, n) == CHOOSE x \in s : Cardinality({y \in s : y < x}) = n - 1
Ascending(s) == [n \in 1..Cardinality(s) |-> NthSmallest(s, n)]

\* A loop over a sequence, FoldLeft as a recursive function.
Loop(Step(_, _), base, seq) ==
    LET at[n \in 0..Len(seq)] == IF n = 0 THEN base ELSE Step(at[n - 1], seq[n])
    IN  at[Len(seq)]

WriterInit ==
    /\ builder = [block |-> <<>>, blocks |-> <<>>, packs |-> <<>>, active |-> 0]
    /\ documents = <<>> /\ packed = FALSE

-----------------------------------------------------------------------------
\* The builder.  A compressor is any function of the bytes; this one shortens runs.
CompressedLen(bytes) == 1 + Cardinality({i \in 2..Len(bytes) : bytes[i] # bytes[i - 1]})

FinishPack(b) ==
    IF b.active = 0 THEN b ELSE [b EXCEPT !.packs = Append(@, b.active), !.active = 0]

\* Mutant of Rotates: a pack is filled up before the next one starts.
RotatesWhenFull(b, len) == b.active >= PackBytes

\* A block that would make the pack too long goes into the next one.
Rotates(b, len) == b.active > 0 /\ b.active + len > PackBytes

FlushBlock(b) ==
    LET len == CompressedLen(b.block)
        p == IF Rotates(b, len) THEN FinishPack(b) ELSE b
    IN  IF b.block = <<>> THEN b
        ELSE [p EXCEPT !.active = @ + len, !.block = <<>>,
                       !.blocks = Append(@, [pack |-> Len(p.packs) + 1, offset |-> p.active,
                                             len |-> len, bytes |-> b.block])]

AppendByte(b, byte) ==
    LET n == [b EXCEPT !.block = Append(@, byte)]
    IN  IF Len(n.block) = BlockBytes THEN FlushBlock(n) ELSE n

\* Mutant of SliceOf: the block is taken for an empty one.
SliceOfBlock(b, bytes) == [first |-> Len(b.blocks) + 1, offset |-> 0]

\* Where the next document starts; an empty one is nowhere.
SliceOf(b, bytes) ==
    IF bytes = <<>> THEN [first |-> 1, offset |-> 0]
    ELSE [first |-> Len(b.blocks) + 1, offset |-> Len(b.block)]

AppendDocument(bytes) ==
    /\ ~packed /\ Len(documents) < MaxDocuments
    /\ builder' = Loop(AppendByte, builder, bytes)
    /\ documents' = Append(documents, [bytes |-> bytes, slice |-> SliceOf(builder, bytes)])
    /\ UNCHANGED packed

FinishPacks ==
    /\ ~packed /\ documents # <<>>
    /\ builder' = FinishPack(FlushBlock(builder))
    /\ packed' = TRUE
    /\ UNCHANGED documents

WriterNext ==
    \/ \E bytes \in Bodies : AppendDocument(bytes)
    \/ FinishPacks

-----------------------------------------------------------------------------
\* document_blocks, along block_span: the parts of a document in its blocks, one
\* after the other until there is as much as the document has.
FurtherParts(parts, slice, size, blocks) ==
    LET id == slice.first + Len(parts)
        offset == IF parts = <<>> THEN slice.offset ELSE 0
        start == IF parts = <<>> THEN 0 ELSE Last(parts).start + Last(parts).len
        len == Min({size - start, Len(blocks[id].bytes) - offset})
    IN  IF start = size \/ id \notin DOMAIN blocks THEN parts
        ELSE Append(parts, [id |-> id, start |-> start, offset |-> offset, len |-> len])

DocumentBlocks(slice, size, blocks) ==
    LET part[n \in 0..Len(blocks)] ==
            IF n = 0 THEN <<>> ELSE FurtherParts(part[n - 1], slice, size, blocks)
    IN  part[Len(blocks)]

\* Neighbours in one pack are fetched together, up to a size.
AddToRuns(runs, id, b) ==
    LET last == Last(runs)
    IN  IF /\ runs # <<>> /\ last.pack = b.pack
           /\ last.offset + last.len = b.offset /\ last.len + b.len <= RangeBytes
        THEN [runs EXCEPT ![Len(runs)] = [last EXCEPT !.len = last.len + b.len, !.ids = Append(last.ids, id)]]
        ELSE Append(runs, [pack |-> b.pack, offset |-> b.offset, len |-> b.len, ids |-> <<id>>])

BlockRuns(ids, blocks) == Loop(LAMBDA runs, id : AddToRuns(runs, id, blocks[id]), <<>>, ids)

\* Cut a sequence into batches: an element starts another one when it does not fit.
Batches(seq, Fits(_, _)) ==
    Loop(LAMBDA acc, e : IF acc # <<>> /\ Fits(Last(acc), e)
                         THEN [acc EXCEPT ![Len(acc)] = Append(@, e)] ELSE Append(acc, <<e>>),
         <<>>, seq)

InBatch(batch, run) ==
    /\ Last(batch).pack = run.pack
    /\ FoldLeft(LAMBDA n, r : n + r.len, 0, batch) + run.len <= RangeBytes

RunBatches(runs) == Batches(runs, InBatch)

\* visit_blocks: pack by pack and batch by batch, in the order of the runs, whether
\* a run comes from the cache or is fetched.
VisitBlocks(ids, blocks) ==
    LET batches == RunBatches(BlockRuns(ids, blocks))
        runs == FlattenSeq(batches)
    IN  FlattenSeq([i \in DOMAIN runs |-> runs[i].ids])

\* fetch_large: the blocks of a long document are appended as they come.
TakeBlock(acc, size, from) ==
    LET n == Min({size - Len(acc.out), Len(from) - acc.offset})
    IN  [out |-> acc.out \o SubSeq(from, acc.offset + 1, acc.offset + n), offset |-> 0]

FetchLarge(slice, size, blocks) ==
    LET parts == DocumentBlocks(slice, size, blocks)
    IN  Loop(LAMBDA acc, id : TakeBlock(acc, size, blocks[id].bytes),
             [out |-> <<>>, offset |-> slice.offset],
             VisitBlocks([i \in DOMAIN parts |-> parts[i].id], blocks)).out

\* The part overlaps bytes lo..hi-1: its block is loaded for them.
Overlaps(p, lo, hi) == p.start + p.len > lo /\ p.start < hi

\* read_range: bytes lo..hi-1 of the document.
CutOf(p, from, lo, hi) ==
    SubSeq(from, p.offset + Max({lo - p.start, 0}) + 1, p.offset + Min({hi - p.start, p.len}))

ReadRange(parts, blocks, lo, hi) ==
    Loop(LAMBDA bytes, p : IF Overlaps(p, lo, hi) THEN bytes \o CutOf(p, blocks[p.id].bytes, lo, hi) ELSE bytes,
         <<>>, parts)

-----------------------------------------------------------------------------
\* Every document is read back as it was appended, in one piece and block by
\* block, wherever blocks and packs end.
ReadsBack ==
    packed =>
        \A d \in DOMAIN documents :
            LET size == Len(documents[d].bytes)
                parts == DocumentBlocks(documents[d].slice, size, builder.blocks)
            IN  /\ ReadRange(parts, builder.blocks, 0, size) = documents[d].bytes
                /\ FetchLarge(documents[d].slice, size, builder.blocks) = documents[d].bytes

\* The blocks of a run follow each other from its first byte to its last.
IsRange(run, blocks) ==
    LET at(j) == blocks[run.ids[j]]
        n == Len(run.ids)
    IN  /\ n > 0 /\ at(1).offset = run.offset /\ at(n).offset + at(n).len = run.offset + run.len
        /\ \A j \in 1..n : at(j).pack = run.pack /\ (j > 1 => at(j).offset = at(j - 1).offset + at(j - 1).len)

\* The runs hold the blocks asked for, and each is one range of one pack, inside it,
\* that holds its blocks and nothing else.
RunsAreRanges ==
    packed =>
        \A ids \in SUBSET DOMAIN builder.blocks :
            LET runs == BlockRuns(Ascending(ids), builder.blocks) IN
            /\ FlattenSeq([i \in DOMAIN runs |-> runs[i].ids]) = Ascending(ids)
            /\ \A i \in DOMAIN runs :
                  /\ IsRange(runs[i], builder.blocks)
                  /\ runs[i].pack \in DOMAIN builder.packs
                  /\ runs[i].offset + runs[i].len <= builder.packs[runs[i].pack]
                  /\ runs[i].len <= RangeBytes \/ Len(runs[i].ids) = 1

\* A pack is longer than its target only when it is one block.
PacksBounded ==
    packed =>
        \A p \in DOMAIN builder.packs :
            builder.packs[p] <= PackBytes \/ \E b \in DOMAIN builder.blocks :
                builder.blocks[b].pack = p /\ builder.blocks[b].len = builder.packs[p]
=============================================================================
