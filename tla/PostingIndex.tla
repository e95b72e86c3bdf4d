---------------------------- MODULE PostingIndex ----------------------------
(***************************************************************************)
(* From (gram, id) entries to a gram's posting list and back: sorted runs   *)
(* that spill to files and are merged (crates/index/src/build/runs.rs), the *)
(* posting blocks (crates/index/src/lib.rs, delta_blocks.rs), the tables    *)
(* that say where a list lies (terms.rs, sparse_table.rs) and the verified  *)
(* ranged reads of a search (remote_terms.rs, postings_table.rs,            *)
(* segment.rs).                                                            *)
(*                                                                         *)
(* A cell of the postings is one packed id or delta, or the width of a      *)
(* delta block; a hash stands for the content it was taken of, so a block   *)
(* verifies when it is the block that was written.                          *)
(***************************************************************************)
EXTENDS Naturals, Integers, Sequences, SequencesExt, FiniteSets, TLC

CONSTANTS
    PostingGrams,   \* the grams, positive numbers
    IdSpace,        \* documents or blocks of the segment
    RunCap,         \* entries that fill the memory budget of a run
    MaxOpenRuns,    \* MAX_OPEN_POSTING_RUNS
    DeltaIds,       \* BLOCK_IDS of delta_blocks.rs
    TermEntries,    \* entries of a block of the sparse term table
    VerifyCells,    \* VERIFY_BLOCK_BYTES
    MaxPushes, MaxRuns, MaxReads    \* bounds of the model

VARIABLES
    strategy,   \* "none" before the build starts, "trigram" or "sparse"
    pushed,     \* every [gram, id] that was pushed
    least,      \* the id of the document or block that pushes
    buffer,     \* entries in memory
    runs,       \* the runs that were written
    built,      \* the segment: its term blocks, postings and the runs merged for them
    stored,     \* what the store holds of it, which may be damaged
    kept,       \* cached blocks of the postings, <<>> for none
    reads,      \* lists read so far
    found       \* the answer of the last read

postingVars == <<strategy, pushed, least, buffer, runs, built, stored, kept, reads, found>>

ASSUME PostingAssumption ==
    /\ {IdSpace, RunCap, DeltaIds, TermEntries, VerifyCells} \subseteq Nat \ {0}
    /\ MaxOpenRuns \in Nat \ {0, 1}
    /\ PostingGrams \subseteq Nat \ {0}
    /\ \E w \in 1..32 : IdSpace <= 2 ^ w    \* a DocId is a u32

NoList == [gram |-> 0, ok |-> FALSE, ids |-> {}]
NotBuilt == [terms |-> <<>>, data |-> <<>>, opened |-> 0]
Ids == 0..(IdSpace - 1)
Before(a, b) == a.gram < b.gram \/ (a.gram = b.gram /\ a.id < b.id)
Ordered(set) == [k \in 1..Cardinality(set) |-> CHOOSE e \in set : Cardinality({f \in set : Before(f, e)}) = k - 1]
UpTo(set) == [k \in 1..Cardinality(set) |-> CHOOSE n \in set : Cardinality({m \in set : m < n}) = k - 1]

PostingInit ==
    /\ strategy = "none" /\ pushed = {} /\ least = 0 /\ buffer = <<>> /\ runs = <<>>
    /\ built = NotBuilt /\ stored = NotBuilt /\ kept = <<>> /\ reads = 0 /\ found = NoList

StartRuns(s) ==
    /\ strategy = "none"
    /\ strategy' = s
    /\ UNCHANGED <<pushed, least, buffer, runs, built, stored, kept, reads, found>>

\* spill, flush: a sorted run without duplicates.
Spilled(rs, entries) == IF entries = <<>> THEN rs ELSE Append(rs, Ordered(ToSet(entries)))

\* A document's sparse grams have a writer, and so runs, of their own; the writer
\* keeps a set. The trigram sink goes on from document to document.
Push(g, id) ==
    /\ strategy # "none" /\ built = NotBuilt /\ Len(runs) < MaxRuns
    /\ id >= least /\ (strategy = "trigram" => [gram |-> g, id |-> id] \notin pushed)
    /\ least' = id
    /\ LET entry == [gram |-> g, id |-> id]
           next == strategy = "sparse" /\ buffer # <<>> /\ Last(buffer).id # id
           from == IF next THEN Spilled(runs, buffer) ELSE runs
           rest == IF next THEN <<>> ELSE buffer
           now == IF strategy = "sparse" /\ entry \in ToSet(rest) THEN rest ELSE Append(rest, entry)
       IN  /\ pushed' = pushed \cup {entry} /\ Cardinality(pushed') <= MaxPushes
           /\ runs' = IF Len(now) >= RunCap THEN Spilled(from, now) ELSE from
           /\ buffer' = IF Len(now) >= RunCap THEN <<>> ELSE now
    /\ UNCHANGED <<strategy, built, stored, kept, reads, found>>

\* write_posting_runs returns at the end of a chunk of documents.
EndChunk ==
    /\ buffer # <<>>
    /\ runs' = Spilled(runs, buffer) /\ buffer' = <<>> /\ least' = least + 1
    /\ UNCHANGED <<strategy, pushed, built, stored, kept, reads, found>>

-----------------------------------------------------------------------------
\* merge_run_group: every run is sorted, so the heap gives the records in order, and
\* no record is written twice.
Records(rs) == UNION {ToSet(rs[r]) : r \in DOMAIN rs}
MergeGroup(group) == Ordered(Records(group))

\* One pass over the runs, a group of MaxOpenRuns at a time.
Pass(rs) ==
    LET groups == (Len(rs) + MaxOpenRuns - 1) \div MaxOpenRuns
        Group(k) == SubSeq(rs, (k - 1) * MaxOpenRuns + 1, IF k * MaxOpenRuns < Len(rs) THEN k * MaxOpenRuns ELSE Len(rs))
    IN  [k \in 1..groups |-> IF Len(Group(k)) = 1 THEN Group(k)[1] ELSE MergeGroup(Group(k))]

\* Mutant of Collapsed: one pass is made.
CollapsedOnce(rs) == IF Len(rs) > MaxOpenRuns THEN Pass(rs) ELSE rs

\* collapse_posting_runs.
Collapsed(rs) ==
    LET after[n \in 0..Len(rs)] ==
            IF n = 0 THEN rs
            ELSE LET now == after[n - 1] IN IF Len(now) > MaxOpenRuns THEN Pass(now) ELSE now
    IN  after[Len(rs)]

\* stored_id_count: a gram at more than half of the ids stores the others.
Complemented(count) == count * 2 > IdSpace
StoredCount(count) == IF Complemented(count) THEN IdSpace - count ELSE count

\* encode_posting_block.
FixedCells(ids) == IF Len(ids) * 2 > IdSpace THEN UpTo(Ids \ ToSet(ids)) ELSE ids

BitsFor(n) == CHOOSE w \in 1..32 : n < 2 ^ w /\ \A v \in 1..(w - 1) : n >= 2 ^ v

Width(deltas) == BitsFor(Max(ToSet(deltas)))

\* encode_delta_blocks: each block of deltas packed at a width of its own.
DeltaCells(ids) ==
    LET Delta(i) == IF i = 1 THEN ids[1] ELSE ids[i] - ids[i - 1] - 1
        blocks == (Len(ids) + DeltaIds - 1) \div DeltaIds
        Block(k) == LET hi == IF k * DeltaIds < Len(ids) THEN k * DeltaIds ELSE Len(ids)
                        ds == [j \in 1..(hi - (k - 1) * DeltaIds) |-> Delta((k - 1) * DeltaIds + j)]
                    IN  <<Width(ds)>> \o [j \in DOMAIN ds |-> ds[j] % 2 ^ Width(ds)]
    IN  FlattenSeq([k \in 1..blocks |-> Block(k)])

\* insert_posting_file: a single id goes where the offset would, with count 1 as the
\* tag; only sparse lists carry their length.
Inserted(st, s, gram, ids) ==
    LET cells == IF s = "sparse" THEN DeltaCells(ids) ELSE FixedCells(ids)
    IN  IF Len(ids) = 1
        THEN [st EXCEPT !.terms = Append(@, [gram |-> gram, at |-> ids[1], count |-> 1, len |-> 0])]
        ELSE [terms |-> Append(st.terms, [gram |-> gram, at |-> Len(st.data), count |-> Len(ids),
                                          len |-> IF s = "sparse" THEN Len(cells) ELSE 0]),
              data |-> st.data \o cells]

\* The loop of merge_posting_runs: the records of a gram follow each other.
MergedTable(s, records) ==
    LET grams == UpTo({e.gram : e \in records})
        Of(gram) == UpTo({e.id : e \in {e \in records : e.gram = gram}})
        after[n \in 0..Len(grams)] ==
            IF n = 0 THEN [terms |-> <<>>, data |-> <<>>]
            ELSE Inserted(after[n - 1], s, grams[n], Of(grams[n]))
    IN  after[Len(grams)]

\* SparseTableWriter: the entries in blocks; a trigram map is one.
TermBlocks(s, entries) ==
    LET n == (Len(entries) + TermEntries - 1) \div TermEntries
    IN  IF s = "trigram" \/ entries = <<>> THEN <<entries>>
        ELSE [k \in 1..n |-> SubSeq(entries, (k - 1) * TermEntries + 1,
                                    IF k * TermEntries < Len(entries) THEN k * TermEntries ELSE Len(entries))]

\* merge_posting_runs.
MergeRuns ==
    /\ strategy # "none" /\ built = NotBuilt /\ pushed # {}
    /\ LET last == Collapsed(Spilled(runs, buffer))
           end == MergedTable(strategy, Records(last))
       IN  /\ built' = [terms |-> TermBlocks(strategy, end.terms), data |-> end.data, opened |-> Len(last)]
           /\ stored' = built'
           /\ kept' = [b \in 1..((Len(end.data) + VerifyCells - 1) \div VerifyCells) |-> <<>>]
    /\ runs' = <<>> /\ buffer' = <<>> /\ least' = 0
    /\ UNCHANGED <<strategy, pushed, reads, found>>

-----------------------------------------------------------------------------
\* block_range of PostingsTableIndex, 1-based.
BlockOf(data, b) ==
    SubSeq(data, (b - 1) * VerifyCells + 1, IF b * VerifyCells < Len(data) THEN b * VerifyCells ELSE Len(data))

\* The store or a cached block is not what was written.
DamageStore ==
    /\ built # NotBuilt /\ stored = built
    /\ \/ \E c \in DOMAIN built.data : stored' = [stored EXCEPT !.data[c] = (@ + 1) % IdSpace]
       \/ \E b \in DOMAIN built.terms :
            built.terms[b] # <<>> /\ strategy = "sparse" /\ stored' = [stored EXCEPT !.terms[b][1].at = (@ + 1) % IdSpace]
    /\ UNCHANGED <<strategy, pushed, least, buffer, runs, built, kept, reads, found>>

DamageKept(b) ==
    /\ kept[b] # <<>> /\ kept[b] = BlockOf(built.data, b)
    /\ \E c \in DOMAIN kept[b] : kept' = [kept EXCEPT ![b][c] = (@ + 1) % IdSpace]
    /\ UNCHANGED <<strategy, pushed, least, buffer, runs, built, stored, reads, found>>

\* Mutant of Covering: the block a list ends in is left out.
CoveringWhole(at, len) == (at \div VerifyCells + 1)..((at + len) \div VerifyCells)

\* blocks_covering.
Covering(at, len) == (at \div VerifyCells + 1)..((at + len + VerifyCells - 1) \div VerifyCells)

\* Mutant of TermBlockFor: the last block that starts before the gram.
TermBlockForBelow(g) == Cardinality({b \in DOMAIN built.terms : built.terms[b] # <<>> /\ built.terms[b][1].gram < g})

\* block_for, by the index in the trusted tail of the table.
TermBlockFor(g) == Cardinality({b \in DOMAIN built.terms : built.terms[b] # <<>> /\ built.terms[b][1].gram <= g})

Verifies(written, block) == block = written

\* decode_posting_block and decode_delta_blocks: the ids, or none of them and not ok.
Bad == [ok |-> FALSE, ids |-> {}]
DecodeFixed(cells, count) ==
    LET ids == ToSet(cells)
    IN  IF /\ Len(cells) = StoredCount(count)
           /\ \A i \in 1..(Len(cells) - 1) : cells[i] < cells[i + 1]
           /\ ids \subseteq Ids
        THEN [ok |-> TRUE, ids |-> IF Complemented(count) THEN Ids \ ids ELSE ids] ELSE Bad

\* One width or one delta.
DecodeCell(cells, st) ==
    LET id == IF st.prev = -1 THEN cells[st.at] ELSE st.prev + cells[st.at] + 1
        width == cells[st.at]
    IN  IF ~st.ok THEN st
        ELSE IF st.at > Len(cells) THEN [st EXCEPT !.ok = FALSE]
        ELSE IF st.left = 0 /\ width \notin 1..32 THEN [st EXCEPT !.ok = FALSE]
        ELSE IF st.left = 0 THEN [st EXCEPT !.left = DeltaIds, !.at = @ + 1]
        ELSE IF id >= IdSpace THEN [st EXCEPT !.ok = FALSE]
        ELSE [st EXCEPT !.left = @ - 1, !.at = @ + 1, !.prev = id, !.ids = @ \cup {id}]

DecodeDelta(cells, count) ==
    LET steps == count + (count + DeltaIds - 1) \div DeltaIds
        after[n \in 0..steps] ==
            IF n = 0 THEN [ok |-> TRUE, at |-> 1, left |-> 0, prev |-> -1, ids |-> {}]
            ELSE DecodeCell(cells, after[n - 1])
        end == after[steps]
    IN  IF end.ok /\ end.at = Len(cells) + 1 THEN [ok |-> TRUE, ids |-> end.ids] ELSE Bad

\* read_verified.
Hit(b) == kept[b] # <<>> /\ Verifies(BlockOf(built.data, b), kept[b])

\* read_posting_blocks: cached blocks that verify, the others from the store, each
\* verified and kept; the first that does not verify ends the search.
ReadList(term) ==
    LET len == IF strategy = "sparse" THEN term.len ELSE StoredCount(term.count)
        blocks == Covering(term.at, len)
        bad == {b \in blocks : ~Hit(b) /\ ~Verifies(BlockOf(built.data, b), BlockOf(stored.data, b))}
        Block(b) == IF Hit(b) THEN kept[b] ELSE BlockOf(stored.data, b)
        saved == {b \in blocks : ~Hit(b) /\ \A c \in bad : b < c}
        joined == FlattenSeq([k \in 1..Cardinality(blocks) |-> Block(term.at \div VerifyCells + k)])
        from == term.at % VerifyCells
        cells == SubSeq(joined, from + 1, IF from + len < Len(joined) THEN from + len ELSE Len(joined))
        list == IF bad # {} THEN Bad
                ELSE IF strategy = "sparse" THEN DecodeDelta(cells, term.count)
                ELSE DecodeFixed(cells, term.count)
    IN  /\ kept' = [b \in DOMAIN kept |-> IF b \in saved THEN BlockOf(stored.data, b) ELSE kept[b]]
        /\ found' = [gram |-> term.gram, ok |-> list.ok, ids |-> list.ids]

\* read_term_values, resolve and read_posting_blocks for one gram.
Find(g) ==
    /\ built # NotBuilt /\ reads < MaxReads
    /\ reads' = reads + 1
    /\ LET b == IF strategy = "trigram" THEN 1 ELSE TermBlockFor(g)
           hits == IF b = 0 THEN {} ELSE {t \in ToSet(stored.terms[b]) : t.gram = g}
           term == CHOOSE t \in hits : TRUE
           Says(ok, ids) == found' = [gram |-> g, ok |-> ok, ids |-> ids] /\ UNCHANGED kept
       IN  IF b # 0 /\ ~Verifies(built.terms[b], stored.terms[b]) THEN Says(FALSE, {})
           ELSE IF hits = {} THEN Says(TRUE, {})
           ELSE IF term.count = 1 THEN Says(term.at < IdSpace, {term.at} \cap Ids)
           ELSE IF term.count >= IdSpace THEN Says(TRUE, Ids)
           ELSE ReadList(term)
    /\ UNCHANGED <<strategy, pushed, least, buffer, runs, built, stored>>

PostingNext ==
    \/ \E s \in {"trigram", "sparse"} : StartRuns(s)
    \/ \E g \in PostingGrams, id \in Ids : Push(g, id)
    \/ EndChunk
    \/ MergeRuns
    \/ DamageStore
    \/ \E b \in DOMAIN kept : DamageKept(b)
    \/ \E g \in PostingGrams : Find(g)

-----------------------------------------------------------------------------
\* A list that is read is the list of what was pushed: however the entries fell into
\* runs, however it is encoded, and whatever became of the store and the cache since.
ListsExact ==
    found.ok => found.ids = {e.id : e \in {e \in pushed : e.gram = found.gram}}

\* As long as the store is sound a list is read, a damaged cache being no reason to fail.
SoundIsRead == found.gram # 0 /\ stored = built => found.ok

\* However many runs there are, the final merge opens no more than it may.
OpenRunsBounded == built.opened <= MaxOpenRuns

\* A search gets the list that was built or an error, and an error only from a damaged
\* store; building it keeps few files open.
PostingsSound == ListsExact /\ SoundIsRead /\ OpenRunsBounded
=============================================================================
