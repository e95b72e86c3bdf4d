------------------------------- MODULE Grams -------------------------------
(***************************************************************************)
(* The grams of a document and of a query literal                          *)
(* (crates/core/src/grams.rs; crates/index/src/build/runs.rs for the form  *)
(* that reads a file window by window).                                    *)
(*                                                                         *)
(* Fixed grams are attributed to the block their first byte is in.  Sparse *)
(* grams end where a pair of bytes weighs more than every pair between; a  *)
(* literal is covered by few of them.                                      *)
(***************************************************************************)
EXTENDS Integers, Sequences, FiniteSets, SequencesExt, FiniteSetsExt

CONSTANTS
    GramLen,        \* bytes of a fixed gram: 3
    LineBlock,      \* CANDIDATE_BLOCK_BYTES
    Newline,       \* the byte that ends a line
    PairWeights     \* ways to weigh two adjacent bytes

ASSUME GramsAssumption == GramLen \in Nat \ {0} /\ LineBlock \in Nat \ {0}

\* pack_trigram_grams: every window of the data.
FixedGrams(data) == {SubSeq(data, i, i + GramLen - 1) : i \in 1..(Len(data) - GramLen + 1)}

\* Mutant of WindowEnd: a window stops where its block does.
WindowEndShort(start, size) == Min({start + LineBlock, size})

\* A window looks ahead into the next block, so that a straddling gram is in one.
WindowEnd(start, size) == Min({start + LineBlock + GramLen - 1, size})

\* pack_trigram_block_grams: block after block while a gram still fits.
BlockGrams(data) ==
    UNION {{b} \X FixedGrams(SubSeq(data, b * LineBlock + 1, WindowEnd(b * LineBlock, Len(data)))) :
              b \in {b \in 0..(Len(data) \div LineBlock) : b * LineBlock + GramLen - 1 < Len(data)}}

\* track_max_line: the line that is still open is carried to the next bytes.
TrackLine(acc, byte) ==
    IF byte = Newline THEN [carry |-> 0, max |-> Max({acc.max, acc.carry})]
    ELSE [acc EXCEPT !.carry = @ + 1]
MaxLine(data) ==
    LET end == FoldLeft(TrackLine, [carry |-> 0, max |-> 0], data) IN Max({end.max, end.carry})

NewlineCount(data) == Len(SelectSeq(data, LAMBDA byte : byte = Newline))

\* The bytes that a window hands on to the next one.
CarryOf(slice) == SubSeq(slice, LineBlock + 1, Len(slice))

\* visit_file_trigram_blocks: the bytes read ahead are kept for the next window.
FileBlocks(data) ==
    LET RECURSIVE From(_, _, _, _)
        From(block, kept, line, acc) ==
            LET pos == block * LineBlock
                len == Min({Len(data) - pos, LineBlock + GramLen - 1})
                fresh == SubSeq(data, pos + Len(kept) + 1, pos + len)
                slice == kept \o fresh
                next == FoldLeft(TrackLine, line, fresh)
            IN  IF pos >= Len(data)
                THEN [acc EXCEPT !.maxLine = Max({line.max, line.carry})]
                ELSE From(block + 1, CarryOf(slice), next,
                          [acc EXCEPT !.grams = @ \cup ({block} \X FixedGrams(slice)),
                                      !.newlines = Append(@, NewlineCount(SubSeq(slice, 1, Min({Len(slice), LineBlock}))))])
    IN  From(0, <<>>, [carry |-> 0, max |-> 0], [grams |-> {}, newlines |-> <<>>, maxLine |-> 0])

-----------------------------------------------------------------------------
\* The weights of the pairs of the data, under one of the weightings.
Weights(w, data) == [i \in 1..(Len(data) - 1) |-> w[<<data[i], data[i + 1]>>]]

\* SparseGramRanges: from every start, pairs are taken while what is between
\* weighs less than the first; a gram is what ends in a heavier pair.
SparseGrams(w, data) ==
    LET ws == Weights(w, data)
        RECURSIVE Extend(_, _, _)
        Extend(start, end, interior) ==
            LET inner == IF end > start + 1 THEN Max({interior, ws[end - 1]}) ELSE interior
            IN  IF end > Len(ws) \/ inner >= ws[start] THEN {}
                ELSE (IF ws[end] > inner THEN {SubSeq(data, start, end + 1)} ELSE {})
                     \cup Extend(start, end + 1, inner)
    IN  UNION {{SubSeq(data, s, s + 1)} \cup Extend(s, s + 1, 0) : s \in DOMAIN ws}

\* Mutant of IsIndexed: a gram of a tie is taken for an indexed one.
IsIndexedTied(ws, a, last) == TRUE

\* is_indexed_gram: would the index emit the gram of pairs a..last?
IsIndexed(ws, a, last) ==
    \/ last = a
    \/ LET inner == Max({0} \cup {ws[i] : i \in (a + 1)..(last - 1)})
       IN  inner < ws[a] /\ ws[last] > inner

\* sparse_grams_covering_bytes: a stack of pairs of falling weight; a pair closes
\* those that weigh no more, a tie only itself.
CoveringGrams(w, data) ==
    LET ws == Weights(w, data)
        Gram(a, last) == IF IsIndexed(ws, a, last) THEN {SubSeq(data, a, last + 1)} ELSE {}
        RECURSIVE Close(_, _, _)
        Close(stack, out, i) ==
            LET top == Last(stack) IN
            IF stack = <<>> \/ ws[top] > ws[i] THEN [stack |-> Append(stack, i), out |-> out]
            ELSE IF ws[top] = ws[i]
                 THEN [stack |-> Append(Front(stack), i), out |-> out \cup Gram(top, i)]
                 ELSE Close(Front(stack), out \cup Gram(top, i), i)
        end == FoldLeft(LAMBDA acc, i : Close(acc.stack, acc.out, i),
                        [stack |-> <<>>, out |-> {}], [i \in 1..Len(ws) |-> i])
        rest == end.stack
    IN  end.out
        \cup UNION {Gram(rest[i], rest[i + 1]) : i \in 1..(Len(rest) - 1)}
        \cup (IF rest = <<>> THEN {} ELSE Gram(Head(rest), Head(rest)))
=============================================================================
