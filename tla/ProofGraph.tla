----------------------------- MODULE ProofGraph -----------------------------
(***************************************************************************)
(* How much of a match proves it (crates/core/src/pattern.rs).             *)
(*                                                                         *)
(* A pattern that repeats something has no longest match, yet often every  *)
(* match starts (or, backwards, ends) with a shorter one.  The automaton   *)
(* of the pattern is walked as far as its first accepting states; if no    *)
(* way there is endless, the longest one bounds what has to be read.       *)
(***************************************************************************)
EXTENDS Integers, Sequences, FiniteSets, SequencesExt, FiniteSetsExt

CONSTANTS
    ProofStates,    \* states of an automaton, the start among them
    Start,
    Dead,           \* the state that accepts nothing any more
    Symbols,        \* classes of bytes
    ProofMax,       \* CANDIDATE_BLOCK_BYTES
    MaxWord         \* bound: length of the words looked at

ASSUME ProofGraphAssumption ==
    /\ Start \in ProofStates /\ Dead \notin ProofStates /\ IsFiniteSet(ProofStates)
    /\ ProofMax \in Nat
    /\ MaxWord \in Nat /\ MaxWord >= 2 * Cardinality(ProofStates) - 2  \* a way that repeats a state is seen

VARIABLES
    machine,    \* the automaton: [next, final]
    analysed    \* one has been given

proofVars == <<machine, analysed>>

Machines ==
    [next : [ProofStates \X Symbols -> ProofStates \cup {Dead}], final : SUBSET ProofStates]

ProofInit ==
    /\ machine = [next |-> [x \in ProofStates \X Symbols |-> Dead], final |-> {}]
    /\ analysed = FALSE

BuildMachine ==
    /\ ~analysed
    /\ machine' \in Machines /\ analysed' = TRUE

ProofNext == BuildMachine

-----------------------------------------------------------------------------
\* The walk ends in an accepting state.
Successors(m, s) == IF s \in m.final THEN {} ELSE {m.next[<<s, b>>] : b \in Symbols} \ {Dead}

\* build_proof_graph_with_limit: the states found from the start, which are in every set
\* that has the start and the successors of its members ...
IsFound(m, set) == Start \in set /\ \A s \in set : Successors(m, s) \subseteq set
Found(m) == {s \in ProofStates : \A set \in SUBSET ProofStates : IsFound(m, set) => s \in set}

\* Mutant of Useful: every state found is kept.
UsefulAll(m) == Found(m)

\* ... and of those the ones an accepting state can be reached from.
IsUseful(m, set) ==
    /\ Found(m) \cap m.final \subseteq set
    /\ \A s \in Found(m) : Successors(m, s) \cap set # {} => s \in set
Useful(m) == {s \in Found(m) : \A set \in SUBSET Found(m) : IsUseful(m, set) => s \in set}

NoBound == -1

\* find_longest_accepting_path: depth first; a state met again on the way to itself
\* means that there is no longest way.
LongestPath(m) ==
    LET useful == Useful(m)
        visit[way \in SUBSET ProofStates] ==
            [s \in ProofStates |->
                LET children == Successors(m, s) \cap useful
                    below == {visit[way \cup {c}][c] : c \in children}
                IN  IF s \in m.final THEN 0
                    ELSE IF children \cap way # {} \/ children = {} \/ NoBound \in below THEN NoBound
                    ELSE 1 + Max(below)]
    IN  IF Start \notin useful THEN NoBound ELSE visit[{Start}][Start]

\* find_proof: a bound of nothing, or of too much, is none.
FindProof(m) ==
    LET bytes == LongestPath(m) IN IF bytes = 0 \/ bytes > ProofMax THEN NoBound ELSE bytes

\* The states along a word.
Run(m, word) ==
    LET at[n \in 0..Len(word)] ==
            IF n = 0 THEN Start
            ELSE LET s == at[n - 1] IN IF s = Dead THEN Dead ELSE m.next[<<s, word[n]>>]
    IN  at

\* The first n bytes of a word match.
Accepts(m, word, n) == Run(m, word)[n] \in m.final

\* Mutant of Walked: the last byte of the bound is left out.
WalkedShort(word, bytes) == 1..Min({bytes - 1, Len(word)})

Walked(word, bytes) == 1..Min({bytes, Len(word)})

\* find_witness: the bytes of the match are walked until the automaton accepts.
FindWitness(m, word, bytes) ==
    LET ends == {n \in Walked(word, bytes) : Accepts(m, word, n)}
    IN  IF ends = {} THEN NoBound ELSE Min(ends)

-----------------------------------------------------------------------------
Words == UNION {[1..n -> Symbols] : n \in 0..MaxWord}

\* The words that match and no shorter beginning of which does.
FirstMatches(m) == {w \in Words : Accepts(m, w, Len(w)) /\ \A n \in 0..(Len(w) - 1) : ~Accepts(m, w, n)}

\* The bound is the length of the longest such word, and there is one unless such
\* words get longer than the automaton has states.
BoundIsLongest ==
    analysed =>
        LET lens == {Len(w) : w \in FirstMatches(machine)}
            finite == lens # {} /\ Max(lens) < Cardinality(ProofStates)
        IN  LongestPath(machine) = IF finite THEN Max(lens) ELSE NoBound

\* With a bound, every match has a witness of at most that many bytes, so reading
\* that much around a candidate finds it.
WitnessExists ==
    analysed /\ FindProof(machine) # NoBound =>
        \A w \in Words : Accepts(machine, w, Len(w)) =>
            LET n == FindWitness(machine, w, FindProof(machine))
            IN  n # NoBound /\ n <= ProofMax

\* The bound of a pattern is exact and enough.
ProofSound == BoundIsLongest /\ WitnessExists
=============================================================================
