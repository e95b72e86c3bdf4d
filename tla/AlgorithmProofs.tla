---------------------------- MODULE AlgorithmProofs ----------------------------
(***************************************************************************)
(* Proofs about three algorithms, for every input they can be given.       *)
(*                                                                         *)
(* Postings: a search reads, for every gram, exactly the ids that were     *)
(* pushed with it, however the entries fell into runs, however a list is   *)
(* packed, and whatever became of the store and of the cache since; and it *)
(* fails only on a damaged store. The way of a list is followed from the   *)
(* runs (Gathered) through the merge into the tables (TableSound) to the   *)
(* blocks a search reads.                                                  *)
(*                                                                         *)
(* Proof graphs: the bound found for a pattern is the length of the        *)
(* longest word that is the first to be accepted, of any automaton, and    *)
(* with it every match has a witness. The words are the ways of the graph  *)
(* (IsWay); the depth-first search is followed by induction on the states  *)
(* that are not yet on the way (Off).                                      *)
(*                                                                         *)
(* Packs: every document is read back as it was appended, and the blocks   *)
(* asked for are fetched in ranges of packs. What was appended is one      *)
(* sequence of bytes; block n holds its n-th stretch (Held) and a document *)
(* lies where its slice says (Lies), so that its parts, block by block,    *)
(* are all of it (ArePartsOf).                                             *)
(*                                                                         *)
(* The loops are recursive functions: each is shown to have a solution and *)
(* its result is found by induction on its steps (SetInduction).           *)
(***************************************************************************)
EXTENDS PostingIndex, ProofGraph, PackWriter, FiniteSetTheorems, SequenceTheorems, WellFoundedInduction, TLAPS

-----------------------------------------------------------------------------
(***************************************************************************)
(* Sets in order.                                                          *)
(***************************************************************************)

\* Counting what comes before numbers the members of a finite set from 0.
LEMMA RankOnto ==
    ASSUME NEW S, IsFiniteSet(S), NEW R,
           \A x, y \in S : x # y => <<x, y>> \in R \/ <<y, x>> \in R,
           \A x \in S : <<x, x>> \notin R,
           \A x, y, z \in S : <<x, y>> \in R /\ <<y, z>> \in R => <<x, z>> \in R
    PROVE  /\ Cardinality(S) \in Nat
           /\ \A x \in S : Cardinality({f \in S : <<f, x>> \in R}) \in 0..(Cardinality(S) - 1)
           /\ \A x, y \in S : <<x, y>> \in R =>
                Cardinality({f \in S : <<f, x>> \in R}) < Cardinality({f \in S : <<f, y>> \in R})
           /\ \A k \in 1..Cardinality(S) : \E x \in S : Cardinality({f \in S : <<f, x>> \in R}) = k - 1
<1> DEFINE Below(x) == {f \in S : <<f, x>> \in R}
           c == Cardinality(S)
           rank == [x \in S |-> Cardinality(Below(x))]
<1>0. c \in Nat
  BY FS_CardinalityType
<1>1. ASSUME NEW x \in S PROVE IsFiniteSet(Below(x)) /\ Cardinality(Below(x)) \in 0..(c - 1)
  <2>1. Below(x) \in SUBSET (S \ {x})
    OBVIOUS
  <2>2. IsFiniteSet(S \ {x}) /\ Cardinality(S \ {x}) = c - 1
    BY FS_RemoveElement
  <2>3. IsFiniteSet(Below(x)) /\ Cardinality(Below(x)) <= Cardinality(S \ {x})
    <3> DEFINE T == S \ {x}
               B == Below(x)
    <3>1. B \in SUBSET T /\ IsFiniteSet(T)
      BY <2>1, <2>2
    <3> HIDE DEF T, B
    <3>2. IsFiniteSet(B) /\ Cardinality(B) <= Cardinality(T)
      BY <3>1, FS_Subset
    <3> QED BY <3>2 DEF T, B
  <2>4. Cardinality(Below(x)) \in Nat
    BY <2>3, FS_CardinalityType
  <2> QED BY <1>0, <2>2, <2>3, <2>4
<1>2. ASSUME NEW x \in S, NEW y \in S, <<x, y>> \in R PROVE Cardinality(Below(x)) < Cardinality(Below(y))
  <2>1. Below(x) \in SUBSET (Below(y) \ {x}) /\ x \in Below(y)
    BY <1>2
  <2>2. IsFiniteSet(Below(y) \ {x}) /\ Cardinality(Below(y) \ {x}) = Cardinality(Below(y)) - 1
    BY <1>1, <2>1, FS_RemoveElement
  <2>3. Cardinality(Below(x)) <= Cardinality(Below(y) \ {x})
    <3> DEFINE T == Below(y) \ {x}
               B == Below(x)
    <3>1. B \in SUBSET T /\ IsFiniteSet(T)
      BY <2>1, <2>2
    <3> HIDE DEF T, B
    <3>2. Cardinality(B) <= Cardinality(T)
      BY <3>1, FS_Subset
    <3> QED BY <3>2 DEF T, B
  <2>4. Cardinality(Below(x)) \in Nat /\ Cardinality(Below(y)) \in Nat
    BY <1>1, FS_CardinalityType
  <2> QED BY <2>2, <2>3, <2>4
<1>3. rank \in [S -> 0..(c - 1)] /\ \A x \in S : rank[x] = Cardinality(Below(x))
  BY <1>1
<1>4. ASSUME NEW x \in S, NEW y \in S, rank[x] = rank[y] PROVE x = y
  <2>1. SUFFICES ASSUME x # y PROVE FALSE
    OBVIOUS
  <2>2. <<x, y>> \in R \/ <<y, x>> \in R
    BY <2>1
  <2>3. rank[x] < rank[y] \/ rank[y] < rank[x]
    BY <1>2, <1>3, <2>2
  <2>4. rank[x] \in Nat
    BY <1>0, <1>3
  <2> QED BY <1>4, <2>3, <2>4
<1>5. IsFiniteSet(0..(c - 1)) /\ Cardinality(0..(c - 1)) = c
  <2>1. 0 \in Int /\ c - 1 \in Int /\ (c - 1) - 0 + 1 = c /\ (0 > c - 1 => c = 0)
    BY <1>0
  <2>2. IsFiniteSet(0..(c - 1)) /\ Cardinality(0..(c - 1)) = IF 0 > c - 1 THEN 0 ELSE (c - 1) - 0 + 1
    BY <2>1, FS_Interval
  <2> QED BY <2>1, <2>2
<1>6. rank \in Injection(S, 0..(c - 1))
  BY <1>3, <1>4 DEF Injection, IsInjective
<1>7. rank \in Surjection(S, 0..(c - 1))
  BY <1>5, <1>6, FS_Injection
<1>8. ASSUME NEW k \in 1..c PROVE \E x \in S : Cardinality(Below(x)) = k - 1
  <2>1. k - 1 \in 0..(c - 1)
    BY <1>0
  <2>2. \E x \in S : rank[x] = k - 1
    BY <1>7, <2>1 DEF Surjection
  <2> QED BY <1>3, <2>2
<1> QED BY <1>0, <1>1, <1>2, <1>8

\* A set of numbers in ascending order.
LEMMA UpToIs ==
    ASSUME NEW S \in SUBSET Nat, IsFiniteSet(S)
    PROVE  /\ Cardinality(S) \in Nat
           /\ UpTo(S) \in Seq(S) /\ Len(UpTo(S)) = Cardinality(S) /\ ToSet(UpTo(S)) = S
           /\ \A i, j \in 1..Cardinality(S) : i < j => UpTo(S)[i] < UpTo(S)[j]
<1> DEFINE R == {p \in S \X S : p[1] < p[2]}
           c == Cardinality(S)
           Rank(x) == Cardinality({m \in S : m < x})
           u == UpTo(S)
<1>1. \A x, y \in S : <<x, y>> \in R <=> x < y
  OBVIOUS
<1>2. \A x, y \in S : x # y => x < y \/ y < x
  OBVIOUS
<1>3. \A x \in S : ~(x < x)
  OBVIOUS
<1>4. \A x, y, z \in S : x < y /\ y < z => x < z
  OBVIOUS
<1> HIDE DEF R
<1>5. \A x \in S : {f \in S : <<f, x>> \in R} = {m \in S : m < x}
  BY <1>1
<1>6. /\ c \in Nat
      /\ \A x \in S : Rank(x) \in 0..(c - 1)
      /\ \A x, y \in S : x < y => Rank(x) < Rank(y)
      /\ \A k \in 1..c : \E x \in S : Rank(x) = k - 1
  <2>1. /\ \A x, y \in S : x # y => <<x, y>> \in R \/ <<y, x>> \in R
        /\ \A x \in S : <<x, x>> \notin R
        /\ \A x, y, z \in S : <<x, y>> \in R /\ <<y, z>> \in R => <<x, z>> \in R
    BY <1>1, <1>2, <1>3, <1>4
  <2>2. /\ Cardinality(S) \in Nat
        /\ \A x \in S : Cardinality({f \in S : <<f, x>> \in R}) \in 0..(Cardinality(S) - 1)
        /\ \A x, y \in S : <<x, y>> \in R =>
                Cardinality({f \in S : <<f, x>> \in R}) < Cardinality({f \in S : <<f, y>> \in R})
        /\ \A k \in 1..Cardinality(S) : \E x \in S : Cardinality({f \in S : <<f, x>> \in R}) = k - 1
    BY <2>1, RankOnto
  <2> QED BY <1>1, <1>5, <2>2
<1> HIDE DEF Rank
<1>7. u = [k \in 1..c |-> CHOOSE n \in S : Rank(n) = k - 1]
  BY DEF UpTo, Rank
<1>8. \A k \in 1..c : u[k] \in S /\ Rank(u[k]) = k - 1
  BY <1>6, <1>7
<1>9. u \in Seq(S) /\ Len(u) = c /\ DOMAIN u = 1..c
  BY <1>6, <1>7, <1>8
<1> HIDE DEF u, c
<1>10. ASSUME NEW x \in S PROVE \E k \in 1..c : u[k] = x
  <2>1. Rank(x) + 1 \in 1..c /\ (Rank(x) + 1) - 1 = Rank(x)
    BY <1>6
  <2>2. PICK k \in 1..c : k - 1 = Rank(x)
    BY <2>1
  <2>3. u[k] \in S /\ Rank(u[k]) = Rank(x)
    BY <1>8, <2>2
  <2>4. Rank(x) \in Int /\ ~(Rank(x) < Rank(x))
    BY <1>6
  <2>5. ~(u[k] < x) /\ ~(x < u[k])
    BY <1>6, <2>3, <2>4
  <2> QED BY <1>2, <2>3, <2>5
<1>11. ToSet(u) = S
  BY <1>8, <1>9, <1>10 DEF ToSet
<1>12. ASSUME NEW i \in 1..c, NEW j \in 1..c, i < j PROVE u[i] < u[j]
  <2>1. Rank(u[i]) < Rank(u[j])
    BY <1>6, <1>8, <1>12
  <2>2. Rank(u[i]) \in Int /\ Rank(u[j]) \in Int /\ ~(Rank(u[j]) < Rank(u[i])) /\ Rank(u[i]) # Rank(u[j])
    BY <1>6, <1>8, <2>1
  <2>3. ~(u[j] < u[i]) /\ u[i] # u[j]
    BY <1>6, <1>8, <2>2
  <2> QED BY <1>2, <1>8, <2>3
<1> QED BY <1>6, <1>9, <1>11, <1>12 DEF u, c

\* A run: the entries of a set, sorted.
Entry == [gram : PostingGrams, id : Ids]

LEMMA OrderedIs ==
    ASSUME NEW S \in SUBSET Entry, IsFiniteSet(S)
    PROVE  Ordered(S) \in Seq(Entry) /\ ToSet(Ordered(S)) = S
<1> DEFINE R == {p \in S \X S : Before(p[1], p[2])}
           c == Cardinality(S)
           Rank(x) == Cardinality({m \in S : Before(m, x)})
           u == Ordered(S)
<1>0. \A x \in S : x.gram \in Nat /\ x.id \in Nat /\ x = [gram |-> x.gram, id |-> x.id]
  <2>1. \A x \in S : x \in Entry
    OBVIOUS
  <2>2. \A x \in Entry : x.gram \in PostingGrams /\ x.id \in Ids /\ x = [gram |-> x.gram, id |-> x.id]
    BY DEF Entry
  <2>3. PostingGrams \subseteq Nat /\ Ids \subseteq Nat
    BY PostingAssumption DEF Ids
  <2> QED BY <2>1, <2>2, <2>3
<1>1. \A x, y \in S : <<x, y>> \in R <=> Before(x, y)
  OBVIOUS
<1>2. \A x, y \in S : x # y => Before(x, y) \/ Before(y, x)
  <2>1. \A x, y \in S : x # y => x.gram # y.gram \/ x.id # y.id
    BY <1>0
  <2> QED BY <1>0, <2>1 DEF Before
<1>3. \A x \in S : ~Before(x, x)
  BY <1>0 DEF Before
<1>4. \A x, y, z \in S : Before(x, y) /\ Before(y, z) => Before(x, z)
  BY <1>0 DEF Before
<1> HIDE DEF R
<1>5. \A x \in S : {f \in S : <<f, x>> \in R} = {m \in S : Before(m, x)}
  BY <1>1
<1>6. /\ c \in Nat
      /\ \A x \in S : Rank(x) \in 0..(c - 1)
      /\ \A x, y \in S : Before(x, y) => Rank(x) < Rank(y)
      /\ \A k \in 1..c : \E x \in S : Rank(x) = k - 1
  <2>1. /\ \A x, y \in S : x # y => <<x, y>> \in R \/ <<y, x>> \in R
        /\ \A x \in S : <<x, x>> \notin R
        /\ \A x, y, z \in S : <<x, y>> \in R /\ <<y, z>> \in R => <<x, z>> \in R
    BY <1>1, <1>2, <1>3, <1>4
  <2>2. /\ Cardinality(S) \in Nat
        /\ \A x \in S : Cardinality({f \in S : <<f, x>> \in R}) \in 0..(Cardinality(S) - 1)
        /\ \A x, y \in S : <<x, y>> \in R =>
                Cardinality({f \in S : <<f, x>> \in R}) < Cardinality({f \in S : <<f, y>> \in R})
        /\ \A k \in 1..Cardinality(S) : \E x \in S : Cardinality({f \in S : <<f, x>> \in R}) = k - 1
    BY <2>1, RankOnto
  <2> QED BY <1>1, <1>5, <2>2
<1> HIDE DEF Rank
<1>7. u = [k \in 1..c |-> CHOOSE e \in S : Rank(e) = k - 1]
  BY DEF Ordered, Rank
<1>8. \A k \in 1..c : u[k] \in S /\ Rank(u[k]) = k - 1
  BY <1>6, <1>7
<1>9. u \in Seq(S) /\ DOMAIN u = 1..c
  BY <1>6, <1>7, <1>8
<1> HIDE DEF u, c
<1>10. ASSUME NEW x \in S PROVE \E k \in 1..c : u[k] = x
  <2>1. Rank(x) + 1 \in 1..c /\ (Rank(x) + 1) - 1 = Rank(x)
    BY <1>6
  <2>2. PICK k \in 1..c : k - 1 = Rank(x)
    BY <2>1
  <2>3. u[k] \in S /\ Rank(u[k]) = Rank(x)
    BY <1>8, <2>2
  <2>4. ~Before(u[k], x) /\ ~Before(x, u[k])
    BY <1>6, <2>3
  <2> QED BY <1>2, <2>3, <2>4
<1>11. ToSet(u) = S
  BY <1>8, <1>9, <1>10 DEF ToSet
<1>12. u \in Seq(Entry)
  BY <1>9
<1> QED BY <1>11, <1>12 DEF u

-----------------------------------------------------------------------------
(***************************************************************************)
(* Induction and recursion.                                                *)
(***************************************************************************)

\* Induction, with a set for the property: what is proved of 0 and of each successor.
LEMMA SetInduction ==
    ASSUME NEW S \in SUBSET Nat, 0 \in S, \A n \in S : n + 1 \in S
    PROVE  S = Nat
<1> DEFINE T == Nat \ S
           R == OpToRel(<, Nat)
<1>1. IsWellFoundedOn(R, Nat)
  BY NatLessThanWellFounded
<1>2. \A x, y \in Nat : <<y, x>> \in R <=> y < x
  BY DEF OpToRel
<1> HIDE DEF R
<1>3. SUFFICES ASSUME T # {} PROVE FALSE
  OBVIOUS
<1>4. PICK x \in T : \A y \in T : ~(<<y, x>> \in R)
  BY <1>1, <1>3, WFMin
<1>5. x \in Nat /\ x # 0 /\ x \notin S
  BY <1>4
<1>6. x - 1 \in Nat /\ x - 1 < x
  BY <1>5
<1>7. x - 1 \in S
  BY <1>2, <1>4, <1>5, <1>6
<1>8. (x - 1) + 1 \in S
  BY <1>7
<1> QED BY <1>5, <1>6, <1>8

\* A recursion that steps from a value to the next has a solution.
Solution(V, a, m, G, f) ==
    f \in [0..m -> V] /\ f[0] = a /\ \A n \in 1..m : f[n] = G[<<n, f[n - 1]>>]

LEMMA Recursion ==
    ASSUME NEW V, NEW a \in V, NEW m \in Nat, NEW G \in [(1..m) \X V -> V]
    PROVE  \E f : Solution(V, a, m, G, f)
<1> DEFINE Solves(k, f) == f \in [0..k -> V] /\ f[0] = a /\ \A n \in 1..k : f[n] = G[<<n, f[n - 1]>>]
           S == {k \in Nat : k <= m => \E f : Solves(k, f)}
<1>1. 0 \in S
  <2> DEFINE f == [n \in 0..0 |-> a]
  <2>1. f \in [0..0 -> V] /\ f[0] = a /\ \A n \in 1..0 : f[n] = G[<<n, f[n - 1]>>]
    OBVIOUS
  <2>2. Solves(0, f)
    BY <2>1
  <2> HIDE DEF Solves
  <2> QED BY <2>2
<1>2. ASSUME NEW k \in S PROVE k + 1 \in S
  <2>0. k \in Nat /\ k + 1 \in Nat
    OBVIOUS
  <2>1. SUFFICES ASSUME k + 1 <= m PROVE \E f : Solves(k + 1, f)
    BY <2>0
  <2>2. PICK f : Solves(k, f)
    BY <2>0, <2>1
  <2> DEFINE v == G[<<k + 1, f[k]>>]
             g == [n \in 0..(k + 1) |-> IF n = k + 1 THEN v ELSE f[n]]
  <2>3. v \in V
    <3>1. k \in 0..k /\ k + 1 \in 1..m
      BY <2>0, <2>1
    <3>2. f[k] \in V
      BY <2>2, <3>1
    <3>3. <<k + 1, f[k]>> \in (1..m) \X V
      BY <3>1, <3>2
    <3> QED BY <3>3
  <2> HIDE DEF v
  <2>4. ASSUME NEW n \in 0..(k + 1) PROVE (n = k + 1 => g[n] = v) /\ (n # k + 1 => n \in 0..k /\ g[n] = f[n])
    BY <2>0
  <2>5. g \in [0..(k + 1) -> V]
    BY <2>2, <2>3, <2>4
  <2>6. g[0] = a
    <3>1. 0 \in 0..(k + 1) /\ 0 # k + 1
      BY <2>0
    <3> QED BY <2>2, <2>4, <3>1
  <2> HIDE DEF g
  <2>7. ASSUME NEW n \in 1..(k + 1) PROVE g[n] = G[<<n, g[n - 1]>>]
    <3>1. n \in 0..(k + 1) /\ n - 1 \in 0..(k + 1) /\ n - 1 # k + 1 /\ (n # k + 1 => n \in 1..k)
      BY <2>0
    <3>2. g[n - 1] = f[n - 1]
      BY <2>4, <3>1
    <3>3. CASE n = k + 1
      <4>1. n - 1 = k /\ g[n] = v
        BY <2>0, <2>4, <3>1, <3>3
      <4> QED BY <3>2, <3>3, <4>1 DEF v
    <3>4. CASE n # k + 1
      <4>1. g[n] = f[n] /\ f[n] = G[<<n, f[n - 1]>>]
        BY <2>2, <2>4, <3>1, <3>4
      <4> QED BY <3>2, <4>1
    <3> QED BY <3>3, <3>4
  <2>8. Solves(k + 1, g)
    BY <2>5, <2>6, <2>7
  <2> HIDE DEF Solves
  <2> QED BY <2>8
<1>3. S = Nat
  <2>1. S \in SUBSET Nat
    OBVIOUS
  <2> HIDE DEF S
  <2> QED BY <1>1, <1>2, <2>1, SetInduction
<1>4. m <= m
  OBVIOUS
<1> QED BY <1>3, <1>4 DEF Solution

\* FlattenSeq joins the sequences from the first on.
LEMMA FlattenIs ==
    ASSUME NEW X, NEW seqs \in Seq(Seq(X)), Len(seqs) # 0
    PROVE  \E f \in [1..Len(seqs) -> Seq(X)] :
              /\ f[1] = seqs[1]
              /\ \A i \in 2..Len(seqs) : f[i] = f[i - 1] \o seqs[i]
              /\ FlattenSeq(seqs) = f[Len(seqs)]
<1> DEFINE L == Len(seqs)
           Is(f) == f = [i \in 1..L |-> IF i = 1 THEN seqs[i] ELSE f[i - 1] \o seqs[i]]
           G == [p \in (1..L) \X Seq(X) |-> p[2] \o seqs[p[1]]]
           h == CHOOSE f : Is(f)
<1>0. L \in Nat /\ L >= 1 /\ \A i \in 1..L : seqs[i] \in Seq(X)
  OBVIOUS
<1>1. FlattenSeq(seqs) = h[L]
  BY DEF FlattenSeq
<1>2. G \in [(1..L) \X Seq(X) -> Seq(X)]
  BY <1>0, ConcatProperties
<1>3. \A n \in 1..L : \A v \in Seq(X) : G[<<n, v>>] = v \o seqs[n]
  OBVIOUS
<1>4. <<>> \in Seq(X)
  OBVIOUS
<1> HIDE DEF G
<1>5. PICK f \in [0..L -> Seq(X)] : f[0] = <<>> /\ \A n \in 1..L : f[n] = G[<<n, f[n - 1]>>]
  <2> DEFINE V == Seq(X)
             a == <<>>
  <2>1. a \in V /\ L \in Nat /\ G \in [(1..L) \X V -> V]
    BY <1>0, <1>2, <1>4
  <2> HIDE DEF V, L, a
  <2>2. \E f : Solution(V, a, L, G, f)
    BY <2>1, Recursion
  <2> QED BY <2>2 DEF V, a, Solution
<1> DEFINE w == [i \in 1..L |-> f[i]]
<1>6. ASSUME NEW i \in 1..L PROVE w[i] = IF i = 1 THEN seqs[i] ELSE w[i - 1] \o seqs[i]
  <2>1. i - 1 \in 0..L /\ (i # 1 => i - 1 \in 1..L) /\ i \in 0..L
    BY <1>0
  <2>2. f[i - 1] \in Seq(X)
    BY <1>5, <2>1
  <2>3. f[i] = f[i - 1] \o seqs[i]
    BY <1>3, <1>5, <2>2
  <2>4. CASE i = 1
    <3>1. f[i - 1] = <<>>
      BY <1>5, <2>4
    <3>2. <<>> \o seqs[i] = seqs[i]
      BY <1>0, EmptySeq, ConcatEmptySeq
    <3> QED BY <2>3, <2>4, <3>1, <3>2
  <2>5. CASE i # 1
    BY <2>1, <2>3, <2>5
  <2> QED BY <2>4, <2>5
<1>7. Is(w)
  <2>1. w = [i \in 1..L |-> w[i]]
    OBVIOUS
  <2> HIDE DEF w
  <2> QED BY <1>6, <2>1
<1>8. Is(h)
  <2> HIDE DEF Is
  <2> QED BY <1>7
<1> HIDE DEF h
<1>9. ASSUME NEW i \in 1..L PROVE h[i] = IF i = 1 THEN seqs[i] ELSE h[i - 1] \o seqs[i]
  BY <1>8
<1> DEFINE S == {n \in Nat : n + 1 <= L => h[n + 1] \in Seq(X)}
<1>10. 0 \in S
  BY <1>0, <1>9
<1>11. ASSUME NEW n \in S PROVE n + 1 \in S
  <2>0. n \in Nat /\ n + 1 \in Nat
    OBVIOUS
  <2>1. SUFFICES ASSUME (n + 1) + 1 <= L PROVE h[(n + 1) + 1] \in Seq(X)
    BY <2>0
  <2>2. n + 1 <= L /\ (n + 1) + 1 \in 1..L /\ (n + 1) + 1 # 1 /\ ((n + 1) + 1) - 1 = n + 1
    BY <1>0, <2>0, <2>1
  <2>3. h[n + 1] \in Seq(X)
    BY <2>2
  <2>4. h[(n + 1) + 1] = h[n + 1] \o seqs[(n + 1) + 1]
    BY <1>9, <2>2
  <2> QED BY <1>0, <2>2, <2>3, <2>4, ConcatProperties
<1>12. S = Nat
  <2>1. S \in SUBSET Nat
    OBVIOUS
  <2> HIDE DEF S
  <2> QED BY <1>10, <1>11, <2>1, SetInduction
<1>13. ASSUME NEW i \in 1..L PROVE h[i] \in Seq(X)
  <2>1. i - 1 \in Nat /\ (i - 1) + 1 = i /\ i <= L
    BY <1>0
  <2>2. i - 1 \in S
    BY <1>12, <2>1
  <2> QED BY <2>1, <2>2
<1>14. h \in [1..L -> Seq(X)]
  <2>1. h = [i \in 1..L |-> h[i]]
    <3>1. DOMAIN h = 1..L
      BY <1>8
    <3> QED BY <1>8, <1>9
  <2> QED BY <1>13, <2>1
<1>15. h[1] = seqs[1] /\ \A i \in 2..L : h[i] = h[i - 1] \o seqs[i]
  <2>1. 1 \in 1..L
    BY <1>0
  <2>2. ASSUME NEW i \in 2..L PROVE i \in 1..L /\ i # 1
    BY <1>0
  <2> QED BY <1>9, <2>1, <2>2
<1> QED BY <1>1, <1>14, <1>15

-----------------------------------------------------------------------------
(***************************************************************************)
(* Runs: what a pass of collapse_posting_runs keeps.                       *)
(***************************************************************************)

\* L things in chunks of M, the last of which may be short.
LEMMA Chunks ==
    ASSUME NEW L \in Nat, NEW M \in Nat \ {0}
    PROVE  /\ (L + M - 1) \div M \in Nat
           /\ \A k \in 1..((L + M - 1) \div M) :
                (k - 1) * M \in Nat /\ (k - 1) * M < L /\ k * M = (k - 1) * M + M
           /\ \A r \in 1..L : \E k \in 1..((L + M - 1) \div M) : (k - 1) * M < r /\ r <= k * M
           /\ L <= ((L + M - 1) \div M) * M
           /\ (L > 0 => (L + M - 1) \div M >= 1)
<1> DEFINE g == (L + M - 1) \div M
<1>1. g \in Nat /\ M * g <= L + M - 1 /\ L + M - 1 < M * g + M
  <2> DEFINE a == L + M - 1
  <2>1. a \in Nat
    OBVIOUS
  <2> HIDE DEF a
  <2>2. a \div M \in Nat /\ M * (a \div M) <= a /\ a < M * (a \div M) + M
    BY <2>1
  <2> QED BY <2>2 DEF a
<1>2. M * g \in Nat /\ M * g = g * M
  BY <1>1
<1> HIDE DEF g
<1>3. L <= g * M
  BY <1>1, <1>2
<1>4. ASSUME NEW k \in 1..g PROVE (k - 1) * M \in Nat /\ (k - 1) * M < L /\ k * M = (k - 1) * M + M
  <2>1. k \in Nat /\ k - 1 \in Nat /\ g - 1 \in Nat /\ k - 1 <= g - 1
    BY <1>1
  <2>2. (k - 1) * M \in Nat /\ (g - 1) * M \in Nat /\ k * M = (k - 1) * M + M /\ g * M = (g - 1) * M + M
    BY <1>1, <2>1
  <2>3. (k - 1) * M <= (g - 1) * M
    BY <2>1
  <2>4. (g - 1) * M < L
    BY <1>1, <1>2, <2>2
  <2> QED BY <2>2, <2>3, <2>4
<1>5. ASSUME NEW r \in 1..L PROVE \E k \in 1..g : (k - 1) * M < r /\ r <= k * M
  <2> DEFINE q == (r - 1) \div M
  <2>1. q \in Nat /\ M * q <= r - 1 /\ r - 1 < M * q + M
    <3> DEFINE a == r - 1
    <3>1. a \in Nat
      OBVIOUS
    <3> HIDE DEF a
    <3>2. a \div M \in Nat /\ M * (a \div M) <= a /\ a < M * (a \div M) + M
      BY <3>1
    <3> QED BY <3>2 DEF a
  <2> HIDE DEF q
  <2>2. M * q \in Nat /\ M * q = q * M /\ (q + 1) * M = q * M + M
    BY <2>1
  <2>3. q < g
    <3>1. SUFFICES ASSUME q >= g PROVE FALSE
      BY <1>1, <2>1
    <3>2. q * M >= g * M
      BY <1>1, <2>1, <3>1
    <3> QED BY <1>2, <1>3, <2>1, <2>2, <3>2
  <2>4. q + 1 \in 1..g /\ (q + 1) - 1 = q
    BY <1>1, <2>1, <2>3
  <2>5. q * M < r /\ r <= (q + 1) * M
    BY <2>1, <2>2
  <2> QED BY <2>4, <2>5
<1>6. L > 0 => g >= 1
  <2>1. SUFFICES ASSUME L > 0, g = 0 PROVE FALSE
    BY <1>1
  <2>2. g * M = 0
    BY <2>1
  <2> QED BY <1>3, <2>1, <2>2
<1> QED BY <1>1, <1>3, <1>4, <1>5, <1>6 DEF g

\* The cut of a list from one place to another.
LEMMA CutIs ==
    ASSUME NEW X, NEW s \in Seq(X), NEW a \in Nat, NEW b \in Nat, a <= b, b <= Len(s)
    PROVE  /\ SubSeq(s, a + 1, b) \in Seq(X) /\ Len(SubSeq(s, a + 1, b)) = b - a
           /\ \A i \in 1..(b - a) : SubSeq(s, a + 1, b)[i] = s[a + i]
<1>1. Len(s) \in Nat /\ \A i \in 1..Len(s) : s[i] \in X
  BY LenProperties
<1>2. a + 1 \in Int /\ b \in Int /\ \A i \in (a + 1)..b : s[i] \in X
  BY <1>1
<1> DEFINE m == a + 1
<1> HIDE DEF m
<1>3. /\ SubSeq(s, m, b) \in Seq(X)
      /\ Len(SubSeq(s, m, b)) = IF m <= b THEN b - m + 1 ELSE 0
      /\ \A i \in 1..(b - m + 1) : SubSeq(s, m, b)[i] = s[m + i - 1]
  <2>1. m \in Int /\ b \in Int /\ \A i \in m..b : s[i] \in X
    BY <1>2 DEF m
  <2> QED BY <2>1, SubSeqProperties
<1>4. m = a + 1
  BY DEF m
<1>5. Len(SubSeq(s, m, b)) = b - a /\ b - m + 1 = b - a
  BY <1>3, <1>4
<1>6. \A i \in 1..(b - a) : m + i - 1 = a + i
  BY <1>4
<1>7. \A i \in 1..(b - a) : SubSeq(s, m, b)[i] = s[a + i]
  BY <1>3, <1>5, <1>6
<1> QED BY <1>3, <1>4, <1>5, <1>7

\* The records of a list of runs.
LEMMA RecordsIs ==
    ASSUME NEW rs \in Seq(Seq(Entry)), NEW e
    PROVE  e \in Records(rs) <=> \E r \in 1..Len(rs) : \E i \in 1..Len(rs[r]) : e = rs[r][i]
<1>1. DOMAIN rs = 1..Len(rs) /\ \A r \in 1..Len(rs) : rs[r] \in Seq(Entry)
  OBVIOUS
<1>2. \A r \in 1..Len(rs) : DOMAIN rs[r] = 1..Len(rs[r])
  BY <1>1
<1>3. \A r \in 1..Len(rs) : e \in ToSet(rs[r]) <=> \E i \in 1..Len(rs[r]) : e = rs[r][i]
  BY <1>2 DEF ToSet
<1>4. e \in Records(rs) <=> \E r \in 1..Len(rs) : e \in ToSet(rs[r])
  BY <1>1 DEF Records
<1> QED BY <1>3, <1>4

\* No pass of the merge loses a record or makes one up.
LEMMA PassRecords ==
    ASSUME NEW rs \in Seq(Seq(Entry)), IsFiniteSet(Records(rs))
    PROVE  Pass(rs) \in Seq(Seq(Entry)) /\ Records(Pass(rs)) = Records(rs)
<1> DEFINE L == Len(rs)
           M == MaxOpenRuns
           g == (L + M - 1) \div M
           Hi(k) == IF k * M < L THEN k * M ELSE L
           Group(k) == SubSeq(rs, (k - 1) * M + 1, Hi(k))
           Out(k) == IF Len(Group(k)) = 1 THEN Group(k)[1] ELSE MergeGroup(Group(k))
           p == Pass(rs)
<1>0. M \in Nat \ {0} /\ L \in Nat
  BY PostingAssumption
<1>1. p = [k \in 1..g |-> Out(k)]
  BY DEF Pass
<1>2. /\ g \in Nat
      /\ \A k \in 1..g : (k - 1) * M \in Nat /\ (k - 1) * M < L /\ k * M = (k - 1) * M + M
      /\ \A r \in 1..L : \E k \in 1..g : (k - 1) * M < r /\ r <= k * M
  <2> HIDE DEF L, M
  <2> QED BY <1>0, Chunks
<1> HIDE DEF g
<1>3. ASSUME NEW k \in 1..g
      PROVE  /\ Hi(k) \in 1..L /\ (k - 1) * M < Hi(k) /\ Hi(k) <= k * M /\ (k - 1) * M \in Nat
             /\ \A r \in 1..L : r <= k * M => r <= Hi(k)
             /\ Group(k) \in Seq(Seq(Entry)) /\ Len(Group(k)) = Hi(k) - (k - 1) * M
             /\ \A i \in 1..(Hi(k) - (k - 1) * M) : Group(k)[i] = rs[(k - 1) * M + i]
  <2> DEFINE a == (k - 1) * M
             b == Hi(k)
             t == k * M
  <2>1. a \in Nat /\ a < L /\ t = a + M
    BY <1>2
  <2>2. b = IF t < L THEN t ELSE L
    OBVIOUS
  <2> HIDE DEF a, t, b
  <2>3. b \in 1..L /\ a < b /\ b <= t /\ \A r \in 1..L : r <= t => r <= b
    <3> HIDE DEF L, M
    <3> QED BY <1>0, <2>1, <2>2
  <2>4. b \in Nat /\ a <= b /\ b <= Len(rs)
    BY <1>0, <2>1, <2>3
  <2>5. /\ SubSeq(rs, a + 1, b) \in Seq(Seq(Entry)) /\ Len(SubSeq(rs, a + 1, b)) = b - a
        /\ \A i \in 1..(b - a) : SubSeq(rs, a + 1, b)[i] = rs[a + i]
    BY <2>1, <2>4, CutIs
  <2>6. Group(k) = SubSeq(rs, a + 1, b)
    BY DEF a, b
  <2> HIDE DEF Group
  <2> QED BY <2>1, <2>3, <2>5, <2>6 DEF a, b, t
<1> HIDE DEF Hi, Group
<1>4. ASSUME NEW k \in 1..g
      PROVE  /\ Records(Group(k)) \subseteq Records(rs)
             /\ \A r \in 1..L : (k - 1) * M < r /\ r <= k * M => ToSet(rs[r]) \subseteq Records(Group(k))
  <2> DEFINE a == (k - 1) * M
             b == Hi(k)
             G == Group(k)
  <2>1. /\ b \in 1..L /\ a < b /\ a \in Nat
        /\ G \in Seq(Seq(Entry)) /\ Len(G) = b - a
        /\ \A i \in 1..(b - a) : G[i] = rs[a + i]
        /\ \A r \in 1..L : r <= k * M => r <= b
    BY <1>3
  <2> HIDE DEF a, b, G
  <2>2. \A i \in 1..(b - a) : a + i \in 1..L
    BY <1>0, <2>1
  <2>3. ASSUME NEW e \in Records(G) PROVE e \in Records(rs)
    <3>1. PICK i \in 1..Len(G) : \E j \in 1..Len(G[i]) : e = G[i][j]
      <4>1. G \in Seq(Seq(Entry))
        BY <2>1
      <4>2. e \in Records(G) <=> \E i \in 1..Len(G) : \E j \in 1..Len(G[i]) : e = G[i][j]
        BY <4>1, RecordsIs
      <4> QED BY <2>3, <4>2
    <3>2. a + i \in 1..L /\ G[i] = rs[a + i]
      BY <2>1, <2>2
    <3>3. \E r \in 1..Len(rs) : \E j \in 1..Len(rs[r]) : e = rs[r][j]
      BY <3>1, <3>2
    <3> QED BY <3>3, RecordsIs
  <2>4. ASSUME NEW r \in 1..L, a < r, r <= k * M PROVE ToSet(rs[r]) \subseteq Records(G)
    <3>1. r <= b /\ r - a \in 1..(b - a) /\ a + (r - a) = r
      BY <1>0, <2>1, <2>4
    <3>2. G[r - a] = rs[r]
      BY <2>1, <3>1
    <3>3. r - a \in DOMAIN G
      BY <2>1, <3>1
    <3> QED BY <3>2, <3>3 DEF Records
  <2> QED BY <2>3, <2>4 DEF a, G
<1>5. ASSUME NEW k \in 1..g PROVE Out(k) \in Seq(Entry) /\ ToSet(Out(k)) = Records(Group(k))
  <2> DEFINE G == Group(k)
  <2>0. G \in Seq(Seq(Entry))
    BY <1>3
  <2>1. CASE Len(G) = 1
    <3>0. Out(k) = G[1]
      BY <2>1
    <3>1. Out(k) = G[1] /\ G[1] \in Seq(Entry) /\ DOMAIN G = {1}
      <4> HIDE DEF G, Out
      <4>1. DOMAIN G = 1..1 /\ 1 \in 1..1 /\ 1..1 = {1}
        BY <2>0, <2>1
      <4>2. G[1] \in Seq(Entry)
        <5>1. \A r \in 1..Len(G) : G[r] \in Seq(Entry)
          BY <2>0
        <5> QED BY <2>1, <4>1, <5>1
      <4> QED BY <3>0, <4>1, <4>2
    <3>2. Records(G) = ToSet(G[1])
      BY <3>1 DEF Records
    <3> QED BY <3>1, <3>2
  <2>2. CASE Len(G) # 1
    <3>1. Out(k) = Ordered(Records(G))
      BY <2>2 DEF MergeGroup
    <3>2. Records(G) \in SUBSET Records(rs)
      BY <1>4
    <3>3. IsFiniteSet(Records(G))
      <4> DEFINE T == Records(G)
                 U == Records(rs)
      <4>1. T \in SUBSET U /\ IsFiniteSet(U)
        BY <3>2
      <4> HIDE DEF T, U
      <4>2. IsFiniteSet(T)
        BY <4>1, FS_Subset
      <4> QED BY <4>2 DEF T
    <3>4. Records(G) \in SUBSET Entry
      <4> HIDE DEF G
      <4>1. ASSUME NEW e \in Records(G) PROVE e \in Entry
        <5>1. PICK r \in 1..Len(G) : \E i \in 1..Len(G[r]) : e = G[r][i]
          BY <2>0, RecordsIs
        <5>2. G[r] \in Seq(Entry)
          BY <2>0
        <5> QED BY <5>1, <5>2
      <4> QED BY <4>1
    <3> HIDE DEF G
    <3>5. Ordered(Records(G)) \in Seq(Entry) /\ ToSet(Ordered(Records(G))) = Records(G)
      BY <3>3, <3>4, OrderedIs
    <3> HIDE DEF Out
    <3> QED BY <3>1, <3>5 DEF G
  <2> QED BY <2>1, <2>2
<1> HIDE DEF Out
<1>6. p \in Seq(Seq(Entry)) /\ Len(p) = g /\ DOMAIN p = 1..g /\ \A k \in 1..g : p[k] = Out(k)
  <2> HIDE DEF p
  <2> QED BY <1>1, <1>2, <1>5
<1>7. ASSUME NEW e \in Records(p) PROVE e \in Records(rs)
  <2>1. PICK k \in 1..g : e \in ToSet(p[k])
    BY <1>6 DEF Records
  <2> QED BY <1>4, <1>5, <1>6, <2>1
<1>8. ASSUME NEW e \in Records(rs) PROVE e \in Records(p)
  <2>1. PICK r \in 1..L : e \in ToSet(rs[r])
    <3>1. DOMAIN rs = 1..L
      OBVIOUS
    <3> QED BY <3>1 DEF Records
  <2>2. PICK k \in 1..g : (k - 1) * M < r /\ r <= k * M
    BY <1>2
  <2>3. e \in Records(Group(k))
    BY <1>4, <2>1, <2>2
  <2>4. e \in ToSet(p[k])
    BY <1>5, <1>6, <2>3
  <2> QED BY <1>6, <2>4 DEF Records
<1> QED BY <1>6, <1>7, <1>8

\* A pass shortens a list of runs that is too long.
LEMMA PassShortens ==
    ASSUME NEW rs, Len(rs) \in Nat, Len(rs) > MaxOpenRuns
    PROVE  /\ Len(Pass(rs)) \in Nat /\ Len(Pass(rs)) < Len(rs)
<1> DEFINE L == Len(rs)
           M == MaxOpenRuns
           g == (L + M - 1) \div M
<1>0. M \in Nat /\ M >= 2 /\ L \in Nat /\ L > M
  BY PostingAssumption
<1> HIDE DEF L, M
<1>1. g \in Nat /\ M * g <= L + M - 1
  BY <1>0
<1>2. g < L
  <2>1. SUFFICES ASSUME g >= L PROVE FALSE
    BY <1>0, <1>1
  <2> HIDE DEF g
  <2>2. M * g >= M * L
    BY <1>0, <1>1, <2>1
  <2>3. M * L >= 2 * L
    BY <1>0
  <2>4. M * g \in Nat /\ M * L \in Nat
    BY <1>0, <1>1
  <2> QED BY <1>0, <1>1, <2>2, <2>3, <2>4
<1> HIDE DEF g
<1>3. ASSUME NEW F(_) PROVE Len([k \in 1..g |-> F(k)]) = g
  BY <1>1
<1>4. Len(Pass(rs)) = g
  BY <1>1, <1>3 DEF Pass, g, L, M
<1> QED BY <1>1, <1>2, <1>4 DEF L

\* What collapse_posting_runs has after n passes of its loop, m at most.
Passes(rs, m, f) ==
    f = [n \in 0..m |-> IF n = 0 THEN rs
                        ELSE LET now == f[n - 1] IN IF Len(now) > MaxOpenRuns THEN Pass(now) ELSE now]

\* The loop of collapse_posting_runs has a solution.
LEMMA PassesExist ==
    ASSUME NEW rs, NEW m \in Nat
    PROVE  \E f : Passes(rs, m, f)
<1> DEFINE S == {n \in Nat : \E f : Passes(rs, n, f)}
           Next(now) == IF Len(now) > MaxOpenRuns THEN Pass(now) ELSE now
<1>1. 0 \in S
  <2> DEFINE f == [n \in 0..0 |-> rs]
  <2>1. f = [n \in 0..0 |-> IF n = 0 THEN rs ELSE Next(f[n - 1])]
    OBVIOUS
  <2>2. Passes(rs, 0, f)
    BY <2>1 DEF Passes
  <2> QED BY <2>2
<1>2. ASSUME NEW n \in S PROVE n + 1 \in S
  <2>1. PICK f : Passes(rs, n, f)
    BY <1>2
  <2>2. f = [i \in 0..n |-> IF i = 0 THEN rs ELSE Next(f[i - 1])] /\ n \in Nat
    BY <2>1 DEF Passes
  <2> DEFINE g == [i \in 0..(n + 1) |-> IF i = n + 1 THEN Next(f[n]) ELSE f[i]]
  <2> HIDE DEF Next
  <2>3. ASSUME NEW i \in 0..(n + 1) PROVE g[i] = IF i = 0 THEN rs ELSE Next(g[i - 1])
    <3>1. CASE i = n + 1
      <4>1. g[i] = Next(f[n]) /\ i # 0 /\ i - 1 = n /\ n \in 0..(n + 1) /\ n # n + 1
        BY <2>2, <3>1
      <4>2. g[n] = f[n]
        BY <4>1
      <4> HIDE DEF g
      <4> QED BY <4>1, <4>2
    <3>2. CASE i # n + 1
      <4>1. g[i] = f[i] /\ i \in 0..n /\ f[i] = IF i = 0 THEN rs ELSE Next(f[i - 1])
        BY <2>2, <3>2
      <4>2. i # 0 => i - 1 \in 0..(n + 1) /\ i - 1 # n + 1
        BY <2>2
      <4>3. i # 0 => g[i - 1] = f[i - 1]
        BY <4>2
      <4> HIDE DEF g
      <4> QED BY <4>1, <4>3
    <3> QED BY <3>1, <3>2
  <2>4. g = [i \in 0..(n + 1) |-> IF i = 0 THEN rs ELSE Next(g[i - 1])]
    <3>1. g = [i \in 0..(n + 1) |-> g[i]]
      OBVIOUS
    <3> HIDE DEF g
    <3> QED BY <2>3, <3>1
  <2> HIDE DEF g
  <2>5. Passes(rs, n + 1, g)
    BY <2>4 DEF Passes, Next
  <2> QED BY <2>2, <2>5
<1> HIDE DEF S
<1>3. S = Nat
  <2>1. S \in SUBSET Nat
    BY DEF S
  <2> QED BY <1>1, <1>2, <2>1, SetInduction
<1> QED BY <1>3 DEF S

\* However many runs there are, as many passes as runs leave no more than may be open.
LEMMA CollapsedFew ==
    ASSUME NEW rs, Len(rs) \in Nat
    PROVE  Len(Collapsed(rs)) \in Nat /\ Len(Collapsed(rs)) <= MaxOpenRuns
<1> DEFINE N == Len(rs)
           f == CHOOSE f : Passes(rs, N, f)
<1>0. MaxOpenRuns \in Nat
  BY PostingAssumption
<1>1. Passes(rs, N, f)
  BY PassesExist
<1>2. Collapsed(rs) = f[N]
  BY DEF Collapsed, Passes
<1> HIDE DEF f
<1> DEFINE Next(now) == IF Len(now) > MaxOpenRuns THEN Pass(now) ELSE now
<1>3. ASSUME NEW n \in 0..N PROVE f[n] = IF n = 0 THEN rs ELSE Next(f[n - 1])
  BY <1>1 DEF Passes
<1> DEFINE Few(n) == Len(f[n]) \in Nat /\ (Len(f[n]) > MaxOpenRuns => Len(f[n]) + n <= N)
           S == {n \in Nat : n <= N => Few(n)}
<1>4. 0 \in S
  BY <1>3
<1>5. ASSUME NEW n \in S PROVE n + 1 \in S
  <2>0. n \in Nat /\ n + 1 \in Nat
    OBVIOUS
  <2>1. SUFFICES ASSUME n + 1 <= N PROVE Few(n + 1)
    <3> HIDE DEF Few
    <3> QED BY <2>0, <2>1
  <2>2. n \in Nat /\ Few(n) /\ n + 1 \in 0..N /\ n + 1 # 0 /\ (n + 1) - 1 = n
    BY <1>5, <2>1
  <2>3. f[n + 1] = Next(f[n])
    BY <1>3, <2>2
  <2>4. CASE Len(f[n]) > MaxOpenRuns
    <3>1. f[n + 1] = Pass(f[n])
      BY <2>3, <2>4
    <3>2. Len(f[n + 1]) \in Nat /\ Len(f[n + 1]) < Len(f[n])
      BY <2>2, <2>4, <3>1, PassShortens
    <3>3. Len(f[n]) + n <= N /\ Len(f[n]) \in Nat /\ n \in Nat /\ N \in Nat
      BY <2>2, <2>4
    <3>4. Len(f[n + 1]) + (n + 1) <= N
      <4> DEFINE a == Len(f[n])
                 b == Len(f[n + 1])
      <4>1. a + n <= N /\ b < a /\ a \in Nat /\ b \in Nat /\ n \in Nat /\ N \in Nat
        BY <3>2, <3>3
      <4> HIDE DEF a, b, N
      <4>2. b + (n + 1) <= N
        BY <4>1
      <4> QED BY <4>2 DEF b
    <3> QED BY <3>2, <3>4
  <2>5. CASE ~(Len(f[n]) > MaxOpenRuns)
    <3>1. f[n + 1] = f[n]
      BY <2>3, <2>5
    <3> QED BY <2>2, <2>5, <3>1
  <2> QED BY <2>4, <2>5
<1>6. S = Nat
  <2>1. S \in SUBSET Nat
    OBVIOUS
  <2> HIDE DEF S
  <2> QED BY <1>4, <1>5, <2>1, SetInduction
<1>7. Few(N)
  BY <1>6
<1> QED BY <1>0, <1>2, <1>7

\* Collapsing loses no record.
LEMMA CollapsedKeeps ==
    ASSUME NEW rs \in Seq(Seq(Entry)), IsFiniteSet(Records(rs))
    PROVE  Collapsed(rs) \in Seq(Seq(Entry)) /\ Records(Collapsed(rs)) = Records(rs)
<1> DEFINE N == Len(rs)
           f == CHOOSE f : Passes(rs, N, f)
<1>0. N \in Nat
  OBVIOUS
<1>1. Passes(rs, N, f)
  BY <1>0, PassesExist
<1>2. Collapsed(rs) = f[N]
  BY DEF Collapsed, Passes
<1> HIDE DEF f
<1> DEFINE Next(now) == IF Len(now) > MaxOpenRuns THEN Pass(now) ELSE now
           Keeps(n) == f[n] \in Seq(Seq(Entry)) /\ Records(f[n]) = Records(rs)
           S == {n \in Nat : n <= N => Keeps(n)}
<1>3. ASSUME NEW n \in 0..N PROVE f[n] = IF n = 0 THEN rs ELSE Next(f[n - 1])
  BY <1>1 DEF Passes
<1>4. 0 \in S
  <2>1. 0 \in 0..N
    BY <1>0
  <2>2. f[0] = rs
    BY <1>3, <2>1
  <2> QED BY <2>2
<1>5. ASSUME NEW n \in S PROVE n + 1 \in S
  <2>0. n \in Nat /\ n + 1 \in Nat
    OBVIOUS
  <2>1. SUFFICES ASSUME n + 1 <= N PROVE Keeps(n + 1)
    <3> HIDE DEF Keeps
    <3> QED BY <2>0, <2>1
  <2>2. n <= N /\ n + 1 \in 0..N /\ n + 1 # 0 /\ (n + 1) - 1 = n
    BY <1>0, <2>0, <2>1
  <2>3. Keeps(n)
    BY <2>2
  <2>4. f[n + 1] = Next(f[n])
    BY <1>3, <2>2
  <2>5. CASE Len(f[n]) > MaxOpenRuns
    <3> DEFINE now == f[n]
    <3>1. now \in Seq(Seq(Entry)) /\ IsFiniteSet(Records(now)) /\ f[n + 1] = Pass(now) /\ Records(now) = Records(rs)
      BY <2>3, <2>4, <2>5
    <3> HIDE DEF now
    <3>2. Pass(now) \in Seq(Seq(Entry)) /\ Records(Pass(now)) = Records(now)
      BY <3>1, PassRecords
    <3> QED BY <3>1, <3>2
  <2>6. CASE ~(Len(f[n]) > MaxOpenRuns)
    <3>1. f[n + 1] = f[n]
      BY <2>4, <2>6
    <3> QED BY <2>3, <3>1
  <2> QED BY <2>5, <2>6
<1>6. S = Nat
  <2>1. S \in SUBSET Nat
    OBVIOUS
  <2> HIDE DEF S
  <2> QED BY <1>4, <1>5, <2>1, SetInduction
<1>7. Keeps(N)
  BY <1>0, <1>6
<1> QED BY <1>2, <1>7

\* The members of a list.
LEMMA ToSetFinite ==
    ASSUME NEW X, NEW s \in Seq(X)
    PROVE  IsFiniteSet(ToSet(s)) /\ ToSet(s) \subseteq X
<1> DEFINE D == 1..Len(s)
           T == ToSet(s)
<1>1. Len(s) \in Nat /\ DOMAIN s = D /\ s \in [D -> X]
  BY LenProperties
<1>2. T = {s[i] : i \in D}
  BY <1>1 DEF ToSet
<1>3. IsFiniteSet(D)
  <2>1. 1 \in Int /\ Len(s) \in Int
    BY <1>1
  <2> QED BY <2>1, FS_Interval
<1> HIDE DEF D, T
<1>4. s \in Surjection(D, T)
  BY <1>1, <1>2 DEF Surjection
<1>5. IsFiniteSet(T)
  BY <1>3, <1>4, FS_Surjection
<1> QED BY <1>1, <1>2, <1>5 DEF T

\* A spilled buffer is a run of its entries.
LEMMA SpilledKeeps ==
    ASSUME NEW rs \in Seq(Seq(Entry)), NEW entries \in Seq(Entry)
    PROVE  Spilled(rs, entries) \in Seq(Seq(Entry)) /\ Records(Spilled(rs, entries)) = Records(rs) \cup ToSet(entries)
<1>1. CASE entries = <<>>
  <2>1. ToSet(entries) = {}
    BY <1>1 DEF ToSet
  <2> QED BY <1>1, <2>1 DEF Spilled
<1>2. CASE entries # <<>>
  <2> DEFINE run == Ordered(ToSet(entries))
             all == Append(rs, run)
  <2>1. ToSet(entries) \in SUBSET Entry /\ IsFiniteSet(ToSet(entries))
    BY ToSetFinite
  <2>2. run \in Seq(Entry) /\ ToSet(run) = ToSet(entries)
    BY <2>1, OrderedIs
  <2> HIDE DEF run
  <2>3. all \in Seq(Seq(Entry)) /\ Len(all) = Len(rs) + 1
    BY <2>2
  <2>4. all[Len(rs) + 1] = run /\ \A r \in 1..Len(rs) : all[r] = rs[r]
    BY <2>2
  <2>5. DOMAIN all = 1..(Len(rs) + 1) /\ DOMAIN rs = 1..Len(rs) /\ Len(rs) \in Nat
    BY <2>3
  <2> HIDE DEF all
  <2>6. Records(all) = Records(rs) \cup ToSet(run)
    <3>1. ASSUME NEW e \in Records(all) PROVE e \in Records(rs) \cup ToSet(run)
      <4>1. PICK r \in 1..(Len(rs) + 1) : e \in ToSet(all[r])
        BY <2>5 DEF Records
      <4>2. r \in 1..Len(rs) \/ r = Len(rs) + 1
        BY <2>5
      <4> QED BY <2>4, <2>5, <4>1, <4>2 DEF Records
    <3>2. ASSUME NEW e \in Records(rs) PROVE e \in Records(all)
      <4>1. PICK r \in 1..Len(rs) : e \in ToSet(rs[r])
        BY <2>5 DEF Records
      <4>2. r \in 1..(Len(rs) + 1)
        BY <2>5
      <4> QED BY <2>4, <2>5, <4>1, <4>2 DEF Records
    <3>3. ASSUME NEW e \in ToSet(run) PROVE e \in Records(all)
      <4>1. Len(rs) + 1 \in 1..(Len(rs) + 1)
        BY <2>5
      <4> QED BY <2>4, <2>5, <4>1 DEF Records
    <3> QED BY <3>1, <3>2, <3>3
  <2>7. Spilled(rs, entries) = all
    BY <1>2 DEF Spilled, all, run
  <2> QED BY <2>2, <2>3, <2>6, <2>7
<1> QED BY <1>1, <1>2

-----------------------------------------------------------------------------
(***************************************************************************)
(* Lists at a fixed width.                                                 *)
(***************************************************************************)

\* A list over a set is one over a larger set.
LEMMA SeqWidens ==
    ASSUME NEW X, NEW Y, X \subseteq Y, NEW s \in Seq(X)
    PROVE  s \in Seq(Y)
OBVIOUS

LEMMA IdsFinite == IsFiniteSet(Ids) /\ Cardinality(Ids) = IdSpace /\ Ids \subseteq Nat
<1>1. IdSpace \in Nat \ {0}
  BY PostingAssumption
<1>2. 0 \in Int /\ IdSpace - 1 \in Int /\ ~(0 > IdSpace - 1) /\ (IdSpace - 1) - 0 + 1 = IdSpace
  BY <1>1
<1>3. IsFiniteSet(0..(IdSpace - 1)) /\ Cardinality(0..(IdSpace - 1)) = IF 0 > IdSpace - 1 THEN 0 ELSE (IdSpace - 1) - 0 + 1
  BY <1>2, FS_Interval
<1> QED BY <1>1, <1>2, <1>3 DEF Ids

\* The list of a set of ids: ascending, and no longer than there are ids.
LEMMA ListIs ==
    ASSUME NEW set \in SUBSET Ids
    PROVE  /\ IsFiniteSet(set) /\ UpTo(set) \in Seq(Ids) /\ Len(UpTo(set)) = Cardinality(set)
           /\ ToSet(UpTo(set)) = set /\ Cardinality(set) \in 0..IdSpace
           /\ (Cardinality(set) = IdSpace => set = Ids)
           /\ \A i, j \in 1..Cardinality(set) : i < j => UpTo(set)[i] < UpTo(set)[j]
<1>1. IsFiniteSet(set) /\ Cardinality(set) <= IdSpace /\ (IdSpace = Cardinality(set) => Ids = set)
  BY IdsFinite, FS_Subset
<1>2. set \in SUBSET Nat
  BY IdsFinite
<1>3. /\ Cardinality(set) \in Nat
      /\ UpTo(set) \in Seq(set) /\ Len(UpTo(set)) = Cardinality(set) /\ ToSet(UpTo(set)) = set
      /\ \A i, j \in 1..Cardinality(set) : i < j => UpTo(set)[i] < UpTo(set)[j]
  BY <1>1, <1>2, UpToIs
<1>4. UpTo(set) \in Seq(Ids)
  BY <1>3
<1>5. IdSpace \in Nat
  BY PostingAssumption
<1> QED BY <1>1, <1>3, <1>4, <1>5

\* A list packed at a fixed width, or its complement, is decoded to itself.
LEMMA FixedRead ==
    ASSUME NEW set \in SUBSET Ids
    PROVE  /\ FixedCells(UpTo(set)) \in Seq(Nat)
           /\ Len(FixedCells(UpTo(set))) = StoredCount(Cardinality(set))
           /\ DecodeFixed(FixedCells(UpTo(set)), Cardinality(set)) = [ok |-> TRUE, ids |-> set]
<1> DEFINE c == Cardinality(set)
           rest == Ids \ set
           held == IF c * 2 > IdSpace THEN rest ELSE set
           cells == FixedCells(UpTo(set))
<1>0. IdSpace \in Nat /\ c \in Nat /\ c <= IdSpace /\ Len(UpTo(set)) = c /\ ToSet(UpTo(set)) = set
  BY ListIs, PostingAssumption
<1>1. Cardinality(rest) = IdSpace - c
  <2>1. Cardinality(Ids \ set) = Cardinality(Ids) - Cardinality(Ids \cap set)
    BY IdsFinite, FS_Difference
  <2>2. Ids \cap set = set
    OBVIOUS
  <2> QED BY <2>1, <2>2, IdsFinite
<1>2. cells = UpTo(held)
  BY <1>0 DEF FixedCells
<1>3. held \in SUBSET Ids
  OBVIOUS
<1>4. Cardinality(held) = StoredCount(c)
  BY <1>1 DEF StoredCount, Complemented
<1> HIDE DEF held, cells, rest, c
<1>5. /\ cells \in Seq(Ids) /\ Len(cells) = Cardinality(held) /\ ToSet(cells) = held
      /\ Cardinality(held) \in 0..IdSpace
      /\ \A i, j \in 1..Cardinality(held) : i < j => cells[i] < cells[j]
  BY <1>2, <1>3, ListIs
<1>6. cells \in Seq(Nat)
  <2>1. Ids \in SUBSET Nat
    BY IdsFinite
  <2>2. cells \in Seq(Ids)
    BY <1>5
  <2> QED BY <2>1, <2>2, SeqWidens
<1>7. \A i \in 1..(Len(cells) - 1) : cells[i] < cells[i + 1]
  <2>1. ASSUME NEW i \in 1..(Len(cells) - 1)
        PROVE  i \in 1..Cardinality(held) /\ i + 1 \in 1..Cardinality(held) /\ i < i + 1
    BY <1>0, <1>5
  <2> QED BY <1>5, <2>1
<1>8. DecodeFixed(cells, c) = [ok |-> TRUE, ids |-> IF Complemented(c) THEN Ids \ held ELSE held]
  BY <1>3, <1>4, <1>5, <1>7 DEF DecodeFixed
<1>9. (IF Complemented(c) THEN Ids \ held ELSE held) = set
  BY DEF Complemented, held, rest
<1> QED BY <1>4, <1>5, <1>6, <1>8, <1>9 DEF c, cells

LEMMA PowerIs == ASSUME NEW w \in Nat PROVE 2 ^ w \in Nat \ {0}
<1> DEFINE T == 1..w
<1>1. IsFiniteSet(T) /\ Cardinality(T) = w
  <2>1. 1 \in Int /\ w \in Int /\ (1 > w => w = 0) /\ w - 1 + 1 = w
    OBVIOUS
  <2>2. IsFiniteSet(1..w) /\ Cardinality(1..w) = IF 1 > w THEN 0 ELSE w - 1 + 1
    BY <2>1, FS_Interval
  <2> QED BY <2>1, <2>2
<1> HIDE DEF T
<1>2. IsFiniteSet(SUBSET T) /\ Cardinality(SUBSET T) = 2 ^ Cardinality(T)
  BY <1>1, FS_SUBSET
<1>3. Cardinality(SUBSET T) \in Nat
  BY <1>2, FS_CardinalityType
<1>4. T \in SUBSET T
  OBVIOUS
<1>5. Cardinality(SUBSET T) # 0
  <2> DEFINE P == SUBSET T
  <2>1. IsFiniteSet(P) /\ P # {}
    BY <1>2, <1>4
  <2> HIDE DEF P
  <2>2. Cardinality(P) # 0
    BY <2>1, FS_EmptySet
  <2> QED BY <2>2 DEF P
<1> QED BY <1>1, <1>2, <1>3, <1>5

\* The smallest of some natural numbers.
LEMMA SmallestIs ==
    ASSUME NEW T \in SUBSET Nat, T # {}
    PROVE  \E x \in T : \A y \in T : x <= y
<1> DEFINE R == OpToRel(<, Nat)
<1>1. IsWellFoundedOn(R, Nat)
  BY NatLessThanWellFounded
<1>2. \A x, y \in Nat : <<y, x>> \in R <=> y < x
  BY DEF OpToRel
<1> HIDE DEF R
<1>4. PICK x \in T : \A y \in T : ~(<<y, x>> \in R)
  BY <1>1, WFMin
<1>5. ASSUME NEW y \in T PROVE x <= y
  <2>1. x \in Nat /\ y \in Nat /\ ~(y < x)
    BY <1>2, <1>4
  <2> QED BY <2>1
<1> QED BY <1>5

\* bits_for: the width holds the number.
LEMMA BitsFit ==
    ASSUME NEW n \in Nat, n < IdSpace
    PROVE  BitsFor(n) \in 1..32 /\ n < 2 ^ BitsFor(n)
<1> DEFINE T == {w \in 1..32 : n < 2 ^ w}
<1>1. PICK v \in 1..32 : IdSpace <= 2 ^ v
  BY PostingAssumption
<1>2. v \in Nat /\ IdSpace \in Nat
  BY PostingAssumption
<1>3. 2 ^ v \in Nat
  BY <1>2, PowerIs
<1>4. n < 2 ^ v
  <2> DEFINE p == 2 ^ v
  <2>1. p \in Nat /\ IdSpace <= p
    BY <1>1, <1>3
  <2> HIDE DEF p
  <2>2. n < p
    BY <1>2, <2>1
  <2> QED BY <2>2 DEF p
<1>5. T \in SUBSET Nat /\ T # {}
  BY <1>4
<1>6. PICK w \in T : \A y \in T : w <= y
  <2> HIDE DEF T
  <2> QED BY <1>5, SmallestIs
<1>7. ASSUME NEW y \in 1..(w - 1) PROVE n >= 2 ^ y
  <2>1. y \in 1..32 /\ y \in Nat /\ ~(w <= y)
    BY <1>6
  <2>2. ~(n < 2 ^ y)
    BY <1>6, <2>1
  <2>3. 2 ^ y \in Nat
    BY <2>1, PowerIs
  <2> DEFINE p == 2 ^ y
  <2>4. p \in Nat /\ ~(n < p)
    BY <2>2, <2>3
  <2> HIDE DEF p
  <2>5. n >= p
    BY <2>4
  <2> QED BY <2>5 DEF p
<1>8. \E z \in 1..32 : n < 2 ^ z /\ \A u \in 1..(z - 1) : n >= 2 ^ u
  BY <1>6, <1>7
<1> QED BY <1>8 DEF BitsFor

\* The width of a block holds each of its deltas.
LEMMA WidthFits ==
    ASSUME NEW ds \in Seq(Nat), Len(ds) # 0, \A i \in 1..Len(ds) : ds[i] < IdSpace
    PROVE  Width(ds) \in 1..32 /\ \A i \in 1..Len(ds) : ds[i] % 2 ^ Width(ds) = ds[i]
<1> DEFINE S == ToSet(ds)
           m == Max(S)
           w == Width(ds)
<1>0. Len(ds) \in Nat /\ DOMAIN ds = 1..Len(ds) /\ \A i \in 1..Len(ds) : ds[i] \in Nat
  BY LenProperties
<1>1. S \in SUBSET Nat /\ IsFiniteSet(S)
  BY ToSetFinite
<1>2. \A i \in 1..Len(ds) : ds[i] \in S
  BY <1>0 DEF ToSet
<1>3. S # {} /\ \A x \in S : x < IdSpace
  <2>1. 1 \in 1..Len(ds)
    BY <1>0
  <2> QED BY <1>0, <1>2, <2>1 DEF ToSet
<1> HIDE DEF S
<1>4. \E x \in S : \A y \in S : x >= y
  <2> DEFINE c == Cardinality(S)
             u == UpTo(S)
  <2>1. c \in Nat /\ u \in Seq(S) /\ Len(u) = c /\ ToSet(u) = S /\ \A i, j \in 1..c : i < j => u[i] < u[j]
    BY <1>1, UpToIs
  <2> HIDE DEF c, u
  <2>2. DOMAIN u = 1..c /\ \A i \in 1..c : u[i] \in S
    BY <2>1, LenProperties
  <2>3. ASSUME NEW y \in S PROVE c \in 1..c /\ u[c] \in S /\ u[c] >= y
    <3>1. PICK k \in 1..c : y = u[k]
      BY <2>1, <2>2 DEF ToSet
    <3>2. c \in 1..c
      BY <2>1
    <3>3. u[c] \in S /\ u[c] \in Nat /\ y \in Nat
      BY <1>1, <2>2, <3>2
    <3>4. k < c => u[k] < u[c]
      BY <2>1, <3>2
    <3>5. k = c \/ k < c
      BY <2>1
    <3> QED BY <3>1, <3>2, <3>3, <3>4, <3>5
  <2> QED BY <1>3, <2>3
<1>5. m \in S /\ \A y \in S : m >= y
  BY <1>4 DEF Max
<1> HIDE DEF m
<1>6. m \in Nat /\ m < IdSpace
  BY <1>1, <1>3, <1>5
<1>7. w = BitsFor(m)
  BY DEF Width, m, S
<1> HIDE DEF w
<1>8. w \in 1..32 /\ m < 2 ^ w
  BY <1>6, <1>7, BitsFit
<1>9. 2 ^ w \in Nat \ {0}
  <2>1. w \in Nat
    BY <1>8
  <2> QED BY <2>1, PowerIs
<1>10. ASSUME NEW i \in 1..Len(ds) PROVE ds[i] % 2 ^ w = ds[i]
  <2> DEFINE p == 2 ^ w
             d == ds[i]
  <2>1. p \in Nat \ {0} /\ m < p /\ d \in Nat /\ m >= d
    BY <1>0, <1>2, <1>5, <1>8, <1>9
  <2> HIDE DEF p, d
  <2>2. d < p
    BY <1>6, <2>1
  <2>3. d % p = d
    BY <2>1, <2>2
  <2> QED BY <2>3 DEF p, d
<1> QED BY <1>8, <1>10 DEF w

-----------------------------------------------------------------------------
(***************************************************************************)
(* Delta blocks: what encode_delta_blocks writes.                          *)
(***************************************************************************)

IsAscending(ids) == ids \in Seq(Ids) /\ \A i, j \in 1..Len(ids) : i < j => ids[i] < ids[j]

DeltaOf(ids, i) == IF i = 1 THEN ids[1] ELSE ids[i] - ids[i - 1] - 1

\* The end of the k-th block of a list.
DeltaEnd(ids, k) == IF k * DeltaIds < Len(ids) THEN k * DeltaIds ELSE Len(ids)

DeltaBlock(ids, k) ==
    LET hi == IF k * DeltaIds < Len(ids) THEN k * DeltaIds ELSE Len(ids)
        ds == [j \in 1..(hi - (k - 1) * DeltaIds) |-> DeltaOf(ids, (k - 1) * DeltaIds + j)]
    IN  <<Width(ds)>> \o [j \in DOMAIN ds |-> ds[j] % 2 ^ Width(ds)]

DeltaBlockCount(ids) == (Len(ids) + DeltaIds - 1) \div DeltaIds

\* A delta is an id, or fits between two.
LEMMA DeltaFits ==
    ASSUME NEW ids, IsAscending(ids), NEW i \in 1..Len(ids)
    PROVE  DeltaOf(ids, i) \in Nat /\ DeltaOf(ids, i) < IdSpace
<1>0. Len(ids) \in Nat /\ IdSpace \in Nat /\ \A j \in 1..Len(ids) : ids[j] \in Nat /\ ids[j] < IdSpace
  <2>1. \A j \in 1..Len(ids) : ids[j] \in Ids
    BY LenProperties DEF IsAscending
  <2>2. Len(ids) \in Nat
    BY LenProperties DEF IsAscending
  <2> QED BY <2>1, <2>2, PostingAssumption DEF Ids
<1>1. CASE i = 1
  BY <1>0, <1>1 DEF DeltaOf
<1>2. CASE i # 1
  <2>1. i - 1 \in 1..Len(ids) /\ i - 1 < i
    BY <1>0, <1>2
  <2>2. ids[i - 1] < ids[i]
    BY <2>1 DEF IsAscending
  <2>3. DeltaOf(ids, i) = ids[i] - ids[i - 1] - 1
    BY <1>2 DEF DeltaOf
  <2> DEFINE a == ids[i - 1]
             b == ids[i]
  <2>4. a \in Nat /\ b \in Nat /\ b < IdSpace /\ a < b
    BY <1>0, <2>1, <2>2
  <2> HIDE DEF a, b
  <2>5. b - a - 1 \in Nat /\ b - a - 1 < IdSpace
    BY <1>0, <2>4
  <2> QED BY <2>3, <2>5 DEF a, b
<1> QED BY <1>1, <1>2

\* Where the k-th block lies in the list.
LEMMA DeltaPlace ==
    ASSUME NEW ids, Len(ids) \in Nat, NEW k \in 1..DeltaBlockCount(ids)
    PROVE  /\ (k - 1) * DeltaIds \in Nat /\ DeltaEnd(ids, k) \in 1..Len(ids)
           /\ (k - 1) * DeltaIds < DeltaEnd(ids, k) /\ DeltaEnd(ids, k) <= k * DeltaIds
           /\ k * DeltaIds = (k - 1) * DeltaIds + DeltaIds /\ (k - 1) * DeltaIds < Len(ids)
           /\ \A i \in 1..Len(ids) : i <= k * DeltaIds => i <= DeltaEnd(ids, k)
<1> DEFINE n == Len(ids)
           D == DeltaIds
           a == (k - 1) * D
           b == k * D
           e == DeltaEnd(ids, k)
<1>0. n \in Nat /\ D \in Nat \ {0}
  BY PostingAssumption
<1>1. a \in Nat /\ a < n /\ b = a + D
  <2>1. k \in 1..((n + D - 1) \div D)
    BY DEF DeltaBlockCount
  <2> HIDE DEF n, D
  <2> QED BY <1>0, <2>1, Chunks
<1>2. e = IF b < n THEN b ELSE n
  BY DEF DeltaEnd
<1> HIDE DEF n, D, a, b, e
<1>3. e \in 1..n /\ a < e /\ e <= b /\ \A i \in 1..n : i <= b => i <= e
  BY <1>0, <1>1, <1>2
<1> QED BY <1>1, <1>3 DEF n, D, a, b, e

\* A block: its width, and its deltas.
LEMMA DeltaBlockIs ==
    ASSUME NEW ids, IsAscending(ids), NEW k \in 1..DeltaBlockCount(ids)
    PROVE  /\ DeltaBlock(ids, k) \in Seq(Nat)
           /\ Len(DeltaBlock(ids, k)) = 1 + (DeltaEnd(ids, k) - (k - 1) * DeltaIds)
           /\ DeltaBlock(ids, k)[1] \in 1..32
           /\ \A p \in 1..(DeltaEnd(ids, k) - (k - 1) * DeltaIds) :
                DeltaBlock(ids, k)[1 + p] = DeltaOf(ids, (k - 1) * DeltaIds + p)
<1> DEFINE a == (k - 1) * DeltaIds
           e == DeltaEnd(ids, k)
           n == Len(ids)
           m == e - a
           ds == [j \in 1..m |-> DeltaOf(ids, a + j)]
           w == Width(ds)
           tail == [j \in DOMAIN ds |-> ds[j] % 2 ^ w]
           B == DeltaBlock(ids, k)
<1>0. n \in Nat
  BY LenProperties DEF IsAscending
<1>1. a \in Nat /\ e \in 1..n /\ a < e
  BY <1>0, DeltaPlace
<1>2. B = <<w>> \o tail
  BY DEF DeltaBlock, DeltaEnd
<1> HIDE DEF a, e, B, n
<1>3. m \in Nat \ {0} /\ \A j \in 1..m : a + j \in 1..n
  BY <1>0, <1>1
<1> HIDE DEF m
<1>4. \A j \in 1..m : DeltaOf(ids, a + j) \in Nat /\ DeltaOf(ids, a + j) < IdSpace
  BY <1>3, DeltaFits DEF n
<1>5. ds \in Seq(Nat) /\ Len(ds) = m /\ DOMAIN ds = 1..m /\ \A j \in 1..m : ds[j] = DeltaOf(ids, a + j)
  BY <1>3, <1>4
<1> HIDE DEF ds
<1>6. w \in 1..32 /\ \A j \in 1..m : ds[j] % 2 ^ w = ds[j]
  <2>1. Len(ds) # 0 /\ \A i \in 1..Len(ds) : ds[i] < IdSpace
    BY <1>3, <1>4, <1>5
  <2>2. Width(ds) \in 1..32 /\ \A i \in 1..Len(ds) : ds[i] % 2 ^ Width(ds) = ds[i]
    BY <1>5, <2>1, WidthFits
  <2> QED BY <1>5, <2>2
<1> HIDE DEF w
<1>7. tail = [j \in 1..m |-> ds[j]]
  BY <1>5, <1>6
<1> HIDE DEF tail
<1>8. tail \in Seq(Nat) /\ Len(tail) = m /\ \A j \in 1..m : tail[j] = DeltaOf(ids, a + j)
  BY <1>3, <1>4, <1>5, <1>7
<1>9. <<w>> \in Seq(Nat) /\ Len(<<w>>) = 1 /\ <<w>>[1] = w
  BY <1>6
<1> DEFINE h == <<w>>
<1> HIDE DEF h
<1>10. /\ h \o tail \in Seq(Nat) /\ Len(h \o tail) = 1 + m
       /\ \A i \in 1..(1 + m) : (h \o tail)[i] = IF i <= 1 THEN h[i] ELSE tail[i - 1]
  <2>1. h \in Seq(Nat) /\ Len(h) = 1
    BY <1>9 DEF h
  <2>2. /\ h \o tail \in Seq(Nat) /\ Len(h \o tail) = Len(h) + Len(tail)
        /\ \A i \in 1..(Len(h) + Len(tail)) : (h \o tail)[i] = IF i <= Len(h) THEN h[i] ELSE tail[i - Len(h)]
    BY <1>8, <2>1, ConcatProperties
  <2> QED BY <1>8, <2>1, <2>2
<1>11. B = h \o tail /\ h[1] = w
  BY <1>2, <1>9 DEF h
<1>12. B[1] = w
  <2>1. 1 \in 1..(1 + m) /\ 1 <= 1
    BY <1>3
  <2> QED BY <1>10, <1>11, <2>1
<1>13. ASSUME NEW p \in 1..m PROVE B[1 + p] = DeltaOf(ids, a + p)
  <2>1. 1 + p \in 1..(1 + m) /\ ~(1 + p <= 1) /\ (1 + p) - 1 = p
    BY <1>3
  <2>2. B[1 + p] = tail[p]
    BY <1>10, <1>11, <2>1
  <2> QED BY <1>8, <2>2
<1> QED BY <1>6, <1>10, <1>11, <1>12, <1>13 DEF B, m, a, e

\* The cells of the first k blocks: where the widths are, and where the deltas.
Packs(ids, k, cs) ==
    /\ cs \in Seq(Nat) /\ Len(cs) = DeltaEnd(ids, k) + k
    /\ \A j \in 1..k : cs[(j - 1) * DeltaIds + j] \in 1..32
    /\ \A j \in 1..k : \A i \in 1..Len(ids) :
          (j - 1) * DeltaIds < i /\ i <= j * DeltaIds => cs[i + j] = DeltaOf(ids, i)

\* The first block packs the first ids.
LEMMA PacksFirst ==
    ASSUME NEW ids, IsAscending(ids), 1 \in 1..DeltaBlockCount(ids)
    PROVE  Packs(ids, 1, DeltaBlock(ids, 1))
<1> DEFINE B == DeltaBlock(ids, 1)
           e == DeltaEnd(ids, 1)
           D == DeltaIds
<1>0. Len(ids) \in Nat /\ D \in Nat /\ (1 - 1) * D = 0
  BY LenProperties, PostingAssumption DEF IsAscending
<1>1. e \in 1..Len(ids) /\ \A i \in 1..Len(ids) : i <= 1 * D => i <= e
  BY <1>0, DeltaPlace
<1>2. /\ B \in Seq(Nat) /\ Len(B) = 1 + (e - (1 - 1) * D) /\ B[1] \in 1..32
      /\ \A p \in 1..(e - (1 - 1) * D) : B[1 + p] = DeltaOf(ids, (1 - 1) * D + p)
  BY DeltaBlockIs
<1> HIDE DEF B, e, D
<1>3. Len(B) = e + 1 /\ \A p \in 1..e : B[1 + p] = DeltaOf(ids, p)
  BY <1>0, <1>1, <1>2
<1>4. ASSUME NEW j \in 1..1 PROVE j = 1 /\ (j - 1) * D + j = 1
  BY <1>0
<1>5. ASSUME NEW i \in 1..Len(ids), i <= 1 * D PROVE B[i + 1] = DeltaOf(ids, i)
  BY <1>0, <1>1, <1>3, <1>5
<1>6. /\ \A j \in 1..1 : B[(j - 1) * D + j] \in 1..32
      /\ \A j \in 1..1 : \A i \in 1..Len(ids) : (j - 1) * D < i /\ i <= j * D => B[i + j] = DeltaOf(ids, i)
  BY <1>2, <1>4, <1>5
<1> QED BY <1>2, <1>3, <1>6 DEF Packs, B, e, D

\* A block more packs as many ids more.
LEMMA PacksNext ==
    ASSUME NEW ids, IsAscending(ids), NEW k \in Nat \ {0}, k + 1 \in 1..DeltaBlockCount(ids),
           NEW cs, Packs(ids, k, cs)
    PROVE  Packs(ids, k + 1, cs \o DeltaBlock(ids, k + 1))
<1> DEFINE B == DeltaBlock(ids, k + 1)
           e == DeltaEnd(ids, k + 1)
           n == Len(ids)
           D == DeltaIds
           a == k * D
           b == (k + 1) * D
           all == cs \o B
<1>0. n \in Nat /\ D \in Nat \ {0} /\ (k + 1) - 1 = k /\ DeltaBlockCount(ids) \in Nat
  <2>1. n \in Nat /\ D \in Nat \ {0}
    BY LenProperties, PostingAssumption DEF IsAscending
  <2>2. (n + D - 1) \div D \in Nat
    <3> HIDE DEF n, D
    <3> QED BY <2>1, Chunks
  <2> QED BY <2>1, <2>2 DEF DeltaBlockCount
<1>1. /\ a \in Nat /\ e \in 1..n /\ a < e /\ e <= b /\ b = a + D /\ a < n
      /\ \A i \in 1..n : i <= b => i <= e
  BY <1>0, DeltaPlace
<1>2. /\ B \in Seq(Nat) /\ Len(B) = 1 + (e - a) /\ B[1] \in 1..32
      /\ \A p \in 1..(e - a) : B[1 + p] = DeltaOf(ids, a + p)
  BY <1>0, DeltaBlockIs
<1>3. cs \in Seq(Nat) /\ Len(cs) = a + k
  <2>1. DeltaEnd(ids, k) = a
    BY <1>1 DEF DeltaEnd
  <2> QED BY <2>1 DEF Packs
<1>4. /\ \A j \in 1..k : cs[(j - 1) * D + j] \in 1..32
      /\ \A j \in 1..k : \A i \in 1..n : (j - 1) * D < i /\ i <= j * D => cs[i + j] = DeltaOf(ids, i)
  BY DEF Packs
<1>5. ASSUME NEW j \in 1..k PROVE j * D \in Nat /\ (j - 1) * D \in Nat /\ j * D <= a /\ j * D = (j - 1) * D + D
  <2>1. j \in Nat /\ j - 1 \in Nat /\ j <= k
    OBVIOUS
  <2> HIDE DEF D, a
  <2>2. j * D <= k * D
    BY <1>0, <2>1
  <2> QED BY <1>0, <2>1, <2>2 DEF a
<1> HIDE DEF B, e, n, D, a, b
<1>6. /\ all \in Seq(Nat) /\ Len(all) = (a + k) + (1 + (e - a))
      /\ \A i \in 1..((a + k) + (1 + (e - a))) : all[i] = IF i <= a + k THEN cs[i] ELSE B[i - (a + k)]
  <2>1. /\ cs \o B \in Seq(Nat) /\ Len(cs \o B) = Len(cs) + Len(B)
        /\ \A i \in 1..(Len(cs) + Len(B)) : (cs \o B)[i] = IF i <= Len(cs) THEN cs[i] ELSE B[i - Len(cs)]
    BY <1>2, <1>3, ConcatProperties
  <2> QED BY <1>2, <1>3, <2>1
<1> HIDE DEF all
<1>7. Len(all) = e + (k + 1)
  BY <1>0, <1>1, <1>6
<1>8. \A i \in 1..(a + k) : all[i] = cs[i]
  BY <1>0, <1>1, <1>6
<1>9. \A p \in 1..(1 + (e - a)) : all[(a + k) + p] = B[p]
  <2>1. ASSUME NEW p \in 1..(1 + (e - a))
        PROVE  (a + k) + p \in 1..((a + k) + (1 + (e - a))) /\ ~((a + k) + p <= a + k) /\ ((a + k) + p) - (a + k) = p
    BY <1>0, <1>1
  <2> QED BY <1>6, <2>1
<1>10. ASSUME NEW j \in 1..(k + 1) PROVE all[(j - 1) * D + j] \in 1..32
  <2>1. CASE j = k + 1
    <3>1. (j - 1) * D + j = (a + k) + 1 /\ 1 \in 1..(1 + (e - a))
      <4>1. j - 1 = k /\ (j - 1) * D = a
        BY <1>0, <2>1 DEF a
      <4> QED BY <1>0, <1>1, <2>1, <4>1
    <3> QED BY <1>2, <1>9, <3>1
  <2>2. CASE j # k + 1
    <3>1. j \in 1..k
      BY <2>2
    <3> DEFINE q == (j - 1) * D
               r == j * D
    <3>2. q \in Nat /\ r \in Nat /\ r <= a /\ r = q + D
      BY <1>5, <3>1
    <3> HIDE DEF q, r
    <3>3. q + j \in 1..(a + k)
      BY <1>0, <1>1, <3>1, <3>2
    <3>4. cs[q + j] \in 1..32
      BY <1>4, <3>1 DEF q
    <3>5. all[q + j] \in 1..32
      BY <1>8, <3>3, <3>4
    <3> QED BY <3>5 DEF q
  <2> QED BY <2>1, <2>2
<1>11. ASSUME NEW j \in 1..(k + 1), NEW i \in 1..n, (j - 1) * D < i, i <= j * D
       PROVE  all[i + j] = DeltaOf(ids, i)
  <2>1. CASE j = k + 1
    <3>1. j - 1 = k /\ (j - 1) * D = a /\ j * D = b
      BY <1>0, <2>1 DEF a, b
    <3>2. a < i /\ i <= b
      BY <1>11, <3>1
    <3>3. i <= e
      BY <1>1, <3>2
    <3>4. i - a \in 1..(e - a) /\ 1 + (i - a) \in 1..(1 + (e - a)) /\ (a + k) + (1 + (i - a)) = i + j /\ a + (i - a) = i
      BY <1>0, <1>1, <2>1, <3>2, <3>3
    <3>5. all[(a + k) + (1 + (i - a))] = B[1 + (i - a)]
      BY <1>9, <3>4
    <3>6. B[1 + (i - a)] = DeltaOf(ids, a + (i - a))
      BY <1>2, <3>4
    <3> QED BY <3>4, <3>5, <3>6
  <2>2. CASE j # k + 1
    <3>1. j \in 1..k
      BY <2>2
    <3>2. cs[i + j] = DeltaOf(ids, i)
      BY <1>4, <1>11, <3>1
    <3> DEFINE r == j * D
    <3>3. r \in Nat /\ r <= a /\ i <= r
      BY <1>5, <1>11, <3>1
    <3> HIDE DEF r
    <3>4. i + j \in 1..(a + k)
      BY <1>0, <1>1, <3>1, <3>3
    <3> QED BY <1>8, <3>2, <3>4
  <2> QED BY <2>1, <2>2
<1> QED BY <1>6, <1>7, <1>10, <1>11 DEF Packs, all, B, e, n, D

\* encode_delta_blocks: all of the blocks, one after the other.
LEMMA DeltaCellsPack ==
    ASSUME NEW ids, IsAscending(ids), Len(ids) # 0
    PROVE  DeltaBlockCount(ids) \in Nat \ {0} /\ Packs(ids, DeltaBlockCount(ids), DeltaCells(ids))
<1> DEFINE c == DeltaBlockCount(ids)
           seqs == [k \in 1..c |-> DeltaBlock(ids, k)]
<1>0. Len(ids) \in Nat /\ DeltaIds \in Nat \ {0}
  BY LenProperties, PostingAssumption DEF IsAscending
<1>1. c \in Nat /\ c >= 1
  <2> DEFINE n == Len(ids)
             D == DeltaIds
  <2>1. n \in Nat /\ D \in Nat \ {0} /\ n > 0
    BY <1>0
  <2> HIDE DEF n, D
  <2>2. (n + D - 1) \div D \in Nat /\ (n + D - 1) \div D >= 1
    BY <2>1, Chunks
  <2> QED BY <2>2 DEF n, D, DeltaBlockCount
<1>2. DeltaCells(ids) = FlattenSeq(seqs)
  BY DEF DeltaCells, DeltaBlockCount, DeltaBlock, DeltaOf
<1> HIDE DEF c
<1>3. \A k \in 1..c : DeltaBlock(ids, k) \in Seq(Nat)
  BY DeltaBlockIs DEF c
<1>4. seqs \in Seq(Seq(Nat)) /\ Len(seqs) = c /\ \A k \in 1..c : seqs[k] = DeltaBlock(ids, k)
  BY <1>1, <1>3
<1> HIDE DEF seqs
<1>5. PICK f \in [1..Len(seqs) -> Seq(Nat)] :
              /\ f[1] = seqs[1]
              /\ \A i \in 2..Len(seqs) : f[i] = f[i - 1] \o seqs[i]
              /\ FlattenSeq(seqs) = f[Len(seqs)]
  <2>1. Len(seqs) # 0
    BY <1>1, <1>4
  <2> QED BY <1>4, <2>1, FlattenIs
<1> DEFINE S == {m \in Nat : m + 1 <= c => Packs(ids, m + 1, f[m + 1])}
<1>6. 0 \in S
  <2>1. 1 \in 1..c
    BY <1>1
  <2>2. f[1] = DeltaBlock(ids, 1)
    BY <1>4, <1>5, <2>1
  <2>3. Packs(ids, 1, f[1])
    BY <2>1, <2>2, PacksFirst DEF c
  <2> QED BY <2>3
<1>7. ASSUME NEW m \in S PROVE m + 1 \in S
  <2>0. m \in Nat /\ m + 1 \in Nat \ {0}
    OBVIOUS
  <2>1. SUFFICES ASSUME (m + 1) + 1 <= c PROVE Packs(ids, (m + 1) + 1, f[(m + 1) + 1])
    BY <2>0
  <2>2. Packs(ids, m + 1, f[m + 1])
    BY <1>1, <2>0, <2>1
  <2> DEFINE k == m + 1
  <2>3. k \in Nat \ {0} /\ k + 1 \in 1..c /\ k + 1 \in 2..c /\ (k + 1) - 1 = k
    BY <1>1, <2>0, <2>1
  <2> HIDE DEF k
  <2>4. f[k + 1] = f[k] \o DeltaBlock(ids, k + 1)
    BY <1>4, <1>5, <2>3
  <2>5. Packs(ids, k, f[k])
    BY <2>2 DEF k
  <2>6. Packs(ids, k + 1, f[k] \o DeltaBlock(ids, k + 1))
    BY <2>3, <2>5, PacksNext DEF c
  <2> QED BY <2>4, <2>6 DEF k
<1>8. S = Nat
  <2>1. S \in SUBSET Nat
    OBVIOUS
  <2> HIDE DEF S
  <2> QED BY <1>6, <1>7, <2>1, SetInduction
<1>9. c - 1 \in Nat /\ (c - 1) + 1 = c /\ c <= c
  BY <1>1
<1>10. c - 1 \in S
  BY <1>8, <1>9
<1>11. Packs(ids, c, f[c])
  BY <1>9, <1>10
<1> QED BY <1>1, <1>2, <1>4, <1>5, <1>11 DEF c

-----------------------------------------------------------------------------
(***************************************************************************)
(* Delta blocks: what decode_delta_blocks reads.                           *)
(***************************************************************************)

DecodeStart == [ok |-> TRUE, at |-> 1, left |-> 0, prev |-> -1, ids |-> {}]
DecodeState == [ok : BOOLEAN, at : Nat \ {0}, left : Int, prev : Int, ids : SUBSET Int]

LEMMA DecodeCellType ==
    ASSUME NEW cells \in Seq(Nat), NEW st \in DecodeState
    PROVE  DecodeCell(cells, st) \in DecodeState
<1> DEFINE id == IF st.prev = -1 THEN cells[st.at] ELSE st.prev + cells[st.at] + 1
           ns == DecodeCell(cells, st)
<1>0. st.at \in Nat \ {0} /\ st.left \in Int /\ st.prev \in Int /\ st.ids \in SUBSET Int /\ st.ok \in BOOLEAN
  BY DEF DecodeState
<1>1. CASE st.at > Len(cells)
  <2>1. ns = st \/ ns = [st EXCEPT !.ok = FALSE]
    BY <1>1 DEF DecodeCell
  <2>2. [st EXCEPT !.ok = FALSE] \in DecodeState
    BY DEF DecodeState
  <2> QED BY <2>1, <2>2
<1>2. CASE ~(st.at > Len(cells))
  <2>1. Len(cells) \in Nat /\ st.at \in 1..Len(cells)
    BY <1>0, <1>2, LenProperties
  <2>2. cells[st.at] \in Nat
    BY <2>1
  <2>3. id \in Int
    BY <1>0, <2>2
  <2>4. \/ ns = st
        \/ ns = [st EXCEPT !.ok = FALSE]
        \/ ns = [st EXCEPT !.left = DeltaIds, !.at = @ + 1]
        \/ ns = [st EXCEPT !.left = @ - 1, !.at = @ + 1, !.prev = id, !.ids = @ \cup {id}]
    BY DEF DecodeCell
  <2> HIDE DEF id, ns
  <2>5. DeltaIds \in Int
    BY PostingAssumption
  <2>6. [st EXCEPT !.ok = FALSE] \in DecodeState
    BY DEF DecodeState
  <2>7. [st EXCEPT !.left = DeltaIds, !.at = @ + 1] \in DecodeState
    <3> DEFINE x == st.at + 1
    <3>1. x \in Nat \ {0}
      BY <1>0
    <3>2. [st EXCEPT !.left = DeltaIds, !.at = @ + 1] = [st EXCEPT !.left = DeltaIds, !.at = x]
      BY DEF DecodeState
    <3> HIDE DEF x
    <3>3. [st EXCEPT !.left = DeltaIds, !.at = x] \in DecodeState
      BY <2>5, <3>1 DEF DecodeState
    <3> QED BY <3>2, <3>3
  <2>8. [st EXCEPT !.left = @ - 1, !.at = @ + 1, !.prev = id, !.ids = @ \cup {id}] \in DecodeState
    <3> DEFINE x == st.at + 1
               y == st.left - 1
               z == st.ids \cup {id}
    <3>1. x \in Nat \ {0} /\ y \in Int /\ z \in SUBSET Int
      BY <1>0, <2>3
    <3>2. [st EXCEPT !.left = @ - 1, !.at = @ + 1, !.prev = id, !.ids = @ \cup {id}]
          = [st EXCEPT !.left = y, !.at = x, !.prev = id, !.ids = z]
      BY DEF DecodeState
    <3> HIDE DEF x, y, z
    <3>3. [st EXCEPT !.left = y, !.at = x, !.prev = id, !.ids = z] \in DecodeState
      BY <2>3, <3>1 DEF DecodeState
    <3> QED BY <3>2, <3>3
  <2> QED BY <2>4, <2>6, <2>7, <2>8 DEF ns
<1> QED BY <1>1, <1>2

\* The decoder's loop has a solution, so DecodeDelta is its last state.
Decodes(cells, m, f) == f = [n \in 0..m |-> IF n = 0 THEN DecodeStart ELSE DecodeCell(cells, f[n - 1])]

LEMMA DecodeExists ==
    ASSUME NEW cells \in Seq(Nat), NEW m \in Nat
    PROVE  \E f : Decodes(cells, m, f)
<1> DEFINE V == DecodeState
           a == DecodeStart
           G == [p \in (1..m) \X V |-> DecodeCell(cells, p[2])]
<1>1. a \in V
  BY DEF DecodeState, DecodeStart
<1> HIDE DEF V, a
<1>2. ASSUME NEW v \in V PROVE DecodeCell(cells, v) \in V
  BY DecodeCellType DEF V
<1>3. G \in [(1..m) \X V -> V]
  BY <1>2
<1>4. \A n \in 1..m : \A v \in V : G[<<n, v>>] = DecodeCell(cells, v)
  OBVIOUS
<1> HIDE DEF G
<1>5. PICK f : Solution(V, a, m, G, f)
  BY <1>1, <1>3, Recursion
<1>6. f \in [0..m -> V] /\ f[0] = a /\ \A n \in 1..m : f[n] = G[<<n, f[n - 1]>>]
  BY <1>5 DEF Solution
<1>7. ASSUME NEW n \in 0..m PROVE f[n] = IF n = 0 THEN a ELSE DecodeCell(cells, f[n - 1])
  <2>1. n # 0 => n \in 1..m /\ n - 1 \in 0..m
    OBVIOUS
  <2>2. n # 0 => f[n - 1] \in V
    BY <1>6, <2>1
  <2> QED BY <1>4, <1>6, <2>1, <2>2
<1>8. f = [n \in 0..m |-> IF n = 0 THEN a ELSE DecodeCell(cells, f[n - 1])]
  BY <1>6, <1>7
<1> QED BY <1>8 DEF Decodes, a

\* After i ids of k opened blocks.
DecodedTo(ids, i, k, st) ==
    /\ i \in 0..Len(ids) /\ k \in 0..DeltaBlockCount(ids)
    /\ i <= k * DeltaIds /\ (k > 0 => (k - 1) * DeltaIds <= i)
    /\ st.ok = TRUE /\ st.at = i + k + 1 /\ st.left = k * DeltaIds - i
    /\ st.prev = (IF i = 0 THEN -1 ELSE ids[i])
    /\ st.ids = {ids[j] : j \in 1..i}
    /\ st \in DecodeState

\* A cell more: a block is opened, or an id decoded.
LEMMA DecodeCellStep ==
    ASSUME NEW ids, IsAscending(ids), Len(ids) # 0,
           NEW cells, Packs(ids, DeltaBlockCount(ids), cells),
           NEW i, NEW k, NEW st, DecodedTo(ids, i, k, st),
           i + k < Len(ids) + DeltaBlockCount(ids)
    PROVE  \/ DecodedTo(ids, i, k + 1, DecodeCell(cells, st))
           \/ DecodedTo(ids, i + 1, k, DecodeCell(cells, st))
<1> DEFINE n == Len(ids)
           c == DeltaBlockCount(ids)
           D == DeltaIds
           a == k * D
           ns == DecodeCell(cells, st)
<1>0. n \in Nat /\ D \in Nat \ {0} /\ c \in Nat /\ n <= c * D /\ IdSpace \in Nat
  <2>1. n \in Nat /\ D \in Nat \ {0} /\ IdSpace \in Nat
    BY LenProperties, PostingAssumption DEF IsAscending
  <2>2. (n + D - 1) \div D \in Nat /\ n <= ((n + D - 1) \div D) * D
    <3> HIDE DEF n, D
    <3> QED BY <2>1, Chunks
  <2> QED BY <2>1, <2>2 DEF DeltaBlockCount
<1>1. /\ i \in 0..n /\ k \in 0..c /\ i <= a /\ (k > 0 => (k - 1) * D <= i)
      /\ st.ok = TRUE /\ st.at = i + k + 1 /\ st.left = a - i
      /\ st.prev = (IF i = 0 THEN -1 ELSE ids[i]) /\ st.ids = {ids[j] : j \in 1..i} /\ st \in DecodeState
  BY DEF DecodedTo
<1>2. ns \in DecodeState
  BY <1>1, DecodeCellType DEF Packs
<1>3. /\ cells \in Seq(Nat) /\ Len(cells) = n + c
      /\ \A j \in 1..c : cells[(j - 1) * D + j] \in 1..32
      /\ \A j \in 1..c : \A x \in 1..n : (j - 1) * D < x /\ x <= j * D => cells[x + j] = DeltaOf(ids, x)
  <2>1. DeltaEnd(ids, c) = n
    <3>1. ~(c * D < n)
      <4> DEFINE t == c * D
      <4>1. n <= t /\ t \in Nat
        BY <1>0
      <4> HIDE DEF t, n
      <4>2. ~(t < n)
        BY <1>0, <4>1
      <4> QED BY <4>2 DEF t
    <3> QED BY <3>1 DEF DeltaEnd
  <2> QED BY <2>1 DEF Packs
<1>4. a \in Nat /\ i \in Nat /\ k \in Nat /\ (k + 1) * D = a + D
  BY <1>0, <1>1
<1>4a. ASSUME NEW x \in Nat, x < c PROVE x * D < n
  <2>1. x + 1 \in 1..c /\ (x + 1) - 1 = x
    BY <1>0, <1>4a
  <2>2. (x + 1) \in 1..((n + D - 1) \div D)
    BY <2>1 DEF DeltaBlockCount
  <2>3. ((x + 1) - 1) * D < n
    <3> HIDE DEF n, D
    <3> QED BY <1>0, <2>2, Chunks
  <2> QED BY <2>1, <2>3
<1>4b. ASSUME n <= a PROVE k >= c
  <2>1. SUFFICES ASSUME k < c PROVE FALSE
    BY <1>0, <1>4
  <2>2. a < n
    BY <1>4, <1>4a, <2>1
  <2> QED BY <1>0, <1>4, <1>4b, <2>2
<1> HIDE DEF n, c, D, a, ns
<1>5. i < n
  <2>1. SUFFICES ASSUME i = n PROVE FALSE
    BY <1>0, <1>1
  <2>2. k < c
    <3>1. i + k < n + c
      BY DEF n, c
    <3> QED BY <1>0, <1>4, <2>1, <3>1
  <2>3. n <= a
    BY <1>1, <2>1
  <2> QED BY <1>0, <1>4, <1>4b, <2>2, <2>3
<1>6. ~(st.at > Len(cells)) /\ st.at \in 1..Len(cells)
  BY <1>0, <1>1, <1>3, <1>4, <1>5
<1>7. CASE i = a
  <2>1. k < c /\ k + 1 \in 1..c /\ (k + 1) - 1 = k
    <3>1. k # c
      <4>1. SUFFICES ASSUME k = c PROVE FALSE
        OBVIOUS
      <4>2. n <= a
        BY <1>0, <4>1 DEF a
      <4> QED BY <1>0, <1>4, <1>5, <1>7, <4>2
    <3>2. c \in Nat /\ k \in 0..c
      BY <1>0, <1>1
    <3> QED BY <3>1, <3>2
  <2>2. st.at = ((k + 1) - 1) * D + (k + 1)
    BY <1>1, <1>4, <1>7, <2>1 DEF a
  <2>3. cells[st.at] \in 1..32 /\ st.left = 0
    <3>1. cells[((k + 1) - 1) * D + (k + 1)] \in 1..32
      BY <1>3, <2>1
    <3>2. st.left = 0
      BY <1>1, <1>4, <1>7
    <3> QED BY <2>2, <3>1, <3>2
  <2>4. ns = [st EXCEPT !.left = DeltaIds, !.at = @ + 1]
    BY <1>1, <1>6, <2>3 DEF DecodeCell, ns
  <2>5. ns.ok = st.ok /\ ns.at = st.at + 1 /\ ns.left = D /\ ns.prev = st.prev /\ ns.ids = st.ids
    BY <1>1, <2>4 DEF DecodeState, D
  <2>6. DecodedTo(ids, i, k + 1, ns)
    <3> DEFINE b == (k + 1) * D
    <3>1. b = a + D /\ (k + 1 > 0 => ((k + 1) - 1) * D <= i)
      BY <1>4, <1>7, <2>1 DEF a
    <3> HIDE DEF b
    <3>2. i <= b /\ ns.left = b - i /\ ns.at = i + (k + 1) + 1
      BY <1>0, <1>1, <1>4, <1>7, <2>5, <3>1
    <3>3. k + 1 \in 0..c
      BY <1>0, <2>1
    <3>4. ns.ok = TRUE /\ ns.prev = (IF i = 0 THEN -1 ELSE ids[i]) /\ ns.ids = {ids[j] : j \in 1..i}
      BY <1>1, <2>5
    <3> QED BY <1>1, <1>2, <3>1, <3>2, <3>3, <3>4 DEF DecodedTo, b, n, c, D
  <2> QED BY <2>6 DEF ns
<1>8. CASE i # a
  <2>1. i < a /\ k > 0 /\ k \in 1..c /\ i + 1 \in 1..n
    <3>1. i < a
      BY <1>1, <1>4, <1>8
    <3>2. k # 0
      <4>1. SUFFICES ASSUME k = 0 PROVE FALSE
        OBVIOUS
      <4>2. a = 0
        BY <1>0, <4>1 DEF a
      <4> QED BY <1>4, <3>1, <4>2
    <3>3. c \in Nat /\ k \in 0..c /\ n \in Nat /\ i \in 0..n
      BY <1>0, <1>1
    <3>4. k > 0 /\ k \in 1..c /\ i + 1 \in 1..n
      BY <1>5, <3>2, <3>3
    <3> QED BY <3>1, <3>4
  <2>2. (k - 1) * D < i + 1 /\ i + 1 <= k * D
    <3> DEFINE q == (k - 1) * D
    <3>1. q \in Nat /\ q <= i
      BY <1>0, <1>1, <1>4, <2>1
    <3>2. k * D = a
      BY DEF a
    <3> HIDE DEF q
    <3>3. q < i + 1 /\ i + 1 <= a
      BY <1>4, <2>1, <3>1
    <3> QED BY <3>2, <3>3 DEF q
  <2>3. cells[st.at] = DeltaOf(ids, i + 1) /\ st.left # 0
    <3>1. st.at = (i + 1) + k
      BY <1>1, <1>4
    <3>2. cells[(i + 1) + k] = DeltaOf(ids, i + 1)
      BY <1>3, <2>1, <2>2
    <3>3. st.left # 0
      BY <1>1, <1>4, <2>1
    <3> QED BY <3>1, <3>2, <3>3
  <2>4. \A j \in 1..n : ids[j] \in Nat /\ ids[j] < IdSpace
    <3>1. \A j \in 1..n : ids[j] \in Ids
      BY LenProperties DEF IsAscending, n
    <3> QED BY <3>1, PostingAssumption DEF Ids
  <2> DEFINE id == IF st.prev = -1 THEN cells[st.at] ELSE st.prev + cells[st.at] + 1
  <2>5. id = ids[i + 1]
    <3>1. CASE i = 0
      <4>1. st.prev = -1 /\ DeltaOf(ids, i + 1) = ids[1]
        BY <1>1, <3>1 DEF DeltaOf
      <4> QED BY <2>3, <3>1, <4>1
    <3>2. CASE i # 0
      <4>1. i + 1 # 1 /\ (i + 1) - 1 = i /\ i \in 1..n
        BY <1>0, <1>1, <1>4, <3>2
      <4>2. st.prev = ids[i] /\ DeltaOf(ids, i + 1) = ids[i + 1] - ids[i] - 1
        BY <1>1, <3>2, <4>1 DEF DeltaOf
      <4>3. ids[i] \in Nat /\ ids[i + 1] \in Nat
        BY <2>1, <2>4, <4>1
      <4> DEFINE x == ids[i]
                 y == ids[i + 1]
      <4>4. x \in Nat /\ y \in Nat /\ st.prev = x /\ cells[st.at] = y - x - 1
        BY <2>3, <4>2, <4>3
      <4> HIDE DEF x, y
      <4>5. st.prev # -1
        BY <4>4
      <4>6. x + (y - x - 1) + 1 = y
        BY <4>4
      <4> QED BY <4>4, <4>5, <4>6 DEF y
    <3> QED BY <3>1, <3>2
  <2>6. ~(id >= IdSpace)
    <3> DEFINE y == ids[i + 1]
    <3>1. y \in Nat /\ y < IdSpace /\ id = y
      BY <2>1, <2>4, <2>5
    <3> HIDE DEF y, id
    <3> QED BY <1>0, <3>1
  <2>7. ns = [st EXCEPT !.left = @ - 1, !.at = @ + 1, !.prev = id, !.ids = @ \cup {id}]
    BY <1>1, <1>6, <2>3, <2>6 DEF DecodeCell, ns
  <2> HIDE DEF id
  <2>8. ns.ok = st.ok /\ ns.at = st.at + 1 /\ ns.left = st.left - 1 /\ ns.prev = id /\ ns.ids = st.ids \cup {id}
    BY <1>1, <2>7 DEF DecodeState
  <2>9. DecodedTo(ids, i + 1, k, ns)
    <3>1. i + 1 \in 0..n /\ i + 1 # 0
      BY <1>0, <1>4, <1>5
    <3>2. ns.ok = TRUE /\ ns.prev = ids[i + 1]
      BY <1>1, <2>5, <2>8
    <3>3. ns.at = (i + 1) + k + 1 /\ ns.left = a - (i + 1)
      BY <1>1, <1>4, <2>8
    <3>4. ns.ids = {ids[j] : j \in 1..(i + 1)}
      <4>1. 1..(i + 1) = (1..i) \cup {i + 1}
        BY <1>4
      <4> QED BY <1>1, <2>5, <2>8, <4>1
    <3>5. i + 1 <= a /\ (k > 0 => (k - 1) * D <= i + 1)
      <4> DEFINE q == (k - 1) * D
      <4>1. q \in Nat /\ q < i + 1 /\ k * D = a
        BY <1>0, <1>4, <2>1, <2>2 DEF a
      <4> HIDE DEF q
      <4>2. q <= i + 1
        BY <1>4, <4>1
      <4> QED BY <2>2, <4>1, <4>2 DEF q
    <3> QED BY <1>1, <1>2, <3>1, <3>2, <3>3, <3>4, <3>5 DEF DecodedTo, a, n, c, D
  <2> QED BY <2>9 DEF ns
<1> QED BY <1>7, <1>8

\* decode_delta_blocks gives the ids that encode_delta_blocks was given.
LEMMA DeltaRead ==
    ASSUME NEW set \in SUBSET Ids, set # {}
    PROVE  /\ DeltaCells(UpTo(set)) \in Seq(Nat) /\ Len(DeltaCells(UpTo(set))) > 0
           /\ DecodeDelta(DeltaCells(UpTo(set)), Cardinality(set)) = [ok |-> TRUE, ids |-> set]
<1> DEFINE ids == UpTo(set)
           n == Cardinality(set)
           cells == DeltaCells(ids)
           c == DeltaBlockCount(ids)
           N == n + c
           f == CHOOSE g : Decodes(cells, N, g)
<1>0. /\ IsFiniteSet(set) /\ ids \in Seq(Ids) /\ Len(ids) = n /\ ToSet(ids) = set /\ n \in Nat
      /\ \A i, j \in 1..n : i < j => ids[i] < ids[j]
  <2>1. n \in 0..IdSpace => n \in Nat
    BY PostingAssumption
  <2> QED BY <2>1, ListIs
<1>1. n # 0
  BY <1>0, FS_EmptySet
<1> HIDE DEF ids, n, cells
<1>2. IsAscending(ids) /\ Len(ids) # 0
  BY <1>0, <1>1 DEF IsAscending
<1>3. c \in Nat \ {0} /\ Packs(ids, c, cells)
  BY <1>2, DeltaCellsPack DEF cells
<1>4. cells \in Seq(Nat) /\ Len(cells) = n + c
  <2>1. n <= c * DeltaIds /\ c * DeltaIds \in Nat
    <3> DEFINE D == DeltaIds
    <3>1. D \in Nat \ {0} /\ c = (n + D - 1) \div D
      BY <1>0, PostingAssumption DEF DeltaBlockCount
    <3> HIDE DEF D, c
    <3>2. n <= ((n + D - 1) \div D) * D
      BY <1>0, <3>1, Chunks
    <3> QED BY <1>3, <3>1, <3>2 DEF D
  <2>2. ~(c * DeltaIds < n)
    <3> DEFINE t == c * DeltaIds
    <3> HIDE DEF t
    <3>1. n <= t /\ t \in Nat
      BY <2>1 DEF t
    <3>2. ~(t < n)
      BY <1>0, <3>1
    <3> QED BY <3>2 DEF t
  <2>3. DeltaEnd(ids, c) = n
    BY <1>0, <2>2 DEF DeltaEnd
  <2> QED BY <1>3, <2>3 DEF Packs
<1>5. N \in Nat /\ N = n + (n + DeltaIds - 1) \div DeltaIds
  BY <1>0, <1>3 DEF DeltaBlockCount
<1>6. Decodes(cells, N, f)
  <2> HIDE DEF N
  <2> QED BY <1>4, <1>5, DecodeExists
<1>7. DecodeDelta(cells, n) = IF f[N].ok /\ f[N].at = Len(cells) + 1 THEN [ok |-> TRUE, ids |-> f[N].ids] ELSE Bad
  BY <1>5 DEF DecodeDelta, Decodes, DecodeStart
<1> HIDE DEF f, c
<1>8. ASSUME NEW s \in 0..N PROVE f[s] = IF s = 0 THEN DecodeStart ELSE DecodeCell(cells, f[s - 1])
  BY <1>6 DEF Decodes
<1> HIDE DEF N
<1> DEFINE At(s) == \E i, k : i + k = s /\ DecodedTo(ids, i, k, f[s])
           S == {s \in Nat : s <= N => At(s)}
<1>9. 0 \in S
  <2>1. f[0] = DecodeStart
    BY <1>5, <1>8
  <2>2. DecodedTo(ids, 0, 0, DecodeStart)
    <3>1. 0 \in 0..Len(ids) /\ 0 \in 0..DeltaBlockCount(ids)
      BY <1>0, <1>3 DEF c
    <3>2. 0 * DeltaIds = 0 /\ 0 <= 0 /\ ~(0 > 0) /\ 0 + 0 + 1 = 1 /\ 0 - 0 = 0
      BY PostingAssumption
    <3>3. {ids[j] : j \in 1..0} = {}
      OBVIOUS
    <3>4. DecodeStart \in DecodeState
      BY DEF DecodeStart, DecodeState
    <3>5. DecodeStart.ok = TRUE /\ DecodeStart.at = 1 /\ DecodeStart.left = 0 /\ DecodeStart.prev = -1 /\ DecodeStart.ids = {}
      BY DEF DecodeStart
    <3> QED BY <3>1, <3>2, <3>3, <3>4, <3>5 DEF DecodedTo
  <2>3. 0 + 0 = 0 /\ DecodedTo(ids, 0, 0, f[0])
    BY <2>1, <2>2
  <2>4. At(0)
    BY <2>3
  <2> QED BY <2>4
<1>10. ASSUME NEW s \in S PROVE s + 1 \in S
  <2>0. s \in Nat /\ s + 1 \in Nat
    OBVIOUS
  <2>1. SUFFICES ASSUME s + 1 <= N PROVE At(s + 1)
    <3> HIDE DEF At
    <3> QED BY <2>0, <2>1
  <2>2. s < N /\ s + 1 \in 0..N /\ s + 1 # 0 /\ (s + 1) - 1 = s
    BY <1>5, <2>0, <2>1
  <2>3. PICK i, k : i + k = s /\ DecodedTo(ids, i, k, f[s])
    BY <1>5, <2>2
  <2>4. i + k < Len(ids) + DeltaBlockCount(ids)
    BY <1>0, <2>2, <2>3 DEF N, c
  <2>5. f[s + 1] = DecodeCell(cells, f[s])
    BY <1>8, <2>2
  <2>6. Packs(ids, DeltaBlockCount(ids), cells)
    BY <1>3 DEF c
  <2>7. \/ DecodedTo(ids, i, k + 1, DecodeCell(cells, f[s]))
        \/ DecodedTo(ids, i + 1, k, DecodeCell(cells, f[s]))
    BY <1>2, <2>3, <2>4, <2>6, DecodeCellStep
  <2>8. i \in Nat /\ k \in Nat
    BY <1>0, <1>3, <2>3 DEF DecodedTo, c
  <2>9. i + (k + 1) = s + 1 /\ (i + 1) + k = s + 1
    BY <2>3, <2>8
  <2> QED BY <2>5, <2>7, <2>9
<1>11. S = Nat
  <2>1. S \in SUBSET Nat
    OBVIOUS
  <2> HIDE DEF S
  <2> QED BY <1>9, <1>10, <2>1, SetInduction
<1>12. PICK i, k : i + k = N /\ DecodedTo(ids, i, k, f[N])
  <2>1. N \in S /\ N <= N
    BY <1>5, <1>11
  <2> QED BY <2>1
<1>13. i \in 0..n /\ k \in 0..c
  BY <1>0, <1>12 DEF DecodedTo, c
<1>14. i = n /\ k = c
  BY <1>0, <1>3, <1>12, <1>13 DEF N
<1>15. f[N].ok = TRUE /\ f[N].at = n + c + 1 /\ f[N].ids = {ids[j] : j \in 1..n}
  BY <1>12, <1>14 DEF DecodedTo
<1>16. {ids[j] : j \in 1..n} = set
  <2>1. DOMAIN ids = 1..n
    BY <1>0, LenProperties
  <2> QED BY <1>0, <2>1 DEF ToSet
<1>17. f[N].at = Len(cells) + 1
  BY <1>0, <1>3, <1>4, <1>15
<1>18. DecodeDelta(cells, n) = [ok |-> TRUE, ids |-> set]
  BY <1>7, <1>15, <1>16, <1>17
<1>19. Len(cells) > 0
  BY <1>0, <1>3, <1>4
<1> QED BY <1>4, <1>18, <1>19 DEF cells, ids, n

-----------------------------------------------------------------------------
(***************************************************************************)
(* Tables: what merge_posting_runs writes.                                 *)
(***************************************************************************)

CellsOf(s, ids) == IF s = "sparse" THEN DeltaCells(ids) ELSE FixedCells(ids)
IdsIn(records, gram) == {e.id : e \in {e \in records : e.gram = gram}}
GramsIn(records) == {e.gram : e \in records}
Term == [gram : Nat, at : Nat, count : Nat, len : Nat]
TableState == [terms : Seq(Term), data : Seq(Nat)]

\* A term says how many ids there are and which one, or where their cells lie.
TermPoints(s, data, t, set) ==
    /\ t.count = Cardinality(set)
    /\ t.count = 1 => set = {t.at}
    /\ t.count # 1 =>
        /\ t.at + Len(CellsOf(s, UpTo(set))) <= Len(data)
        /\ \A i \in 1..Len(CellsOf(s, UpTo(set))) : data[t.at + i] = CellsOf(s, UpTo(set))[i]
        /\ s = "sparse" => t.len = Len(CellsOf(s, UpTo(set)))

TableOf(s, records, st, k) ==
    /\ st \in TableState /\ Len(st.terms) = k
    /\ \A j \in 1..k :
        /\ st.terms[j].gram = UpTo(GramsIn(records))[j]
        /\ TermPoints(s, st.data, st.terms[j], IdsIn(records, UpTo(GramsIn(records))[j]))

\* The grams of some records, and the ids a gram has in them.
LEMMA GramsAre ==
    ASSUME NEW records \in SUBSET Entry, IsFiniteSet(records)
    PROVE  /\ IsFiniteSet(GramsIn(records)) /\ GramsIn(records) \in SUBSET PostingGrams
           /\ GramsIn(records) \in SUBSET (Nat \ {0})
           /\ \A g : IdsIn(records, g) \in SUBSET Ids
           /\ \A g \in GramsIn(records) : IdsIn(records, g) # {}
           /\ \A g : g \notin GramsIn(records) => IdsIn(records, g) = {}
<1> DEFINE T == GramsIn(records)
           h == [e \in records |-> e.gram]
<1>1. h \in Surjection(records, T)
  BY DEF Surjection, GramsIn
<1> HIDE DEF h
<1>2. IsFiniteSet(T)
  <2> HIDE DEF T
  <2> QED BY <1>1, FS_Surjection
<1>3. \A e \in records : e.gram \in PostingGrams /\ e.id \in Ids
  BY DEF Entry
<1>4. PostingGrams \subseteq Nat \ {0}
  BY PostingAssumption
<1>5. T \in SUBSET PostingGrams /\ \A g : IdsIn(records, g) \in SUBSET Ids
  BY <1>3 DEF GramsIn, IdsIn
<1>6. \A g \in T : IdsIn(records, g) # {}
  BY DEF GramsIn, IdsIn
<1>7. \A g : g \notin T => IdsIn(records, g) = {}
  BY DEF GramsIn, IdsIn
<1> QED BY <1>2, <1>4, <1>5, <1>6, <1>7

LEMMA CellsAre ==
    ASSUME NEW s, NEW set \in SUBSET Ids, set # {}
    PROVE  CellsOf(s, UpTo(set)) \in Seq(Nat) /\ Len(CellsOf(s, UpTo(set))) \in Nat
<1>1. CellsOf(s, UpTo(set)) \in Seq(Nat)
  BY FixedRead, DeltaRead DEF CellsOf
<1> QED BY <1>1, LenProperties

\* insert_posting_file: one term more, which points at its ids; nothing else moves.
LEMMA InsertedIs ==
    ASSUME NEW s, NEW st \in TableState, NEW gram \in Nat, NEW set \in SUBSET Ids, set # {}
    PROVE  LET ns == Inserted(st, s, gram, UpTo(set))
               t == ns.terms[Len(st.terms) + 1]
           IN  /\ ns \in TableState /\ Len(ns.terms) = Len(st.terms) + 1
               /\ \A j \in 1..Len(st.terms) : ns.terms[j] = st.terms[j]
               /\ Len(st.data) <= Len(ns.data) /\ \A i \in 1..Len(st.data) : ns.data[i] = st.data[i]
               /\ t.gram = gram /\ TermPoints(s, ns.data, t, set)
<1> DEFINE ids == UpTo(set)
           cells == CellsOf(s, ids)
           c == Cardinality(set)
           ns == Inserted(st, s, gram, ids)
           L == Len(st.terms)
           N == Len(st.data)
           one == [gram |-> gram, at |-> ids[1], count |-> 1, len |-> 0]
           many == [gram |-> gram, at |-> N, count |-> c, len |-> IF s = "sparse" THEN Len(cells) ELSE 0]
<1>0. /\ st.terms \in Seq(Term) /\ st.data \in Seq(Nat) /\ L \in Nat /\ N \in Nat
      /\ cells \in Seq(Nat) /\ Len(cells) \in Nat
  <2>1. st.terms \in Seq(Term) /\ st.data \in Seq(Nat)
    BY DEF TableState
  <2> QED BY <2>1, CellsAre, LenProperties
<1>1. /\ Len(ids) = c /\ c \in Nat /\ ToSet(ids) = set /\ ids \in Seq(Ids) /\ IsFiniteSet(set)
  <2>1. c \in 0..IdSpace => c \in Nat
    BY PostingAssumption
  <2> QED BY <2>1, ListIs
<1>2. CASE Len(ids) = 1
  <2>1. ns = [st EXCEPT !.terms = Append(@, one)]
    BY <1>2 DEF Inserted
  <2>2. DOMAIN ids = {1} /\ ids[1] \in Ids
    <3>1. DOMAIN ids = 1..1 /\ 1..1 = {1}
      BY <1>1, <1>2, LenProperties
    <3>2. \A i \in 1..Len(ids) : ids[i] \in Ids
      BY <1>1, LenProperties
    <3> QED BY <1>2, <3>1, <3>2
  <2>3. set = {ids[1]}
    BY <1>1, <2>2 DEF ToSet
  <2>4. one \in Term /\ one.gram = gram /\ one.at = ids[1] /\ one.count = 1
    BY <2>2, IdsFinite DEF Term
  <2> HIDE DEF ns, one, ids
  <2>5. ns.terms = Append(st.terms, one) /\ ns.data = st.data /\ ns \in TableState
    <3>1. ns = [terms |-> Append(st.terms, one), data |-> st.data]
      BY <2>1 DEF TableState
    <3>2. Append(st.terms, one) \in Seq(Term)
      BY <1>0, <2>4
    <3> QED BY <1>0, <3>1, <3>2 DEF TableState
  <2>6. Len(ns.terms) = L + 1 /\ ns.terms[L + 1] = one /\ \A j \in 1..L : ns.terms[j] = st.terms[j]
    BY <1>0, <2>4, <2>5
  <2>7. TermPoints(s, ns.data, one, set)
    BY <1>1, <1>2, <2>3, <2>4 DEF TermPoints
  <2>8. N <= N
    BY <1>0
  <2> QED BY <2>4, <2>5, <2>6, <2>7, <2>8 DEF ns, ids
<1>3. CASE Len(ids) # 1
  <2>1. ns = [terms |-> Append(st.terms, many), data |-> st.data \o cells]
    BY <1>1, <1>3 DEF Inserted, CellsOf
  <2>2. many \in Term /\ many.gram = gram /\ many.at = N /\ many.count = c /\ (s = "sparse" => many.len = Len(cells))
    BY <1>0, <1>1 DEF Term
  <2> HIDE DEF ns, many, ids, cells, L, N
  <2>3. /\ st.data \o cells \in Seq(Nat) /\ Len(st.data \o cells) = N + Len(cells)
        /\ \A i \in 1..(N + Len(cells)) : (st.data \o cells)[i] = IF i <= N THEN st.data[i] ELSE cells[i - N]
    BY <1>0, ConcatProperties DEF N
  <2>4. ns.terms = Append(st.terms, many) /\ ns.data = st.data \o cells /\ ns \in TableState
    <3>1. Append(st.terms, many) \in Seq(Term)
      BY <1>0, <2>2
    <3> QED BY <2>1, <2>3, <3>1 DEF TableState
  <2>5. Len(ns.terms) = L + 1 /\ ns.terms[L + 1] = many /\ \A j \in 1..L : ns.terms[j] = st.terms[j]
    BY <1>0, <2>2, <2>4 DEF L
  <2>6. Len(ns.data) = N + Len(cells) /\ N <= Len(ns.data) /\ \A i \in 1..N : ns.data[i] = st.data[i]
    BY <1>0, <2>3, <2>4
  <2>7. ASSUME NEW i \in 1..Len(cells) PROVE ns.data[N + i] = cells[i]
    <3>1. N + i \in 1..(N + Len(cells)) /\ ~(N + i <= N) /\ (N + i) - N = i
      BY <1>0
    <3> QED BY <2>3, <2>4, <3>1
  <2>8. TermPoints(s, ns.data, many, set)
    <3>1. c # 1
      BY <1>1, <1>3
    <3>2. N + Len(cells) <= Len(ns.data)
      BY <1>0, <2>6
    <3> QED BY <2>2, <2>7, <3>1, <3>2 DEF TermPoints, cells, c, ids
  <2> QED BY <2>2, <2>4, <2>5, <2>6, <2>8 DEF ns, ids, L, N
<1> QED BY <1>2, <1>3

\* What a term points at stays where it is when more is appended.
LEMMA PointsOn ==
    ASSUME NEW s, NEW set \in SUBSET Ids, set # {}, NEW t \in Term, NEW d \in Seq(Nat), NEW e \in Seq(Nat),
           TermPoints(s, d, t, set), Len(d) <= Len(e), \A i \in 1..Len(d) : e[i] = d[i]
    PROVE  TermPoints(s, e, t, set)
<1> DEFINE cells == CellsOf(s, UpTo(set))
<1>0. Len(d) \in Nat /\ Len(e) \in Nat /\ Len(cells) \in Nat /\ t.at \in Nat
  BY CellsAre, LenProperties DEF Term
<1>1. ASSUME t.count # 1
      PROVE  t.at + Len(cells) <= Len(e) /\ \A i \in 1..Len(cells) : e[t.at + i] = cells[i]
  <2>1. t.at + Len(cells) <= Len(d) /\ \A i \in 1..Len(cells) : d[t.at + i] = cells[i]
    BY <1>1 DEF TermPoints
  <2> HIDE DEF cells
  <2>2. \A i \in 1..Len(cells) : t.at + i \in 1..Len(d)
    <3> DEFINE p == t.at
               l == Len(cells)
               q == Len(d)
    <3>1. p \in Nat /\ l \in Nat /\ q \in Nat /\ p + l <= q
      BY <1>0, <2>1
    <3> HIDE DEF p, l, q
    <3>2. \A i \in 1..l : p + i \in 1..q
      BY <3>1
    <3> QED BY <3>2 DEF p, l, q
  <2>3. t.at + Len(cells) <= Len(e)
    BY <1>0, <2>1
  <2> QED BY <2>1, <2>2, <2>3
<1> QED BY <1>1 DEF TermPoints

\* The loop of merge_posting_runs has a solution.
Merges(s, records, m, f) ==
    f = [n \in 0..m |-> IF n = 0 THEN [terms |-> <<>>, data |-> <<>>]
                        ELSE Inserted(f[n - 1], s, UpTo(GramsIn(records))[n], UpTo(IdsIn(records, UpTo(GramsIn(records))[n])))]

LEMMA MergesExist ==
    ASSUME NEW s, NEW records \in SUBSET Entry, IsFiniteSet(records)
    PROVE  \E f : Merges(s, records, Len(UpTo(GramsIn(records))), f)
<1> DEFINE gs == UpTo(GramsIn(records))
           m == Len(gs)
           V == TableState
           a == [terms |-> <<>>, data |-> <<>>]
           Set(n) == IdsIn(records, gs[n])
           G == [p \in (1..m) \X V |-> Inserted(p[2], s, gs[p[1]], UpTo(Set(p[1])))]
<1>0. m \in Nat /\ \A n \in 1..m : gs[n] \in GramsIn(records)
  <2>1. IsFiniteSet(GramsIn(records)) /\ GramsIn(records) \in SUBSET Nat
    BY GramsAre
  <2>2. gs \in Seq(GramsIn(records))
    BY <2>1, UpToIs
  <2> QED BY <2>2, LenProperties
<1>1. a \in V
  BY DEF TableState
<1> HIDE DEF gs, m
<1>2. ASSUME NEW n \in 1..m, NEW v \in V PROVE Inserted(v, s, gs[n], UpTo(Set(n))) \in V
  <2>1. gs[n] \in Nat /\ Set(n) \in SUBSET Ids /\ Set(n) # {}
    BY <1>0, GramsAre
  <2> QED BY <2>1, InsertedIs
<1>3. G \in [(1..m) \X V -> V]
  <2> HIDE DEF V, Set
  <2> QED BY <1>2
<1>4. \A n \in 1..m : \A v \in V : G[<<n, v>>] = Inserted(v, s, gs[n], UpTo(Set(n)))
  OBVIOUS
<1> HIDE DEF G, V, a, Set
<1>5. PICK f : Solution(V, a, m, G, f)
  BY <1>0, <1>1, <1>3, Recursion
<1>6. f \in [0..m -> V] /\ f[0] = a /\ \A n \in 1..m : f[n] = G[<<n, f[n - 1]>>]
  BY <1>5 DEF Solution
<1>7. ASSUME NEW n \in 0..m PROVE f[n] = IF n = 0 THEN a ELSE Inserted(f[n - 1], s, gs[n], UpTo(Set(n)))
  <2>1. n # 0 => n \in 1..m /\ n - 1 \in 0..m
    BY <1>0
  <2>2. n # 0 => f[n - 1] \in V
    BY <1>6, <2>1
  <2> QED BY <1>4, <1>6, <2>1, <2>2
<1>8. f = [n \in 0..m |-> IF n = 0 THEN a ELSE Inserted(f[n - 1], s, gs[n], UpTo(Set(n)))]
  BY <1>6, <1>7
<1> QED BY <1>8 DEF Merges, a, gs, m, Set

\* merge_posting_runs: a term for each gram, in order, that points at its ids.
LEMMA MergedIs ==
    ASSUME NEW s, NEW records \in SUBSET Entry, IsFiniteSet(records)
    PROVE  TableOf(s, records, MergedTable(s, records), Len(UpTo(GramsIn(records))))
<1> DEFINE gs == UpTo(GramsIn(records))
           m == Len(gs)
           f == CHOOSE g : Merges(s, records, m, g)
           a == [terms |-> <<>>, data |-> <<>>]
           Set(n) == IdsIn(records, gs[n])
<1>0. m \in Nat /\ \A n \in 1..m : gs[n] \in GramsIn(records)
  <2>1. IsFiniteSet(GramsIn(records)) /\ GramsIn(records) \in SUBSET Nat
    BY GramsAre
  <2>2. gs \in Seq(GramsIn(records))
    BY <2>1, UpToIs
  <2> QED BY <2>2, LenProperties
<1>1. Merges(s, records, m, f)
  BY MergesExist
<1>2. MergedTable(s, records) = f[m]
  BY DEF MergedTable, Merges, GramsIn, IdsIn
<1> HIDE DEF f
<1>3. ASSUME NEW n \in 0..m PROVE f[n] = IF n = 0 THEN a ELSE Inserted(f[n - 1], s, gs[n], UpTo(Set(n)))
  BY <1>1 DEF Merges
<1> DEFINE S == {n \in Nat : n <= m => TableOf(s, records, f[n], n)}
<1> HIDE DEF a, gs, m
<1>4. 0 \in S
  <2>1. f[0] = a
    BY <1>0, <1>3
  <2>2. a \in TableState /\ Len(a.terms) = 0
    BY DEF a, TableState
  <2>3. TableOf(s, records, a, 0)
    BY <2>2 DEF TableOf
  <2> QED BY <2>1, <2>3
<1>5. ASSUME NEW n \in S PROVE n + 1 \in S
  <2>0. n \in Nat /\ n + 1 \in Nat
    OBVIOUS
  <2>1. SUFFICES ASSUME n + 1 <= m PROVE TableOf(s, records, f[n + 1], n + 1)
    BY <2>0
  <2>2. n <= m /\ n + 1 \in 0..m /\ n + 1 \in 1..m /\ n + 1 # 0 /\ (n + 1) - 1 = n
    BY <1>0, <2>0, <2>1
  <2> DEFINE st == f[n]
             g == gs[n + 1]
             new == Set(n + 1)
             ns == Inserted(st, s, g, UpTo(new))
             t == ns.terms[Len(st.terms) + 1]
  <2>3. TableOf(s, records, st, n)
    BY <2>2
  <2>4. f[n + 1] = ns
    BY <1>3, <2>2
  <2>5. g \in Nat /\ new \in SUBSET Ids /\ new # {}
    BY <1>0, <2>2, GramsAre
  <2>6. st \in TableState /\ Len(st.terms) = n
    BY <2>3 DEF TableOf
  <2>7. /\ ns \in TableState /\ Len(ns.terms) = n + 1
        /\ \A j \in 1..n : ns.terms[j] = st.terms[j]
        /\ Len(st.data) <= Len(ns.data) /\ \A i \in 1..Len(st.data) : ns.data[i] = st.data[i]
        /\ ns.terms[n + 1].gram = g /\ TermPoints(s, ns.data, ns.terms[n + 1], new)
    <3> HIDE DEF st, g, new
    <3>1. /\ ns \in TableState /\ Len(ns.terms) = Len(st.terms) + 1
          /\ \A j \in 1..Len(st.terms) : ns.terms[j] = st.terms[j]
          /\ Len(st.data) <= Len(ns.data) /\ \A i \in 1..Len(st.data) : ns.data[i] = st.data[i]
          /\ t.gram = g /\ TermPoints(s, ns.data, t, new)
      BY <2>5, <2>6, InsertedIs
    <3> HIDE DEF ns
    <3> QED BY <2>6, <3>1
  <2> HIDE DEF st, ns
  <2>8. ASSUME NEW j \in 1..n PROVE ns.terms[j].gram = gs[j] /\ TermPoints(s, ns.data, ns.terms[j], Set(j))
    <3>1. st.terms[j].gram = gs[j] /\ TermPoints(s, st.data, st.terms[j], Set(j)) /\ ns.terms[j] = st.terms[j]
      BY <2>3, <2>7 DEF TableOf, gs
    <3>2. j \in 1..m
      BY <1>0, <2>0, <2>2
    <3>3. Set(j) \in SUBSET Ids /\ Set(j) # {}
      BY <1>0, <3>2, GramsAre
    <3>4. st.terms[j] \in Term /\ st.data \in Seq(Nat) /\ ns.data \in Seq(Nat)
      <4>1. st.terms \in Seq(Term) /\ st.data \in Seq(Nat) /\ ns.data \in Seq(Nat)
        BY <2>6, <2>7 DEF TableState
      <4>2. \A x \in 1..Len(st.terms) : st.terms[x] \in Term
        BY <4>1, LenProperties
      <4> QED BY <2>6, <4>1, <4>2
    <3> HIDE DEF Set
    <3>5. TermPoints(s, ns.data, st.terms[j], Set(j))
      BY <2>7, <3>1, <3>3, <3>4, PointsOn
    <3> QED BY <3>1, <3>5
  <2>9. ASSUME NEW j \in 1..(n + 1) PROVE ns.terms[j].gram = gs[j] /\ TermPoints(s, ns.data, ns.terms[j], Set(j))
    <3>1. j \in 1..n \/ j = n + 1
      BY <2>0
    <3> QED BY <2>7, <2>8, <3>1
  <2>10. TableOf(s, records, ns, n + 1)
    BY <2>7, <2>9 DEF TableOf, gs
  <2> QED BY <2>4, <2>10
<1>6. S = Nat
  <2>1. S \in SUBSET Nat
    OBVIOUS
  <2> HIDE DEF S
  <2> QED BY <1>4, <1>5, <2>1, SetInduction
<1>7. m <= m
  BY <1>0
<1>8. TableOf(s, records, f[m], m)
  BY <1>0, <1>6, <1>7
<1> QED BY <1>2, <1>8 DEF m, gs

-----------------------------------------------------------------------------
(***************************************************************************)
(* Blocks of the postings, and of the terms.                               *)
(***************************************************************************)

\* The end of the b-th block of the postings.
BlockEnd(data, b) == IF b * VerifyCells < Len(data) THEN b * VerifyCells ELSE Len(data)

\* A block that begins in the postings.
LEMMA BlockIs ==
    ASSUME NEW data \in Seq(Nat), NEW b \in Nat \ {0}, (b - 1) * VerifyCells < Len(data)
    PROVE  /\ (b - 1) * VerifyCells \in Nat /\ b * VerifyCells = (b - 1) * VerifyCells + VerifyCells
           /\ BlockEnd(data, b) \in Nat /\ (b - 1) * VerifyCells < BlockEnd(data, b)
           /\ BlockOf(data, b) \in Seq(Nat) /\ Len(BlockOf(data, b)) = BlockEnd(data, b) - (b - 1) * VerifyCells
           /\ \A i \in 1..(BlockEnd(data, b) - (b - 1) * VerifyCells) :
                BlockOf(data, b)[i] = data[(b - 1) * VerifyCells + i]
<1> DEFINE V == VerifyCells
           p == (b - 1) * V
           q == b * V
           e == BlockEnd(data, b)
           n == Len(data)
<1>0. V \in Nat \ {0} /\ n \in Nat
  BY PostingAssumption, LenProperties
<1>1. p \in Nat /\ q = p + V /\ p < n
  <2> HIDE DEF V, n
  <2>1. b - 1 \in Nat
    OBVIOUS
  <2>2. p \in Nat /\ q = p + V
    BY <1>0, <2>1
  <2> QED BY <2>2 DEF V, n
<1>2. e = IF q < n THEN q ELSE n
  BY DEF BlockEnd
<1>3. BlockOf(data, b) = SubSeq(data, p + 1, e)
  BY DEF BlockOf, BlockEnd
<1> HIDE DEF V, p, q, e, n
<1>4. e \in Nat /\ p <= e /\ p < e /\ e <= n
  BY <1>0, <1>1, <1>2
<1>5. /\ SubSeq(data, p + 1, e) \in Seq(Nat) /\ Len(SubSeq(data, p + 1, e)) = e - p
      /\ \A i \in 1..(e - p) : SubSeq(data, p + 1, e)[i] = data[p + i]
  BY <1>1, <1>4, CutIs DEF n
<1> QED BY <1>1, <1>3, <1>4, <1>5 DEF V, p, q, e, n

BlocksFrom(data, a, K) == [k \in 1..K |-> BlockOf(data, a + k)]

\* Blocks that follow each other are the stretch of the postings they cover.
LEMMA BlocksJoin ==
    ASSUME NEW data \in Seq(Nat), NEW a \in Nat, NEW K \in Nat \ {0}, (a + K - 1) * VerifyCells < Len(data)
    PROVE  /\ FlattenSeq(BlocksFrom(data, a, K)) \in Seq(Nat)
           /\ Len(FlattenSeq(BlocksFrom(data, a, K))) = BlockEnd(data, a + K) - a * VerifyCells
           /\ \A i \in 1..(BlockEnd(data, a + K) - a * VerifyCells) :
                FlattenSeq(BlocksFrom(data, a, K))[i] = data[a * VerifyCells + i]
<1> DEFINE V == VerifyCells
           seqs == BlocksFrom(data, a, K)
           n == Len(data)
           o == a * V
<1>0. V \in Nat \ {0} /\ n \in Nat /\ o \in Nat
  BY PostingAssumption, LenProperties
<1>1. ASSUME NEW k \in 1..K
      PROVE  /\ a + k \in Nat \ {0} /\ ((a + k) - 1) * V \in Nat /\ ((a + k) - 1) * V < n /\ o <= ((a + k) - 1) * V
             /\ (a + k) * V = ((a + k) - 1) * V + V
  <2> DEFINE x == (a + k) - 1
             y == a + K - 1
  <2>1. x \in Nat /\ y \in Nat /\ x <= y /\ a <= x /\ a + k \in Nat \ {0} /\ a + k = x + 1
    OBVIOUS
  <2> HIDE DEF x, V, n
  <2>2. y * V < n
    BY DEF V, n
  <2> HIDE DEF y
  <2>3. x * V \in Nat /\ y * V \in Nat /\ x * V <= y * V /\ a * V <= x * V /\ (x + 1) * V = x * V + V
    BY <1>0, <2>1
  <2>4. x * V < n
    BY <1>0, <2>2, <2>3
  <2> QED BY <2>1, <2>3, <2>4 DEF x
<1>2. ASSUME NEW k \in 1..K
      PROVE  /\ BlockEnd(data, a + k) \in Nat /\ ((a + k) - 1) * V < BlockEnd(data, a + k)
             /\ BlockOf(data, a + k) \in Seq(Nat)
             /\ Len(BlockOf(data, a + k)) = BlockEnd(data, a + k) - ((a + k) - 1) * V
             /\ \A i \in 1..(BlockEnd(data, a + k) - ((a + k) - 1) * V) :
                    BlockOf(data, a + k)[i] = data[((a + k) - 1) * V + i]
  <2> DEFINE b == a + k
  <2>1. b \in Nat \ {0} /\ (b - 1) * VerifyCells < Len(data)
    BY <1>1
  <2> HIDE DEF b
  <2>2. /\ BlockEnd(data, b) \in Nat /\ (b - 1) * V < BlockEnd(data, b)
        /\ BlockOf(data, b) \in Seq(Nat)
        /\ Len(BlockOf(data, b)) = BlockEnd(data, b) - (b - 1) * V
        /\ \A i \in 1..(BlockEnd(data, b) - (b - 1) * V) : BlockOf(data, b)[i] = data[(b - 1) * V + i]
    BY <2>1, BlockIs
  <2> QED BY <2>2 DEF b
<1>3. seqs \in Seq(Seq(Nat)) /\ Len(seqs) = K /\ \A k \in 1..K : seqs[k] = BlockOf(data, a + k)
  <2>1. \A k \in 1..K : BlockOf(data, a + k) \in Seq(Nat)
    BY <1>2
  <2>2. K \in Nat /\ seqs = [k \in 1..K |-> BlockOf(data, a + k)]
    BY DEF BlocksFrom
  <2> QED BY ONLY <2>1, <2>2
<1>4. PICK f \in [1..Len(seqs) -> Seq(Nat)] :
              /\ f[1] = seqs[1]
              /\ \A i \in 2..Len(seqs) : f[i] = f[i - 1] \o seqs[i]
              /\ FlattenSeq(seqs) = f[Len(seqs)]
  <2>1. Len(seqs) # 0
    BY <1>3
  <2> QED BY <1>3, <2>1, FlattenIs
<1> HIDE DEF V, n, o, seqs
<1> DEFINE E(k) == BlockEnd(data, a + k)
           Joined(k) == /\ f[k] \in Seq(Nat) /\ Len(f[k]) = E(k) - o
                        /\ \A i \in 1..(E(k) - o) : f[k][i] = data[o + i]
           S == {m \in Nat : m + 1 <= K => Joined(m + 1)}
<1>5. 0 \in S
  <2>1. 1 \in 1..K /\ (a + 1) - 1 = a
    OBVIOUS
  <2>2. f[1] = BlockOf(data, a + 1)
    BY <1>3, <1>4, <2>1
  <2>3. Joined(1)
    BY <1>2, <2>1, <2>2 DEF o
  <2> HIDE DEF Joined
  <2> QED BY <2>3
<1>6. ASSUME NEW m \in S PROVE m + 1 \in S
  <2>0. m \in Nat /\ m + 1 \in Nat
    OBVIOUS
  <2>1. SUFFICES ASSUME (m + 1) + 1 <= K PROVE Joined((m + 1) + 1)
    <3> HIDE DEF Joined
    <3> QED BY <2>0, <2>1
  <2> DEFINE k == m + 1
             B == BlockOf(data, a + (k + 1))
             p == ((a + (k + 1)) - 1) * V
             e == E(k + 1)
  <2>2. k \in 1..K /\ k + 1 \in 1..K /\ k + 1 \in 2..K /\ (k + 1) - 1 = k /\ m + 1 <= K
    BY <2>0, <2>1
  <2>3. Joined(k)
    BY <2>2
  <2>4. f[k + 1] = f[k] \o B
    BY <1>3, <1>4, <2>2
  <2> HIDE DEF k
  <2>5. /\ e \in Nat /\ p < e /\ B \in Seq(Nat) /\ Len(B) = e - p
        /\ \A i \in 1..(e - p) : B[i] = data[p + i]
    BY <1>2, <2>2
  <2>6. p \in Nat /\ p < n /\ o <= p /\ p = (a + k) * V
    <3>1. (a + (k + 1)) - 1 = a + k
      BY <2>2
    <3> QED BY <1>1, <2>2, <3>1
  <2>7. E(k) = p
    BY <2>6 DEF BlockEnd, V, n
  <2> HIDE DEF e, p, B, E
  <2>8. f[k] \in Seq(Nat) /\ Len(f[k]) = p - o /\ \A i \in 1..(p - o) : f[k][i] = data[o + i]
    BY <2>3, <2>7
  <2> DEFINE s == f[k]
             l == p - o
  <2>9. l \in Nat /\ e - p \in Nat /\ l + (e - p) = e - o
    BY ONLY <1>0, <2>5, <2>6
  <2>10. /\ s \o B \in Seq(Nat) /\ Len(s \o B) = l + (e - p)
         /\ \A i \in 1..(l + (e - p)) : (s \o B)[i] = IF i <= l THEN s[i] ELSE B[i - l]
    <3>1. s \in Seq(Nat) /\ B \in Seq(Nat) /\ Len(s) = l /\ Len(B) = e - p
      BY <2>5, <2>8
    <3> HIDE DEF s, l
    <3>2. /\ s \o B \in Seq(Nat) /\ Len(s \o B) = Len(s) + Len(B)
          /\ \A i \in 1..(Len(s) + Len(B)) : (s \o B)[i] = IF i <= Len(s) THEN s[i] ELSE B[i - Len(s)]
      BY <3>1, ConcatProperties
    <3> QED BY <3>1, <3>2
  <2>11. ASSUME NEW i \in 1..(e - o) PROVE (s \o B)[i] = data[o + i]
    <3>1. i \in 1..(l + (e - p))
      BY <2>9
    <3>2. CASE i <= l
      <4>1. i \in 1..l
        BY <2>9, <3>2
      <4> QED BY <2>8, <2>10, <3>1, <3>2, <4>1
    <3>3. CASE ~(i <= l)
      <4>1. i - l \in 1..(e - p) /\ p + (i - l) = o + i
        <5>1. i \in 1..(l + (e - p)) /\ ~(i <= l) /\ l \in Nat /\ e - p \in Nat /\ l = p - o /\ p \in Nat /\ o \in Nat
          BY <1>0, <2>6, <2>9, <3>1, <3>3
        <5> HIDE DEF l
        <5> QED BY ONLY <5>1
      <4>2. B[i - l] = data[o + i]
        BY <2>5, <4>1
      <4> HIDE DEF s, l
      <4> QED BY <2>10, <3>1, <3>3, <4>2
    <3> QED BY <3>2, <3>3
  <2>12. f[k + 1] \in Seq(Nat) /\ Len(f[k + 1]) = E(k + 1) - o /\ \A i \in 1..(E(k + 1) - o) : f[k + 1][i] = data[o + i]
    BY <2>4, <2>9, <2>10, <2>11 DEF e
  <2> QED BY <2>12 DEF k
<1>7. S = Nat
  <2>1. S \in SUBSET Nat
    OBVIOUS
  <2> HIDE DEF S
  <2> QED BY <1>5, <1>6, <2>1, SetInduction
<1>8. Joined(K)
  <2>1. K - 1 \in Nat /\ (K - 1) + 1 = K /\ K <= K
    OBVIOUS
  <2>2. K - 1 \in S
    BY <1>7, <2>1
  <2> HIDE DEF Joined
  <2> QED BY <2>1, <2>2
<1>9. FlattenSeq(seqs) = f[K]
  BY <1>3, <1>4
<1> QED BY <1>8, <1>9 DEF o, V, seqs

\* The len cells after the first from, or as many as there are.
CutAt(joined, from, len) ==
    SubSeq(joined, from + 1, IF from + len < Len(joined) THEN from + len ELSE Len(joined))

\* The K blocks after block a cover the len cells at at, the first of them from cells into a block.
CoveredBy(data, a, K, from, at, len) ==
    /\ at = a * VerifyCells + from
    /\ (a + K - 1) * VerifyCells < Len(data)
    /\ at + len <= (a + K) * VerifyCells /\ at + len <= Len(data)

IsCut(cells, data, at, len) ==
    cells \in Seq(Nat) /\ Len(cells) = len /\ \A i \in 1..len : cells[i] = data[at + i]

\* The list is cut out of the blocks that cover it.
LEMMA CutOfBlocks ==
    ASSUME NEW data \in Seq(Nat), NEW a \in Nat, NEW K \in Nat \ {0}, NEW from \in Nat, NEW len \in Nat \ {0},
           NEW at \in Nat, CoveredBy(data, a, K, from, at, len),
           NEW joined, joined = FlattenSeq(BlocksFrom(data, a, K)),
           NEW cells, cells = CutAt(joined, from, len)
    PROVE  IsCut(cells, data, at, len)
<1> DEFINE o == a * VerifyCells
           e == BlockEnd(data, a + K)
           t == (a + K) * VerifyCells
           n == Len(data)
<1>1. /\ joined \in Seq(Nat) /\ Len(joined) = e - o /\ \A i \in 1..(e - o) : joined[i] = data[o + i]
  BY BlocksJoin DEF CoveredBy
<1>2. /\ o \in Nat /\ t \in Nat /\ n \in Nat /\ from \in Nat /\ len \in Nat \ {0}
      /\ at = o + from /\ (o + from) + len <= t /\ (o + from) + len <= n
  <2>1. VerifyCells \in Nat /\ n \in Nat
    BY PostingAssumption, LenProperties
  <2> QED BY <2>1 DEF CoveredBy
<1>3. e = IF t < n THEN t ELSE n
  BY DEF BlockEnd
<1>4. cells = SubSeq(joined, from + 1, IF from + len < Len(joined) THEN from + len ELSE Len(joined))
  BY DEF CutAt
<1> HIDE DEF o, e, t, n
<1> DEFINE b == from + len
<1>5. e \in Nat /\ e - o \in Nat /\ b <= e - o /\ b \in Nat /\ from <= b /\ b - from = len
  BY ONLY <1>2, <1>3
<1>6. (IF b < Len(joined) THEN b ELSE Len(joined)) = b /\ b <= Len(joined)
  <2>1. Len(joined) = e - o
    BY <1>1
  <2> HIDE DEF b
  <2> QED BY ONLY <1>5, <2>1
<1>7. cells = SubSeq(joined, from + 1, b)
  BY <1>4, <1>6
<1> HIDE DEF b
<1>8. /\ SubSeq(joined, from + 1, b) \in Seq(Nat) /\ Len(SubSeq(joined, from + 1, b)) = b - from
      /\ \A i \in 1..(b - from) : SubSeq(joined, from + 1, b)[i] = joined[from + i]
  BY ONLY <1>1, <1>2, <1>5, <1>6, CutIs
<1>9. ASSUME NEW i \in 1..len PROVE from + i \in 1..(e - o) /\ o + (from + i) = (o + from) + i /\ i \in 1..(b - from)
  <2>1. i \in 1..len
    OBVIOUS
  <2> QED BY ONLY <1>2, <1>5, <2>1
<1>10. ASSUME NEW i \in 1..len PROVE cells[i] = data[(o + from) + i]
  <2>1. joined[from + i] = data[o + (from + i)]
    BY <1>1, <1>9
  <2>2. cells[i] = joined[from + i]
    BY <1>7, <1>8, <1>9
  <2> QED BY <1>9, <2>1, <2>2
<1> QED BY <1>2, <1>5, <1>7, <1>8, <1>10 DEF IsCut

\* blocks_covering: the first of the blocks holds the first cell, the last one the last.
LEMMA CoveringIs ==
    ASSUME NEW at \in Nat, NEW len \in Nat \ {0}
    PROVE  LET V == VerifyCells
               a == at \div V
               K == Cardinality(Covering(at, len))
           IN  /\ a \in Nat /\ K \in Nat \ {0} /\ at % V \in Nat /\ at = a * V + (at % V)
               /\ (a + K - 1) * V < at + len /\ at + len <= (a + K) * V
               /\ \A k \in 1..K : a + k \in Covering(at, len)
<1> DEFINE V == VerifyCells
           a == at \div V
           L == at + len
           h == (L + V - 1) \div V
           from == at % V
           K == Cardinality(Covering(at, len))
<1>0. V \in Nat \ {0} /\ L \in Nat /\ L > 0 /\ at \in Nat /\ L > at
  BY PostingAssumption
<1>1. a \in Nat /\ from \in Nat /\ at = a * V + from /\ a * V \in Nat
  <2> HIDE DEF V
  <2>1. at \div V \in Nat /\ at % V \in Nat /\ at = V * (at \div V) + (at % V)
    BY <1>0
  <2> HIDE DEF a, from
  <2>2. a \in Nat /\ from \in Nat /\ at = V * a + from
    BY <2>1 DEF a, from
  <2>3. V * a = a * V /\ a * V \in Nat
    BY <1>0, <2>2
  <2> QED BY <2>2, <2>3
<1>2. h \in Nat /\ h >= 1 /\ L <= h * V /\ (h - 1) * V < L
  <2> HIDE DEF V, L
  <2>1. /\ h \in Nat /\ L <= h * V /\ (L > 0 => h >= 1)
        /\ \A k \in 1..h : (k - 1) * V \in Nat /\ (k - 1) * V < L /\ k * V = (k - 1) * V + V
    BY <1>0, Chunks
  <2>2. h \in 1..h
    BY <1>0, <2>1
  <2>3. (h - 1) * V < L
    BY <2>1, <2>2
  <2> QED BY <1>0, <2>1, <2>3
<1>3. Covering(at, len) = (a + 1)..h
  BY DEF Covering
<1> HIDE DEF V, a, h, L, from
<1>4. a < h
  <2>1. SUFFICES ASSUME a >= h PROVE FALSE
    BY <1>1, <1>2
  <2>2. a * V >= h * V /\ h * V \in Nat
    BY ONLY <1>0, <1>1, <1>2, <2>1
  <2> DEFINE x == a * V
             y == h * V
  <2>3. x \in Nat /\ y \in Nat /\ x >= y /\ L <= y /\ at = x + from /\ from \in Nat /\ L \in Nat /\ L > at
    BY <1>0, <1>1, <1>2, <2>2
  <2> HIDE DEF x, y
  <2> QED BY ONLY <2>3
<1>5. K = h - a /\ K \in Nat \ {0} /\ a + K = h /\ a + K - 1 = h - 1
  <2>1. Cardinality((a + 1)..h) = h - (a + 1) + 1
    <3>1. a + 1 \in Int /\ h \in Int /\ ~(a + 1 > h)
      BY ONLY <1>1, <1>2, <1>4
    <3> QED BY <3>1, FS_Interval
  <2>2. h - (a + 1) + 1 = h - a /\ h - a \in Nat \ {0} /\ a + (h - a) = h /\ a + (h - a) - 1 = h - 1
    BY ONLY <1>1, <1>2, <1>4
  <2> QED BY <1>3, <2>1, <2>2
<1> HIDE DEF K
<1>6. \A k \in 1..K : a + k \in (a + 1)..h
  BY ONLY <1>1, <1>2, <1>5
<1>7. (a + K - 1) * V < L /\ L <= (a + K) * V
  BY <1>2, <1>5
<1>8. /\ V = VerifyCells /\ a = at \div VerifyCells /\ from = at % VerifyCells /\ L = at + len
      /\ K = Cardinality(Covering(at, len))
  BY DEF V, a, L, from, K
<1> QED BY <1>1, <1>3, <1>5, <1>6, <1>7, <1>8

\* The blocks of a sparse table hold its entries, each the ones from its first on.
LEMMA TermBlocksAre ==
    ASSUME NEW entries \in Seq(Term), Len(entries) # 0,
           NEW n, n = (Len(entries) + TermEntries - 1) \div TermEntries,
           NEW bs, bs = TermBlocks("sparse", entries)
    PROVE  /\ n \in Nat \ {0} /\ DOMAIN bs = 1..n /\ Len(bs) = n
           /\ \A b \in 1..n :
                /\ bs[b] # <<>> /\ (b - 1) * TermEntries + 1 \in 1..Len(entries) /\ bs[b][1] = entries[(b - 1) * TermEntries + 1]
                /\ ToSet(bs[b]) \subseteq ToSet(entries)
                /\ \A k \in 1..Len(entries) : (b - 1) * TermEntries < k /\ k <= b * TermEntries => entries[k] \in ToSet(bs[b])
<1> DEFINE T == TermEntries
           N == Len(entries)
           Hi(b) == IF b * T < N THEN b * T ELSE N
           Cut(b) == SubSeq(entries, (b - 1) * T + 1, Hi(b))
<1>0. T \in Nat \ {0} /\ N \in Nat /\ N > 0 /\ entries # <<>> /\ DOMAIN entries = 1..N
  BY PostingAssumption, LenProperties
<1>1. bs = [b \in 1..n |-> Cut(b)]
  BY <1>0 DEF TermBlocks
<1>2. /\ n \in Nat /\ n >= 1
      /\ \A b \in 1..n : (b - 1) * T \in Nat /\ (b - 1) * T < N /\ b * T = (b - 1) * T + T
  <2>1. n = (N + T - 1) \div T
    OBVIOUS
  <2> HIDE DEF N, T
  <2> QED BY <1>0, <2>1, Chunks
<1>3. ASSUME NEW b \in 1..n
      PROVE  /\ bs[b] # <<>> /\ (b - 1) * T + 1 \in 1..N /\ bs[b][1] = entries[(b - 1) * T + 1]
             /\ ToSet(bs[b]) \subseteq ToSet(entries)
             /\ \A k \in 1..N : (b - 1) * T < k /\ k <= b * T => entries[k] \in ToSet(bs[b])
  <2> DEFINE p == (b - 1) * T
             q == b * T
             e == Hi(b)
             c == bs[b]
  <2>1. p \in Nat /\ p < N /\ q = p + T /\ e = IF q < N THEN q ELSE N
    BY <1>2
  <2>2. c = SubSeq(entries, p + 1, e)
    BY <1>1
  <2> HIDE DEF p, q, e, c, N, T
  <2>3. e \in Nat /\ p <= e /\ p < e /\ e <= N /\ \A k \in 1..N : k <= q => k <= e
    BY ONLY <1>0, <2>1
  <2>4. /\ SubSeq(entries, p + 1, e) \in Seq(Term) /\ Len(SubSeq(entries, p + 1, e)) = e - p
        /\ \A i \in 1..(e - p) : SubSeq(entries, p + 1, e)[i] = entries[p + i]
    BY <2>1, <2>3, CutIs DEF N
  <2>5. c \in Seq(Term) /\ Len(c) = e - p /\ DOMAIN c = 1..(e - p) /\ \A i \in 1..(e - p) : c[i] = entries[p + i]
    BY <2>2, <2>4, LenProperties
  <2>6. 1 \in 1..(e - p) /\ p + 1 \in 1..N /\ \A i \in 1..(e - p) : p + i \in 1..N
    BY ONLY <1>0, <2>1, <2>3
  <2>7. c # <<>> /\ c[1] = entries[p + 1]
    BY <2>5, <2>6
  <2>8. ToSet(c) \subseteq ToSet(entries)
    BY <1>0, <2>5, <2>6 DEF ToSet
  <2>9. ASSUME NEW k \in 1..N, p < k, k <= q PROVE entries[k] \in ToSet(c)
    <3>1. k - p \in 1..(e - p) /\ p + (k - p) = k
      BY <1>0, <2>1, <2>3, <2>9
    <3> QED BY <2>5, <3>1 DEF ToSet
  <2> QED BY <2>6, <2>7, <2>8, <2>9 DEF p, q, c
<1>4. DOMAIN bs = 1..n /\ Len(bs) = n
  <2> HIDE DEF Cut
  <2> QED BY <1>1, <1>2
<1> QED BY <1>2, <1>3, <1>4

\* block_for: the block a gram's term is in, if it has one.
LEMMA BlockForIs ==
    ASSUME NEW entries \in Seq(Term), Len(entries) # 0, built.terms = TermBlocks("sparse", entries),
           \A i, j \in 1..Len(entries) : i < j => entries[i].gram < entries[j].gram,
           NEW g \in Nat
    PROVE  /\ TermBlockFor(g) \in 0..Len(built.terms)
           /\ \A b \in 1..Len(built.terms) : ToSet(built.terms[b]) \subseteq ToSet(entries)
           /\ \A k \in 1..Len(entries) : entries[k].gram = g =>
                TermBlockFor(g) # 0 /\ entries[k] \in ToSet(built.terms[TermBlockFor(g)])
<1> DEFINE T == TermEntries
           N == Len(entries)
           n == (N + T - 1) \div T
           bs == built.terms
           F == {b \in 1..n : bs[b][1].gram <= g}
<1>0. T \in Nat \ {0} /\ N \in Nat /\ \A i \in 1..N : entries[i] \in Term /\ entries[i].gram \in Nat
  <2>1. \A i \in 1..N : entries[i] \in Term
    BY LenProperties
  <2> QED BY <2>1, PostingAssumption, LenProperties DEF Term
<1>1. /\ n \in Nat \ {0} /\ DOMAIN bs = 1..n /\ Len(bs) = n
      /\ \A b \in 1..n :
           /\ bs[b] # <<>> /\ (b - 1) * T + 1 \in 1..N /\ bs[b][1] = entries[(b - 1) * T + 1]
           /\ ToSet(bs[b]) \subseteq ToSet(entries)
           /\ \A k \in 1..N : (b - 1) * T < k /\ k <= b * T => entries[k] \in ToSet(bs[b])
  BY TermBlocksAre
<1>2. TermBlockFor(g) = Cardinality(F)
  <2>1. {b \in DOMAIN bs : bs[b] # <<>> /\ bs[b][1].gram <= g} = F
    BY <1>1
  <2> QED BY <2>1 DEF TermBlockFor
<1>3. /\ \A b \in 1..n : (b - 1) * T \in Nat /\ b * T = (b - 1) * T + T
      /\ \A k \in 1..N : \E b \in 1..n : (b - 1) * T < k /\ k <= b * T
  <2> HIDE DEF N, T
  <2> QED BY <1>0, Chunks
<1> HIDE DEF n, T, N, bs
<1>4. Cardinality(F) \in 0..n
  <2>1. IsFiniteSet(1..n) /\ Cardinality(1..n) = n
    <3>1. 1 \in Int /\ n \in Int /\ ~(1 > n) /\ n - 1 + 1 = n
      BY <1>1
    <3>2. IsFiniteSet(1..n) /\ Cardinality(1..n) = IF 1 > n THEN 0 ELSE n - 1 + 1
      BY <3>1, FS_Interval
    <3> QED BY <3>1, <3>2
  <2> DEFINE D == 1..n
  <2>2. F \in SUBSET D /\ IsFiniteSet(D) /\ Cardinality(D) = n
    BY <2>1
  <2> HIDE DEF F, D
  <2>3. IsFiniteSet(F) /\ Cardinality(F) <= n
    BY <2>2, FS_Subset
  <2>4. Cardinality(F) \in Nat
    BY <2>3, FS_CardinalityType
  <2> QED BY <1>1, <2>3, <2>4
<1>5. ASSUME NEW k \in 1..N, entries[k].gram = g
      PROVE  TermBlockFor(g) # 0 /\ entries[k] \in ToSet(bs[TermBlockFor(g)])
  <2>1. PICK j \in 1..n : (j - 1) * T < k /\ k <= j * T
    BY <1>3
  <2>2. ASSUME NEW b \in 1..n PROVE b \in F <=> b <= j
    <3> DEFINE p == (b - 1) * T + 1
    <3>1. p \in 1..N /\ bs[b][1] = entries[p]
      BY <1>1
    <3>2. CASE b <= j
      <4>1. p <= k
        <5> DEFINE x == (b - 1) * T
                   y == (j - 1) * T
        <5>1. x \in Nat /\ y \in Nat /\ y < k
          BY <1>3, <2>1
        <5>2. x <= y
          <6>1. b - 1 \in Nat /\ j - 1 \in Nat /\ b - 1 <= j - 1
            BY <1>1, <3>2
          <6> QED BY ONLY <1>0, <6>1
        <5> HIDE DEF x, y
        <5>3. x + 1 <= k
          BY <1>0, <5>1, <5>2
        <5> QED BY <5>3 DEF x
      <4> HIDE DEF p
      <4>2. entries[p].gram <= entries[k].gram
        <5>1. p = k \/ p < k
          BY <1>0, <3>1, <4>1
        <5>2. entries[p].gram \in Nat /\ entries[k].gram \in Nat
          BY <1>0, <3>1
        <5>3. p < k => entries[p].gram < entries[k].gram
          BY <3>1 DEF N
        <5> QED BY <5>1, <5>2, <5>3
      <4> QED BY <1>5, <3>1, <3>2, <4>2
    <3>3. CASE ~(b <= j)
      <4>1. k < p
        <5> DEFINE x == (b - 1) * T
                   y == j * T
        <5>1. x \in Nat /\ y \in Nat /\ k <= y
          BY <1>0, <1>1, <1>3, <2>1
        <5>2. y <= x
          <6>1. b - 1 \in Nat /\ j \in Nat /\ j <= b - 1
            BY <1>1, <3>3
          <6> QED BY ONLY <1>0, <6>1
        <5> HIDE DEF x, y
        <5>3. k < x + 1
          BY <1>0, <5>1, <5>2
        <5> QED BY <5>3 DEF x
      <4> HIDE DEF p
      <4>2. entries[k].gram < entries[p].gram
        BY <3>1, <4>1 DEF N
      <4>3. entries[p].gram \in Nat /\ ~(entries[p].gram <= g)
        BY <1>0, <1>5, <3>1, <4>2
      <4> QED BY <3>1, <3>3, <4>3
    <3> QED BY <3>2, <3>3
  <2>3. F = 1..j
    <3>1. 1..j \subseteq 1..n /\ \A b \in 1..n : b <= j <=> b \in 1..j
      BY <1>1
    <3>2. F \subseteq 1..n
      OBVIOUS
    <3> HIDE DEF F
    <3> QED BY <2>2, <3>1, <3>2
  <2>4. Cardinality(1..j) = j
    <3>1. 1 \in Int /\ j \in Int /\ ~(1 > j) /\ j - 1 + 1 = j
      BY <1>1
    <3>2. Cardinality(1..j) = IF 1 > j THEN 0 ELSE j - 1 + 1
      BY <3>1, FS_Interval
    <3> QED BY <3>1, <3>2
  <2>5. TermBlockFor(g) = j /\ j # 0
    <3>1. j # 0
      BY <1>1
    <3> HIDE DEF F
    <3>2. Cardinality(F) = j
      BY <2>3, <2>4
    <3> QED BY <1>2, <3>1, <3>2
  <2> QED BY <1>1, <2>1, <2>5
<1> QED BY <1>1, <1>2, <1>4, <1>5 DEF bs, N

-----------------------------------------------------------------------------
(***************************************************************************)
(* A list that is read.                                                    *)
(***************************************************************************)

\* Verified blocks give back the list a term points at.
LEMMA ListReads ==
    ASSUME NEW t \in Term, NEW set \in SUBSET Ids, set # {}, built.data \in Seq(Nat),
           TermPoints(strategy, built.data, t, set), t.count # 1, ~(t.count >= IdSpace),
           strategy \in {"trigram", "sparse"}, ReadList(t)
    PROVE  found'.gram = t.gram /\ (found'.ok => found'.ids = set) /\ (stored = built => found'.ok)
<1> DEFINE len == IF strategy = "sparse" THEN t.len ELSE StoredCount(t.count)
           blocks == Covering(t.at, len)
           bad == {b \in blocks : ~Hit(b) /\ ~Verifies(BlockOf(built.data, b), BlockOf(stored.data, b))}
           Block(b) == IF Hit(b) THEN kept[b] ELSE BlockOf(stored.data, b)
           a == t.at \div VerifyCells
           K == Cardinality(blocks)
           seqs == [k \in 1..K |-> Block(a + k)]
           joined == FlattenSeq(seqs)
           from == t.at % VerifyCells
           cells == SubSeq(joined, from + 1, IF from + len < Len(joined) THEN from + len ELSE Len(joined))
           list == IF bad # {} THEN Bad
                   ELSE IF strategy = "sparse" THEN DecodeDelta(cells, t.count)
                   ELSE DecodeFixed(cells, t.count)
           c == CellsOf(strategy, UpTo(set))
<1>0. found' = [gram |-> t.gram, ok |-> list.ok, ids |-> list.ids]
  BY DEF ReadList
<1>1. /\ t.at \in Nat /\ t.count = Cardinality(set) /\ c \in Seq(Nat) /\ Len(c) \in Nat /\ t.count \in Nat /\ t.count # 0
      /\ t.at + Len(c) <= Len(built.data) /\ \A i \in 1..Len(c) : built.data[t.at + i] = c[i]
  <2>1. t.at \in Nat /\ t.count \in Nat
    BY DEF Term
  <2>2. Cardinality(set) # 0
    BY ListIs, FS_EmptySet
  <2> QED BY <2>1, <2>2, CellsAre DEF TermPoints
<1>2. len = Len(c) /\ len \in Nat \ {0}
  <2>1. CASE strategy = "sparse"
    <3>1. c = DeltaCells(UpTo(set)) /\ len = Len(c)
      BY <2>1 DEF CellsOf, TermPoints
    <3>2. Len(DeltaCells(UpTo(set))) > 0
      BY DeltaRead
    <3> HIDE DEF c, len
    <3> QED BY <1>1, <3>1, <3>2
  <2>2. CASE strategy # "sparse"
    <3>1. c = FixedCells(UpTo(set)) /\ len = StoredCount(t.count)
      BY <2>2 DEF CellsOf
    <3>2. Len(c) = StoredCount(t.count)
      BY <1>1, <3>1, FixedRead
    <3>3. StoredCount(t.count) \in Nat \ {0}
      <4>1. IdSpace \in Nat
        BY PostingAssumption
      <4> QED BY <1>1, <4>1 DEF StoredCount, Complemented
    <3> HIDE DEF c, len
    <3> QED BY <3>1, <3>2, <3>3
  <2> QED BY <2>1, <2>2
<1>3. /\ a \in Nat /\ K \in Nat \ {0} /\ from \in Nat /\ t.at = a * VerifyCells + from
      /\ (a + K - 1) * VerifyCells < t.at + len /\ t.at + len <= (a + K) * VerifyCells
      /\ \A k \in 1..K : a + k \in blocks
  <2> HIDE DEF len
  <2> QED BY <1>1, <1>2, CoveringIs
<1>4. stored = built => bad = {}
  BY DEF Verifies
<1>5. ASSUME bad = {} PROVE list = [ok |-> TRUE, ids |-> set]
  <2>1. \A b \in blocks : Block(b) = BlockOf(built.data, b)
    <3>1. \A b \in blocks : Hit(b) \/ Verifies(BlockOf(built.data, b), BlockOf(stored.data, b))
      BY <1>5
    <3> HIDE DEF blocks
    <3> QED BY <3>1 DEF Hit, Verifies
  <2>2. seqs = BlocksFrom(built.data, a, K)
    <3> HIDE DEF Block, a, K, blocks
    <3> QED BY <1>3, <2>1 DEF BlocksFrom
  <2>3. joined = FlattenSeq(BlocksFrom(built.data, a, K))
    BY <2>2
  <2>4. (a + K - 1) * VerifyCells < Len(built.data)
    <3> DEFINE x == (a + K - 1) * VerifyCells
    <3>1. x \in Int /\ x < t.at + len /\ t.at + len <= Len(built.data) /\ Len(built.data) \in Nat
      <4>1. VerifyCells \in Nat
        BY PostingAssumption
      <4>2. a + K - 1 \in Nat
        BY ONLY <1>3
      <4>3. x \in Nat
        BY ONLY <4>1, <4>2
      <4> HIDE DEF x, len, c
      <4>4. x < t.at + len
        BY <1>3 DEF x
      <4>5. t.at + len <= Len(built.data)
        BY <1>1, <1>2
      <4>6. Len(built.data) \in Nat
        BY LenProperties
      <4> QED BY <4>3, <4>4, <4>5, <4>6
    <3> HIDE DEF x, len
    <3>2. x < Len(built.data)
      BY <1>1, <1>2, <3>1
    <3> QED BY <3>2 DEF x
  <2>5. cells \in Seq(Nat) /\ Len(cells) = len /\ \A i \in 1..len : cells[i] = built.data[t.at + i]
    <3>1. cells = CutAt(joined, from, len)
      BY DEF CutAt
    <3>2. t.at + len <= Len(built.data) /\ built.data \in Seq(Nat)
      BY <1>1, <1>2
    <3> DEFINE data == built.data
               at == t.at
    <3>3. CoveredBy(data, a, K, from, at, len)
      <4> HIDE DEF len
      <4> QED BY <1>3, <2>4, <3>2 DEF CoveredBy
    <3>4. data \in Seq(Nat) /\ a \in Nat /\ K \in Nat \ {0} /\ from \in Nat /\ len \in Nat \ {0} /\ at \in Nat
      BY <1>1, <1>2, <1>3, <3>2
    <3>5. joined = FlattenSeq(BlocksFrom(data, a, K))
      BY <2>3
    <3> HIDE DEF cells, joined, from, len, a, K, data, at
    <3>6. IsCut(cells, data, at, len)
      BY ONLY <3>1, <3>3, <3>4, <3>5, CutOfBlocks
    <3> QED BY <3>6 DEF data, at, IsCut
  <2>6. cells = c
    <3> HIDE DEF cells, len, c
    <3>1. \A i \in 1..Len(cells) : cells[i] = c[i]
      BY <1>1, <1>2, <2>5
    <3> QED BY <1>1, <1>2, <2>5, <3>1, SeqEqual
  <2> HIDE DEF cells, c, bad
  <2>7. CASE strategy = "sparse"
    <3>1. list = DecodeDelta(c, t.count) /\ c = DeltaCells(UpTo(set))
      BY <1>5, <2>6, <2>7 DEF CellsOf, c
    <3> QED BY <1>1, <3>1, DeltaRead
  <2>8. CASE strategy # "sparse"
    <3>1. list = DecodeFixed(c, t.count) /\ c = FixedCells(UpTo(set))
      BY <1>5, <2>6, <2>8 DEF CellsOf, c
    <3> QED BY <1>1, <3>1, FixedRead
  <2> QED BY <2>7, <2>8
<1>6. ASSUME bad # {} PROVE list.ok = FALSE
  <2> HIDE DEF bad
  <2> QED BY <1>6 DEF Bad
<1> HIDE DEF list, bad
<1>7. found'.gram = t.gram /\ found'.ok = list.ok /\ found'.ids = list.ids
  BY <1>0
<1>8. CASE bad = {}
  <2>1. list.ok = TRUE /\ list.ids = set
    BY <1>5, <1>8
  <2>2. found'.ok = TRUE /\ found'.ids = set
    BY <1>7, <2>1
  <2> QED BY <1>7, <2>2
<1>9. CASE bad # {}
  <2>1. found'.ok = FALSE /\ stored # built
    BY <1>4, <1>6, <1>7, <1>9
  <2> QED BY <1>7, <2>1
<1> QED BY <1>8, <1>9

\* The tables of a segment hold, for every gram that was pushed, a term that points at its ids.
TableSound ==
    /\ built.data \in Seq(Nat)
    /\ \E entries \in Seq(Term) :
        /\ TableOf(strategy, pushed, [terms |-> entries, data |-> built.data], Len(UpTo(GramsIn(pushed))))
        /\ built.terms = TermBlocks(strategy, entries)

\* Every term is for a gram that was pushed, and every gram has a term where it is looked for.
LEMMA TermsAre ==
    ASSUME strategy \in {"trigram", "sparse"}, pushed \in SUBSET Entry, IsFiniteSet(pushed), pushed # {}, TableSound,
           NEW g \in PostingGrams, NEW b, b = IF strategy = "trigram" THEN 1 ELSE TermBlockFor(g)
    PROVE  /\ b # 0 => \A t \in ToSet(built.terms[b]) : t.gram = g =>
                t \in Term /\ IdsIn(pushed, g) # {} /\ TermPoints(strategy, built.data, t, IdsIn(pushed, g))
           /\ IdsIn(pushed, g) # {} => b # 0 /\ \E t \in ToSet(built.terms[b]) : t.gram = g
<1> DEFINE G == GramsIn(pushed)
           gs == UpTo(G)
           m == Len(gs)
<1>1. PICK entries \in Seq(Term) :
        /\ TableOf(strategy, pushed, [terms |-> entries, data |-> built.data], m)
        /\ built.terms = TermBlocks(strategy, entries)
  BY DEF TableSound
<1> DEFINE st == [terms |-> entries, data |-> built.data]
<1>2. st.terms = entries /\ st.data = built.data
  OBVIOUS
<1>3. /\ G \in SUBSET Nat /\ IsFiniteSet(G) /\ G # {}
      /\ (\A x \in G : IdsIn(pushed, x) # {}) /\ \A x : x \notin G => IdsIn(pushed, x) = {}
  <2>1. G # {}
    BY DEF GramsIn
  <2> QED BY <2>1, GramsAre
<1>4. /\ m \in Nat /\ m # 0 /\ DOMAIN gs = 1..m /\ ToSet(gs) = G
      /\ (\A i \in 1..m : gs[i] \in G) /\ \A i, j \in 1..m : i < j => gs[i] < gs[j]
  <2>1. /\ Cardinality(G) \in Nat /\ gs \in Seq(G) /\ Len(gs) = Cardinality(G) /\ ToSet(gs) = G
        /\ \A i, j \in 1..Cardinality(G) : i < j => gs[i] < gs[j]
    <3> HIDE DEF G
    <3> QED BY <1>3, UpToIs
  <2>2. Cardinality(G) # 0
    <3> HIDE DEF G
    <3> QED BY <1>3, FS_EmptySet
  <2> HIDE DEF gs, G
  <2> QED BY <2>1, <2>2, LenProperties
<1> HIDE DEF st
<1>5. /\ Len(entries) = m
      /\ \A j \in 1..m : entries[j].gram = gs[j] /\ TermPoints(strategy, built.data, entries[j], IdsIn(pushed, gs[j]))
  <2>1. TableOf(strategy, pushed, st, m)
    BY <1>1 DEF st
  <2> HIDE DEF m
  <2> QED BY <1>2, <2>1 DEF TableOf
<1>6. DOMAIN entries = 1..m /\ \A j \in 1..m : entries[j] \in Term
  <2> HIDE DEF m
  <2> QED BY <1>5, LenProperties
<1>7. g \in Nat
  BY PostingAssumption
<1> HIDE DEF m, gs, G
<1>8. \A i, j \in 1..Len(entries) : i < j => entries[i].gram < entries[j].gram
  BY <1>4, <1>5
<1>9. /\ b # 0 => ToSet(built.terms[b]) \subseteq ToSet(entries)
      /\ \A k \in 1..m : entries[k].gram = g => b # 0 /\ entries[k] \in ToSet(built.terms[b])
  <2>1. CASE strategy = "trigram"
    <3>1. b = 1 /\ built.terms = <<entries>>
      BY <1>1, <2>1 DEF TermBlocks
    <3>2. built.terms[b] = entries
      BY <3>1
    <3>3. \A k \in 1..m : entries[k] \in ToSet(entries)
      BY <1>6 DEF ToSet
    <3> QED BY <3>1, <3>2, <3>3
  <2>2. CASE strategy # "trigram"
    <3>1. strategy = "sparse" /\ b = TermBlockFor(g) /\ built.terms = TermBlocks("sparse", entries)
      BY <1>1, <2>2
    <3>2. Len(entries) # 0
      BY <1>4, <1>5
    <3>3. /\ TermBlockFor(g) \in 0..Len(built.terms)
          /\ \A x \in 1..Len(built.terms) : ToSet(built.terms[x]) \subseteq ToSet(entries)
          /\ \A k \in 1..Len(entries) : entries[k].gram = g =>
                TermBlockFor(g) # 0 /\ entries[k] \in ToSet(built.terms[TermBlockFor(g)])
      BY <1>7, <1>8, <3>1, <3>2, BlockForIs
    <3>4. b # 0 => b \in 1..Len(built.terms)
      BY <3>1, <3>3
    <3> QED BY <1>5, <3>1, <3>3, <3>4
  <2> QED BY <2>1, <2>2
<1>10. ASSUME b # 0, NEW t \in ToSet(built.terms[b]), t.gram = g
       PROVE  t \in Term /\ IdsIn(pushed, g) # {} /\ TermPoints(strategy, built.data, t, IdsIn(pushed, g))
  <2>1. PICK j \in 1..m : t = entries[j]
    BY <1>6, <1>9, <1>10 DEF ToSet
  <2>2. gs[j] = g /\ gs[j] \in G
    BY <1>4, <1>5, <1>10, <2>1
  <2> QED BY <1>3, <1>5, <1>6, <2>1, <2>2
<1>11. ASSUME IdsIn(pushed, g) # {} PROVE b # 0 /\ \E t \in ToSet(built.terms[b]) : t.gram = g
  <2>1. PICK k \in 1..m : gs[k] = g
    BY <1>3, <1>4, <1>11 DEF ToSet
  <2> QED BY <1>5, <1>9, <2>1
<1> QED BY <1>10, <1>11

\* Find: the answer is for the gram, is the ids that were pushed with it, and fails only on damage.
LEMMA FindIs ==
    ASSUME strategy \in {"trigram", "sparse"}, pushed \in SUBSET Entry, IsFiniteSet(pushed), pushed # {}, TableSound,
           NEW g \in PostingGrams, Find(g)
    PROVE  found'.gram = g /\ (found'.ok => found'.ids = IdsIn(pushed, g)) /\ (stored = built => found'.ok)
<1> DEFINE b == IF strategy = "trigram" THEN 1 ELSE TermBlockFor(g)
           hits == IF b = 0 THEN {} ELSE {t \in ToSet(stored.terms[b]) : t.gram = g}
           term == CHOOSE t \in hits : TRUE
           Says(ok, ids) == found' = [gram |-> g, ok |-> ok, ids |-> ids] /\ UNCHANGED kept
           set == IdsIn(pushed, g)
<1>1. IF b # 0 /\ ~Verifies(built.terms[b], stored.terms[b]) THEN Says(FALSE, {})
      ELSE IF hits = {} THEN Says(TRUE, {})
      ELSE IF term.count = 1 THEN Says(term.at < IdSpace, {term.at} \cap Ids)
      ELSE IF term.count >= IdSpace THEN Says(TRUE, Ids)
      ELSE ReadList(term)
  BY DEF Find
<1>2. /\ b # 0 => \A t \in ToSet(built.terms[b]) : t.gram = g =>
                t \in Term /\ set # {} /\ TermPoints(strategy, built.data, t, set)
      /\ set # {} => b # 0 /\ \E t \in ToSet(built.terms[b]) : t.gram = g
  <2>1. b = IF strategy = "trigram" THEN 1 ELSE TermBlockFor(g)
    OBVIOUS
  <2> HIDE DEF b
  <2> QED BY <2>1, TermsAre
<1>3. CASE b # 0 /\ ~Verifies(built.terms[b], stored.terms[b])
  <2>1. found' = [gram |-> g, ok |-> FALSE, ids |-> {}]
    BY <1>1, <1>3
  <2>2. stored # built
    BY <1>3 DEF Verifies
  <2>3. found'.gram = g /\ found'.ok = FALSE
    BY <2>1
  <2> QED BY <2>2, <2>3
<1>4. CASE ~(b # 0 /\ ~Verifies(built.terms[b], stored.terms[b]))
  <2>1. hits = IF b = 0 THEN {} ELSE {t \in ToSet(built.terms[b]) : t.gram = g}
    <3>1. b # 0 => stored.terms[b] = built.terms[b]
      BY <1>4 DEF Verifies
    <3> HIDE DEF b
    <3> QED BY <3>1
  <2> HIDE DEF b, hits, set
  <2>2. CASE hits = {}
    <3>1. found' = [gram |-> g, ok |-> TRUE, ids |-> {}]
      BY <1>1, <1>4, <2>2
    <3>2. set = {}
      BY <1>2, <2>1, <2>2
    <3>3. found'.gram = g /\ found'.ok = TRUE /\ found'.ids = {}
      BY <3>1
    <3> QED BY <3>2, <3>3 DEF set
  <2>3. CASE hits # {}
    <3>0. term \in hits
      BY <2>3
    <3>1. b # 0 /\ term \in ToSet(built.terms[b]) /\ term.gram = g
      BY <2>1, <3>0
    <3>2. term \in Term /\ set # {} /\ TermPoints(strategy, built.data, term, set)
      BY <1>2, <3>1
    <3>3. set \in SUBSET Ids
      BY GramsAre DEF set
    <3>4. /\ term.count = Cardinality(set) /\ (term.count = 1 => set = {term.at})
          /\ term.count \in 0..IdSpace /\ (term.count = IdSpace => set = Ids) /\ IdSpace \in Nat
      <4>1. term.count = Cardinality(set) /\ (term.count = 1 => set = {term.at})
        BY <3>2 DEF TermPoints
      <4>2. Cardinality(set) \in 0..IdSpace /\ (Cardinality(set) = IdSpace => set = Ids)
        BY <3>3, ListIs
      <4> QED BY <4>1, <4>2, PostingAssumption
    <3>5. CASE term.count = 1
      <4>1. found' = [gram |-> g, ok |-> term.at < IdSpace, ids |-> {term.at} \cap Ids]
        BY <1>1, <1>4, <2>3, <3>5
      <4>2. set = {term.at} /\ term.at \in Ids
        BY <3>3, <3>4, <3>5
      <4>3. term.at < IdSpace
        BY <3>4, <4>2 DEF Ids
      <4>4. found'.gram = g /\ found'.ids = {term.at} \cap Ids /\ (found'.ok <=> term.at < IdSpace)
        BY <4>1
      <4>5. found'.ids = set
        BY <4>2, <4>4
      <4> HIDE DEF term
      <4> QED BY <4>3, <4>4, <4>5 DEF set
    <3>6. CASE term.count # 1 /\ term.count >= IdSpace
      <4>1. found' = [gram |-> g, ok |-> TRUE, ids |-> Ids]
        BY <1>1, <1>4, <2>3, <3>6
      <4>2. set = Ids
        BY <3>4, <3>6
      <4>3. found'.gram = g /\ found'.ok = TRUE /\ found'.ids = Ids
        BY <4>1
      <4> QED BY <4>2, <4>3 DEF set
    <3>7. CASE term.count # 1 /\ ~(term.count >= IdSpace)
      <4>1. ReadList(term)
        BY <1>1, <1>4, <2>3, <3>7
      <4>2. built.data \in Seq(Nat)
        BY DEF TableSound
      <4> HIDE DEF term
      <4>3. found'.gram = term.gram /\ (found'.ok => found'.ids = set) /\ (stored = built => found'.ok)
        BY <3>2, <3>3, <3>7, <4>1, <4>2, ListReads
      <4> QED BY <3>1, <4>3 DEF set
    <3> QED BY <3>5, <3>6, <3>7
  <2> QED BY <2>2, <2>3
<1> QED BY <1>3, <1>4

-----------------------------------------------------------------------------
(***************************************************************************)
(* The invariant.                                                          *)
(***************************************************************************)

\* What a build keeps: until it is merged, the runs and the buffer hold what was pushed.
Gathered ==
    /\ buffer \in Seq(Entry) /\ runs \in Seq(Seq(Entry))
    /\ Records(runs) \cup ToSet(buffer) = pushed

PostingInv ==
    /\ strategy \in {"none", "trigram", "sparse"}
    /\ pushed \in SUBSET Entry /\ IsFiniteSet(pushed)
    /\ built = NotBuilt => found = NoList /\ Gathered
    /\ built # NotBuilt => strategy # "none" /\ pushed # {} /\ TableSound
    /\ ListsExact /\ SoundIsRead /\ OpenRunsBounded

LEMMA PushKeeps ==
    ASSUME PostingInv, NEW g \in PostingGrams, NEW id \in Ids, Push(g, id)
    PROVE  PostingInv'
<1> DEFINE entry == [gram |-> g, id |-> id]
           next == strategy = "sparse" /\ buffer # <<>> /\ Last(buffer).id # id
           from == IF next THEN Spilled(runs, buffer) ELSE runs
           rest == IF next THEN <<>> ELSE buffer
           now == IF strategy = "sparse" /\ entry \in ToSet(rest) THEN rest ELSE Append(rest, entry)
<1>1. /\ built = NotBuilt /\ pushed' = pushed \cup {entry}
      /\ runs' = (IF Len(now) >= RunCap THEN Spilled(from, now) ELSE from)
      /\ buffer' = (IF Len(now) >= RunCap THEN <<>> ELSE now)
      /\ UNCHANGED <<strategy, built, stored, kept, reads, found>>
  BY DEF Push
<1>2. entry \in Entry
  BY DEF Entry
<1>3. /\ found = NoList /\ buffer \in Seq(Entry) /\ runs \in Seq(Seq(Entry)) /\ Records(runs) \cup ToSet(buffer) = pushed
      /\ pushed \in SUBSET Entry /\ IsFiniteSet(pushed) /\ strategy \in {"none", "trigram", "sparse"}
  BY <1>1 DEF PostingInv, Gathered
<1> HIDE DEF entry
<1>4. ToSet(<<>>) = {} /\ <<>> \in Seq(Entry)
  BY DEF ToSet
<1>5. from \in Seq(Seq(Entry)) /\ rest \in Seq(Entry) /\ Records(from) \cup ToSet(rest) = pushed
  <2>1. CASE next
    <3> HIDE DEF next
    <3> QED BY <1>3, <1>4, <2>1, SpilledKeeps
  <2>2. CASE ~next
    <3> HIDE DEF next
    <3> QED BY <1>3, <2>2
  <2> QED BY <2>1, <2>2
<1> HIDE DEF from, rest, next
<1>6. now \in Seq(Entry) /\ ToSet(now) = ToSet(rest) \cup {entry}
  <2>1. CASE strategy = "sparse" /\ entry \in ToSet(rest)
    BY <1>5, <2>1
  <2>2. CASE ~(strategy = "sparse" /\ entry \in ToSet(rest))
    <3>1. now = Append(rest, entry)
      BY <2>2
    <3>2. /\ Append(rest, entry) \in Seq(Entry) /\ Len(rest) \in Nat /\ DOMAIN rest = 1..Len(rest)
          /\ DOMAIN Append(rest, entry) = 1..(Len(rest) + 1)
          /\ Append(rest, entry)[Len(rest) + 1] = entry /\ \A i \in 1..Len(rest) : Append(rest, entry)[i] = rest[i]
      BY <1>2, <1>5, LenProperties, AppendProperties
    <3> DEFINE a == Append(rest, entry)
               L == Len(rest)
    <3>3. L + 1 \in 1..(L + 1) /\ (\A i \in 1..L : i \in 1..(L + 1)) /\ \A i \in 1..(L + 1) : i \in 1..L \/ i = L + 1
      BY <3>2
    <3> HIDE DEF now, a, L
    <3>4. ToSet(a) = ToSet(rest) \cup {entry}
      <4>1. DOMAIN a = 1..(L + 1) /\ DOMAIN rest = 1..L /\ a[L + 1] = entry /\ \A i \in 1..L : a[i] = rest[i]
        BY <3>2 DEF a, L
      <4> QED BY <3>3, <4>1 DEF ToSet
    <3> QED BY <3>1, <3>2, <3>4 DEF a
  <2> QED BY <2>1, <2>2
<1> HIDE DEF now
<1>7. buffer' \in Seq(Entry) /\ runs' \in Seq(Seq(Entry)) /\ Records(runs') \cup ToSet(buffer') = pushed'
  <2>1. Records(from) \cup ToSet(now) = pushed \cup {entry}
    BY <1>5, <1>6
  <2>2. CASE Len(now) >= RunCap
    BY <1>1, <1>4, <1>5, <1>6, <2>1, <2>2, SpilledKeeps
  <2>3. CASE ~(Len(now) >= RunCap)
    BY <1>1, <1>5, <1>6, <2>1, <2>3
  <2> QED BY <2>2, <2>3
<1>8. pushed' \in SUBSET Entry /\ IsFiniteSet(pushed')
  BY <1>1, <1>2, <1>3, FS_AddElement
<1>9. ListsExact' /\ SoundIsRead' /\ OpenRunsBounded'
  <2>1. found' = NoList
    BY <1>1, <1>3
  <2>2. found'.ok = FALSE /\ found'.gram = 0
    BY <2>1 DEF NoList
  <2>3. OpenRunsBounded'
    BY <1>1 DEF PostingInv, OpenRunsBounded
  <2> QED BY <2>2, <2>3 DEF ListsExact, SoundIsRead
<1> QED BY <1>1, <1>3, <1>7, <1>8, <1>9 DEF PostingInv, Gathered

LEMMA MergeKeeps ==
    ASSUME PostingInv, MergeRuns
    PROVE  PostingInv'
<1> DEFINE all == Spilled(runs, buffer)
           last == Collapsed(all)
           end == MergedTable(strategy, Records(last))
<1>1. /\ strategy # "none" /\ built = NotBuilt /\ pushed # {}
      /\ built' = [terms |-> TermBlocks(strategy, end.terms), data |-> end.data, opened |-> Len(last)]
      /\ UNCHANGED <<strategy, pushed, reads, found>>
  BY DEF MergeRuns
<1>2. /\ found = NoList /\ buffer \in Seq(Entry) /\ runs \in Seq(Seq(Entry)) /\ Records(runs) \cup ToSet(buffer) = pushed
      /\ pushed \in SUBSET Entry /\ IsFiniteSet(pushed) /\ strategy \in {"trigram", "sparse"}
  BY <1>1 DEF PostingInv, Gathered
<1>3. all \in Seq(Seq(Entry)) /\ Records(all) = pushed
  BY <1>2, SpilledKeeps
<1> HIDE DEF all
<1>4. Records(last) = pushed /\ Len(last) <= MaxOpenRuns
  BY <1>2, <1>3, CollapsedKeeps, CollapsedFew
<1> HIDE DEF last
<1> DEFINE m == Len(UpTo(GramsIn(pushed)))
<1>5. TableOf(strategy, pushed, end, m)
  BY <1>2, <1>4, MergedIs
<1> HIDE DEF end
<1>6. end \in TableState /\ end.terms \in Seq(Term) /\ end.data \in Seq(Nat) /\ end = [terms |-> end.terms, data |-> end.data]
  <2>1. end \in TableState
    BY <1>5 DEF TableOf
  <2> QED BY <2>1 DEF TableState
<1>7. TermBlocks(strategy, end.terms) # <<>>
  <2> DEFINE es == end.terms
  <2>1. CASE strategy = "trigram" \/ es = <<>>
    <3>1. TermBlocks(strategy, es) = <<es>>
      BY <2>1 DEF TermBlocks
    <3> QED BY <3>1
  <2>2. CASE ~(strategy = "trigram" \/ es = <<>>)
    <3>1. strategy = "sparse" /\ es \in Seq(Term) /\ Len(es) # 0
      BY <1>2, <1>6, <2>2, EmptySeq
    <3> HIDE DEF es
    <3>2. Len(TermBlocks("sparse", es)) \in Nat \ {0}
      BY <3>1, TermBlocksAre
    <3>3. TermBlocks(strategy, es) # <<>>
      BY <3>1, <3>2
    <3> QED BY <3>3 DEF es
  <2> QED BY <2>1, <2>2
<1>8. built'.terms = TermBlocks(strategy, end.terms) /\ built'.data = end.data /\ built'.opened = Len(last)
  BY <1>1
<1>9. built' # NotBuilt
  BY <1>7, <1>8 DEF NotBuilt
<1>10. TableSound'
  BY <1>1, <1>5, <1>6, <1>8 DEF TableSound
<1>11. ListsExact' /\ SoundIsRead' /\ OpenRunsBounded'
  <2>1. found' = NoList
    BY <1>1, <1>2
  <2>2. found'.ok = FALSE /\ found'.gram = 0
    BY <2>1 DEF NoList
  <2>3. OpenRunsBounded'
    BY <1>4, <1>8 DEF OpenRunsBounded
  <2> QED BY <2>2, <2>3 DEF ListsExact, SoundIsRead
<1> QED BY <1>1, <1>2, <1>9, <1>10, <1>11 DEF PostingInv

PostingSpec == PostingInit /\ [][PostingNext]_postingVars

LEMMA PostingStep ==
    ASSUME PostingInv, [PostingNext]_postingVars
    PROVE  PostingInv'
<1>1. CASE UNCHANGED postingVars
  BY <1>1 DEF PostingInv, Gathered, TableSound, ListsExact, SoundIsRead, OpenRunsBounded, postingVars
<1>2. ASSUME NEW s \in {"trigram", "sparse"}, StartRuns(s) PROVE PostingInv'
  <2>1. built = NotBuilt /\ strategy' = s /\ UNCHANGED <<pushed, buffer, runs, built, stored, found>>
    BY <1>2 DEF StartRuns, PostingInv
  <2> QED BY <2>1 DEF PostingInv, Gathered, ListsExact, SoundIsRead, OpenRunsBounded
<1>3. ASSUME NEW g \in PostingGrams, NEW id \in Ids, Push(g, id) PROVE PostingInv'
  BY <1>3, PushKeeps
<1>4. CASE EndChunk
  <2>1. runs' = Spilled(runs, buffer) /\ buffer' = <<>> /\ UNCHANGED <<strategy, pushed, built, stored, found>>
    BY <1>4 DEF EndChunk
  <2>2. ASSUME built = NotBuilt PROVE Gathered'
    <3>1. buffer \in Seq(Entry) /\ runs \in Seq(Seq(Entry)) /\ Records(runs) \cup ToSet(buffer) = pushed
      BY <2>2 DEF PostingInv, Gathered
    <3>2. ToSet(<<>>) = {} /\ <<>> \in Seq(Entry)
      BY DEF ToSet
    <3>3. buffer' \in Seq(Entry) /\ runs' \in Seq(Seq(Entry)) /\ Records(runs') \cup ToSet(buffer') = pushed'
      BY <2>1, <3>1, <3>2, SpilledKeeps
    <3> QED BY <3>3 DEF Gathered
  <2> QED BY <2>1, <2>2 DEF PostingInv, TableSound, ListsExact, SoundIsRead, OpenRunsBounded
<1>5. CASE MergeRuns
  BY <1>5, MergeKeeps
<1>6. CASE DamageStore
  <2>1. stored = built /\ UNCHANGED <<strategy, pushed, buffer, runs, built, found>>
    BY <1>6 DEF DamageStore
  <2> QED BY <2>1 DEF PostingInv, Gathered, TableSound, ListsExact, SoundIsRead, OpenRunsBounded
<1>7. ASSUME NEW b \in DOMAIN kept, DamageKept(b) PROVE PostingInv'
  <2>1. UNCHANGED <<strategy, pushed, buffer, runs, built, stored, found>>
    BY <1>7 DEF DamageKept
  <2> QED BY <2>1 DEF PostingInv, Gathered, TableSound, ListsExact, SoundIsRead, OpenRunsBounded
<1>8. ASSUME NEW g \in PostingGrams, Find(g) PROVE PostingInv'
  <2>1. built # NotBuilt /\ UNCHANGED <<strategy, pushed, buffer, runs, built, stored>>
    BY <1>8 DEF Find
  <2>2. /\ strategy \in {"trigram", "sparse"} /\ pushed \in SUBSET Entry /\ IsFiniteSet(pushed)
        /\ pushed # {} /\ TableSound
    BY <2>1 DEF PostingInv
  <2>3. found'.gram = g /\ (found'.ok => found'.ids = IdsIn(pushed, g)) /\ (stored = built => found'.ok)
    BY <1>8, <2>2, FindIs
  <2>4. ListsExact'
    <3>1. IdsIn(pushed, g) = {e.id : e \in {e \in pushed' : e.gram = found'.gram}}
      BY <2>1, <2>3 DEF IdsIn
    <3> QED BY <2>3, <3>1 DEF ListsExact
  <2>5. SoundIsRead'
    BY <2>1, <2>3 DEF SoundIsRead
  <2>6. TableSound'
    BY <2>1, <2>2 DEF TableSound
  <2>7. OpenRunsBounded'
    BY <2>1 DEF PostingInv, OpenRunsBounded
  <2> QED BY <2>1, <2>2, <2>4, <2>5, <2>6, <2>7 DEF PostingInv
<1> QED BY <1>1, <1>2, <1>3, <1>4, <1>5, <1>6, <1>7, <1>8 DEF PostingNext

LEMMA PostingInitial ==
    ASSUME PostingInit
    PROVE  PostingInv
<1>1. strategy = "none" /\ pushed = {} /\ buffer = <<>> /\ runs = <<>> /\ built = NotBuilt /\ found = NoList
  BY DEF PostingInit
<1>2. Records(runs) = {} /\ ToSet(buffer) = {} /\ runs \in Seq(Seq(Entry)) /\ buffer \in Seq(Entry)
  BY <1>1 DEF Records, ToSet
<1>3. IsFiniteSet(pushed)
  BY <1>1, FS_EmptySet
<1>4. found.ok = FALSE /\ found.gram = 0
  BY <1>1 DEF NoList
<1>5. built.opened <= MaxOpenRuns
  BY <1>1, PostingAssumption DEF NotBuilt
<1> QED BY <1>1, <1>2, <1>3, <1>4, <1>5 DEF PostingInv, Gathered, ListsExact, SoundIsRead, OpenRunsBounded

\* PostingInv holds in every state.
LEMMA PostingInvariant == PostingSpec => []PostingInv
<1>1. PostingInit => PostingInv
  BY PostingInitial
<1>2. PostingInv /\ [PostingNext]_postingVars => PostingInv'
  BY PostingStep
<1> QED BY <1>1, <1>2, PTL DEF PostingSpec

\* collapse_posting_runs: however many runs a build spills, its last merge opens no more
\* than MAX_OPEN_POSTING_RUNS of them.
THEOREM FewRunsOpen == PostingSpec => []OpenRunsBounded
<1>1. PostingInv => OpenRunsBounded
  BY DEF PostingInv
<1> QED BY <1>1, PostingInvariant, PTL

\* merge_posting_runs, read_term_values and read_posting_blocks: what a search reads for a
\* gram is what was pushed with it, for every way the entries fall into runs, chunks, delta
\* blocks, term blocks and verified blocks, and whatever becomes of the store and the cache;
\* a read fails only on a damaged store, and the merge keeps few runs open.
THEOREM ListsRead == PostingSpec => []PostingsSound
<1>1. PostingInv => PostingsSound
  BY DEF PostingInv, PostingsSound
<1> QED BY <1>1, PostingInvariant, PTL

-----------------------------------------------------------------------------
(***************************************************************************)
(* Proof graphs: the ways to an accepting state.                           *)
(***************************************************************************)

\* Max and Min are what they say of numbers up to a bound.
LEMMA BoundedMax ==
    ASSUME NEW b \in Nat, NEW T \in SUBSET (0..b), T # {}
    PROVE  Max(T) \in T /\ Min(T) \in T /\ \A x \in T : x <= Max(T) /\ Min(T) <= x
<1> DEFINE D == {b - x : x \in T}
<1>1. D \in SUBSET Nat /\ D # {} /\ T \in SUBSET Nat
  <2>1. \A x \in T : x \in 0..b
    OBVIOUS
  <2>2. \A x \in 0..b : x \in Nat /\ b - x \in Nat
    OBVIOUS
  <2> QED BY <2>1, <2>2
<1>2. PICK d \in D : \A y \in D : d <= y
  <2> HIDE DEF D
  <2> QED BY <1>1, SmallestIs
<1>3. PICK x \in T : d = b - x
  BY <1>2
<1>4. \A y \in T : x >= y
  <2>1. \A y \in T : b - x <= b - y /\ x \in Nat /\ y \in Nat
    BY <1>2, <1>3
  <2> QED BY <2>1
<1>5. Max(T) \in T /\ \A y \in T : Max(T) >= y
  BY <1>3, <1>4 DEF Max
<1>6. \E z \in T : \A y \in T : z <= y
  BY <1>1, SmallestIs
<1>7. Min(T) \in T /\ \A y \in T : Min(T) <= y
  BY <1>6 DEF Min
<1>8. \A y \in T : y \in Nat /\ Max(T) \in Nat
  BY <1>1, <1>5
<1> QED BY <1>5, <1>7, <1>8

-----------------------------------------------------------------------------
\* An automaton's parts.
LEMMA MachineIs ==
    ASSUME NEW m \in Machines
    PROVE  /\ m.final \in SUBSET ProofStates /\ Dead \notin m.final
           /\ \A s \in ProofStates, b \in Symbols : m.next[<<s, b>>] \in ProofStates \cup {Dead}
           /\ \A s \in ProofStates : Successors(m, s) \in SUBSET ProofStates
           /\ \A s \in m.final : Successors(m, s) = {}
           /\ \A s \in ProofStates, b \in Symbols :
                s \notin m.final /\ m.next[<<s, b>>] # Dead => m.next[<<s, b>>] \in Successors(m, s)
           /\ \A s, t : t \in Successors(m, s) => s \notin m.final /\ t # Dead /\ \E b \in Symbols : t = m.next[<<s, b>>]
<1>1. m.next \in [ProofStates \X Symbols -> ProofStates \cup {Dead}] /\ m.final \in SUBSET ProofStates
  BY DEF Machines
<1>2. \A s \in ProofStates, b \in Symbols : m.next[<<s, b>>] \in ProofStates \cup {Dead}
  BY <1>1
<1> QED BY <1>1, <1>2, ProofGraphAssumption DEF Successors

\* The states found: the start, and with a state its successors.
LEMMA FoundIs ==
    ASSUME NEW m \in Machines
    PROVE  /\ Found(m) \in SUBSET ProofStates /\ Start \in Found(m)
           /\ \A s \in Found(m) : Successors(m, s) \subseteq Found(m)
<1>1. Start \in Found(m)
  BY ProofGraphAssumption DEF Found, IsFound
<1>2. ASSUME NEW s \in Found(m), NEW t \in Successors(m, s) PROVE t \in Found(m)
  <2>1. t \in ProofStates
    BY <1>2, MachineIs DEF Found
  <2>2. ASSUME NEW set \in SUBSET ProofStates, IsFound(m, set) PROVE t \in set
    <3>1. s \in set
      BY <2>2 DEF Found
    <3> QED BY <2>2, <3>1 DEF IsFound
  <2> QED BY <2>1, <2>2 DEF Found
<1> QED BY <1>1, <1>2 DEF Found

\* The useful states: the accepting ones that were found and, with a state, those it
\* follows; and from each of the others there is a step to another useful one.
LEMMA UsefulIs ==
    ASSUME NEW m \in Machines
    PROVE  /\ Useful(m) \in SUBSET Found(m) /\ Found(m) \cap m.final \subseteq Useful(m)
           /\ \A s \in Found(m) : Successors(m, s) \cap Useful(m) # {} => s \in Useful(m)
           /\ \A s \in Useful(m) : s \notin m.final => Successors(m, s) \cap Useful(m) # {}
<1>1. Useful(m) \in SUBSET Found(m) /\ Found(m) \cap m.final \subseteq Useful(m)
  BY DEF Useful, IsUseful
<1>2. ASSUME NEW s \in Found(m), Successors(m, s) \cap Useful(m) # {} PROVE s \in Useful(m)
  <2>1. PICK t \in Useful(m) : t \in Successors(m, s)
    BY <1>2
  <2>2. ASSUME NEW set \in SUBSET Found(m), IsUseful(m, set) PROVE s \in set
    <3>1. t \in set
      BY <2>1, <2>2 DEF Useful
    <3> QED BY <2>1, <2>2, <3>1 DEF IsUseful
  <2> QED BY <2>2 DEF Useful
<1>3. ASSUME NEW s \in Useful(m), s \notin m.final, Successors(m, s) \cap Useful(m) = {} PROVE FALSE
  <2> DEFINE set == Useful(m) \ {s}
  <2>1. Found(m) \cap m.final \subseteq set
    BY <1>1, <1>3
  <2>2. ASSUME NEW t \in Found(m), Successors(m, t) \cap set # {} PROVE t \in set
    <3>1. Successors(m, t) \cap Useful(m) # {}
      BY <2>2
    <3> QED BY <1>2, <1>3, <3>1
  <2>3. IsUseful(m, set) /\ set \in SUBSET Found(m)
    BY <1>1, <2>1, <2>2 DEF IsUseful
  <2> QED BY <2>3 DEF Useful
<1> QED BY <1>1, <1>2, <1>3

-----------------------------------------------------------------------------
\* A way of k steps along a word to the first accepting state.
IsWay(m, p, w, k) ==
    /\ p \in [0..k -> ProofStates] /\ w \in [1..k -> Symbols]
    /\ p[k] \in m.final
    /\ \A i \in 1..k : p[i - 1] \notin m.final /\ p[i] = m.next[<<p[i - 1], w[i]>>]

HasWay(m, s, k) == \E p, w : IsWay(m, p, w, k) /\ p[0] = s

LEMMA WayStarts ==
    ASSUME NEW m \in Machines, NEW s \in m.final
    PROVE  HasWay(m, s, 0)
<1> DEFINE p == [i \in 0..0 |-> s]
           w == [i \in 1..0 |-> s]
<1>1. s \in ProofStates
  BY MachineIs
<1>2. 0..0 = {0} /\ 1..0 = {}
  OBVIOUS
<1>3. IsWay(m, p, w, 0) /\ p[0] = s
  BY <1>1, <1>2 DEF IsWay
<1> HIDE DEF p, w
<1> QED BY <1>3 DEF HasWay

\* A step more in front.
LEMMA WayGrows ==
    ASSUME NEW m \in Machines, NEW s \in ProofStates, NEW t \in Successors(m, s), NEW k \in Nat, HasWay(m, t, k)
    PROVE  HasWay(m, s, k + 1)
<1>1. PICK p, w : IsWay(m, p, w, k) /\ p[0] = t
  BY DEF HasWay
<1>2. PICK b \in Symbols : t = m.next[<<s, b>>]
  BY MachineIs
<1>3. s \notin m.final
  BY MachineIs
<1> DEFINE q == [i \in 0..(k + 1) |-> IF i = 0 THEN s ELSE p[i - 1]]
           v == [i \in 1..(k + 1) |-> IF i = 1 THEN b ELSE w[i - 1]]
<1>4. /\ p \in [0..k -> ProofStates] /\ w \in [1..k -> Symbols] /\ p[k] \in m.final
      /\ \A i \in 1..k : p[i - 1] \notin m.final /\ p[i] = m.next[<<p[i - 1], w[i]>>]
  BY <1>1 DEF IsWay
<1>5. q \in [0..(k + 1) -> ProofStates]
  <2>1. \A i \in 0..(k + 1) : i # 0 => i - 1 \in 0..k
    OBVIOUS
  <2> QED BY <1>4, <2>1
<1>6. v \in [1..(k + 1) -> Symbols]
  <2>1. \A i \in 1..(k + 1) : i # 1 => i - 1 \in 1..k
    OBVIOUS
  <2> QED BY <1>4, <2>1
<1>7. q[0] = s /\ q[k + 1] = p[k]
  <2>1. 0 \in 0..(k + 1) /\ k + 1 \in 0..(k + 1) /\ k + 1 # 0 /\ (k + 1) - 1 = k
    OBVIOUS
  <2> QED BY <2>1
<1>8. ASSUME NEW i \in 1..(k + 1) PROVE q[i - 1] \notin m.final /\ q[i] = m.next[<<q[i - 1], v[i]>>]
  <2>1. i \in 0..(k + 1) /\ i - 1 \in 0..(k + 1) /\ i # 0
    OBVIOUS
  <2>2. q[i] = p[i - 1]
    BY <2>1
  <2>3. CASE i = 1
    <3>1. i - 1 = 0 /\ v[i] = b
      BY <2>3
    <3> HIDE DEF q, v
    <3> QED BY <1>1, <1>2, <1>3, <1>7, <2>2, <3>1
  <2>4. CASE i # 1
    <3>1. i - 1 \in 1..k /\ i - 1 # 0
      BY <2>4
    <3>2. v[i] = w[i - 1] /\ q[i - 1] = p[(i - 1) - 1]
      BY <2>1, <2>4, <3>1
    <3> HIDE DEF q, v
    <3> DEFINE j == i - 1
    <3>3. p[j - 1] \notin m.final /\ p[j] = m.next[<<p[j - 1], w[j]>>]
      BY <1>4, <3>1
    <3> QED BY <2>2, <3>2, <3>3
  <2> QED BY <2>3, <2>4
<1> HIDE DEF q, v
<1>9. IsWay(m, q, v, k + 1)
  BY <1>4, <1>5, <1>6, <1>7, <1>8 DEF IsWay
<1> QED BY <1>7, <1>9 DEF HasWay

\* A step less in front.
LEMMA WayShrinks ==
    ASSUME NEW m \in Machines, NEW k \in Nat, NEW p, NEW w, IsWay(m, p, w, k + 1)
    PROVE  /\ IsWay(m, [i \in 0..k |-> p[i + 1]], [i \in 1..k |-> w[i + 1]], k)
           /\ p[1] \in Successors(m, p[0]) /\ p[0] \notin m.final /\ p[0] \in ProofStates
<1> DEFINE q == [i \in 0..k |-> p[i + 1]]
           v == [i \in 1..k |-> w[i + 1]]
<1>1. /\ p \in [0..(k + 1) -> ProofStates] /\ w \in [1..(k + 1) -> Symbols] /\ p[k + 1] \in m.final
      /\ \A i \in 1..(k + 1) : p[i - 1] \notin m.final /\ p[i] = m.next[<<p[i - 1], w[i]>>]
  BY DEF IsWay
<1>2. /\ \A i \in 0..k : i + 1 \in 0..(k + 1) /\ (i + 1) - 1 = i
      /\ \A i \in 1..k : i + 1 \in 1..(k + 1) /\ i \in 0..k /\ i - 1 \in 0..k /\ (i - 1) + 1 = i
      /\ k \in 0..k /\ 1 \in 1..(k + 1) /\ 0 \in 0..(k + 1) /\ 1 \in 0..(k + 1) /\ 1 - 1 = 0
  OBVIOUS
<1>3. q \in [0..k -> ProofStates] /\ v \in [1..k -> Symbols] /\ q[k] = p[k + 1]
  BY <1>1, <1>2
<1>4. ASSUME NEW i \in 1..k PROVE q[i - 1] \notin m.final /\ q[i] = m.next[<<q[i - 1], v[i]>>]
  <2> DEFINE j == i + 1
  <2>1. p[j - 1] \notin m.final /\ p[j] = m.next[<<p[j - 1], w[j]>>] /\ j - 1 = i
    BY <1>1, <1>2
  <2>2. q[i] = p[j] /\ q[i - 1] = p[i] /\ v[i] = w[j]
    BY <1>2
  <2> HIDE DEF q, v
  <2> QED BY <2>1, <2>2
<1>5. p[0] \notin m.final /\ p[1] = m.next[<<p[0], w[1]>>] /\ p[0] \in ProofStates /\ p[1] \in ProofStates /\ w[1] \in Symbols
  BY <1>1, <1>2
<1>6. p[1] \in Successors(m, p[0])
  BY <1>5, MachineIs, ProofGraphAssumption
<1> HIDE DEF q, v
<1>7. IsWay(m, q, v, k)
  BY <1>1, <1>3, <1>4 DEF IsWay
<1> QED BY <1>5, <1>6, <1>7 DEF q, v

\* A way is a step and a way, or none of both.
LEMMA WayStep ==
    ASSUME NEW m \in Machines, NEW s, NEW k \in Nat, HasWay(m, s, k)
    PROVE  /\ s \in ProofStates
           /\ k = 0 => s \in m.final
           /\ k # 0 => s \notin m.final /\ \E t \in Successors(m, s) : HasWay(m, t, k - 1)
<1>1. PICK p, w : IsWay(m, p, w, k) /\ p[0] = s
  BY DEF HasWay
<1>2. p \in [0..k -> ProofStates] /\ p[k] \in m.final /\ 0 \in 0..k
  BY <1>1 DEF IsWay
<1>3. ASSUME k # 0 PROVE s \notin m.final /\ \E t \in Successors(m, s) : HasWay(m, t, k - 1)
  <2> DEFINE j == k - 1
             q == [i \in 0..j |-> p[i + 1]]
             v == [i \in 1..j |-> w[i + 1]]
  <2>1. j \in Nat /\ j + 1 = k
    BY <1>3
  <2>2. IsWay(m, p, w, j + 1)
    BY <1>1, <2>1
  <2>3. IsWay(m, q, v, j) /\ p[1] \in Successors(m, p[0]) /\ p[0] \notin m.final
    <3> HIDE DEF j
    <3> QED BY <2>1, <2>2, WayShrinks
  <2>4. q[0] = p[1]
    BY <2>1
  <2> HIDE DEF q, v
  <2>5. HasWay(m, p[1], j)
    BY <2>3, <2>4 DEF HasWay
  <2> QED BY <1>1, <2>3, <2>5
<1> QED BY <1>1, <1>2, <1>3

-----------------------------------------------------------------------------
(***************************************************************************)
(* The depth-first search.                                                 *)
(***************************************************************************)

\* The states on a way that starts where the walk has been are useful.
LEMMA WaysUseful ==
    ASSUME NEW m \in Machines, NEW k \in Nat, NEW s \in Found(m), HasWay(m, s, k)
    PROVE  s \in Useful(m)
<1> DEFINE S == {n \in Nat : \A x \in Found(m) : HasWay(m, x, n) => x \in Useful(m)}
<1>1. 0 \in S
  <2>1. ASSUME NEW x \in Found(m), HasWay(m, x, 0) PROVE x \in Useful(m)
    BY <2>1, WayStep, UsefulIs
  <2> QED BY <2>1
<1>2. ASSUME NEW n \in S PROVE n + 1 \in S
  <2>0. n \in Nat /\ n + 1 \in Nat /\ n + 1 # 0 /\ (n + 1) - 1 = n
    OBVIOUS
  <2>1. ASSUME NEW x \in Found(m), HasWay(m, x, n + 1) PROVE x \in Useful(m)
    <3> DEFINE j == n + 1
    <3>1. j \in Nat /\ j # 0 /\ HasWay(m, x, j)
      BY <2>0, <2>1
    <3> HIDE DEF j
    <3>2. PICK t \in Successors(m, x) : HasWay(m, t, j - 1)
      BY <3>1, WayStep
    <3>3. t \in Found(m) /\ HasWay(m, t, n)
      BY <2>0, <3>2, FoundIs DEF j
    <3>4. t \in Useful(m)
      BY <3>3
    <3> QED BY <3>2, <3>4, UsefulIs
  <2> QED BY <2>0, <2>1
<1>3. S = Nat
  <2>1. S \in SUBSET Nat
    OBVIOUS
  <2> HIDE DEF S
  <2> QED BY <1>1, <1>2, <2>1, SetInduction
<1> QED BY <1>3

-----------------------------------------------------------------------------
\* What find_longest_accepting_path finds at a state, given what it finds at the others.
Children(m, s) == Successors(m, s) \cap Useful(m)
Below(m, f, way, s) == {f[way \cup {c}][c] : c \in Children(m, s)}
Farthest(m, f, way, s) ==
    IF s \in m.final THEN 0
    ELSE IF Children(m, s) \cap way # {} \/ Children(m, s) = {} \/ NoBound \in Below(m, f, way, s) THEN NoBound
    ELSE 1 + Max(Below(m, f, way, s))

Visits(m, f) == f = [way \in SUBSET ProofStates |-> [s \in ProofStates |-> Farthest(m, f, way, s)]]

\* The states that are not on the way.
Off(way) == Cardinality(ProofStates \ way)

LEMMA OffIs ==
    ASSUME NEW way \in SUBSET ProofStates
    PROVE  /\ Off(way) \in Nat /\ Off(way) <= Cardinality(ProofStates)
           /\ \A c \in ProofStates : c \notin way => Off(way \cup {c}) = Off(way) - 1
           /\ way # {} => Off(way) < Cardinality(ProofStates)
<1> DEFINE D == ProofStates \ way
<1>1. D \in SUBSET ProofStates /\ IsFiniteSet(ProofStates)
  BY ProofGraphAssumption
<1>2. IsFiniteSet(D) /\ Cardinality(D) <= Cardinality(ProofStates) /\ (Cardinality(ProofStates) = Cardinality(D) => ProofStates = D)
  <2> HIDE DEF D
  <2> QED BY <1>1, FS_Subset
<1>3. Cardinality(D) \in Nat /\ Cardinality(ProofStates) \in Nat
  <2> HIDE DEF D
  <2> QED BY <1>1, <1>2, FS_CardinalityType
<1>4. ASSUME NEW c \in ProofStates, c \notin way PROVE Off(way \cup {c}) = Off(way) - 1
  <2>1. ProofStates \ (way \cup {c}) = D \ {c} /\ c \in D
    BY <1>4
  <2> HIDE DEF D
  <2>2. Cardinality(D \ {c}) = Cardinality(D) - 1
    BY <1>2, <2>1, FS_RemoveElement
  <2> QED BY <2>1, <2>2 DEF Off, D
<1>5. way # {} => D # ProofStates
  OBVIOUS
<1> HIDE DEF D
<1>6. Off(way) = Cardinality(D)
  BY DEF Off, D
<1> QED BY <1>2, <1>3, <1>4, <1>5, <1>6

\* The recursion of find_longest_accepting_path ends, as a way meets no state twice.
LEMMA VisitsExist ==
    ASSUME NEW m \in Machines
    PROVE  \E f : Visits(m, f)
<1> DEFINE N == Cardinality(ProofStates)
           Form(f) == f = [way \in SUBSET ProofStates |-> [s \in ProofStates |-> f[way][s]]]
           Part(n, f) == \A way \in SUBSET ProofStates : Off(way) < n => \A s \in ProofStates : f[way][s] = Farthest(m, f, way, s)
           S == {n \in Nat : \E f : Form(f) /\ Part(n, f)}
<1>1. 0 \in S
  <2> DEFINE f == [way \in SUBSET ProofStates |-> [s \in ProofStates |-> 0]]
  <2>1. Form(f)
    OBVIOUS
  <2>2. Part(0, f)
    <3>1. \A way \in SUBSET ProofStates : ~(Off(way) < 0)
      BY OffIs
    <3> QED BY <3>1
  <2> HIDE DEF f, Form, Part
  <2> QED BY <2>1, <2>2
<1>2. ASSUME NEW n \in S PROVE n + 1 \in S
  <2>1. PICK f : Form(f) /\ Part(n, f)
    BY <1>2
  <2> DEFINE g == [way \in SUBSET ProofStates |-> [s \in ProofStates |-> Farthest(m, f, way, s)]]
  <2>2. \A way \in SUBSET ProofStates, s \in ProofStates : g[way][s] = Farthest(m, f, way, s)
    OBVIOUS
  <2>3. Form(g)
    <3> DEFINE F(way, s) == Farthest(m, f, way, s)
    <3> HIDE DEF F
    <3>1. [way \in SUBSET ProofStates |-> [s \in ProofStates |-> F(way, s)]]
            = [way \in SUBSET ProofStates |-> [s \in ProofStates |->
                 [way2 \in SUBSET ProofStates |-> [s2 \in ProofStates |-> F(way2, s2)]][way][s]]]
      OBVIOUS
    <3> QED BY <3>1 DEF F
  <2> HIDE DEF g
  <2>4. ASSUME NEW way \in SUBSET ProofStates, Off(way) < n + 1, NEW s \in ProofStates
        PROVE  g[way][s] = Farthest(m, g, way, s)
    <3>1. CASE s \in m.final \/ Children(m, s) \cap way # {} \/ Children(m, s) = {}
      BY <2>2, <3>1 DEF Farthest
    <3>2. CASE ~(s \in m.final \/ Children(m, s) \cap way # {} \/ Children(m, s) = {})
      <4>1. ASSUME NEW c \in Children(m, s) PROVE g[way \cup {c}][c] = f[way \cup {c}][c]
        <5>1. c \in ProofStates /\ c \notin way
          BY <3>2, MachineIs DEF Children
        <5>2. Off(way \cup {c}) < n
          <6>1. Off(way \cup {c}) = Off(way) - 1 /\ Off(way) \in Nat /\ n \in Nat
            BY <5>1, OffIs
          <6> QED BY <2>4, <6>1
        <5>3. way \cup {c} \in SUBSET ProofStates
          BY <5>1
        <5> QED BY <2>1, <2>2, <5>1, <5>2, <5>3
      <4>2. Below(m, g, way, s) = Below(m, f, way, s)
        <5> DEFINE G(c) == g[way \cup {c}][c]
                   F(c) == f[way \cup {c}][c]
                   C == Children(m, s)
        <5>1. \A c \in C : G(c) = F(c)
          BY <4>1
        <5> HIDE DEF G, F, C
        <5>2. {G(c) : c \in C} = {F(c) : c \in C}
          BY <5>1
        <5> QED BY <5>2 DEF Below, G, F, C
      <4> QED BY <2>2, <4>2 DEF Farthest
    <3> QED BY <3>1, <3>2
  <2>5. Part(n + 1, g)
    BY <2>4
  <2> HIDE DEF Form, Part
  <2>6. n + 1 \in Nat
    OBVIOUS
  <2> QED BY <2>3, <2>5, <2>6
<1>3. S = Nat
  <2>1. S \in SUBSET Nat
    OBVIOUS
  <2> HIDE DEF S
  <2> QED BY <1>1, <1>2, <2>1, SetInduction
<1>4. N \in Nat
  BY ProofGraphAssumption, FS_CardinalityType
<1>5. PICK f : Form(f) /\ Part(N + 1, f)
  <2>0. N + 1 \in Nat
    BY <1>4
  <2>1. N + 1 \in S
    <3> HIDE DEF S, N
    <3> QED BY <1>3, <2>0
  <2> HIDE DEF N
  <2> QED BY <2>1
<1>6. \A way \in SUBSET ProofStates, s \in ProofStates : f[way][s] = Farthest(m, f, way, s)
  <2>1. \A way \in SUBSET ProofStates : Off(way) < N + 1
    <3>1. \A way \in SUBSET ProofStates : Off(way) \in Nat /\ Off(way) <= N
      BY OffIs
    <3> QED BY <1>4, <3>1
  <2> QED BY <1>5, <2>1
<1>7. Visits(m, f)
  <2>1. f = [way \in SUBSET ProofStates |-> [s \in ProofStates |-> f[way][s]]]
    BY <1>5
  <2>2. [way \in SUBSET ProofStates |-> [s \in ProofStates |-> f[way][s]]]
          = [way \in SUBSET ProofStates |-> [s \in ProofStates |-> Farthest(m, f, way, s)]]
    BY <1>6
  <2> QED BY <2>1, <2>2 DEF Visits
<1> QED BY <1>7

\* LongestPath is what the walk finds at the start.
LEMMA LongestIs ==
    ASSUME NEW m \in Machines
    PROVE  \E f : /\ Visits(m, f)
                  /\ LongestPath(m) = IF Start \notin Useful(m) THEN NoBound ELSE f[{Start}][Start]
<1> DEFINE f == CHOOSE visit : Visits(m, visit)
<1>1. Visits(m, f)
  BY VisitsExist
<1>2. LongestPath(m) = IF Start \notin Useful(m) THEN NoBound ELSE f[{Start}][Start]
  BY DEF LongestPath, Visits, Farthest, Below, Children
<1> HIDE DEF f
<1> QED BY <1>1, <1>2

LEMMA VisitIs ==
    ASSUME NEW m \in Machines, NEW f, Visits(m, f), NEW way \in SUBSET ProofStates, NEW s \in ProofStates
    PROVE  f[way][s] = Farthest(m, f, way, s)
<1> DEFINE F(w, x) == Farthest(m, f, w, x)
<1>1. f = [w \in SUBSET ProofStates |-> [x \in ProofStates |-> F(w, x)]]
  BY DEF Visits
<1> HIDE DEF F
<1>2. f[way][s] = F(way, s)
  BY <1>1
<1> QED BY <1>2 DEF F

-----------------------------------------------------------------------------
(***************************************************************************)
(* What the search returns.                                                *)
(***************************************************************************)

\* What is below a state whose distance is known, if what is below is within bounds.
LEMMA BelowIs ==
    ASSUME NEW m \in Machines, NEW f, Visits(m, f), NEW way \in SUBSET ProofStates, NEW s \in ProofStates,
           s \notin m.final, f[way][s] # NoBound,
           \A c \in ProofStates : c \notin way => f[way \cup {c}][c] \in {NoBound} \cup 0..Off(way \cup {c})
    PROVE  /\ Children(m, s) \cap way = {} /\ Children(m, s) # {} /\ Off(way) \in Nat \ {0}
           /\ f[way][s] \in 1..Off(way)
           /\ \A c \in Children(m, s) : /\ c \in ProofStates /\ f[way \cup {c}][c] \in 0..(Off(way) - 1)
                                        /\ f[way \cup {c}][c] + 1 <= f[way][s]
           /\ \E c \in Children(m, s) : f[way][s] = f[way \cup {c}][c] + 1
<1> DEFINE C == Children(m, s)
           B == Below(m, f, way, s)
           o == Off(way)
<1>1. f[way][s] = Farthest(m, f, way, s)
  BY VisitIs
<1>2. C \cap way = {} /\ C # {} /\ NoBound \notin B /\ f[way][s] = 1 + Max(B)
  BY <1>1 DEF Farthest
<1>3. ASSUME NEW c \in C PROVE c \in ProofStates /\ c \notin way /\ f[way \cup {c}][c] \in B
  BY <1>2, MachineIs DEF Children, Below
<1>4. ASSUME NEW c \in C PROVE f[way \cup {c}][c] \in 0..(o - 1) /\ o \in Nat \ {0}
  <2> DEFINE x == Off(way \cup {c})
             v == f[way \cup {c}][c]
  <2>1. x = o - 1 /\ o \in Nat
    BY <1>3, OffIs
  <2>2. way \cup {c} \in SUBSET ProofStates
    BY <1>3
  <2>3. x \in Nat
    BY <2>2, OffIs
  <2>4. v \in {NoBound} \cup 0..x /\ v # NoBound
    BY <1>2, <1>3
  <2> HIDE DEF x, v, o
  <2>5. v \in 0..(o - 1) /\ o \in Nat \ {0}
    BY <2>1, <2>3, <2>4
  <2> QED BY <2>5 DEF v
<1>5. o \in Nat \ {0} /\ B \in SUBSET (0..(o - 1)) /\ B # {}
  <2>1. B \in SUBSET (0..(o - 1)) /\ B # {}
    BY <1>2, <1>4 DEF Below
  <2> QED BY <1>2, <1>4, <2>1
<1>6. Max(B) \in B /\ \A x \in B : x <= Max(B)
  <2> DEFINE b == o - 1
  <2>1. b \in Nat /\ B \in SUBSET (0..b) /\ B # {}
    BY <1>5
  <2> HIDE DEF b, B
  <2> QED BY <2>1, BoundedMax
<1>7. PICK c \in C : Max(B) = f[way \cup {c}][c]
  BY <1>6 DEF Below
<1>8. ASSUME NEW d \in C PROVE f[way \cup {d}][d] + 1 <= f[way][s]
  <2> DEFINE x == f[way \cup {d}][d]
             y == Max(B)
  <2>0. x \in 0..(o - 1) /\ y \in 0..(o - 1)
    BY <1>4, <1>7
  <2>1. x \in Int /\ y \in Int
    <3> HIDE DEF x, y, o
    <3> QED BY <2>0
  <2>2. x <= y /\ f[way][s] = 1 + y
    BY <1>2, <1>3, <1>6
  <2> HIDE DEF x, y
  <2>3. x + 1 <= f[way][s]
    BY <2>1, <2>2
  <2> QED BY <2>3 DEF x
<1>9. f[way][s] \in 1..o
  <2> DEFINE y == Max(B)
  <2>1. y \in 0..(o - 1) /\ f[way][s] = 1 + y /\ o \in Nat
    BY <1>2, <1>4, <1>5, <1>7
  <2> HIDE DEF y, o
  <2> QED BY <2>1
<1>10. f[way][s] = f[way \cup {c}][c] + 1
  <2> DEFINE y == Max(B)
  <2>1. y \in Int /\ f[way][s] = 1 + y /\ y = f[way \cup {c}][c]
    BY <1>2, <1>4, <1>7
  <2> HIDE DEF y
  <2> QED BY <2>1
<1> QED BY <1>2, <1>3, <1>4, <1>5, <1>7, <1>8, <1>9, <1>10

\* A distance is no longer than there are states off the way.
LEMMA VisitType ==
    ASSUME NEW m \in Machines, NEW f, Visits(m, f), NEW way \in SUBSET ProofStates, NEW s \in ProofStates
    PROVE  f[way][s] \in {NoBound} \cup 0..Off(way)
<1> DEFINE P(w) == \A x \in ProofStates : f[w][x] \in {NoBound} \cup 0..Off(w)
           S == {n \in Nat : \A w \in SUBSET ProofStates : Off(w) < n => P(w)}
<1>1. 0 \in S
  <2>1. \A w \in SUBSET ProofStates : ~(Off(w) < 0)
    BY OffIs
  <2> HIDE DEF P
  <2> QED BY <2>1
<1>2. ASSUME NEW n \in S PROVE n + 1 \in S
  <2>0. n \in Nat /\ n + 1 \in Nat
    OBVIOUS
  <2>1. ASSUME NEW w \in SUBSET ProofStates, Off(w) < n + 1, NEW x \in ProofStates
        PROVE  f[w][x] \in {NoBound} \cup 0..Off(w)
    <3>0. Off(w) \in Nat
      BY OffIs
    <3>1. CASE x \in m.final
      <4>1. f[w][x] = 0
        BY <3>1, VisitIs DEF Farthest
      <4> QED BY <3>0, <4>1
    <3>2. CASE x \notin m.final /\ f[w][x] # NoBound
      <4>1. ASSUME NEW c \in ProofStates, c \notin w PROVE f[w \cup {c}][c] \in {NoBound} \cup 0..Off(w \cup {c})
        <5>1. w \cup {c} \in SUBSET ProofStates /\ Off(w \cup {c}) = Off(w) - 1
          BY <4>1, OffIs
        <5>2. Off(w \cup {c}) < n
          BY <2>0, <2>1, <3>0, <5>1
        <5>3. P(w \cup {c})
          BY <1>2, <5>1, <5>2
        <5> QED BY <5>3
      <4>2. f[w][x] \in 1..Off(w)
        BY <3>2, <4>1, BelowIs
      <4> QED BY <3>0, <4>2
    <3> QED BY <3>1, <3>2
  <2>2. \A w \in SUBSET ProofStates : Off(w) < n + 1 => P(w)
    BY <2>1
  <2> HIDE DEF P
  <2> QED BY <2>0, <2>2
<1>3. S = Nat
  <2>1. S \in SUBSET Nat
    OBVIOUS
  <2> HIDE DEF S
  <2> QED BY <1>1, <1>2, <2>1, SetInduction
<1>4. Off(way) \in Nat /\ Off(way) + 1 \in Nat /\ Off(way) < Off(way) + 1
  BY OffIs
<1>5. Off(way) + 1 \in S
  <2> HIDE DEF S
  <2> QED BY <1>3, <1>4
<1> QED BY <1>4, <1>5

LEMMA VisitStep ==
    ASSUME NEW m \in Machines, NEW f, Visits(m, f), NEW way \in SUBSET ProofStates, NEW s \in ProofStates,
           s \notin m.final, f[way][s] # NoBound
    PROVE  /\ Children(m, s) \cap way = {} /\ f[way][s] \in Nat \ {0}
           /\ \A c \in Children(m, s) : /\ c \in ProofStates /\ f[way \cup {c}][c] \in Nat
                                        /\ f[way \cup {c}][c] + 1 <= f[way][s]
           /\ \E c \in Children(m, s) : f[way][s] = f[way \cup {c}][c] + 1
<1>1. \A c \in ProofStates : c \notin way => f[way \cup {c}][c] \in {NoBound} \cup 0..Off(way \cup {c})
  BY VisitType
<1>2. /\ Children(m, s) \cap way = {} /\ Off(way) \in Nat \ {0}
      /\ f[way][s] \in 1..Off(way)
      /\ \A c \in Children(m, s) : /\ c \in ProofStates /\ f[way \cup {c}][c] \in 0..(Off(way) - 1)
                                   /\ f[way \cup {c}][c] + 1 <= f[way][s]
      /\ \E c \in Children(m, s) : f[way][s] = f[way \cup {c}][c] + 1
  BY <1>1, BelowIs
<1>3. f[way][s] \in Nat \ {0} /\ \A c \in Children(m, s) : f[way \cup {c}][c] \in Nat
  BY <1>2
<1> QED BY <1>2, <1>3

\* No way is longer than the distance that is found.
LEMMA WaysBounded ==
    ASSUME NEW m \in Machines, NEW f, Visits(m, f), NEW k \in Nat,
           NEW s \in Found(m), HasWay(m, s, k), NEW way \in SUBSET ProofStates, f[way][s] # NoBound
    PROVE  f[way][s] \in Nat /\ k <= f[way][s]
<1> DEFINE P(n) == \A x \in Found(m), w \in SUBSET ProofStates :
                      HasWay(m, x, n) /\ f[w][x] # NoBound => f[w][x] \in Nat /\ n <= f[w][x]
           S == {n \in Nat : P(n)}
<1>1. 0 \in S
  <2>1. ASSUME NEW x \in Found(m), NEW w \in SUBSET ProofStates, HasWay(m, x, 0), f[w][x] # NoBound
        PROVE  f[w][x] \in Nat /\ 0 <= f[w][x]
    <3>1. x \in ProofStates /\ x \in m.final
      BY <2>1, WayStep
    <3>2. f[w][x] = 0
      BY <3>1, VisitIs DEF Farthest
    <3> QED BY <3>2
  <2>2. P(0)
    BY <2>1
  <2> HIDE DEF P
  <2> QED BY <2>2
<1>2. ASSUME NEW n \in S PROVE n + 1 \in S
  <2>0. n \in Nat /\ n + 1 \in Nat /\ n + 1 # 0 /\ (n + 1) - 1 = n
    OBVIOUS
  <2>1. ASSUME NEW x \in Found(m), NEW w \in SUBSET ProofStates, HasWay(m, x, n + 1), f[w][x] # NoBound
        PROVE  f[w][x] \in Nat /\ n + 1 <= f[w][x]
    <3> DEFINE j == n + 1
    <3>0. j \in Nat /\ j # 0 /\ HasWay(m, x, j) /\ j - 1 = n
      BY <2>0, <2>1
    <3> HIDE DEF j
    <3>1. x \in ProofStates /\ x \notin m.final /\ \E t \in Successors(m, x) : HasWay(m, t, j - 1)
      BY <3>0, WayStep
    <3>2. PICK t \in Successors(m, x) : HasWay(m, t, n)
      BY <3>0, <3>1
    <3>3. t \in Found(m)
      BY <3>2, FoundIs
    <3>4. t \in Children(m, x)
      BY <2>0, <3>2, <3>3, WaysUseful DEF Children
    <3> DEFINE v == f[w \cup {t}][t]
    <3>5. /\ f[w][x] \in Nat \ {0} /\ t \in ProofStates /\ v \in Nat /\ v + 1 <= f[w][x]
      BY <2>1, <3>1, <3>4, VisitStep
    <3>6. v # NoBound
      BY <3>5 DEF NoBound
    <3>7. n <= v
      <4>1. w \cup {t} \in SUBSET ProofStates
        BY <3>5
      <4> QED BY <1>2, <3>2, <3>3, <3>6, <4>1
    <3> HIDE DEF v
    <3>8. n + 1 <= f[w][x]
      BY <2>0, <3>5, <3>7
    <3> QED BY <3>5, <3>8
  <2>2. P(n + 1)
    BY <2>1
  <2> HIDE DEF P
  <2> QED BY <2>0, <2>2
<1>3. S = Nat
  <2>1. S \in SUBSET Nat
    OBVIOUS
  <2> HIDE DEF S
  <2> QED BY <1>1, <1>2, <2>1, SetInduction
<1>4. P(k)
  <2> HIDE DEF P
  <2> QED BY <1>3
<1> QED BY <1>4

\* There is a way as long as the distance that is found.
LEMMA BoundReached ==
    ASSUME NEW m \in Machines, NEW f, Visits(m, f), NEW s \in ProofStates, NEW way \in SUBSET ProofStates,
           f[way][s] # NoBound
    PROVE  f[way][s] \in Nat /\ HasWay(m, s, f[way][s])
<1> DEFINE P(n) == \A x \in ProofStates, w \in SUBSET ProofStates : f[w][x] = n => HasWay(m, x, n)
           S == {n \in Nat : P(n)}
<1>0. ASSUME NEW x \in ProofStates, NEW w \in SUBSET ProofStates, f[w][x] # NoBound
      PROVE  f[w][x] \in Nat /\ (f[w][x] = 0 => x \in m.final) /\ (x \in m.final => f[w][x] = 0)
  <2>1. x \in m.final => f[w][x] = 0
    BY VisitIs DEF Farthest
  <2>2. CASE x \in m.final
    BY <2>1, <2>2
  <2>3. CASE x \notin m.final
    <3>1. f[w][x] \in Nat \ {0}
      BY <1>0, <2>3, VisitStep
    <3> QED BY <2>1, <3>1
  <2> QED BY <2>2, <2>3
<1>1. 0 \in S
  <2>1. ASSUME NEW x \in ProofStates, NEW w \in SUBSET ProofStates, f[w][x] = 0 PROVE HasWay(m, x, 0)
    <3>1. x \in m.final
      BY <1>0, <2>1 DEF NoBound
    <3> QED BY <3>1, WayStarts
  <2>2. P(0)
    BY <2>1
  <2> HIDE DEF P
  <2> QED BY <2>2
<1>2. ASSUME NEW n \in S PROVE n + 1 \in S
  <2>0. n \in Nat /\ n + 1 \in Nat /\ n + 1 # 0 /\ n + 1 # -1
    OBVIOUS
  <2>1. ASSUME NEW x \in ProofStates, NEW w \in SUBSET ProofStates, f[w][x] = n + 1 PROVE HasWay(m, x, n + 1)
    <3>1. f[w][x] # NoBound /\ f[w][x] # 0
      BY <2>0, <2>1 DEF NoBound
    <3>2. x \notin m.final
      BY <1>0, <3>1
    <3>0. /\ \A c \in Children(m, x) : c \in ProofStates /\ f[w \cup {c}][c] \in Nat
          /\ \E c \in Children(m, x) : f[w][x] = f[w \cup {c}][c] + 1
      BY <3>1, <3>2, VisitStep
    <3>3. PICK c \in Children(m, x) : f[w][x] = f[w \cup {c}][c] + 1 /\ c \in ProofStates /\ f[w \cup {c}][c] \in Nat
      BY <3>0
    <3>4. f[w \cup {c}][c] = n
      BY <2>0, <2>1, <3>3
    <3>5. HasWay(m, c, n)
      <4>1. w \cup {c} \in SUBSET ProofStates
        BY <3>3
      <4> QED BY <1>2, <3>3, <3>4, <4>1
    <3> QED BY <2>0, <3>3, <3>5, WayGrows DEF Children
  <2>2. P(n + 1)
    BY <2>1
  <2> HIDE DEF P
  <2> QED BY <2>0, <2>2
<1>3. S = Nat
  <2>1. S \in SUBSET Nat
    OBVIOUS
  <2> HIDE DEF S
  <2> QED BY <1>1, <1>2, <2>1, SetInduction
<1>4. f[way][s] \in Nat
  BY <1>0
<1>5. P(f[way][s])
  <2> HIDE DEF P
  <2> QED BY <1>3, <1>4
<1> QED BY <1>4, <1>5

-----------------------------------------------------------------------------
(***************************************************************************)
(* Endless ways.                                                           *)
(***************************************************************************)

\* There is a walk of r steps through useful states.
Walks(m, s, r) ==
    \E p \in [0..r -> Useful(m)] : p[0] = s /\ \A i \in 1..r : p[i] \in Successors(m, p[i - 1])

LEMMA WalkStarts ==
    ASSUME NEW m, NEW s \in Useful(m)
    PROVE  Walks(m, s, 0)
<1> DEFINE p == [i \in 0..0 |-> s]
<1>1. p \in [0..0 -> Useful(m)] /\ p[0] = s /\ \A i \in 1..0 : p[i] \in Successors(m, p[i - 1])
  OBVIOUS
<1> HIDE DEF p
<1> QED BY <1>1 DEF Walks

LEMMA WalkGrows ==
    ASSUME NEW m, NEW s \in Useful(m), NEW c \in Children(m, s), NEW r \in Nat, Walks(m, c, r)
    PROVE  Walks(m, s, r + 1)
<1>1. PICK p \in [0..r -> Useful(m)] : p[0] = c /\ \A i \in 1..r : p[i] \in Successors(m, p[i - 1])
  BY DEF Walks
<1> DEFINE q == [i \in 0..(r + 1) |-> IF i = 0 THEN s ELSE p[i - 1]]
<1>2. \A i \in 0..(r + 1) : i # 0 => i - 1 \in 0..r
  OBVIOUS
<1>3. q \in [0..(r + 1) -> Useful(m)] /\ q[0] = s
  BY <1>1, <1>2
<1>4. ASSUME NEW i \in 1..(r + 1) PROVE q[i] \in Successors(m, q[i - 1])
  <2>1. i \in 0..(r + 1) /\ i - 1 \in 0..(r + 1) /\ i # 0
    OBVIOUS
  <2>2. q[i] = p[i - 1]
    BY <2>1
  <2>3. CASE i = 1
    <3>1. i - 1 = 0
      BY <2>3
    <3> HIDE DEF q
    <3> QED BY <1>1, <1>3, <2>2, <3>1 DEF Children
  <2>4. CASE i # 1
    <3> DEFINE j == i - 1
    <3>1. j \in 1..r /\ j # 0
      BY <2>4
    <3>2. q[j] = p[j - 1]
      BY <2>1, <3>1
    <3>3. p[j] \in Successors(m, p[j - 1])
      BY <1>1, <3>1
    <3> HIDE DEF q
    <3> QED BY <2>2, <3>2, <3>3
  <2> QED BY <2>3, <2>4
<1> HIDE DEF q
<1> QED BY <1>3, <1>4 DEF Walks

LEMMA WalkShorter ==
    ASSUME NEW m, NEW s, NEW r \in Nat, NEW q \in Nat, q <= r, Walks(m, s, r)
    PROVE  Walks(m, s, q) /\ s \in Useful(m)
<1>1. PICK p \in [0..r -> Useful(m)] : p[0] = s /\ \A i \in 1..r : p[i] \in Successors(m, p[i - 1])
  BY DEF Walks
<1> DEFINE v == [i \in 0..q |-> p[i]]
<1>2. (\A i \in 0..q : i \in 0..r) /\ (\A i \in 1..q : i \in 1..r /\ i \in 0..q /\ i - 1 \in 0..q) /\ 0 \in 0..q /\ 0 \in 0..r
  OBVIOUS
<1>3. v \in [0..q -> Useful(m)] /\ v[0] = s /\ \A i \in 1..q : v[i] = p[i] /\ v[i - 1] = p[i - 1]
  BY <1>1, <1>2
<1> HIDE DEF v
<1>4. \A i \in 1..q : v[i] \in Successors(m, v[i - 1])
  BY <1>1, <1>2, <1>3
<1> QED BY <1>1, <1>2, <1>3, <1>4 DEF Walks

LEMMA WalkFirst ==
    ASSUME NEW m, NEW s, NEW r \in Nat, Walks(m, s, r + 1)
    PROVE  s \in Useful(m) /\ \E c \in Children(m, s) : Walks(m, c, r)
<1>1. PICK p \in [0..(r + 1) -> Useful(m)] : p[0] = s /\ \A i \in 1..(r + 1) : p[i] \in Successors(m, p[i - 1])
  BY DEF Walks
<1> DEFINE v == [i \in 0..r |-> p[i + 1]]
<1>2. /\ (\A i \in 0..r : i + 1 \in 0..(r + 1)) /\ 0 \in 0..r /\ 0 \in 0..(r + 1) /\ 1 \in 0..(r + 1) /\ 1 \in 1..(r + 1) /\ 1 - 1 = 0
      /\ \A i \in 1..r : i + 1 \in 1..(r + 1) /\ i \in 0..r /\ i - 1 \in 0..r /\ (i - 1) + 1 = i /\ (i + 1) - 1 = i
  OBVIOUS
<1>3. v \in [0..r -> Useful(m)] /\ v[0] = p[1]
  BY <1>1, <1>2
<1>4. ASSUME NEW i \in 1..r PROVE v[i] \in Successors(m, v[i - 1])
  <2> DEFINE j == i + 1
  <2>1. p[j] \in Successors(m, p[j - 1]) /\ j - 1 = i
    BY <1>1, <1>2
  <2>2. v[i] = p[j] /\ v[i - 1] = p[i]
    BY <1>2
  <2> HIDE DEF v
  <2> QED BY <2>1, <2>2
<1> HIDE DEF v
<1>5. Walks(m, p[1], r)
  BY <1>3, <1>4 DEF Walks
<1>6. p[1] \in Children(m, s) /\ s \in Useful(m)
  BY <1>1, <1>2 DEF Children
<1> QED BY <1>5, <1>6

\* Where walks get no longer than r steps, and no shorter ones start on the way, there is
\* a distance.
LEMMA ShortIsBounded ==
    ASSUME NEW m \in Machines, NEW f, Visits(m, f), NEW r \in Nat, NEW s \in Useful(m), NEW way \in SUBSET ProofStates,
           Walks(m, s, r), ~Walks(m, s, r + 1), \A x \in way : Walks(m, x, r)
    PROVE  f[way][s] # NoBound
<1> DEFINE P(n) == \A x \in Useful(m), w \in SUBSET ProofStates :
                      Walks(m, x, n) /\ ~Walks(m, x, n + 1) /\ (\A y \in w : Walks(m, y, n)) => f[w][x] # NoBound
           S == {n \in Nat : \A q \in 0..n : P(q)}
<1>1. ASSUME NEW n \in Nat, \A q \in Nat : q < n => P(q) PROVE P(n)
  <2>1. SUFFICES ASSUME NEW x \in Useful(m), NEW w \in SUBSET ProofStates,
                        Walks(m, x, n), ~Walks(m, x, n + 1), \A y \in w : Walks(m, y, n)
                 PROVE  f[w][x] # NoBound
    OBVIOUS
  <2>2. x \in ProofStates /\ f[w][x] = Farthest(m, f, w, x)
    BY UsefulIs, FoundIs, VisitIs
  <2>3. CASE x \in m.final
    <3>1. f[w][x] = 0
      BY <2>2, <2>3 DEF Farthest
    <3> QED BY <3>1 DEF NoBound
  <2>4. CASE x \notin m.final
    <3>1. Children(m, x) # {}
      BY <2>4, UsefulIs DEF Children
    <3>2. ASSUME NEW c \in Children(m, x) PROVE c \in Useful(m) /\ c \in ProofStates /\ ~Walks(m, c, n) /\ c \notin w
      <4>1. c \in Useful(m) /\ c \in ProofStates
        BY UsefulIs, FoundIs DEF Children
      <4>2. ~Walks(m, c, n)
        BY <2>1, WalkGrows
      <4> QED BY <2>1, <4>1, <4>2
    <3>3. ASSUME NEW c \in Children(m, x) PROVE f[w \cup {c}][c] # NoBound
      <4> DEFINE Q == {q \in Nat : ~Walks(m, c, q)}
      <4>1. n \in Q /\ Q \in SUBSET Nat /\ 0 \notin Q
        BY <3>2, WalkStarts
      <4>2. PICK z \in Q : \A y \in Q : z <= y
        <5> HIDE DEF Q
        <5> QED BY <4>1, SmallestIs
      <4> DEFINE q == z - 1
      <4>3. z \in Nat /\ z # 0 /\ z <= n /\ ~Walks(m, c, z)
        BY <4>1, <4>2
      <4>4. q \in Nat /\ q < n /\ q + 1 = z /\ q <= n /\ ~(z <= q)
        BY <4>3
      <4>5. Walks(m, c, q)
        <5>1. q \notin Q
          BY <4>2, <4>4
        <5> QED BY <4>4, <5>1
      <4> HIDE DEF q
      <4>6. ASSUME NEW y \in w \cup {c} PROVE Walks(m, y, q)
        <5>1. CASE y \in w
          BY <2>1, <4>4, <5>1, WalkShorter
        <5>2. CASE y = c
          BY <4>5, <5>2
        <5> QED BY <5>1, <5>2
      <4>7. P(q)
        <5> HIDE DEF P
        <5> QED BY <1>1, <4>4
      <4>8. w \cup {c} \in SUBSET ProofStates /\ c \in Useful(m) /\ ~Walks(m, c, q + 1)
        BY <3>2, <4>3, <4>4
      <4> QED BY <4>5, <4>6, <4>7, <4>8
    <3>4. Children(m, x) \cap w = {} /\ NoBound \notin Below(m, f, w, x)
      BY <3>2, <3>3 DEF Below
    <3> DEFINE B == Below(m, f, w, x)
               N == Cardinality(ProofStates)
    <3>5. N \in Nat /\ B \in SUBSET (0..N) /\ B # {}
      <4>0. N \in Nat
        BY ProofGraphAssumption, FS_CardinalityType
      <4>1. ASSUME NEW c \in Children(m, x) PROVE f[w \cup {c}][c] \in 0..N
        <5> DEFINE v == f[w \cup {c}][c]
                   o == Off(w \cup {c})
        <5>1. w \cup {c} \in SUBSET ProofStates /\ c \in ProofStates
          BY <3>2
        <5>2. v \in {NoBound} \cup 0..o /\ v # NoBound /\ o \in Nat /\ o <= N
          BY <3>3, <5>1, VisitType, OffIs
        <5> HIDE DEF v, o, N
        <5>3. v \in 0..N
          BY <4>0, <5>2
        <5> QED BY <5>3 DEF v
      <4> HIDE DEF N
      <4> QED BY <3>1, <4>0, <4>1 DEF Below
    <3> HIDE DEF B, N
    <3>6. Max(B) \in 0..N
      BY <3>5, BoundedMax
    <3>7. f[w][x] = 1 + Max(B)
      BY <2>2, <2>4, <3>1, <3>4 DEF Farthest, B
    <3>8. 1 + Max(B) # -1
      BY <3>5, <3>6
    <3> QED BY <3>7, <3>8 DEF NoBound
  <2> QED BY <2>3, <2>4
<1> HIDE DEF P
<1>2. 0 \in S
  <2>1. P(0)
    BY <1>1
  <2>2. 0..0 = {0}
    OBVIOUS
  <2> QED BY <2>1, <2>2
<1>3. ASSUME NEW n \in S PROVE n + 1 \in S
  <2>1. n \in Nat /\ n + 1 \in Nat /\ (\A q \in Nat : q < n + 1 => q \in 0..n) /\ \A q \in 0..(n + 1) : q \in 0..n \/ q = n + 1
    OBVIOUS
  <2>2. \A q \in Nat : q < n + 1 => P(q)
    BY <2>1
  <2>3. P(n + 1)
    BY <1>1, <2>1, <2>2
  <2> QED BY <2>1, <2>3
<1>4. S = Nat
  <2>1. S \in SUBSET Nat
    OBVIOUS
  <2> HIDE DEF S
  <2> QED BY <1>2, <1>3, <2>1, SetInduction
<1>5. P(r)
  <2>1. r \in S /\ r \in 0..r
    BY <1>4
  <2> QED BY <2>1
<1> QED BY <1>5 DEF P

\* Without a distance at the start there are walks of any length.
LEMMA UnboundedWalks ==
    ASSUME NEW m \in Machines, NEW f, Visits(m, f), Start \in Useful(m), f[{Start}][Start] = NoBound, NEW r \in Nat
    PROVE  Walks(m, Start, r)
<1> DEFINE Q == {q \in Nat : ~Walks(m, Start, q)}
<1>1. SUFFICES ASSUME ~Walks(m, Start, r) PROVE FALSE
  OBVIOUS
<1>2. r \in Q /\ Q \in SUBSET Nat /\ 0 \notin Q
  BY <1>1, WalkStarts
<1>3. PICK z \in Q : \A y \in Q : z <= y
  <2> HIDE DEF Q
  <2> QED BY <1>2, SmallestIs
<1> DEFINE q == z - 1
<1>4. z \in Nat /\ z # 0 /\ ~Walks(m, Start, z)
  BY <1>2, <1>3
<1>5. q \in Nat /\ q + 1 = z /\ ~(z <= q)
  BY <1>4
<1>6. Walks(m, Start, q)
  <2>1. q \notin Q
    BY <1>3, <1>5
  <2> QED BY <1>5, <2>1
<1> HIDE DEF q
<1>7. {Start} \in SUBSET ProofStates /\ (\A x \in {Start} : Walks(m, x, q)) /\ ~Walks(m, Start, q + 1)
  BY <1>4, <1>5, <1>6, ProofGraphAssumption
<1> QED BY <1>5, <1>6, <1>7, ShortIsBounded

-----------------------------------------------------------------------------
(***************************************************************************)
(* Useful states are near, and words run.                                  *)
(***************************************************************************)

\* From a useful state there is a way of fewer steps than there are states.
Reaching(m, n) == {s \in ProofStates : \E k \in 0..n : HasWay(m, s, k)}

LEMMA ReachingGrows ==
    ASSUME NEW m \in Machines, NEW n \in Nat, ~(Useful(m) \subseteq Reaching(m, n))
    PROVE  \E s \in ProofStates : s \notin Reaching(m, n) /\ s \in Reaching(m, n + 1)
<1> DEFINE set == Reaching(m, n) \cap Found(m)
<1>1. Found(m) \cap m.final \subseteq set
  <2>1. ASSUME NEW s \in Found(m) \cap m.final PROVE s \in Reaching(m, n)
    <3>1. HasWay(m, s, 0) /\ s \in ProofStates /\ 0 \in 0..n
      BY WayStarts, MachineIs
    <3> QED BY <3>1 DEF Reaching
  <2> QED BY <2>1
<1>2. ~IsUseful(m, set)
  <2>1. set \in SUBSET Found(m)
    OBVIOUS
  <2> QED BY <2>1 DEF Useful
<1>3. PICK s \in Found(m) : Successors(m, s) \cap set # {} /\ s \notin set
  BY <1>1, <1>2 DEF IsUseful
<1>4. PICK t \in Successors(m, s) : t \in set
  BY <1>3
<1>5. PICK k \in 0..n : HasWay(m, t, k)
  BY <1>4 DEF Reaching
<1>6. s \in ProofStates /\ k \in Nat /\ k + 1 \in 0..(n + 1)
  BY FoundIs
<1>7. HasWay(m, s, k + 1)
  BY <1>5, <1>6, WayGrows
<1>8. s \in Reaching(m, n + 1)
  BY <1>6, <1>7 DEF Reaching
<1> QED BY <1>3, <1>6, <1>8

LEMMA UsefulNear ==
    ASSUME NEW m \in Machines, NEW s \in Useful(m)
    PROVE  \E k \in 0..(Cardinality(ProofStates) - 1) : HasWay(m, s, k)
<1> DEFINE N == Cardinality(ProofStates)
           D(n) == Reaching(m, n)
           S == {n \in Nat : Useful(m) \subseteq D(n) \/ n + 1 <= Cardinality(D(n))}
<1>0. N \in Nat \ {0} /\ IsFiniteSet(ProofStates)
  <2>1. N \in Nat /\ IsFiniteSet(ProofStates) /\ ProofStates # {}
    BY ProofGraphAssumption, FS_CardinalityType
  <2> QED BY <2>1, FS_EmptySet
<1>1. ASSUME NEW n \in Nat PROVE /\ D(n) \in SUBSET ProofStates /\ IsFiniteSet(D(n)) /\ Cardinality(D(n)) \in Nat
                                 /\ Cardinality(D(n)) <= N /\ (N = Cardinality(D(n)) => ProofStates = D(n))
                                 /\ D(n) \subseteq D(n + 1)
  <2>1. D(n) \in SUBSET ProofStates
    BY DEF Reaching
  <2>2. D(n) \subseteq D(n + 1)
    <3>1. \A k \in 0..n : k \in 0..(n + 1)
      OBVIOUS
    <3> QED BY <3>1 DEF Reaching
  <2> HIDE DEF D
  <2> QED BY <1>0, <2>1, <2>2, FS_Subset, FS_CardinalityType
<1>2. 0 \in S
  <2>1. SUFFICES ASSUME ~(Useful(m) \subseteq D(0)) PROVE 0 + 1 <= Cardinality(D(0))
    OBVIOUS
  <2>2. D(0) # {}
    <3>1. ASSUME D(0) = {} PROVE FALSE
      <4>1. PICK x \in ProofStates : x \in Reaching(m, 0 + 1) /\ x \notin Reaching(m, 0)
        BY <2>1, ReachingGrows
      <4>2. PICK k \in 0..1 : HasWay(m, x, k)
        BY <4>1 DEF Reaching
      <4>3. \E y : HasWay(m, y, 0)
        <5>1. CASE k = 0
          BY <4>2, <5>1
        <5>2. CASE k # 0
          <6>1. k = 1 /\ k \in Nat /\ k - 1 = 0
            BY <5>2
          <6> QED BY <4>2, <5>2, <6>1, WayStep
        <5> QED BY <5>1, <5>2
      <4>4. PICK y : HasWay(m, y, 0)
        BY <4>3
      <4>5. y \in ProofStates /\ 0 \in 0..0
        BY <4>4, WayStep
      <4> QED BY <3>1, <4>4, <4>5 DEF Reaching
    <3> QED BY <3>1
  <2>3. IsFiniteSet(D(0)) /\ Cardinality(D(0)) \in Nat
    BY <1>1
  <2> HIDE DEF D
  <2>4. Cardinality(D(0)) # 0
    BY <2>2, <2>3, FS_EmptySet
  <2> QED BY <2>3, <2>4
<1>3. ASSUME NEW n \in S PROVE n + 1 \in S
  <2>0. n \in Nat /\ n + 1 \in Nat
    OBVIOUS
  <2>1. SUFFICES ASSUME ~(Useful(m) \subseteq D(n + 1)) PROVE (n + 1) + 1 <= Cardinality(D(n + 1))
    BY <2>0
  <2>2. /\ D(n) \in SUBSET ProofStates /\ IsFiniteSet(D(n)) /\ Cardinality(D(n)) \in Nat /\ D(n) \subseteq D(n + 1)
        /\ IsFiniteSet(D(n + 1)) /\ Cardinality(D(n + 1)) \in Nat
    BY <1>1, <2>0
  <2>3. ~(Useful(m) \subseteq D(n)) /\ n + 1 <= Cardinality(D(n))
    BY <1>3, <2>1, <2>2
  <2>4. PICK x \in ProofStates : x \notin D(n) /\ x \in D(n + 1)
    BY <2>0, <2>3, ReachingGrows
  <2> HIDE DEF D
  <2>5. Cardinality(D(n) \cup {x}) = Cardinality(D(n)) + 1 /\ IsFiniteSet(D(n) \cup {x})
    BY <2>2, <2>4, FS_AddElement
  <2>6. Cardinality(D(n) \cup {x}) <= Cardinality(D(n + 1))
    <3>1. D(n) \cup {x} \in SUBSET D(n + 1)
      BY <2>2, <2>4
    <3> DEFINE E == D(n) \cup {x}
               G == D(n + 1)
    <3>2. E \in SUBSET G /\ IsFiniteSet(G)
      BY <2>2, <3>1
    <3> HIDE DEF E, G
    <3>3. Cardinality(E) <= Cardinality(G)
      BY <3>2, FS_Subset
    <3> QED BY <3>3 DEF E, G
  <2> QED BY <2>0, <2>2, <2>3, <2>5, <2>6
<1>4. S = Nat
  <2>1. S \in SUBSET Nat
    OBVIOUS
  <2> HIDE DEF S
  <2> QED BY <1>2, <1>3, <2>1, SetInduction
<1> DEFINE n == N - 1
<1>5. n \in Nat /\ n + 1 = N
  BY <1>0
<1>6. n \in S
  <2> HIDE DEF S, n
  <2> QED BY <1>4, <1>5
<1>7. s \in D(n)
  <2>1. CASE Useful(m) \subseteq D(n)
    BY <2>1
  <2>2. CASE n + 1 <= Cardinality(D(n))
    <3>1. Cardinality(D(n)) \in Nat /\ Cardinality(D(n)) <= N /\ (N = Cardinality(D(n)) => ProofStates = D(n))
      BY <1>1, <1>5
    <3>2. s \in ProofStates
      BY UsefulIs, FoundIs
    <3> HIDE DEF D, N, n
    <3>3. N = Cardinality(D(n))
      BY <1>0, <1>5, <2>2, <3>1
    <3> QED BY <3>1, <3>2, <3>3
  <2> QED BY <1>6, <2>1, <2>2
<1> QED BY <1>7 DEF Reaching

\* A walk goes on to an accepting state.
LEMMA WalkToWay ==
    ASSUME NEW m \in Machines, NEW r \in Nat, NEW s, Walks(m, s, r + 1)
    PROVE  \E k \in 1..(Cardinality(ProofStates) - 1) : HasWay(m, s, r + k)
<1> DEFINE N == Cardinality(ProofStates)
           P(n) == \A x : Walks(m, x, n + 1) => \E k \in 1..(N - 1) : HasWay(m, x, n + k)
           S == {n \in Nat : P(n)}
<1>0. N \in Nat
  BY ProofGraphAssumption, FS_CardinalityType
<1>1. 0 \in S
  <2>1. ASSUME NEW x, Walks(m, x, 0 + 1) PROVE \E k \in 1..(N - 1) : HasWay(m, x, 0 + k)
    <3>1. x \in Useful(m) /\ \E c \in Children(m, x) : Walks(m, c, 0)
      BY <2>1, WalkFirst
    <3>2. x \notin m.final
      BY <3>1, MachineIs DEF Children
    <3>3. PICK k \in 0..(N - 1) : HasWay(m, x, k)
      BY <3>1, UsefulNear
    <3>4. k \in Nat
      OBVIOUS
    <3>5. k # 0
      BY <3>2, <3>3, <3>4, WayStep
    <3>6. k \in 1..(N - 1) /\ 0 + k = k
      BY <1>0, <3>5
    <3> QED BY <3>3, <3>6
  <2>2. P(0)
    BY <2>1
  <2> HIDE DEF P
  <2> QED BY <2>2
<1>2. ASSUME NEW n \in S PROVE n + 1 \in S
  <2>0. n \in Nat /\ n + 1 \in Nat
    OBVIOUS
  <2>1. ASSUME NEW x, Walks(m, x, (n + 1) + 1) PROVE \E k \in 1..(N - 1) : HasWay(m, x, (n + 1) + k)
    <3>1. x \in Useful(m) /\ \E c \in Children(m, x) : Walks(m, c, n + 1)
      <4> DEFINE j == n + 1
      <4>1. j \in Nat /\ Walks(m, x, j + 1)
        BY <2>0, <2>1
      <4> HIDE DEF j
      <4>2. x \in Useful(m) /\ \E c \in Children(m, x) : Walks(m, c, j)
        BY <4>1, WalkFirst
      <4> QED BY <4>2 DEF j
    <3>2. PICK c \in Children(m, x) : Walks(m, c, n + 1)
      BY <3>1
    <3>3. PICK k \in 1..(N - 1) : HasWay(m, c, n + k)
      BY <1>2, <3>2
    <3> DEFINE l == n + k
    <3>4. l \in Nat /\ l + 1 = (n + 1) + k
      BY <1>0, <2>0
    <3>5. HasWay(m, c, l) /\ c \in Successors(m, x) /\ x \in ProofStates
      BY <3>1, <3>3, UsefulIs, FoundIs DEF Children
    <3> HIDE DEF l
    <3>6. HasWay(m, x, l + 1)
      BY <3>4, <3>5, WayGrows
    <3> QED BY <3>4, <3>6
  <2>2. P(n + 1)
    BY <2>1
  <2> HIDE DEF P
  <2> QED BY <2>0, <2>2
<1>3. S = Nat
  <2>1. S \in SUBSET Nat
    OBVIOUS
  <2> HIDE DEF S
  <2> QED BY <1>1, <1>2, <2>1, SetInduction
<1>4. P(r)
  <2> HIDE DEF P
  <2> QED BY <1>3
<1> QED BY <1>4

-----------------------------------------------------------------------------
RunsAlong(m, w, at) ==
    at = [n \in 0..Len(w) |->
            IF n = 0 THEN Start
            ELSE LET s == at[n - 1] IN IF s = Dead THEN Dead ELSE m.next[<<s, w[n]>>]]

LEMMA RunIs ==
    ASSUME NEW m \in Machines, NEW l \in Nat, NEW w \in [1..l -> Symbols]
    PROVE  /\ Len(w) = l /\ Run(m, w) \in [0..l -> ProofStates \cup {Dead}] /\ Run(m, w)[0] = Start
           /\ \A n \in 1..l : Run(m, w)[n] = IF Run(m, w)[n - 1] = Dead THEN Dead ELSE m.next[<<Run(m, w)[n - 1], w[n]>>]
<1> DEFINE V == ProofStates \cup {Dead}
           G == [x \in (1..l) \X V |-> IF x[2] = Dead THEN Dead ELSE m.next[<<x[2], w[x[1]]>>]]
           at == CHOOSE f : RunsAlong(m, w, f)
<1>0. Len(w) = l
  OBVIOUS
<1>1. ASSUME NEW n \in 1..l, NEW s \in V PROVE (IF s = Dead THEN Dead ELSE m.next[<<s, w[n]>>]) \in V
  <2>1. w[n] \in Symbols
    OBVIOUS
  <2> QED BY <2>1, MachineIs
<1>2. G \in [(1..l) \X V -> V] /\ Start \in V
  <2>1. ASSUME NEW x \in (1..l) \X V PROVE (IF x[2] = Dead THEN Dead ELSE m.next[<<x[2], w[x[1]]>>]) \in V
    <3>1. x[1] \in 1..l /\ x[2] \in V
      OBVIOUS
    <3> QED BY <1>1, <3>1
  <2> QED BY <2>1, ProofGraphAssumption
<1>3. \A n \in 1..l, s \in V : G[<<n, s>>] = IF s = Dead THEN Dead ELSE m.next[<<s, w[n]>>]
  OBVIOUS
<1>4. PICK f : Solution(V, Start, l, G, f)
  <2> HIDE DEF V, G
  <2> QED BY <1>2, Recursion
<1>5. /\ f \in [0..l -> V] /\ f[0] = Start
      /\ \A n \in 1..l : n - 1 \in 0..l /\ f[n] = IF f[n - 1] = Dead THEN Dead ELSE m.next[<<f[n - 1], w[n]>>]
  <2>1. f \in [0..l -> V] /\ f[0] = Start /\ \A n \in 1..l : f[n] = G[<<n, f[n - 1]>>]
    BY <1>4 DEF Solution
  <2>2. ASSUME NEW n \in 1..l PROVE n - 1 \in 0..l /\ f[n] = IF f[n - 1] = Dead THEN Dead ELSE m.next[<<f[n - 1], w[n]>>]
    <3>1. n - 1 \in 0..l
      OBVIOUS
    <3>2. f[n - 1] \in V
      BY <2>1, <3>1
    <3> HIDE DEF G, V
    <3> QED BY <1>3, <2>1, <3>1, <3>2
  <2> QED BY <2>1, <2>2
<1>6. RunsAlong(m, w, f)
  <2> DEFINE E(n) == IF n = 0 THEN Start
                     ELSE LET s == f[n - 1] IN IF s = Dead THEN Dead ELSE m.next[<<s, w[n]>>]
  <2>1. ASSUME NEW n \in 0..l PROVE f[n] = E(n)
    <3>1. CASE n = 0
      BY <1>5, <3>1
    <3>2. CASE n # 0
      <4>1. n \in 1..l
        BY <3>2
      <4> QED BY <1>5, <3>2, <4>1
    <3> QED BY <3>1, <3>2
  <2> HIDE DEF E
  <2>2. f = [n \in 0..l |-> E(n)]
    BY <1>5, <2>1
  <2> QED BY <1>0, <2>2 DEF RunsAlong, E
<1>7. RunsAlong(m, w, at)
  BY <1>6
<1>8. Run(m, w) = at
  BY DEF Run, RunsAlong
<1> HIDE DEF at
<1> DEFINE E(n) == IF n = 0 THEN Start
                   ELSE LET s == at[n - 1] IN IF s = Dead THEN Dead ELSE m.next[<<s, w[n]>>]
<1>9. at = [n \in 0..l |-> E(n)]
  BY <1>0, <1>7 DEF RunsAlong
<1> HIDE DEF E
<1>10. DOMAIN at = 0..l /\ \A n \in 0..l : at[n] = E(n)
  BY <1>9
<1>11. at[0] = Start
  <2>1. 0 \in 0..l
    OBVIOUS
  <2> QED BY <1>10, <2>1 DEF E
<1>12. ASSUME NEW n \in 1..l PROVE at[n] = IF at[n - 1] = Dead THEN Dead ELSE m.next[<<at[n - 1], w[n]>>]
  <2>1. n \in 0..l /\ n # 0
    OBVIOUS
  <2> QED BY <1>10, <2>1 DEF E
<1>13. \A n \in 0..l : at[n] \in V
  <2> DEFINE S == {n \in Nat : n <= l => at[n] \in V}
  <2>1. 0 \in S
    BY <1>2, <1>11
  <2>2. ASSUME NEW n \in S PROVE n + 1 \in S
    <3>1. n \in Nat /\ n + 1 \in Nat
      OBVIOUS
    <3>2. SUFFICES ASSUME n + 1 <= l PROVE at[n + 1] \in V
      BY <3>1
    <3> DEFINE j == n + 1
    <3>3. j \in 1..l /\ j - 1 = n /\ n <= l
      BY <3>1, <3>2
    <3>4. at[j - 1] \in V
      BY <2>2, <3>1, <3>3
    <3> HIDE DEF j, V
    <3>5. at[j] \in V
      BY <1>1, <1>12, <3>3, <3>4
    <3> QED BY <3>5 DEF j
  <2>3. S = Nat
    <3>1. S \in SUBSET Nat
      OBVIOUS
    <3> HIDE DEF S
    <3> QED BY <2>1, <2>2, <3>1, SetInduction
  <2>4. \A n \in 0..l : n \in Nat /\ n <= l
    OBVIOUS
  <2> HIDE DEF V
  <2> QED BY <2>3, <2>4
<1>14. at \in [0..l -> V]
  <2>1. at = [n \in 0..l |-> at[n]]
    <3> QED BY <1>9, <1>10
  <2> HIDE DEF V
  <2> QED BY <1>13, <2>1
<1> QED BY <1>0, <1>8, <1>11, <1>12, <1>14

-----------------------------------------------------------------------------
(***************************************************************************)
(* Words are ways.                                                         *)
(***************************************************************************)

\* A word that matches and no shorter beginning of which does is a way.
LEMMA WordWay ==
    ASSUME NEW m \in Machines, NEW l \in Nat, NEW w \in [1..l -> Symbols], NEW n \in 0..l,
           Accepts(m, w, n), \A i \in 0..(n - 1) : ~Accepts(m, w, i)
    PROVE  HasWay(m, Start, n)
<1> DEFINE at == Run(m, w)
<1>0. n \in Nat /\ n <= l
  OBVIOUS
<1>1. /\ at \in [0..l -> ProofStates \cup {Dead}] /\ at[0] = Start
      /\ \A i \in 1..l : at[i] = IF at[i - 1] = Dead THEN Dead ELSE m.next[<<at[i - 1], w[i]>>]
  BY RunIs
<1>2. at[n] \in m.final /\ \A i \in 0..(n - 1) : at[i] \notin m.final
  BY DEF Accepts
<1> HIDE DEF at
<1> DEFINE S == {j \in Nat : j <= n => at[n - j] # Dead}
<1>3. 0 \in S
  <2>1. n - 0 = n
    BY <1>0
  <2>2. at[n - 0] # Dead
    BY <1>2, <2>1, MachineIs
  <2> QED BY <2>2
<1>4. ASSUME NEW j \in S PROVE j + 1 \in S
  <2>1. j \in Nat /\ j + 1 \in Nat
    OBVIOUS
  <2>2. SUFFICES ASSUME j + 1 <= n PROVE at[n - (j + 1)] # Dead
    BY <2>1
  <2> DEFINE i == n - j
  <2>3. i \in 1..l /\ i - 1 = n - (j + 1) /\ j <= n
    BY <1>0, <2>1, <2>2
  <2>4. at[i] # Dead
    BY <1>4, <2>1, <2>3
  <2> HIDE DEF i
  <2>5. at[i - 1] # Dead
    BY <1>1, <2>3, <2>4
  <2> QED BY <2>3, <2>5
<1>5. S = Nat
  <2>1. S \in SUBSET Nat
    OBVIOUS
  <2> HIDE DEF S
  <2> QED BY <1>3, <1>4, <2>1, SetInduction
<1>6. ASSUME NEW i \in 0..n PROVE at[i] \in ProofStates
  <2> DEFINE j == n - i
  <2>1. j \in Nat /\ j <= n /\ n - j = i /\ i \in 0..l
    BY <1>0
  <2>2. j \in S
    <3> HIDE DEF S
    <3> QED BY <1>5, <2>1
  <2>3. at[n - j] # Dead
    BY <2>1, <2>2
  <2> HIDE DEF j, S
  <2>4. at[i] # Dead
    BY <2>1, <2>3
  <2> QED BY <1>1, <2>1, <2>4
<1> DEFINE p == [i \in 0..n |-> at[i]]
           v == [i \in 1..n |-> w[i]]
<1>7. p \in [0..n -> ProofStates] /\ v \in [1..n -> Symbols]
  <2>1. \A i \in 1..n : i \in 1..l
    BY <1>0
  <2> QED BY <1>6, <2>1
<1>8. p[0] = Start /\ p[n] = at[n]
  <2>1. 0 \in 0..n /\ n \in 0..n
    BY <1>0
  <2> QED BY <1>1, <2>1
<1>9. ASSUME NEW i \in 1..n PROVE p[i - 1] \notin m.final /\ p[i] = m.next[<<p[i - 1], v[i]>>]
  <2>1. i \in 0..n /\ i - 1 \in 0..n /\ i \in 1..l /\ i - 1 \in 0..(n - 1)
    BY <1>0
  <2>2. p[i] = at[i] /\ p[i - 1] = at[i - 1] /\ v[i] = w[i]
    BY <2>1
  <2>3. at[i - 1] # Dead
    BY <1>6, <2>1, ProofGraphAssumption
  <2> HIDE DEF p, v
  <2> QED BY <1>1, <1>2, <2>1, <2>2, <2>3
<1> HIDE DEF p, v
<1>10. IsWay(m, p, v, n)
  BY <1>2, <1>7, <1>8, <1>9 DEF IsWay
<1> QED BY <1>8, <1>10 DEF HasWay

\* A way is a word that matches and no shorter beginning of which does.
LEMMA WayWord ==
    ASSUME NEW m \in Machines, NEW n \in Nat, HasWay(m, Start, n)
    PROVE  \E w \in [1..n -> Symbols] : Len(w) = n /\ Accepts(m, w, n) /\ \A i \in 0..(n - 1) : ~Accepts(m, w, i)
<1>1. PICK p, w : IsWay(m, p, w, n) /\ p[0] = Start
  BY DEF HasWay
<1>2. /\ p \in [0..n -> ProofStates] /\ w \in [1..n -> Symbols] /\ p[n] \in m.final
      /\ \A i \in 1..n : p[i - 1] \notin m.final /\ p[i] = m.next[<<p[i - 1], w[i]>>]
  BY <1>1 DEF IsWay
<1> DEFINE at == Run(m, w)
<1>3. /\ Len(w) = n /\ at[0] = Start
      /\ \A i \in 1..n : at[i] = IF at[i - 1] = Dead THEN Dead ELSE m.next[<<at[i - 1], w[i]>>]
  BY <1>2, RunIs
<1> HIDE DEF at
<1> DEFINE S == {i \in Nat : i <= n => at[i] = p[i]}
<1>4. 0 \in S
  BY <1>1, <1>3
<1>5. ASSUME NEW i \in S PROVE i + 1 \in S
  <2>1. i \in Nat /\ i + 1 \in Nat
    OBVIOUS
  <2>2. SUFFICES ASSUME i + 1 <= n PROVE at[i + 1] = p[i + 1]
    BY <2>1
  <2> DEFINE j == i + 1
  <2>3. j \in 1..n /\ j - 1 = i /\ i \in 0..n /\ i <= n
    BY <2>1, <2>2
  <2>4. at[i] = p[i]
    BY <1>5, <2>3
  <2>5. p[i] # Dead
    BY <1>2, <2>3, ProofGraphAssumption
  <2> HIDE DEF j
  <2>6. at[j] = p[j]
    BY <1>2, <1>3, <2>3, <2>4, <2>5
  <2> QED BY <2>6 DEF j
<1>6. S = Nat
  <2>1. S \in SUBSET Nat
    OBVIOUS
  <2> HIDE DEF S
  <2> QED BY <1>4, <1>5, <2>1, SetInduction
<1>7. \A i \in 0..n : at[i] = p[i]
  <2>1. \A i \in 0..n : i \in Nat /\ i <= n
    OBVIOUS
  <2> QED BY <1>6, <2>1
<1>8. Accepts(m, w, n)
  <2>1. n \in 0..n
    OBVIOUS
  <2> QED BY <1>2, <1>7, <2>1 DEF Accepts, at
<1>9. ASSUME NEW i \in 0..(n - 1) PROVE ~Accepts(m, w, i)
  <2> DEFINE j == i + 1
  <2>1. j \in 1..n /\ j - 1 = i /\ i \in 0..n
    OBVIOUS
  <2> HIDE DEF j
  <2>2. at[i] \notin m.final
    BY <1>2, <1>7, <2>1
  <2> QED BY <2>2 DEF Accepts, at
<1> QED BY <1>2, <1>3, <1>8, <1>9

\* A word has its length.
LEMMA WordIs ==
    ASSUME NEW w \in Words
    PROVE  \E l \in 0..MaxWord : w \in [1..l -> Symbols] /\ Len(w) = l
<1>1. PICK l \in 0..MaxWord : w \in [1..l -> Symbols]
  BY DEF Words
<1>2. l \in Nat
  BY ProofGraphAssumption
<1>3. Len(w) = l
  BY <1>1, <1>2
<1> QED BY <1>1, <1>3

LEMMA LensAre ==
    ASSUME NEW m \in Machines
    PROVE  {Len(w) : w \in FirstMatches(m)} = {k \in 0..MaxWord : HasWay(m, Start, k)}
<1>1. ASSUME NEW w \in FirstMatches(m) PROVE Len(w) \in 0..MaxWord /\ HasWay(m, Start, Len(w))
  <2>1. w \in Words /\ Accepts(m, w, Len(w)) /\ \A n \in 0..(Len(w) - 1) : ~Accepts(m, w, n)
    BY DEF FirstMatches
  <2>2. PICK l \in 0..MaxWord : w \in [1..l -> Symbols] /\ Len(w) = l
    BY <2>1, WordIs
  <2>3. l \in Nat /\ l \in 0..l
    BY ProofGraphAssumption
  <2>4. Accepts(m, w, l) /\ \A n \in 0..(l - 1) : ~Accepts(m, w, n)
    BY <2>1, <2>2
  <2>5. HasWay(m, Start, l)
    BY <2>2, <2>3, <2>4, WordWay
  <2> QED BY <2>2, <2>5
<1>2. ASSUME NEW k \in 0..MaxWord, HasWay(m, Start, k) PROVE \E w \in FirstMatches(m) : Len(w) = k
  <2>1. k \in Nat
    BY ProofGraphAssumption
  <2>2. PICK w \in [1..k -> Symbols] : Len(w) = k /\ Accepts(m, w, k) /\ \A i \in 0..(k - 1) : ~Accepts(m, w, i)
    BY <1>2, <2>1, WayWord
  <2>3. w \in Words
    BY DEF Words
  <2> QED BY <2>2, <2>3 DEF FirstMatches
<1> QED BY <1>1, <1>2

-----------------------------------------------------------------------------
(***************************************************************************)
(* The bound is exact and enough.                                          *)
(***************************************************************************)

\* What the search over the automaton returns: no bound, or the length of the longest
\* way, which has fewer steps than there are states.
LEMMA LongestBounds ==
    ASSUME NEW m \in Machines, LongestPath(m) # NoBound
    PROVE  /\ LongestPath(m) \in 0..(Cardinality(ProofStates) - 1) /\ HasWay(m, Start, LongestPath(m))
           /\ \A k \in Nat : HasWay(m, Start, k) => k <= LongestPath(m)
           /\ Start \in m.final => LongestPath(m) = 0
<1> DEFINE N == Cardinality(ProofStates)
           way == {Start}
<1>1. PICK f : Visits(m, f) /\ LongestPath(m) = IF Start \notin Useful(m) THEN NoBound ELSE f[way][Start]
  BY LongestIs
<1>2. LongestPath(m) = f[way][Start]
  BY <1>1
<1>3. way \in SUBSET ProofStates /\ way # {} /\ Start \in ProofStates /\ Start \in Found(m) /\ N \in Nat
  BY ProofGraphAssumption, FoundIs, FS_CardinalityType
<1> HIDE DEF way
<1>4. f[way][Start] # NoBound
  BY <1>2
<1>5. f[way][Start] \in Nat /\ HasWay(m, Start, f[way][Start])
  BY <1>1, <1>3, <1>4, BoundReached
<1>6. f[way][Start] \in 0..(N - 1)
  <2>1. Off(way) \in Nat /\ Off(way) < N
    BY <1>3, OffIs
  <2>2. f[way][Start] \in {NoBound} \cup 0..Off(way)
    BY <1>1, <1>3, VisitType
  <2>3. f[way][Start] \in 0..Off(way)
    BY <1>4, <2>2
  <2> QED BY <1>3, <1>5, <2>1, <2>3
<1>7. ASSUME NEW k \in Nat, HasWay(m, Start, k) PROVE k <= f[way][Start]
  BY <1>1, <1>3, <1>4, <1>7, WaysBounded
<1>8. ASSUME Start \in m.final PROVE f[way][Start] = 0
  <2>1. f[way][Start] = Farthest(m, f, way, Start)
    BY <1>1, <1>3, VisitIs
  <2> QED BY <1>8, <2>1 DEF Farthest
<1> QED BY <1>2, <1>5, <1>6, <1>7, <1>8

\* Without a bound there is no way at all, or one of at least as many steps as there are
\* states, and not many more.
LEMMA UnboundedWays ==
    ASSUME NEW m \in Machines, LongestPath(m) = NoBound
    PROVE  \/ \A k \in Nat : ~HasWay(m, Start, k)
           \/ \E k \in Cardinality(ProofStates)..(2 * Cardinality(ProofStates) - 2) : HasWay(m, Start, k)
<1> DEFINE N == Cardinality(ProofStates)
<1>1. PICK f : Visits(m, f) /\ LongestPath(m) = IF Start \notin Useful(m) THEN NoBound ELSE f[{Start}][Start]
  BY LongestIs
<1>2. CASE Start \notin Useful(m)
  BY <1>2, FoundIs, WaysUseful
<1>3. CASE Start \in Useful(m)
  <2>0. N \in Nat /\ N # 0
    BY ProofGraphAssumption, FS_CardinalityType, FS_EmptySet
  <2>1. f[{Start}][Start] = NoBound
    BY <1>1, <1>3
  <2>2. Walks(m, Start, N)
    <3> HIDE DEF N
    <3> QED BY <1>1, <1>3, <2>0, <2>1, UnboundedWalks
  <2> DEFINE r == N - 1
  <2>3. r \in Nat /\ r + 1 = N
    BY <2>0
  <2>4. Walks(m, Start, r + 1)
    BY <2>2, <2>3
  <2>5. PICK k \in 1..(N - 1) : HasWay(m, Start, r + k)
    <3> HIDE DEF r
    <3> QED BY <2>3, <2>4, WalkToWay
  <2>6. r + k \in N..(2 * N - 2)
    BY <2>0
  <2> QED BY <2>5, <2>6
<1> QED BY <1>2, <1>3

\* BoundIsLongest of one automaton.
LEMMA BoundHolds ==
    ASSUME NEW m \in Machines
    PROVE  LET lens == {Len(w) : w \in FirstMatches(m)}
               finite == lens # {} /\ Max(lens) < Cardinality(ProofStates)
           IN  LongestPath(m) = IF finite THEN Max(lens) ELSE NoBound
<1> DEFINE N == Cardinality(ProofStates)
           lens == {Len(w) : w \in FirstMatches(m)}
           B == LongestPath(m)
<1>1. lens = {k \in 0..MaxWord : HasWay(m, Start, k)}
  BY LensAre
<1>0. N \in Nat /\ N # 0 /\ MaxWord \in Nat /\ MaxWord >= 2 * N - 2
  BY ProofGraphAssumption, FS_CardinalityType, FS_EmptySet
<1>2. lens \in SUBSET (0..MaxWord) /\ \A k \in 0..MaxWord : k \in lens <=> HasWay(m, Start, k)
  BY <1>1
<1> HIDE DEF lens
<1> DEFINE top == Max(lens)
<1>3. lens # {} => top \in lens /\ \A k \in lens : k <= top
  BY <1>0, <1>2, BoundedMax
<1> HIDE DEF top
<1>4. CASE B # NoBound
  <2>1. B \in 0..(N - 1) /\ HasWay(m, Start, B) /\ \A k \in Nat : HasWay(m, Start, k) => k <= B
    BY <1>4, LongestBounds
  <2> HIDE DEF B, N
  <2>2. B \in 0..MaxWord /\ B \in Nat /\ B < N
    BY <1>0, <2>1
  <2>3. B \in lens
    BY <1>2, <2>1, <2>2
  <2>4. top \in lens /\ B <= top
    BY <1>3, <2>3
  <2>5. top \in Nat /\ HasWay(m, Start, top)
    BY <1>0, <1>2, <2>4
  <2>6. top <= B
    BY <2>1, <2>5
  <2>7. top = B
    BY <2>2, <2>4, <2>5, <2>6
  <2> QED BY <2>2, <2>3, <2>7 DEF B, N, lens, top
<1>5. CASE B = NoBound
  <2>1. \/ \A k \in Nat : ~HasWay(m, Start, k)
        \/ \E k \in N..(2 * N - 2) : HasWay(m, Start, k)
    BY <1>5, UnboundedWays
  <2> HIDE DEF B, N
  <2>2. CASE \A k \in Nat : ~HasWay(m, Start, k)
    <3>1. lens = {}
      BY <1>0, <1>2, <2>2
    <3> QED BY <1>5, <3>1 DEF B, N, lens, top
  <2>3. CASE \E k \in N..(2 * N - 2) : HasWay(m, Start, k)
    <3>1. PICK k \in N..(2 * N - 2) : HasWay(m, Start, k)
      BY <2>3
    <3>2. k \in 0..MaxWord /\ k \in Nat /\ N <= k
      BY <1>0, <3>1
    <3>3. k \in lens
      BY <1>2, <3>1, <3>2
    <3>4. top \in lens /\ k <= top
      BY <1>3, <3>3
    <3>5. top \in Nat
      BY <1>0, <1>2, <3>4
    <3>6. ~(top < N)
      BY <1>0, <3>2, <3>4, <3>5
    <3> QED BY <1>5, <3>6 DEF B, N, lens, top
  <2> QED BY <2>1, <2>2, <2>3
<1> QED BY <1>4, <1>5

\* WitnessExists of one automaton.
LEMMA WitnessHolds ==
    ASSUME NEW m \in Machines, FindProof(m) # NoBound, NEW w \in Words, Accepts(m, w, Len(w))
    PROVE  LET n == FindWitness(m, w, FindProof(m)) IN n # NoBound /\ n <= ProofMax
<1> DEFINE B == LongestPath(m)
<1>1. FindProof(m) = B /\ B # NoBound /\ B # 0 /\ ~(B > ProofMax)
  BY DEF FindProof
<1>2. /\ B \in 0..(Cardinality(ProofStates) - 1)
      /\ \A k \in Nat : HasWay(m, Start, k) => k <= B
      /\ Start \in m.final => B = 0
  BY <1>1, LongestBounds
<1>3. PICK l \in 0..MaxWord : w \in [1..l -> Symbols] /\ Len(w) = l
  BY WordIs
<1> HIDE DEF B
<1>4. B \in Nat /\ B >= 1 /\ B <= ProofMax /\ l \in Nat /\ ProofMax \in Nat
  <2>1. Cardinality(ProofStates) \in Nat /\ ProofMax \in Nat /\ MaxWord \in Nat
    BY ProofGraphAssumption, FS_CardinalityType
  <2> QED BY <1>1, <1>2, <1>3, <2>1
<1> DEFINE T == {n \in Nat : n <= l /\ Accepts(m, w, n)}
<1>5. PICK n \in T : \A y \in T : n <= y
  <2>1. l \in T /\ T \in SUBSET Nat
    BY <1>3, <1>4
  <2> HIDE DEF T
  <2> QED BY <2>1, SmallestIs
<1>6. n \in Nat /\ n \in 0..l /\ Accepts(m, w, n)
  BY <1>4, <1>5
<1>7. \A i \in 0..(n - 1) : ~Accepts(m, w, i)
  <2>1. \A i \in 0..(n - 1) : i \in Nat /\ i <= l /\ ~(n <= i)
    BY <1>4, <1>6
  <2> QED BY <1>5, <2>1
<1>8. n <= B
  <2>1. HasWay(m, Start, n)
    BY <1>3, <1>4, <1>6, <1>7, WordWay
  <2> QED BY <1>2, <1>6, <2>1
<1>9. n # 0
  <2>1. Run(m, w)[0] = Start
    BY <1>3, <1>4, RunIs
  <2>2. n = 0 => Start \in m.final
    BY <1>6, <2>1 DEF Accepts
  <2> QED BY <1>1, <1>2, <2>2
<1> DEFINE cut == Min({B, l})
<1>10. cut \in Nat /\ cut <= B /\ n <= cut
  <2> DEFINE b == B + l
             P == {B, l}
  <2>1. b \in Nat /\ P \in SUBSET (0..b) /\ P # {}
    BY <1>4
  <2> HIDE DEF b
  <2>2. Min(P) \in P /\ \A x \in P : Min(P) <= x
    <3> HIDE DEF P
    <3> QED BY <2>1, BoundedMax
  <2>3. (cut = B \/ cut = l) /\ cut <= B
    BY <2>2
  <2> HIDE DEF cut
  <2> QED BY <1>4, <1>6, <1>8, <2>3
<1> DEFINE ends == {i \in Walked(w, B) : Accepts(m, w, i)}
<1>11. Walked(w, B) = 1..cut
  BY <1>3 DEF Walked
<1> HIDE DEF cut
<1>12. ends \in SUBSET (0..cut) /\ n \in ends
  BY <1>6, <1>9, <1>10, <1>11
<1> HIDE DEF ends
<1>13. Min(ends) \in ends
  BY <1>10, <1>12, BoundedMax
<1>14. Min(ends) \in 0..cut
  BY <1>12, <1>13
<1>15. Min(ends) # NoBound /\ Min(ends) <= ProofMax
  BY <1>4, <1>10, <1>14 DEF NoBound
<1>16. FindWitness(m, w, FindProof(m)) = Min(ends)
  BY <1>1, <1>12 DEF FindWitness, ends
<1> QED BY <1>15, <1>16

-----------------------------------------------------------------------------
ProofSpec == ProofInit /\ [][ProofNext]_proofVars

ProofInv == machine \in Machines

\* The bound that is computed for a pattern is exact and enough: it is the length of the
\* longest beginning that has to be read before the automaton accepts, there is none
\* exactly when such beginnings can be arbitrarily long, and with it every match has a
\* witness of at most that many bytes (build_proof_graph_with_limit,
\* find_longest_accepting_path, find_proof, find_witness).
THEOREM BoundsProve == ProofSpec => []ProofSound
<1>1. ProofInit => ProofInv
  BY ProofGraphAssumption DEF ProofInit, ProofInv, Machines
<1>2. ProofInv /\ [ProofNext]_proofVars => ProofInv'
  BY DEF ProofInv, ProofNext, BuildMachine, proofVars
<1>3. ProofInv => ProofSound
  <2>1. SUFFICES ASSUME machine \in Machines PROVE BoundIsLongest /\ WitnessExists
    BY DEF ProofInv, ProofSound
  <2>2. BoundIsLongest
    BY <2>1, BoundHolds DEF BoundIsLongest
  <2>3. WitnessExists
    BY <2>1, WitnessHolds DEF WitnessExists
  <2> QED BY <2>2, <2>3
<1> QED BY <1>1, <1>2, <1>3, PTL DEF ProofSpec

-----------------------------------------------------------------------------
(***************************************************************************)
(* Packs: sequences joined.                                                *)
(***************************************************************************)

\* What FlattenSeq has joined after so many sequences.
Joins(s, f) == f[0] = <<>> /\ \A n \in 1..Len(s) : f[n] = f[n - 1] \o s[n]

Flattens(s, g) == g = [i \in 1..Len(s) |-> IF i = 1 THEN s[i] ELSE g[i - 1] \o s[i]]

LEMMA JoinsAgree ==
    ASSUME NEW s, NEW t, NEW f, NEW g, Joins(s, f), Joins(t, g), NEW n \in Nat, Len(s) \in Nat, Len(t) \in Nat,
           n <= Len(s), n <= Len(t), \A i \in 1..n : s[i] = t[i]
    PROVE  f[n] = g[n]
<1> DEFINE S == {k \in Nat : k <= n => f[k] = g[k]}
<1>1. 0 \in S
  BY DEF Joins
<1>2. ASSUME NEW k \in S PROVE k + 1 \in S
  <2>1. k \in Nat /\ k + 1 \in Nat
    OBVIOUS
  <2>2. SUFFICES ASSUME k + 1 <= n PROVE f[k + 1] = g[k + 1]
    BY <2>1
  <2> DEFINE j == k + 1
  <2>3. j \in 1..Len(s) /\ j \in 1..Len(t) /\ j \in 1..n /\ j - 1 = k /\ k <= n
    BY <2>1, <2>2
  <2> HIDE DEF j
  <2>4. f[j] = f[j - 1] \o s[j] /\ g[j] = g[j - 1] \o t[j]
    BY <2>3 DEF Joins
  <2>5. f[k] = g[k]
    BY <1>2, <2>3
  <2>6. s[j] = t[j]
    BY <2>3
  <2>7. f[j] = g[j]
    BY <2>3, <2>4, <2>5, <2>6
  <2> QED BY <2>7 DEF j
<1>3. S = Nat
  <2>1. S \in SUBSET Nat
    OBVIOUS
  <2> HIDE DEF S
  <2> QED BY <1>1, <1>2, <2>1, SetInduction
<1> QED BY <1>3

LEMMA FlattenJoins ==
    ASSUME NEW X, NEW s \in Seq(Seq(X))
    PROVE  \E f : f \in [0..Len(s) -> Seq(X)] /\ Joins(s, f) /\ FlattenSeq(s) = f[Len(s)]
<1> DEFINE l == Len(s)
           V == Seq(X)
           G == [x \in (1..l) \X V |-> x[2] \o s[x[1]]]
<1>0. l \in Nat /\ s \in [1..l -> V]
  OBVIOUS
<1>1. <<>> \in V
  OBVIOUS
<1>2. G \in [(1..l) \X V -> V] /\ \A n \in 1..l, v \in V : G[<<n, v>>] = v \o s[n]
  <2>1. ASSUME NEW x \in (1..l) \X V PROVE x[2] \o s[x[1]] \in V
    <3>1. x[1] \in 1..l /\ x[2] \in Seq(X)
      OBVIOUS
    <3>2. s[x[1]] \in Seq(X)
      BY <1>0, <3>1
    <3> QED BY <3>1, <3>2
  <2> QED BY <2>1
<1>3. PICK f : Solution(V, <<>>, l, G, f)
  <2> HIDE DEF V, G
  <2> QED BY <1>0, <1>1, <1>2, Recursion
<1>4. f \in [0..l -> V] /\ f[0] = <<>> /\ \A n \in 1..l : f[n] = f[n - 1] \o s[n]
  <2>1. f \in [0..l -> V] /\ f[0] = <<>> /\ \A n \in 1..l : f[n] = G[<<n, f[n - 1]>>]
    BY <1>3 DEF Solution
  <2>2. ASSUME NEW n \in 1..l PROVE f[n] = f[n - 1] \o s[n]
    <3>1. n - 1 \in 0..l
      BY <1>0
    <3>2. f[n - 1] \in V
      BY <2>1, <3>1
    <3> HIDE DEF V, G, l
    <3> QED BY <1>2, <2>1, <3>2
  <2> QED BY <2>1, <2>2
<1>5. Joins(s, f)
  BY <1>4 DEF Joins
<1>6. CASE l = 0
  BY <1>4, <1>5, <1>6 DEF FlattenSeq
<1>7. CASE l # 0
  <2> DEFINE g == [i \in 1..l |-> f[i]]
             h == CHOOSE z : Flattens(s, z)
             E(z, i) == IF i = 1 THEN s[i] ELSE z[i - 1] \o s[i]
  <2>1. ASSUME NEW i \in 1..l PROVE f[i] = E(g, i)
    <3>1. f[i] = f[i - 1] \o s[i] /\ s[i] \in Seq(X)
      BY <1>0, <1>4
    <3>2. CASE i = 1
      <4>1. f[i - 1] = <<>>
        BY <1>4, <3>2
      <4> QED BY <3>1, <3>2, <4>1
    <3>3. CASE i # 1
      <4>1. i - 1 \in 1..l
        BY <1>0, <3>3
      <4> QED BY <3>1, <3>3, <4>1
    <3> QED BY <3>2, <3>3
  <2>2. Flattens(s, g)
    <3>1. g = [i \in 1..l |-> E(g, i)]
      BY <2>1
    <3> QED BY <3>1 DEF Flattens
  <2>3. Flattens(s, h)
    BY <2>2
  <2>4. FlattenSeq(s) = h[l]
    BY <1>7 DEF FlattenSeq, Flattens
  <2> HIDE DEF h
  <2> DEFINE k == [i \in 0..l |-> IF i = 0 THEN <<>> ELSE h[i]]
  <2>5. \A i \in 1..l : h[i] = E(h, i)
    BY <2>3 DEF Flattens
  <2>6. Joins(s, k)
    <3>1. k[0] = <<>> /\ \A i \in 1..l : k[i] = h[i]
      BY <1>0
    <3>2. ASSUME NEW i \in 1..l PROVE k[i] = k[i - 1] \o s[i]
      <4>1. s[i] \in Seq(X)
        BY <1>0
      <4>2. CASE i = 1
        <5>1. k[i - 1] = <<>> /\ h[i] = s[i]
          BY <2>5, <3>1, <4>2
        <5> HIDE DEF k
        <5> QED BY <3>1, <4>1, <5>1
      <4>3. CASE i # 1
        <5>1. i - 1 \in 1..l
          BY <1>0, <4>3
        <5>2. k[i - 1] = h[i - 1] /\ h[i] = h[i - 1] \o s[i]
          BY <2>5, <3>1, <4>3, <5>1
        <5> HIDE DEF k
        <5> QED BY <3>1, <5>2
      <4> QED BY <4>2, <4>3
    <3> HIDE DEF k
    <3> QED BY <3>1, <3>2 DEF Joins
  <2>7. k[l] = h[l]
    BY <1>0, <1>7
  <2> HIDE DEF k
  <2>8. f[l] = k[l]
    BY <1>0, <1>5, <2>6, JoinsAgree
  <2> QED BY <1>4, <1>5, <2>4, <2>7, <2>8
<1> QED BY <1>6, <1>7

LEMMA FlattenAppend ==
    ASSUME NEW X, NEW s \in Seq(Seq(X)), NEW e \in Seq(X)
    PROVE  FlattenSeq(Append(s, e)) = FlattenSeq(s) \o e /\ FlattenSeq(s) \in Seq(X)
<1> DEFINE t == Append(s, e)
           l == Len(s)
<1>1. PICK f : f \in [0..l -> Seq(X)] /\ Joins(s, f) /\ FlattenSeq(s) = f[l]
  BY FlattenJoins
<1>2. t \in Seq(Seq(X)) /\ Len(t) = l + 1 /\ t[l + 1] = e /\ l \in Nat /\ \A i \in 1..l : s[i] = t[i]
  OBVIOUS
<1> HIDE DEF t
<1>3. PICK g : g \in [0..Len(t) -> Seq(X)] /\ Joins(t, g) /\ FlattenSeq(t) = g[Len(t)]
  BY <1>2, FlattenJoins
<1>4. f[l] = g[l]
  <2>1. l <= Len(t) /\ l <= Len(s) /\ Len(t) \in Nat /\ Len(s) \in Nat
    BY <1>2
  <2>2. Joins(s, f) /\ Joins(t, g) /\ l \in Nat /\ \A i \in 1..l : s[i] = t[i]
    BY <1>1, <1>2, <1>3
  <2> HIDE DEF l
  <2> QED BY ONLY <2>1, <2>2, JoinsAgree
<1> HIDE DEF l
<1>5. g[l + 1] = g[l] \o e
  <2> DEFINE j == l + 1
  <2>1. j \in 1..Len(t) /\ j - 1 = l /\ t[j] = e
    BY <1>2
  <2> HIDE DEF j
  <2>2. g[j] = g[j - 1] \o t[j]
    BY <1>3, <2>1 DEF Joins
  <2> QED BY <2>1, <2>2 DEF j
<1>6. l \in 0..l
  BY <1>2
<1> QED BY <1>1, <1>2, <1>3, <1>4, <1>5, <1>6 DEF t

\* An element more in the last sequence.
LEMMA FlattenLast ==
    ASSUME NEW X, NEW s \in Seq(Seq(X)), s # <<>>, NEW e \in X
    PROVE  /\ [s EXCEPT ![Len(s)] = Append(@, e)] \in Seq(Seq(X))
           /\ FlattenSeq([s EXCEPT ![Len(s)] = Append(@, e)]) = Append(FlattenSeq(s), e)
<1> DEFINE V == Seq(X)
           l == Len(s)
           z == s[l]
           y == Append(z, e)
           t == [s EXCEPT ![l] = y]
           q == SubSeq(s, 1, l - 1)
<1>1. l \in Nat /\ l # 0 /\ z \in V /\ y \in V /\ l \in 1..l
  OBVIOUS
<1>2. q \in Seq(V) /\ Len(q) = l - 1 /\ \A i \in 1..(l - 1) : q[i] = s[i]
  <2>1. \A i \in 1..(l - 1) : s[i] \in V /\ (1 + i) - 1 = i
    BY <1>1
  <2>2. 1 \in Int /\ l - 1 \in Int /\ ((l - 1) - 1) + 1 = l - 1 /\ (~(1 <= l - 1) => l - 1 = 0)
    <3> HIDE DEF l
    <3> QED BY <1>1
  <2> HIDE DEF V, l
  <2> QED BY <2>1, <2>2, SubSeqProperties
<1>3. s \in Seq(V) /\ Len(s) = l
  OBVIOUS
<1> HIDE DEF q, z, y, l, V
<1>4. ASSUME NEW x \in V PROVE Append(q, x) \in Seq(V) /\ Len(Append(q, x)) = l /\ \A i \in 1..l : Append(q, x)[i] = IF i = l THEN x ELSE s[i]
  BY <1>1, <1>2
<1>5. s = Append(q, z)
  <2>1. \A i \in 1..l : s[i] = Append(q, z)[i]
    BY <1>1, <1>4 DEF z
  <2> QED BY <1>1, <1>3, <1>4, <2>1, SeqEqual
<1>6. t \in Seq(V) /\ Len(t) = l /\ \A i \in 1..l : t[i] = IF i = l THEN y ELSE s[i]
  BY <1>1, <1>3, ExceptSeq
<1> HIDE DEF t
<1>7. t = Append(q, y)
  <2> DEFINE r == Append(q, y)
  <2>1. r \in Seq(V) /\ Len(r) = l /\ \A i \in 1..l : r[i] = IF i = l THEN y ELSE s[i]
    BY <1>1, <1>4
  <2> HIDE DEF r
  <2>2. \A i \in 1..Len(t) : t[i] = r[i]
    BY <1>6, <2>1
  <2>3. t = r
    BY <1>6, <2>1, <2>2, SeqEqual
  <2> QED BY <2>3 DEF r
<1>8. FlattenSeq(s) = FlattenSeq(q) \o z /\ FlattenSeq(q) \in V
  BY <1>1, <1>2, <1>5, FlattenAppend DEF V
<1>9. FlattenSeq(t) = FlattenSeq(q) \o y
  BY <1>1, <1>2, <1>7, FlattenAppend DEF V
<1> DEFINE w == FlattenSeq(q)
<1>10. w \o Append(z, e) = Append(w \o z, e)
  <2>1. w \in Seq(X) /\ z \in Seq(X)
    BY <1>1, <1>8 DEF V
  <2> HIDE DEF w
  <2> QED BY <2>1
<1> QED BY <1>6, <1>8, <1>9, <1>10 DEF t, l, y, z, V

-----------------------------------------------------------------------------
(***************************************************************************)
(* The builder: blocks and packs.                                          *)
(***************************************************************************)

Byte == 0..255
PackBlocksSet == [pack : Nat, offset : Nat, len : Nat, bytes : Seq(Byte)]
Builders == [block : Seq(Byte), blocks : Seq(PackBlocksSet), packs : Seq(Nat), active : Nat]

\* A length of a pack is within the target, or that of one of its blocks.
FitsPack(b, p, n) == n <= PackBytes \/ \E x \in DOMAIN b.blocks : b.blocks[x].pack = p /\ b.blocks[x].len = n
\* A block is inside a finished pack or the one that is being written.
InsidePack(b, x) ==
    /\ x.len > 0
    /\ \/ x.pack \in DOMAIN b.packs /\ x.offset + x.len <= b.packs[x.pack]
       \/ x.pack = Len(b.packs) + 1 /\ x.offset + x.len <= b.active
PacksFit(b) ==
    /\ \A p \in DOMAIN b.packs : FitsPack(b, p, b.packs[p])
    /\ FitsPack(b, Len(b.packs) + 1, b.active)
    /\ \A i \in DOMAIN b.blocks : InsidePack(b, b.blocks[i])

LEMMA CompressedIs ==
    ASSUME NEW bytes \in Seq(Byte)
    PROVE  CompressedLen(bytes) \in Nat /\ CompressedLen(bytes) > 0
<1> DEFINE T == {i \in 2..Len(bytes) : bytes[i] # bytes[i - 1]}
<1>1. IsFiniteSet(2..Len(bytes))
  BY FS_Interval
<1>2. IsFiniteSet(T)
  BY <1>1, FS_Subset
<1>3. Cardinality(T) \in Nat
  BY <1>2, FS_CardinalityType
<1> QED BY <1>3 DEF CompressedLen

LEMMA FinishPackIs ==
    ASSUME NEW b \in Builders, PacksFit(b)
    PROVE  /\ FinishPack(b) \in Builders /\ PacksFit(FinishPack(b)) /\ FinishPack(b).active = 0
           /\ FinishPack(b).blocks = b.blocks /\ FinishPack(b).block = b.block
<1>0. b.block \in Seq(Byte) /\ b.blocks \in Seq(PackBlocksSet) /\ b.packs \in Seq(Nat) /\ b.active \in Nat
  BY DEF Builders
<1>1. CASE b.active = 0
  BY <1>1 DEF FinishPack
<1>2. CASE b.active # 0
  <2> DEFINE v == Append(b.packs, b.active)
             c == [b EXCEPT !.packs = v, !.active = 0]
  <2>1. FinishPack(b) = c
    BY <1>2 DEF FinishPack
  <2>0. v \in Seq(Nat) /\ 0 \in Nat
    BY <1>0
  <2>2. /\ c.block = b.block /\ c.blocks = b.blocks /\ c.active = 0 /\ c.packs = Append(b.packs, b.active)
        /\ c \in Builders
    <3>1. c.block = b.block /\ c.blocks = b.blocks /\ c.active = 0 /\ c.packs = Append(b.packs, b.active)
      BY DEF Builders
    <3> HIDE DEF v
    <3>2. c \in Builders
      BY <2>0 DEF Builders
    <3> QED BY <3>1, <3>2 DEF v
  <2> HIDE DEF c
  <2> DEFINE l == Len(b.packs)
  <2>3. l \in Nat /\ DOMAIN b.packs = 1..l /\ DOMAIN c.packs = 1..(l + 1) /\ Len(c.packs) = l + 1
    BY <1>0, <2>2
  <2>4. \A p \in 1..(l + 1) : c.packs[p] = IF p = l + 1 THEN b.active ELSE b.packs[p]
    BY <1>0, <2>2
  <2>5. ASSUME NEW p \in DOMAIN c.packs PROVE FitsPack(c, p, c.packs[p])
    <3>1. CASE p = l + 1
      <4>1. FitsPack(b, p, b.active)
        BY <3>1 DEF PacksFit
      <4> QED BY <2>2, <2>3, <2>4, <3>1, <4>1 DEF FitsPack
    <3>2. CASE p # l + 1
      <4>1. p \in 1..l
        BY <2>3, <3>2
      <4>2. FitsPack(b, p, b.packs[p])
        BY <2>3, <4>1 DEF PacksFit
      <4> QED BY <2>2, <2>3, <2>4, <3>2, <4>2 DEF FitsPack
    <3> QED BY <3>1, <3>2
  <2>6. FitsPack(c, Len(c.packs) + 1, c.active)
    BY <2>2, PackWriterAssumption DEF FitsPack
  <2>7. ASSUME NEW i \in DOMAIN c.blocks PROVE InsidePack(c, c.blocks[i])
    <3> DEFINE x == b.blocks[i]
    <3>1. c.blocks[i] = x /\ InsidePack(b, x)
      BY <2>2 DEF PacksFit
    <3> HIDE DEF x
    <3>2. CASE x.pack \in DOMAIN b.packs /\ x.offset + x.len <= b.packs[x.pack]
      <4>1. x.pack \in 1..(l + 1) /\ x.pack # l + 1
        BY <2>3, <3>2
      <4> QED BY <2>3, <2>4, <3>1, <3>2, <4>1 DEF InsidePack
    <3>3. CASE x.pack = l + 1 /\ x.offset + x.len <= b.active
      <4>1. l + 1 \in 1..(l + 1)
        BY <2>3
      <4> QED BY <2>3, <2>4, <3>1, <3>3, <4>1 DEF InsidePack
    <3> QED BY <3>1, <3>2, <3>3 DEF InsidePack
  <2> QED BY <2>1, <2>2, <2>5, <2>6, <2>7 DEF PacksFit
<1> QED BY <1>1, <1>2

LEMMA FlushIs ==
    ASSUME NEW b \in Builders, PacksFit(b), b.block # <<>>
    PROVE  /\ FlushBlock(b) \in Builders /\ PacksFit(FlushBlock(b)) /\ FlushBlock(b).block = <<>>
           /\ \E x \in PackBlocksSet : x.bytes = b.block /\ FlushBlock(b).blocks = Append(b.blocks, x)
<1> DEFINE len == CompressedLen(b.block)
           p == IF Rotates(b, len) THEN FinishPack(b) ELSE b
           x == [pack |-> Len(p.packs) + 1, offset |-> p.active, len |-> len, bytes |-> b.block]
           c == [p EXCEPT !.active = @ + len, !.block = <<>>, !.blocks = Append(@, x)]
<1>0. b.block \in Seq(Byte) /\ b.blocks \in Seq(PackBlocksSet) /\ b.packs \in Seq(Nat) /\ b.active \in Nat
  BY DEF Builders
<1>1. len \in Nat /\ len > 0
  BY <1>0, CompressedIs
<1>2. FlushBlock(b) = c
  BY DEF FlushBlock
<1>3. p \in Builders /\ PacksFit(p) /\ p.blocks = b.blocks /\ p.block = b.block
  BY FinishPackIs
<1>4. p.active = 0 \/ p.active + len <= PackBytes
  <2>1. CASE Rotates(b, len)
    BY <2>1, FinishPackIs
  <2>2. CASE ~Rotates(b, len)
    <3>1. p.active = b.active /\ PackBytes \in Nat
      BY <2>2, PackWriterAssumption
    <3> HIDE DEF p, len
    <3> QED BY <1>0, <1>1, <2>2, <3>1 DEF Rotates
  <2> QED BY <2>1, <2>2
<1> HIDE DEF p, len
<1>5. p.block \in Seq(Byte) /\ p.blocks \in Seq(PackBlocksSet) /\ p.packs \in Seq(Nat) /\ p.active \in Nat
  BY <1>3 DEF Builders
<1>6. x \in PackBlocksSet /\ x.bytes = b.block /\ x.pack = Len(p.packs) + 1 /\ x.len = len /\ x.offset = p.active
  BY <1>0, <1>1, <1>5 DEF PackBlocksSet
<1> HIDE DEF x
<1>7. c.block = <<>> /\ c.blocks = Append(b.blocks, x) /\ c.packs = p.packs /\ c.active = p.active + len
  BY <1>3 DEF Builders
<1>8. c \in Builders
  <2> DEFINE v == Append(p.blocks, x)
             a == p.active + len
  <2>1. v \in Seq(PackBlocksSet) /\ a \in Nat /\ <<>> \in Seq(Byte)
    BY <1>1, <1>5, <1>6
  <2>2. c = [p EXCEPT !.active = a, !.block = <<>>, !.blocks = v]
    OBVIOUS
  <2> HIDE DEF v, a, c
  <2> QED BY <1>3, <2>1, <2>2 DEF Builders
<1> HIDE DEF c
<1> DEFINE l == Len(b.blocks)
<1>9. l \in Nat /\ DOMAIN b.blocks = 1..l /\ DOMAIN c.blocks = 1..(l + 1) /\ c.blocks[l + 1] = x /\ \A i \in 1..l : c.blocks[i] = b.blocks[i]
  BY <1>0, <1>6, <1>7
<1>10. ASSUME NEW q, NEW n, FitsPack(p, q, n) PROVE FitsPack(c, q, n)
  <2>1. CASE n <= PackBytes
    BY <2>1 DEF FitsPack
  <2>2. CASE \E i \in DOMAIN p.blocks : p.blocks[i].pack = q /\ p.blocks[i].len = n
    <3>1. PICK i \in 1..l : b.blocks[i].pack = q /\ b.blocks[i].len = n
      BY <1>3, <1>9, <2>2
    <3>2. i \in DOMAIN c.blocks /\ c.blocks[i] = b.blocks[i]
      BY <1>9, <3>1
    <3> QED BY <3>1, <3>2 DEF FitsPack
  <2> QED BY <1>10, <2>1, <2>2 DEF FitsPack
<1>11. \A q \in DOMAIN c.packs : FitsPack(c, q, c.packs[q])
  BY <1>3, <1>7, <1>10 DEF PacksFit
<1>12. FitsPack(c, Len(c.packs) + 1, c.active)
  <2>1. CASE p.active = 0
    <3>1. c.active = len
      BY <1>1, <1>7, <2>1
    <3>2. l + 1 \in DOMAIN c.blocks
      BY <1>9
    <3> QED BY <1>6, <1>7, <1>9, <3>1, <3>2 DEF FitsPack
  <2>2. CASE p.active + len <= PackBytes
    BY <1>7, <2>2 DEF FitsPack
  <2> QED BY <1>4, <2>1, <2>2
<1>13. ASSUME NEW i \in DOMAIN c.blocks PROVE InsidePack(c, c.blocks[i])
  <2>1. CASE i = l + 1
    <3>1. x.offset + x.len <= c.active
      BY <1>1, <1>5, <1>6, <1>7
    <3> QED BY <1>1, <1>6, <1>7, <1>9, <2>1, <3>1 DEF InsidePack
  <2>2. CASE i # l + 1
    <3> DEFINE y == b.blocks[i]
    <3>1. i \in 1..l
      BY <1>9, <2>2
    <3>2. y \in PackBlocksSet /\ c.blocks[i] = y /\ InsidePack(p, y)
      BY <1>0, <1>3, <1>9, <3>1 DEF PacksFit
    <3> HIDE DEF y
    <3>3. y.offset \in Nat /\ y.len \in Nat
      BY <3>2 DEF PackBlocksSet
    <3>4. y.offset + y.len <= p.active => y.offset + y.len <= c.active
      BY <1>1, <1>5, <1>7, <3>3
    <3> QED BY <1>7, <3>2, <3>4 DEF InsidePack
  <2> QED BY <2>1, <2>2
<1> QED BY <1>2, <1>6, <1>7, <1>8, <1>11, <1>12, <1>13 DEF PacksFit

LEMMA AppendByteIs ==
    ASSUME NEW b \in Builders, PacksFit(b), NEW byte \in Byte
    PROVE  /\ AppendByte(b, byte) \in Builders /\ PacksFit(AppendByte(b, byte))
           /\ \/ /\ Len(b.block) + 1 # BlockBytes
                 /\ AppendByte(b, byte).block = Append(b.block, byte) /\ AppendByte(b, byte).blocks = b.blocks
              \/ /\ Len(b.block) + 1 = BlockBytes
                 /\ AppendByte(b, byte).block = <<>>
                 /\ \E x \in PackBlocksSet : x.bytes = Append(b.block, byte) /\ AppendByte(b, byte).blocks = Append(b.blocks, x)
<1> DEFINE v == Append(b.block, byte)
           n == [b EXCEPT !.block = v]
<1>0. b.block \in Seq(Byte) /\ b.blocks \in Seq(PackBlocksSet) /\ b.packs \in Seq(Nat) /\ b.active \in Nat
  BY DEF Builders
<1>1. n \in Builders /\ n.block = Append(b.block, byte) /\ n.blocks = b.blocks /\ n.packs = b.packs /\ n.active = b.active
  <2>1. v \in Seq(Byte)
    BY <1>0
  <2>2. n.block = v /\ n.blocks = b.blocks /\ n.packs = b.packs /\ n.active = b.active
    BY DEF Builders
  <2> HIDE DEF v
  <2>3. n \in Builders
    BY <2>1 DEF Builders
  <2> QED BY <2>2, <2>3 DEF v
<1>2. AppendByte(b, byte) = IF Len(n.block) = BlockBytes THEN FlushBlock(n) ELSE n
  BY DEF AppendByte
<1> HIDE DEF n
<1>3. PacksFit(n)
  BY <1>1 DEF PacksFit, FitsPack, InsidePack
<1>4. Len(n.block) = Len(b.block) + 1 /\ n.block # <<>>
  BY <1>0, <1>1
<1>5. CASE Len(n.block) = BlockBytes
  <2>1. /\ FlushBlock(n) \in Builders /\ PacksFit(FlushBlock(n)) /\ FlushBlock(n).block = <<>>
        /\ \E x \in PackBlocksSet : x.bytes = n.block /\ FlushBlock(n).blocks = Append(n.blocks, x)
    BY <1>1, <1>3, <1>4, FlushIs
  <2> QED BY <1>1, <1>2, <1>4, <1>5, <2>1
<1>6. CASE Len(n.block) # BlockBytes
  BY <1>1, <1>2, <1>3, <1>4, <1>6
<1> QED BY <1>5, <1>6

-----------------------------------------------------------------------------
(***************************************************************************)
(* What the builder holds.                                                 *)
(***************************************************************************)

\* Where a block begins among all the bytes that were appended.
Pos(id) == (id - 1) * BlockBytes

LEMMA PosIs ==
    /\ BlockBytes \in Nat \ {0} /\ Pos(1) = 0
    /\ \A i \in Nat \ {0} : Pos(i) \in Nat /\ Pos(i + 1) = Pos(i) + BlockBytes
    /\ \A i, j \in Nat \ {0} : i < j => Pos(i) + BlockBytes <= Pos(j)
<1>0. BlockBytes \in Nat \ {0}
  BY PackWriterAssumption
<1> DEFINE B == BlockBytes
<1>1. B \in Nat /\ B # 0
  BY <1>0
<1> HIDE DEF B
<1>2. ASSUME NEW i \in Nat \ {0} PROVE (i - 1) * B \in Nat /\ ((i + 1) - 1) * B = (i - 1) * B + B
  <2>1. i - 1 \in Nat
    OBVIOUS
  <2> QED BY <1>1, <2>1
<1>3. ASSUME NEW i \in Nat \ {0}, NEW j \in Nat \ {0}, i < j PROVE (i - 1) * B + B <= (j - 1) * B
  <2>1. PICK d \in Nat : j - 1 = i + d
    <3>1. (j - 1) - i \in Nat /\ j - 1 = i + ((j - 1) - i)
      BY <1>3
    <3> QED BY <3>1
  <2>2. (i + d) * B = i * B + d * B /\ d * B \in Nat /\ i * B \in Nat /\ (i - 1) * B + B = i * B
    BY <1>1
  <2> QED BY <2>1, <2>2
<1>4. (1 - 1) * B = 0
  BY <1>1
<1> QED BY <1>0, <1>2, <1>3, <1>4 DEF Pos, B

\* The bytes x are the n bytes of s from where block id begins.
LiesAt(x, n, id, s) == Len(x) = n /\ \A o \in 1..n : x[o] = s[Pos(id) + o]

\* The builder holds the bytes s.
Streams(b, s) ==
    /\ s \in Seq(Byte) /\ Len(b.block) < BlockBytes
    /\ Len(s) = Pos(Len(b.blocks) + 1) + Len(b.block)
    /\ \A id \in 1..Len(b.blocks) : LiesAt(b.blocks[id].bytes, BlockBytes, id, s)
    /\ LiesAt(b.block, Len(b.block), Len(b.blocks) + 1, s)

LEMMA LiesLonger ==
    ASSUME NEW x, NEW n \in Nat, NEW id \in Nat \ {0}, NEW s \in Seq(Byte), NEW byte \in Byte,
           LiesAt(x, n, id, s), Pos(id) + n <= Len(s)
    PROVE  LiesAt(x, n, id, Append(s, byte))
<1>1. Pos(id) \in Nat
  BY PosIs
<1>2. ASSUME NEW o \in 1..n PROVE s[Pos(id) + o] = Append(s, byte)[Pos(id) + o]
  <2> DEFINE i == Pos(id) + o
  <2>1. i \in 1..Len(s)
    BY <1>1
  <2> HIDE DEF i
  <2>2. s[i] = Append(s, byte)[i]
    BY <2>1
  <2> QED BY <2>2 DEF i
<1> QED BY <1>2 DEF LiesAt

LEMMA ByteStreams ==
    ASSUME NEW b \in Builders, PacksFit(b), NEW s, Streams(b, s), NEW byte \in Byte
    PROVE  Streams(AppendByte(b, byte), Append(s, byte))
<1> DEFINE c == AppendByte(b, byte)
           t == Append(s, byte)
           l == Len(b.blocks)
           k == Len(b.block)
           B == BlockBytes
           P == Pos(l + 1)
           v == Append(b.block, byte)
<1>0. b.block \in Seq(Byte) /\ b.blocks \in Seq(PackBlocksSet)
  BY DEF Builders
<1>1. l \in Nat /\ k \in Nat /\ l + 1 \in Nat \ {0}
  BY <1>0
<1>2. P \in Nat /\ B \in Nat \ {0} /\ Pos((l + 1) + 1) = P + B
  BY <1>1, PosIs
<1>3. /\ s \in Seq(Byte) /\ k < B /\ Len(s) = P + k
      /\ \A id \in 1..l : LiesAt(b.blocks[id].bytes, B, id, s)
      /\ LiesAt(b.block, k, l + 1, s)
  BY DEF Streams
<1>4. Len(v) = k + 1 /\ v[k + 1] = byte /\ \A o \in 1..k : v[o] = b.block[o]
  BY <1>0
<1>5. /\ c \in Builders
      /\ \/ k + 1 # B /\ c.block = v /\ c.blocks = b.blocks
         \/ /\ k + 1 = B /\ c.block = <<>>
            /\ \E x \in PackBlocksSet : x.bytes = v /\ c.blocks = Append(b.blocks, x)
  BY AppendByteIs
<1>6. \A id \in 1..l : id \in Nat \ {0} /\ Pos(id) + B <= P /\ Pos(id) \in Nat
  <2>1. \A id \in 1..l : id \in Nat \ {0} /\ id < l + 1
    BY <1>1
  <2> QED BY <1>1, <2>1, PosIs
<1> SUFFICES Streams(c, t)
  OBVIOUS
<1> HIDE DEF c, v, k, B, P, l
<1>7. t \in Seq(Byte) /\ Len(t) = P + k + 1 /\ t[P + k + 1] = byte
  BY <1>1, <1>2, <1>3
<1>8. ASSUME NEW id \in 1..l PROVE LiesAt(b.blocks[id].bytes, B, id, t)
  <2>1. Pos(id) + B <= Len(s)
    BY <1>1, <1>2, <1>3, <1>6
  <2> QED BY <1>2, <1>3, <1>6, <2>1, LiesLonger
<1>9. LiesAt(v, k + 1, l + 1, t)
  <2>1. LiesAt(b.block, k, l + 1, t)
    <3>1. Pos(l + 1) + k <= Len(s)
      BY <1>1, <1>2, <1>3 DEF P
    <3> QED BY <1>1, <1>3, <3>1, LiesLonger
  <2>2. \A o \in 1..k : b.block[o] = t[P + o]
    BY <2>1 DEF LiesAt, P
  <2>3. ASSUME NEW o \in 1..(k + 1) PROVE v[o] = t[P + o]
    <3>1. CASE o = k + 1
      <4>1. P + o = P + k + 1
        BY <1>1, <1>2, <3>1
      <4> HIDE DEF t
      <4> QED BY <1>4, <1>7, <3>1, <4>1
    <3>2. CASE o # k + 1
      <4>1. o \in 1..k
        BY <1>1, <3>2
      <4> HIDE DEF t
      <4> QED BY <1>4, <2>2, <4>1
    <3> QED BY <3>1, <3>2
  <2> QED BY <1>4, <2>3 DEF LiesAt, P
<1> HIDE DEF t
<1>10. CASE k + 1 # B /\ c.block = v /\ c.blocks = b.blocks
  <2>1. Len(c.block) = k + 1 /\ k + 1 < B /\ Len(t) = P + (k + 1) /\ Len(c.blocks) = l
    BY <1>1, <1>2, <1>3, <1>4, <1>7, <1>10 DEF l
  <2>2. Len(t) = Pos(Len(c.blocks) + 1) + Len(c.block)
    BY <2>1 DEF P
  <2>3. \A id \in 1..Len(c.blocks) : LiesAt(c.blocks[id].bytes, BlockBytes, id, t)
    BY <1>8, <1>10, <2>1 DEF B
  <2>4. LiesAt(c.block, Len(c.block), Len(c.blocks) + 1, t)
    BY <1>9, <1>10, <2>1
  <2>5. Len(c.block) < BlockBytes
    BY <2>1 DEF B
  <2> QED BY <1>7, <2>2, <2>3, <2>4, <2>5 DEF Streams
<1>11. CASE k + 1 = B /\ c.block = <<>> /\ \E x \in PackBlocksSet : x.bytes = v /\ c.blocks = Append(b.blocks, x)
  <2>1. PICK x \in PackBlocksSet : x.bytes = v /\ c.blocks = Append(b.blocks, x)
    BY <1>11
  <2>2. Len(c.blocks) = l + 1 /\ c.blocks[l + 1] = x /\ \A id \in 1..l : c.blocks[id] = b.blocks[id]
    BY <1>0, <2>1 DEF l
  <2>3. Len(c.block) = 0 /\ 0 < B
    BY <1>2, <1>11
  <2>4. Len(t) = Pos((l + 1) + 1) + 0
    BY <1>1, <1>2, <1>7, <1>11
  <2>5. ASSUME NEW id \in 1..(l + 1) PROVE LiesAt(c.blocks[id].bytes, B, id, t)
    <3>1. CASE id = l + 1
      BY <1>9, <1>11, <2>1, <2>2, <3>1
    <3>2. CASE id # l + 1
      <4>1. id \in 1..l
        BY <1>1, <3>2
      <4> QED BY <1>8, <2>2, <4>1
    <3> QED BY <3>1, <3>2
  <2>6. LiesAt(c.block, 0, (l + 1) + 1, t)
    BY <2>3 DEF LiesAt
  <2>7. Len(t) = Pos(Len(c.blocks) + 1) + Len(c.block)
    BY <2>2, <2>3, <2>4
  <2>8. \A id \in 1..Len(c.blocks) : LiesAt(c.blocks[id].bytes, BlockBytes, id, t)
    BY <2>2, <2>5 DEF B
  <2>9. LiesAt(c.block, Len(c.block), Len(c.blocks) + 1, t)
    BY <2>2, <2>3, <2>6
  <2>10. Len(c.block) < BlockBytes
    BY <2>3 DEF B
  <2> QED BY <1>7, <2>7, <2>8, <2>9, <2>10 DEF Streams
<1> QED BY <1>5, <1>10, <1>11

\* The loop over the bytes of a document.
Writes(b, bytes, f) == f = [n \in 0..Len(bytes) |-> IF n = 0 THEN b ELSE AppendByte(f[n - 1], bytes[n])]

LEMMA WritesIs ==
    ASSUME NEW b \in Builders, PacksFit(b), NEW bytes \in Seq(Byte)
    PROVE  \E f : /\ Loop(AppendByte, b, bytes) = f[Len(bytes)] /\ f[0] = b
                  /\ \A n \in 1..Len(bytes) : f[n] = AppendByte(f[n - 1], bytes[n])
<1> DEFINE l == Len(bytes)
           V == {x \in Builders : PacksFit(x)}
           G == [x \in (1..l) \X V |-> AppendByte(x[2], bytes[x[1]])]
           at == CHOOSE f : Writes(b, bytes, f)
<1>0. l \in Nat /\ b \in V /\ \A n \in 1..l : bytes[n] \in Byte
  OBVIOUS
<1>1. G \in [(1..l) \X V -> V] /\ \A n \in 1..l, v \in V : G[<<n, v>>] = AppendByte(v, bytes[n])
  <2>1. ASSUME NEW x \in (1..l) \X V PROVE AppendByte(x[2], bytes[x[1]]) \in V
    <3>1. x[1] \in 1..l /\ x[2] \in Builders /\ PacksFit(x[2])
      OBVIOUS
    <3> QED BY <1>0, <3>1, AppendByteIs
  <2> QED BY <2>1
<1>2. PICK f : Solution(V, b, l, G, f)
  <2> HIDE DEF V, G
  <2> QED BY <1>0, <1>1, Recursion
<1>3. Writes(b, bytes, f)
  <2> DEFINE E(n) == IF n = 0 THEN b ELSE AppendByte(f[n - 1], bytes[n])
  <2>1. f \in [0..l -> V] /\ f[0] = b /\ \A n \in 1..l : f[n] = G[<<n, f[n - 1]>>]
    BY <1>2 DEF Solution
  <2>2. ASSUME NEW n \in 0..l PROVE f[n] = E(n)
    <3>1. CASE n = 0
      BY <2>1, <3>1
    <3>2. CASE n # 0
      <4>1. n \in 1..l /\ n - 1 \in 0..l
        BY <1>0, <3>2
      <4>2. f[n - 1] \in V
        BY <2>1, <4>1
      <4> HIDE DEF V, G, l
      <4> QED BY <1>1, <2>1, <3>2, <4>1, <4>2
    <3> QED BY <3>1, <3>2
  <2> HIDE DEF E
  <2>3. f = [n \in 0..l |-> E(n)]
    BY <2>1, <2>2
  <2> QED BY <2>3 DEF Writes, E
<1>4. Writes(b, bytes, at)
  BY <1>3
<1>5. Loop(AppendByte, b, bytes) = at[l]
  BY DEF Loop, Writes
<1> HIDE DEF at
<1> DEFINE E(n) == IF n = 0 THEN b ELSE AppendByte(at[n - 1], bytes[n])
<1>6. at = [n \in 0..l |-> E(n)]
  BY <1>4 DEF Writes
<1> HIDE DEF E
<1>7. \A n \in 0..l : at[n] = E(n)
  BY <1>6
<1>8. at[0] = b
  <2>1. 0 \in 0..l
    BY <1>0
  <2> QED BY <1>7, <2>1 DEF E
<1>9. ASSUME NEW n \in 1..l PROVE at[n] = AppendByte(at[n - 1], bytes[n])
  <2>1. n \in 0..l /\ n # 0
    BY <1>0
  <2> QED BY <1>7, <2>1 DEF E
<1> QED BY <1>5, <1>8, <1>9

\* A document is appended to what the builder holds.
LEMMA DocumentStreams ==
    ASSUME NEW b \in Builders, PacksFit(b), NEW s, Streams(b, s), NEW bytes \in Seq(Byte)
    PROVE  LET c == Loop(AppendByte, b, bytes) IN c \in Builders /\ PacksFit(c) /\ Streams(c, s \o bytes)
<1> DEFINE l == Len(bytes)
<1>0. l \in Nat /\ s \in Seq(Byte)
  BY DEF Streams
<1>1. PICK f : Loop(AppendByte, b, bytes) = f[l] /\ f[0] = b /\ \A n \in 1..l : f[n] = AppendByte(f[n - 1], bytes[n])
  BY WritesIs
<1> DEFINE P(n) == f[n] \in Builders /\ PacksFit(f[n]) /\ Streams(f[n], s \o SubSeq(bytes, 1, n))
           S == {n \in Nat : n <= l => P(n)}
<1>2. 0 \in S
  <2>1. SubSeq(bytes, 1, 0) = <<>> /\ s \o <<>> = s
    BY <1>0
  <2>2. P(0)
    BY <1>1, <2>1
  <2> HIDE DEF P
  <2> QED BY <2>2
<1>3. ASSUME NEW n \in S PROVE n + 1 \in S
  <2>1. n \in Nat /\ n + 1 \in Nat
    OBVIOUS
  <2>2. SUFFICES ASSUME n + 1 <= l PROVE P(n + 1)
    BY <2>1
  <2> DEFINE j == n + 1
             t == s \o SubSeq(bytes, 1, n)
  <2>3. j \in 1..l /\ j - 1 = n /\ n <= l
    BY <1>0, <2>1, <2>2
  <2>4. P(n)
    <3> HIDE DEF P
    <3> QED BY <1>3, <2>3
  <2>5. bytes[j] \in Byte
    BY <2>3
  <2>6. s \o SubSeq(bytes, 1, j) = Append(t, bytes[j])
    BY <1>0, <2>1, <2>3
  <2> HIDE DEF j, t
  <2>7. f[j] = AppendByte(f[n], bytes[j])
    BY <1>1, <2>3
  <2>8. f[j] \in Builders /\ PacksFit(f[j]) /\ Streams(f[j], Append(t, bytes[j]))
    BY <2>4, <2>5, <2>7, AppendByteIs, ByteStreams DEF t
  <2>9. P(j)
    BY <2>6, <2>8
  <2> QED BY <2>9 DEF j
<1>4. S = Nat
  <2>1. S \in SUBSET Nat
    OBVIOUS
  <2> HIDE DEF S
  <2> QED BY <1>2, <1>3, <2>1, SetInduction
<1>5. P(l)
  <2>1. l <= l
    BY <1>0
  <2> HIDE DEF P
  <2> QED BY <1>0, <1>4, <2>1
<1>6. SubSeq(bytes, 1, l) = bytes
  OBVIOUS
<1> QED BY <1>1, <1>5, <1>6

-----------------------------------------------------------------------------
(***************************************************************************)
(* What the packs hold, and where the documents lie.                       *)
(***************************************************************************)

\* Block id has the bytes x: all that a block takes, or the last of s.
HoldsBlock(x, id, s) ==
    /\ Len(x) \in 1..BlockBytes /\ LiesAt(x, Len(x), id, s)
    /\ Pos(id) + Len(x) <= Len(s) /\ (Len(x) = BlockBytes \/ Pos(id) + Len(x) = Len(s))

\* The blocks of a finished builder hold the bytes s.
Held(blocks, s) ==
    /\ s \in Seq(Byte) /\ Len(s) <= Pos(Len(blocks) + 1)
    /\ \A id \in 1..Len(blocks) : HoldsBlock(blocks[id].bytes, id, s)

LEMMA FlushHolds ==
    ASSUME NEW b \in Builders, PacksFit(b), NEW s, Streams(b, s)
    PROVE  Held(FlushBlock(b).blocks, s) /\ FlushBlock(b) \in Builders /\ PacksFit(FlushBlock(b))
<1> DEFINE l == Len(b.blocks)
           k == Len(b.block)
           B == BlockBytes
           P == Pos(l + 1)
           c == FlushBlock(b)
<1>0. b.block \in Seq(Byte) /\ b.blocks \in Seq(PackBlocksSet)
  BY DEF Builders
<1>1. l \in Nat /\ k \in Nat /\ l + 1 \in Nat \ {0}
  BY <1>0
<1>2. P \in Nat /\ B \in Nat \ {0} /\ Pos((l + 1) + 1) = P + B
  BY <1>1, PosIs
<1>3. /\ s \in Seq(Byte) /\ k < B /\ Len(s) = P + k
      /\ \A id \in 1..l : LiesAt(b.blocks[id].bytes, B, id, s)
      /\ LiesAt(b.block, k, l + 1, s)
  BY DEF Streams
<1>4. \A id \in 1..l : id \in Nat \ {0} /\ Pos(id) + B <= P /\ Pos(id) \in Nat
  <2>1. \A id \in 1..l : id \in Nat \ {0} /\ id < l + 1
    BY <1>1
  <2> QED BY <1>1, <2>1, PosIs
<1>5. CASE b.block = <<>>
  <2>1. c = b /\ k = 0
    BY <1>5 DEF FlushBlock
  <2> SUFFICES Held(b.blocks, s)
    BY <2>1
  <2> HIDE DEF l, k, B, P, c
  <2>2. ASSUME NEW id \in 1..l PROVE HoldsBlock(b.blocks[id].bytes, id, s)
    <3> DEFINE x == b.blocks[id].bytes
    <3>1. Len(x) = B /\ LiesAt(x, B, id, s)
      BY <1>3 DEF LiesAt
    <3> HIDE DEF x
    <3>2. Pos(id) + B <= Len(s)
      BY <1>1, <1>2, <1>3, <1>4, <2>1
    <3>3. HoldsBlock(x, id, s)
      BY <1>2, <3>1, <3>2 DEF HoldsBlock, B
    <3> QED BY <3>3 DEF x
  <2>3. Len(s) <= P
    BY <1>2, <1>3, <2>1
  <2> QED BY <1>3, <2>2, <2>3 DEF Held, l, P
<1>6. CASE b.block # <<>>
  <2>1. c \in Builders /\ PacksFit(c)
    BY <1>6, FlushIs
  <2>2. PICK x \in PackBlocksSet : x.bytes = b.block /\ c.blocks = Append(b.blocks, x)
    BY <1>6, FlushIs
  <2>3. Len(c.blocks) = l + 1 /\ c.blocks[l + 1] = x /\ \A id \in 1..l : c.blocks[id] = b.blocks[id]
    BY <1>0, <2>2
  <2>4. k > 0
    BY <1>0, <1>6
  <2> SUFFICES Held(c.blocks, s)
    BY <2>1
  <2>5. LiesAt(x.bytes, k, l + 1, s) /\ Len(x.bytes) = k
    BY <1>3, <2>2
  <2> HIDE DEF l, k, B, P, c
  <2>6. HoldsBlock(x.bytes, l + 1, s)
    <3>1. Pos(l + 1) + k = Len(s) /\ Pos(l + 1) + k <= Len(s) /\ k \in 1..BlockBytes
      BY <1>1, <1>2, <1>3, <2>4 DEF P, B
    <3> QED BY <2>5, <3>1 DEF HoldsBlock
  <2>7. ASSUME NEW id \in 1..l PROVE HoldsBlock(c.blocks[id].bytes, id, s)
    <3> DEFINE y == c.blocks[id].bytes
    <3>1. Len(y) = B /\ LiesAt(y, B, id, s)
      BY <1>3, <2>3 DEF LiesAt
    <3> HIDE DEF y
    <3>2. Pos(id) + B <= Len(s)
      BY <1>1, <1>2, <1>3, <1>4
    <3>3. HoldsBlock(y, id, s)
      BY <1>2, <3>1, <3>2 DEF HoldsBlock, B
    <3> QED BY <3>3 DEF y
  <2>8. Len(s) <= Pos((l + 1) + 1)
    BY <1>1, <1>2, <1>3
  <2>9. ASSUME NEW id \in 1..(l + 1) PROVE HoldsBlock(c.blocks[id].bytes, id, s)
    <3>1. CASE id = l + 1
      BY <2>3, <2>6, <3>1
    <3>2. CASE id # l + 1
      <4>1. id \in 1..l
        BY <1>1, <3>2
      <4> QED BY <2>7, <4>1
    <3> QED BY <3>1, <3>2
  <2> QED BY <1>3, <2>3, <2>8, <2>9 DEF Held
<1> QED BY <1>5, <1>6

\* A document is where its slice says, and inside s.
Lies(doc, s) ==
    LET p == Pos(doc.slice.first) + doc.slice.offset IN
    /\ p + Len(doc.bytes) <= Len(s)
    /\ \A i \in 1..Len(doc.bytes) : doc.bytes[i] = s[p + i]

Slices == [first : Nat \ {0}, offset : 0..(BlockBytes - 1)]
Docs == [bytes : Seq(Byte), slice : Slices]

LEMMA DocumentLies ==
    ASSUME NEW b \in Builders, NEW s, Streams(b, s), NEW bytes \in Seq(Byte)
    PROVE  /\ [bytes |-> bytes, slice |-> SliceOf(b, bytes)] \in Docs
           /\ Lies([bytes |-> bytes, slice |-> SliceOf(b, bytes)], s \o bytes)
<1> DEFINE l == Len(b.blocks)
           k == Len(b.block)
           t == s \o bytes
           doc == [bytes |-> bytes, slice |-> SliceOf(b, bytes)]
<1>0. b.block \in Seq(Byte) /\ b.blocks \in Seq(PackBlocksSet)
  BY DEF Builders
<1>1. l \in Nat /\ k \in Nat /\ l + 1 \in Nat \ {0} /\ s \in Seq(Byte) /\ Len(s) = Pos(l + 1) + k
  BY <1>0 DEF Streams
<1>2. SliceOf(b, bytes) \in Slices
  <2>1. BlockBytes \in Nat \ {0}
    BY PosIs
  <2>2. 0 \in 0..(BlockBytes - 1) /\ k \in 0..(BlockBytes - 1)
    BY <1>1, <2>1 DEF Streams
  <2> QED BY <1>1, <2>2 DEF SliceOf, Slices
<1>3. doc \in Docs /\ doc.bytes = bytes /\ doc.slice = SliceOf(b, bytes)
  BY <1>2 DEF Docs
<1>4. Len(t) = Len(s) + Len(bytes) /\ Len(s) \in Nat /\ Len(bytes) \in Nat /\ \A i \in 1..Len(bytes) : t[Len(s) + i] = bytes[i]
  BY <1>1
<1> HIDE DEF l, k, t, doc
<1>5. CASE bytes = <<>>
  <2>1. SliceOf(b, bytes).first = 1 /\ SliceOf(b, bytes).offset = 0 /\ Len(bytes) = 0
    BY <1>5 DEF SliceOf
  <2>2. Pos(1) + 0 = 0
    BY PosIs
  <2>3. Lies(doc, t)
    <3>1. Pos(doc.slice.first) + doc.slice.offset = 0 /\ Len(doc.bytes) = 0
      BY <1>3, <2>1, <2>2
    <3>2. 0 + 0 <= Len(t)
      BY <1>4
    <3> QED BY <3>1, <3>2 DEF Lies
  <2> QED BY <1>3, <2>3 DEF t, doc
<1>6. CASE bytes # <<>>
  <2>1. SliceOf(b, bytes).first = l + 1 /\ SliceOf(b, bytes).offset = k
    BY <1>6 DEF SliceOf, l, k
  <2>2. Pos(doc.slice.first) + doc.slice.offset = Len(s)
    BY <1>1, <1>3, <2>1
  <2>3. Lies(doc, t)
    <3>1. Len(s) + Len(bytes) <= Len(t) /\ \A i \in 1..Len(bytes) : bytes[i] = t[Len(s) + i]
      BY <1>4
    <3> QED BY <1>3, <2>2, <3>1 DEF Lies
  <2> QED BY <1>3, <2>3 DEF t, doc
<1> QED BY <1>5, <1>6

LEMMA LiesStays ==
    ASSUME NEW doc \in Docs, NEW s \in Seq(Byte), Lies(doc, s), NEW x \in Seq(Byte)
    PROVE  Lies(doc, s \o x)
<1> DEFINE p == Pos(doc.slice.first) + doc.slice.offset
           t == s \o x
           n == Len(doc.bytes)
<1>1. p \in Nat /\ n \in Nat
  <2>1. doc.slice.first \in Nat \ {0} /\ doc.slice.offset \in Nat /\ doc.bytes \in Seq(Byte)
    BY DEF Docs, Slices
  <2>2. Pos(doc.slice.first) \in Nat
    BY <2>1, PosIs
  <2> QED BY <2>1, <2>2
<1>2. p + n <= Len(s) /\ \A i \in 1..n : doc.bytes[i] = s[p + i]
  BY DEF Lies
<1>3. Len(s) <= Len(t) /\ Len(s) \in Nat /\ Len(t) \in Nat /\ \A i \in 1..Len(s) : t[i] = s[i]
  OBVIOUS
<1> SUFFICES p + n <= Len(t) /\ \A i \in 1..n : doc.bytes[i] = t[p + i]
  BY DEF Lies
<1> HIDE DEF p, t, n
<1>4. \A i \in 1..n : p + i \in 1..Len(s)
  BY <1>1, <1>2, <1>3
<1> QED BY <1>1, <1>2, <1>3, <1>4

-----------------------------------------------------------------------------
(***************************************************************************)
(* The parts of a document.                                                *)
(***************************************************************************)

LEMMA MinOfTwo ==
    ASSUME NEW x \in Int, NEW y \in Int
    PROVE  Min({x, y}) \in {x, y} /\ Min({x, y}) <= x /\ Min({x, y}) <= y
<1>1. \E m \in {x, y} : \A z \in {x, y} : m <= z
  <2>1. CASE x <= y
    BY <2>1
  <2>2. CASE ~(x <= y)
    BY <2>2
  <2> QED BY <2>1, <2>2
<1>2. Min({x, y}) \in {x, y} /\ \A z \in {x, y} : Min({x, y}) <= z
  BY <1>1 DEF Min
<1> QED BY <1>2

LEMMA MaxOfTwo ==
    ASSUME NEW x \in Int, NEW y \in Int
    PROVE  Max({x, y}) \in {x, y} /\ Max({x, y}) >= x /\ Max({x, y}) >= y
<1>1. \E m \in {x, y} : \A z \in {x, y} : m >= z
  <2>1. CASE x <= y
    BY <2>1
  <2>2. CASE ~(x <= y)
    BY <2>2
  <2> QED BY <2>1, <2>2
<1>2. Max({x, y}) \in {x, y} /\ \A z \in {x, y} : Max({x, y}) >= z
  BY <1>1 DEF Max
<1> QED BY <1>2

PartSet == [id : Nat, start : Nat, offset : Nat, len : Nat]

\* Where the document begins among all bytes.
Begins(doc) == Pos(doc.slice.first) + doc.slice.offset

\* A part is bytes of its block that are bytes of the document, up to the end of one of them.
IsPart(doc, blocks, x) ==
    /\ x \in PartSet /\ x.id \in 1..Len(blocks) /\ x.len # 0
    /\ Pos(x.id) + x.offset = Begins(doc) + x.start
    /\ x.offset + x.len <= Len(blocks[x.id].bytes) /\ x.start + x.len <= Len(doc.bytes)
    /\ x.start + x.len = Len(doc.bytes) \/ x.offset + x.len = BlockBytes

Reached(parts, n) == IF n = 0 THEN 0 ELSE parts[n].start + parts[n].len

\* The parts are of neighbouring blocks, and without a gap.
ArePartsOf(doc, blocks, parts) ==
    \A j \in 1..Len(parts) :
        /\ IsPart(doc, blocks, parts[j])
        /\ parts[j].id = doc.slice.first + (j - 1) /\ parts[j].start = Reached(parts, j - 1)
        /\ parts[j].offset = IF j = 1 THEN doc.slice.offset ELSE 0

LEMMA DocIs ==
    ASSUME NEW doc \in Docs
    PROVE  /\ doc.bytes \in Seq(Byte) /\ Len(doc.bytes) \in Nat /\ doc.slice.first \in Nat \ {0}
           /\ doc.slice.offset \in Nat /\ doc.slice.offset < BlockBytes /\ Begins(doc) \in Nat
           /\ Begins(doc) = Pos(doc.slice.first) + doc.slice.offset /\ BlockBytes \in Nat \ {0}
           /\ Pos(doc.slice.first) \in Nat
<1>1. BlockBytes \in Nat \ {0}
  BY PosIs
<1>2. doc.bytes \in Seq(Byte) /\ doc.slice.first \in Nat \ {0} /\ doc.slice.offset \in 0..(BlockBytes - 1)
  BY DEF Docs, Slices
<1>3. Pos(doc.slice.first) \in Nat
  BY <1>2, PosIs
<1> QED BY <1>1, <1>2, <1>3 DEF Begins

LEMMA LastOfRange ==
    ASSUME NEW l \in Nat, NEW f \in Nat \ {0}, NEW k \in 1..l, k = f + (l - 1)
    PROVE  k = l
OBVIOUS

LEMMA ShiftedSum ==
    ASSUME NEW b \in Nat, NEW u \in Nat, NEW v \in Nat, NEW p, p = b + u + v
    PROVE  p + 0 = b + (u + v)
OBVIOUS

\* A position before the end of s is in a block when it is where the block begins or behind.
LEMMA PositionInBlocks ==
    ASSUME NEW blocks \in Seq(PackBlocksSet), NEW s, Held(blocks, s),
           NEW id \in Nat \ {0}, Pos(id) < Len(s)
    PROVE  /\ id \in 1..Len(blocks) /\ Len(blocks[id].bytes) \in 1..BlockBytes
           /\ Len(blocks[id].bytes) = BlockBytes \/ Pos(id) + Len(blocks[id].bytes) = Len(s)
           /\ Pos(id) + Len(blocks[id].bytes) <= Len(s)
           /\ \A o \in 1..Len(blocks[id].bytes) : blocks[id].bytes[o] = s[Pos(id) + o]
<1> DEFINE n == Len(blocks)
<1>1. n \in Nat /\ n + 1 \in Nat \ {0} /\ s \in Seq(Byte) /\ Len(s) \in Nat /\ Len(s) <= Pos(n + 1)
  BY DEF Held
<1>2. /\ BlockBytes \in Nat \ {0} /\ Pos(id) \in Nat /\ Pos(n + 1) \in Nat
      /\ (n + 1 < id => Pos(n + 1) + BlockBytes <= Pos(id))
  BY <1>1, PosIs
<1>3. n + 1 # id
  BY <1>1, <1>2
<1>4. ~(n + 1 < id)
  <2> SUFFICES ASSUME n + 1 < id PROVE FALSE
    OBVIOUS
  <2>1. Pos(n + 1) + BlockBytes <= Pos(id)
    BY <1>2
  <2> HIDE DEF n
  <2> QED BY <1>1, <1>2, <2>1
<1>5. id \in 1..n
  <2> HIDE DEF n
  <2> QED BY <1>1, <1>3, <1>4
<1>6. HoldsBlock(blocks[id].bytes, id, s)
  BY <1>5 DEF Held
<1> QED BY <1>5, <1>6 DEF HoldsBlock, LiesAt

\* While there is more of the document, the next block holds some of it.
LEMMA FurtherIsPart ==
    ASSUME NEW blocks \in Seq(PackBlocksSet), NEW s, Held(blocks, s), NEW doc \in Docs, Lies(doc, s),
           NEW id \in Nat \ {0}, NEW start \in Nat, NEW offset \in Nat, offset < BlockBytes,
           Pos(id) + offset = Begins(doc) + start, start < Len(doc.bytes)
    PROVE  LET len == Min({Len(doc.bytes) - start, Len(blocks[id].bytes) - offset}) IN
           id \in DOMAIN blocks /\ IsPart(doc, blocks, [id |-> id, start |-> start, offset |-> offset, len |-> len])
<1> DEFINE L == Len(blocks[id].bytes)
           size == Len(doc.bytes)
           P == Pos(id)
           b == Begins(doc)
           B == BlockBytes
           len == Min({size - start, L - offset})
           x == [id |-> id, start |-> start, offset |-> offset, len |-> len]
<1>1. P \in Nat /\ b \in Nat /\ size \in Nat /\ B \in Nat \ {0} /\ s \in Seq(Byte) /\ Len(s) \in Nat
  BY PosIs, DocIs DEF Held
<1>2. b + size <= Len(s)
  BY DEF Lies, Begins
<1>3. Pos(id) < Len(s)
  <2> HIDE DEF P, b, size, B
  <2>1. P + offset = b + start /\ start < size
    BY DEF P, b, size
  <2>2. P < Len(s)
    BY <1>1, <1>2, <2>1
  <2> QED BY <2>2 DEF P
<1>4. id \in 1..Len(blocks) /\ L \in 1..B /\ (L = B \/ P + L = Len(s)) /\ P + L <= Len(s)
  BY <1>3, PositionInBlocks
<1> HIDE DEF L, size, P, b, B
<1>5. P + offset = b + start /\ start < size /\ offset < B
  BY DEF P, b, size, B
<1>6. L - offset \in Nat \ {0} /\ size - start \in Nat \ {0}
  BY <1>1, <1>2, <1>4, <1>5
<1>7. len \in {size - start, L - offset} /\ len <= size - start /\ len <= L - offset
  <2> DEFINE u == size - start
             v == L - offset
  <2>1. u \in Int /\ v \in Int
    BY <1>6
  <2> HIDE DEF u, v
  <2>2. Min({u, v}) \in {u, v} /\ Min({u, v}) <= u /\ Min({u, v}) <= v
    BY <2>1, MinOfTwo
  <2> QED BY <2>2 DEF u, v
<1> HIDE DEF len
<1>8. /\ len \in Nat \ {0} /\ offset + len <= L /\ start + len <= size
      /\ start + len = size \/ offset + len = B
  <2>1. len \in Nat \ {0} /\ offset + len <= L /\ start + len <= size
    BY <1>1, <1>4, <1>6, <1>7
  <2>2. CASE len = size - start
    BY <1>1, <1>6, <2>2, <2>1
  <2>3. CASE len = L - offset /\ L = B
    BY <1>1, <1>4, <1>6, <2>3, <2>1
  <2>4. CASE len = L - offset /\ P + L = Len(s)
    BY <1>1, <1>2, <1>4, <1>5, <1>6, <2>1, <2>4
  <2> QED BY <1>4, <1>7, <2>1, <2>2, <2>3, <2>4
<1>9. x \in PartSet /\ x.id = id /\ x.start = start /\ x.offset = offset /\ x.len = len
  BY <1>8 DEF PartSet
<1> HIDE DEF x
<1>10. IsPart(doc, blocks, x)
  BY <1>4, <1>5, <1>8, <1>9 DEF IsPart, P, b, L, size, B
<1>11. id \in DOMAIN blocks
  BY <1>4
<1> QED BY <1>10, <1>11 DEF x, len, size, L

\* One step of document_blocks.
LEMMA FurtherIs ==
    ASSUME NEW blocks \in Seq(PackBlocksSet), NEW s, Held(blocks, s), NEW doc \in Docs, Lies(doc, s),
           NEW parts \in Seq(PartSet), ArePartsOf(doc, blocks, parts)
    PROVE  LET next == FurtherParts(parts, doc.slice, Len(doc.bytes), blocks) IN
           /\ next \in Seq(PartSet) /\ ArePartsOf(doc, blocks, next)
           /\ \/ next = parts /\ Reached(parts, Len(parts)) = Len(doc.bytes)
              \/ Len(next) = Len(parts) + 1 /\ Reached(parts, Len(parts)) # Len(doc.bytes)
<1> DEFINE l == Len(parts)
           size == Len(doc.bytes)
           id == doc.slice.first + l
           offset == IF parts = <<>> THEN doc.slice.offset ELSE 0
           start == IF parts = <<>> THEN 0 ELSE Last(parts).start + Last(parts).len
           len == Min({size - start, Len(blocks[id].bytes) - offset})
           x == [id |-> id, start |-> start, offset |-> offset, len |-> len]
           next == FurtherParts(parts, doc.slice, size, blocks)
           B == BlockBytes
<1>1. next = IF start = size \/ id \notin DOMAIN blocks THEN parts ELSE Append(parts, x)
  BY DEF FurtherParts
<1>2. /\ size \in Nat /\ doc.slice.first \in Nat \ {0} /\ doc.slice.offset \in Nat /\ doc.slice.offset < B
      /\ Begins(doc) \in Nat /\ Begins(doc) = Pos(doc.slice.first) + doc.slice.offset /\ B \in Nat \ {0}
  BY DocIs
<1>3. l \in Nat /\ (parts = <<>> <=> l = 0) /\ id \in Nat \ {0}
  BY <1>2
<1>4. start = Reached(parts, l)
  BY <1>3 DEF Reached, Last
<1>5. /\ start \in Nat /\ start <= size /\ offset \in Nat /\ offset < B
      /\ start < size => Pos(id) + offset = Begins(doc) + start
  <2>1. CASE l = 0
    <3>1. start = 0 /\ offset = doc.slice.offset /\ id = doc.slice.first
      BY <1>2, <1>3, <2>1
    <3> HIDE DEF start, offset, id, size, B
    <3> QED BY <1>2, <3>1
  <2>2. CASE l # 0
    <3> DEFINE z == parts[l]
               i == doc.slice.first + (l - 1)
    <3>1. l \in 1..Len(parts)
      BY <1>3, <2>2
    <3>2. IsPart(doc, blocks, z) /\ z.id = i
      BY <3>1 DEF ArePartsOf
    <3>3. start = z.start + z.len /\ offset = 0
      BY <1>3, <2>2 DEF Last
    <3>4. i \in Nat \ {0} /\ id = i + 1
      <4> HIDE DEF l, size, B
      <4> QED BY <1>2, <1>3, <2>2
    <3>5. Pos(i) \in Nat /\ Pos(i + 1) = Pos(i) + B
      BY <3>4, PosIs
    <3> HIDE DEF z, i, start, offset, id, size, B
    <3>6. /\ z.start \in Nat /\ z.len \in Nat /\ z.offset \in Nat /\ Pos(i) + z.offset = Begins(doc) + z.start
          /\ z.start + z.len <= size /\ (z.start + z.len = size \/ z.offset + z.len = B)
      BY <3>2 DEF IsPart, PartSet, size, B
    <3>7. start \in Nat /\ start <= size /\ offset \in Nat /\ offset < B
      BY <1>2, <3>3, <3>6
    <3>8. ASSUME start < size PROVE Pos(id) + offset = Begins(doc) + start
      <4>1. z.offset + z.len = B
        BY <1>2, <3>3, <3>6, <3>8
      <4>2. Pos(i) + B = Begins(doc) + z.start + z.len
        BY <1>2, <3>5, <3>6, <4>1
      <4>3. Pos(id) = Begins(doc) + z.start + z.len
        BY <3>4, <3>5, <4>2
      <4>4. Pos(id) + 0 = Begins(doc) + (z.start + z.len)
        BY <1>2, <3>6, <4>3, ShiftedSum
      <4> QED BY <3>3, <4>4
    <3> QED BY <3>7, <3>8
  <2> QED BY <2>1, <2>2
<1>6. CASE start = size
  <2>1. next = parts
    BY <1>1, <1>6
  <2> HIDE DEF next
  <2> QED BY <1>4, <1>6, <2>1 DEF next
<1>7. CASE start # size
  <2>1. start < size
    <3> HIDE DEF start, size
    <3> QED BY <1>2, <1>5, <1>7
  <2>2. id \in DOMAIN blocks /\ IsPart(doc, blocks, x)
    <3> HIDE DEF start, offset, id
    <3> QED BY <1>3, <1>5, <2>1, FurtherIsPart
  <2>3. next = Append(parts, x) /\ x.id = id /\ x.start = start /\ x.offset = offset
    BY <1>1, <1>7, <2>2
  <2>4. x \in PartSet
    BY <2>2 DEF IsPart
  <2> HIDE DEF x, len
  <2>5. next \in Seq(PartSet) /\ Len(next) = l + 1 /\ next[l + 1] = x /\ \A j \in 1..l : next[j] = parts[j]
    BY <2>3, <2>4
  <2>5a. offset = IF l = 0 THEN doc.slice.offset ELSE 0
    BY <1>3
  <2> HIDE DEF next, l, start, offset
  <2>6. \A n \in 0..l : Reached(next, n) = Reached(parts, n)
    <3>1. \A n \in 0..l : n # 0 => n \in 1..l
      BY <1>3
    <3> QED BY <2>5, <3>1 DEF Reached
  <2>7. ASSUME NEW j \in 1..(l + 1)
        PROVE  /\ IsPart(doc, blocks, next[j])
               /\ next[j].id = doc.slice.first + (j - 1) /\ next[j].start = Reached(next, j - 1)
               /\ next[j].offset = IF j = 1 THEN doc.slice.offset ELSE 0
    <3>1. CASE j = l + 1
      <4>1. j - 1 = l /\ j - 1 \in 0..l /\ (j = 1 <=> l = 0)
        BY <1>3, <3>1
      <4>2. next[j] = x
        BY <2>5, <3>1
      <4>3. x.start = Reached(next, j - 1)
        BY <1>4, <2>3, <2>6, <4>1
      <4>4. x.id = doc.slice.first + (j - 1)
        BY <2>3, <4>1
      <4>5. x.offset = IF j = 1 THEN doc.slice.offset ELSE 0
        BY <2>3, <2>5a, <4>1
      <4> QED BY <2>2, <4>2, <4>3, <4>4, <4>5
    <3>2. CASE j # l + 1
      <4>1. j \in 1..l /\ j - 1 \in 0..l
        BY <1>3, <3>2
      <4>2. next[j] = parts[j] /\ Reached(next, j - 1) = Reached(parts, j - 1)
        BY <2>5, <2>6, <4>1
      <4>3. /\ IsPart(doc, blocks, parts[j])
            /\ parts[j].id = doc.slice.first + (j - 1) /\ parts[j].start = Reached(parts, j - 1)
            /\ parts[j].offset = IF j = 1 THEN doc.slice.offset ELSE 0
        BY <4>1 DEF ArePartsOf, l
      <4> QED BY <4>2, <4>3
    <3> QED BY <3>1, <3>2
  <2>8. ArePartsOf(doc, blocks, next)
    BY <2>5, <2>7 DEF ArePartsOf
  <2> QED BY <1>4, <1>7, <2>5, <2>8 DEF next, l, size
<1> QED BY <1>6, <1>7

\* The loop over the blocks of a document.
Parts(slice, size, blocks, f) ==
    f = [n \in 0..Len(blocks) |-> IF n = 0 THEN <<>> ELSE FurtherParts(f[n - 1], slice, size, blocks)]

LEMMA PartsAre ==
    ASSUME NEW blocks \in Seq(PackBlocksSet), NEW s, Held(blocks, s), NEW doc \in Docs, Lies(doc, s)
    PROVE  \E f : /\ DocumentBlocks(doc.slice, Len(doc.bytes), blocks) = f[Len(blocks)] /\ f[0] = <<>>
                  /\ \A n \in 1..Len(blocks) : f[n] = FurtherParts(f[n - 1], doc.slice, Len(doc.bytes), blocks)
<1> DEFINE l == Len(blocks)
           slice == doc.slice
           size == Len(doc.bytes)
           V == {ps \in Seq(PartSet) : ArePartsOf(doc, blocks, ps)}
           G == [x \in (1..l) \X V |-> FurtherParts(x[2], slice, size, blocks)]
           at == CHOOSE f : Parts(slice, size, blocks, f)
<1>0. l \in Nat /\ <<>> \in V
  <2>1. ArePartsOf(doc, blocks, <<>>)
    BY DEF ArePartsOf
  <2> QED BY <2>1
<1>1. G \in [(1..l) \X V -> V] /\ \A n \in 1..l, v \in V : G[<<n, v>>] = FurtherParts(v, slice, size, blocks)
  <2>1. ASSUME NEW x \in (1..l) \X V PROVE FurtherParts(x[2], slice, size, blocks) \in V
    <3>1. x[2] \in Seq(PartSet) /\ ArePartsOf(doc, blocks, x[2])
      OBVIOUS
    <3> QED BY <3>1, FurtherIs
  <2> HIDE DEF V
  <2> QED BY <2>1
<1>2. PICK f : Solution(V, <<>>, l, G, f)
  <2> HIDE DEF V, G
  <2> QED BY <1>0, <1>1, Recursion
<1>3. Parts(slice, size, blocks, f)
  <2> DEFINE E(n) == IF n = 0 THEN <<>> ELSE FurtherParts(f[n - 1], slice, size, blocks)
  <2>1. f \in [0..l -> V] /\ f[0] = <<>> /\ \A n \in 1..l : f[n] = G[<<n, f[n - 1]>>]
    BY <1>2 DEF Solution
  <2>2. ASSUME NEW n \in 0..l PROVE f[n] = E(n)
    <3>1. CASE n = 0
      BY <2>1, <3>1
    <3>2. CASE n # 0
      <4>1. n \in 1..l /\ n - 1 \in 0..l
        BY <1>0, <3>2
      <4>2. f[n - 1] \in V
        BY <2>1, <4>1
      <4> HIDE DEF V, G, l
      <4> QED BY <1>1, <2>1, <3>2, <4>1, <4>2
    <3> QED BY <3>1, <3>2
  <2> HIDE DEF E
  <2>3. f = [n \in 0..l |-> E(n)]
    BY <2>1, <2>2
  <2> QED BY <2>3 DEF Parts, E
<1>4. Parts(slice, size, blocks, at)
  BY <1>3
<1>5. DocumentBlocks(slice, size, blocks) = at[l]
  BY DEF DocumentBlocks, Parts
<1> HIDE DEF at
<1> DEFINE E(n) == IF n = 0 THEN <<>> ELSE FurtherParts(at[n - 1], slice, size, blocks)
<1>6. at = [n \in 0..l |-> E(n)]
  BY <1>4 DEF Parts
<1> HIDE DEF E
<1>7. \A n \in 0..l : at[n] = E(n)
  BY <1>6
<1>8. at[0] = <<>>
  <2>1. 0 \in 0..l
    BY <1>0
  <2> QED BY <1>7, <2>1 DEF E
<1>9. ASSUME NEW n \in 1..l PROVE at[n] = FurtherParts(at[n - 1], slice, size, blocks)
  <2>1. n \in 0..l /\ n # 0
    BY <1>0
  <2> QED BY <1>7, <2>1 DEF E
<1> QED BY <1>5, <1>8, <1>9

\* When there are as many parts as blocks, the document has ended.
LEMMA PartsEnd ==
    ASSUME NEW blocks \in Seq(PackBlocksSet), NEW s, Held(blocks, s), NEW doc \in Docs, Lies(doc, s),
           NEW parts \in Seq(PartSet), ArePartsOf(doc, blocks, parts), Len(parts) = Len(blocks)
    PROVE  Reached(parts, Len(parts)) = Len(doc.bytes)
<1> DEFINE l == Len(blocks)
           size == Len(doc.bytes)
           B == BlockBytes
           b == Begins(doc)
<1>1. l \in Nat /\ l + 1 \in Nat \ {0} /\ Len(s) \in Nat /\ Len(s) <= Pos(l + 1)
  BY DEF Held
<1>2. size \in Nat /\ doc.slice.first \in Nat \ {0} /\ b \in Nat /\ B \in Nat \ {0}
  BY DocIs
<1>3. b + size <= Len(s)
  BY DEF Lies, Begins
<1>4. CASE l = 0
  <2>1. Pos(l + 1) = 0
    <3>1. l + 1 = 1
      BY <1>4
    <3> QED BY <3>1, PosIs
  <2>2. size = 0
    <3> HIDE DEF l, size, b
    <3> QED BY <1>1, <1>2, <1>3, <2>1
  <2> QED BY <1>4, <2>2 DEF Reached
<1>5. CASE l # 0
  <2> DEFINE z == parts[l]
  <2>1. l \in 1..Len(parts)
    BY <1>1, <1>5
  <2>2. IsPart(doc, blocks, z) /\ z.id = doc.slice.first + (l - 1)
    BY <2>1 DEF ArePartsOf
  <2>3. Reached(parts, Len(parts)) = z.start + z.len
    BY <1>5 DEF Reached
  <2> HIDE DEF z, l, size, b, B
  <2>4. /\ z.id \in 1..l /\ z.start \in Nat /\ z.len \in Nat /\ z.offset \in Nat
        /\ Pos(z.id) + z.offset = b + z.start
        /\ z.start + z.len <= size /\ (z.start + z.len = size \/ z.offset + z.len = B)
    BY <2>2 DEF IsPart, PartSet, size, B, l, b
  <2>5. z.id = l
    <3> DEFINE f == doc.slice.first
    <3>1. z.id \in 1..l /\ z.id = f + (l - 1) /\ f \in Nat \ {0} /\ l \in Nat
      BY <1>1, <1>2, <2>2, <2>4
    <3> HIDE DEF f
    <3> QED BY <3>1, LastOfRange
  <2>6. Pos(l) \in Nat /\ Pos(l + 1) = Pos(l) + B
    <3>1. l \in Nat \ {0}
      BY <1>1, <1>5
    <3> QED BY <3>1, PosIs DEF B
  <2>7. z.start + z.len = size
    <3> DEFINE P == Pos(l)
               Q == Pos(l + 1)
               n == Len(s)
    <3>1. P + z.offset = b + z.start /\ P \in Nat /\ Q = P + B /\ n \in Nat /\ n <= Q /\ b + size <= n
      BY <1>1, <1>3, <2>4, <2>5, <2>6
    <3> HIDE DEF P, Q, n
    <3>2. SUFFICES ASSUME z.offset + z.len = B PROVE z.start + z.len >= size
      BY <1>2, <2>4
    <3> QED BY <1>2, <2>4, <3>1, <3>2
  <2> QED BY <2>3, <2>7 DEF size
<1> QED BY <1>4, <1>5

\* The parts of a document are all of it.
LEMMA DocumentBlocksIs ==
    ASSUME NEW blocks \in Seq(PackBlocksSet), NEW s, Held(blocks, s), NEW doc \in Docs, Lies(doc, s)
    PROVE  LET parts == DocumentBlocks(doc.slice, Len(doc.bytes), blocks) IN
           /\ parts \in Seq(PartSet) /\ ArePartsOf(doc, blocks, parts)
           /\ Reached(parts, Len(parts)) = Len(doc.bytes)
<1> DEFINE l == Len(blocks)
           size == Len(doc.bytes)
<1>0. l \in Nat
  OBVIOUS
<1>1. PICK f : /\ DocumentBlocks(doc.slice, size, blocks) = f[l] /\ f[0] = <<>>
               /\ \A n \in 1..l : f[n] = FurtherParts(f[n - 1], doc.slice, size, blocks)
  BY PartsAre
<1> DEFINE P(n) == /\ f[n] \in Seq(PartSet) /\ ArePartsOf(doc, blocks, f[n])
                   /\ Reached(f[n], Len(f[n])) = size \/ Len(f[n]) = n
           S == {n \in Nat : n <= l => P(n)}
<1>2. 0 \in S
  <2>1. P(0)
    BY <1>1 DEF ArePartsOf
  <2> HIDE DEF P
  <2> QED BY <2>1
<1>3. ASSUME NEW n \in S PROVE n + 1 \in S
  <2>1. n \in Nat /\ n + 1 \in Nat
    OBVIOUS
  <2>2. SUFFICES ASSUME n + 1 <= l PROVE P(n + 1)
    BY <2>1
  <2> DEFINE j == n + 1
             g == f[n]
             h == f[j]
  <2>3. j \in 1..l /\ j - 1 = n /\ n <= l
    BY <1>0, <2>1, <2>2
  <2>4. P(n)
    <3> HIDE DEF P
    <3> QED BY <1>3, <2>3
  <2>5. h = FurtherParts(g, doc.slice, size, blocks)
    <3> HIDE DEF j
    <3> QED BY <1>1, <2>3
  <2>6. g \in Seq(PartSet) /\ ArePartsOf(doc, blocks, g) /\ (Reached(g, Len(g)) = size \/ Len(g) = n)
    BY <2>4
  <2> HIDE DEF g, h
  <2>7. /\ h \in Seq(PartSet) /\ ArePartsOf(doc, blocks, h)
        /\ \/ h = g /\ Reached(g, Len(g)) = size
           \/ Len(h) = Len(g) + 1 /\ Reached(g, Len(g)) # size
    BY <2>5, <2>6, FurtherIs
  <2>8. Reached(h, Len(h)) = size \/ Len(h) = j
    BY <2>6, <2>7
  <2> QED BY <2>7, <2>8 DEF h, g
<1>4. S = Nat
  <2>1. S \in SUBSET Nat
    OBVIOUS
  <2> HIDE DEF S
  <2> QED BY <1>2, <1>3, <2>1, SetInduction
<1>5. P(l)
  <2>1. l <= l
    BY <1>0
  <2> HIDE DEF P
  <2> QED BY <1>0, <1>4, <2>1
<1>6. Reached(f[l], Len(f[l])) = size
  BY <1>5, PartsEnd
<1> QED BY <1>1, <1>5, <1>6

-----------------------------------------------------------------------------
(***************************************************************************)
(* Reading a document.                                                     *)
(***************************************************************************)

\* Equal stretches of two sequences are equal sequences.
SameFrom(u, m, v, n, len) == \A i \in 1..len : u[m + i] = v[n + i]

LEMMA SameStretch ==
    ASSUME NEW u \in Seq(Byte), NEW v \in Seq(Byte), NEW m \in Nat, NEW n \in Nat, NEW len \in Nat,
           m + len <= Len(u), n + len <= Len(v), SameFrom(u, m, v, n, len)
    PROVE  SubSeq(u, m + 1, m + len) = SubSeq(v, n + 1, n + len)
<1> DEFINE a == SubSeq(u, m + 1, m + len)
           b == SubSeq(v, n + 1, n + len)
<1>1. a \in Seq(Byte) /\ Len(a) = len /\ \A i \in 1..len : a[i] = u[m + i]
  OBVIOUS
<1>2. b \in Seq(Byte) /\ Len(b) = len /\ \A i \in 1..len : b[i] = v[n + i]
  OBVIOUS
<1> HIDE DEF a, b
<1>3. Len(a) = Len(b) /\ \A i \in 1..Len(a) : a[i] = b[i]
  BY <1>1, <1>2 DEF SameFrom
<1>4. a = b
  BY <1>1, <1>2, <1>3, SeqEqual
<1> QED BY <1>4 DEF a, b

LEMMA JoinStretches ==
    ASSUME NEW X, NEW u \in Seq(X), NEW m \in Nat, NEW len \in Nat, m + len <= Len(u)
    PROVE  SubSeq(u, 1, m) \o SubSeq(u, m + 1, m + len) = SubSeq(u, 1, m + len)
<1> DEFINE a == SubSeq(u, 1, m)
           b == SubSeq(u, m + 1, m + len)
           c == SubSeq(u, 1, m + len)
<1>1. a \in Seq(X) /\ Len(a) = m /\ \A i \in 1..m : a[i] = u[i]
  OBVIOUS
<1>2. b \in Seq(X) /\ Len(b) = len /\ \A i \in 1..len : b[i] = u[m + i]
  OBVIOUS
<1>3. c \in Seq(X) /\ Len(c) = m + len /\ \A i \in 1..(m + len) : c[i] = u[i]
  OBVIOUS
<1> HIDE DEF a, b, c
<1> DEFINE d == a \o b
<1>4. d \in Seq(X) /\ Len(d) = m + len
  BY <1>1, <1>2, ConcatProperties
<1>5. ASSUME NEW i \in 1..(m + len) PROVE d[i] = u[i]
  <2>1. CASE i <= m
    <3>1. i \in 1..m
      BY <2>1
    <3>2. d[i] = a[i]
      BY <1>1, <1>2, <2>1, ConcatProperties
    <3> QED BY <1>1, <3>1, <3>2
  <2>2. CASE i > m
    <3> DEFINE j == i - m
    <3>1. j \in 1..len /\ m + j = i
      BY <2>2
    <3>2. d[i] = b[j]
      BY <1>1, <1>2, <2>2, ConcatProperties
    <3> HIDE DEF d, j
    <3> QED BY <1>2, <3>1, <3>2
  <2>3. i <= m \/ i > m
    OBVIOUS
  <2> HIDE DEF d
  <2> QED BY <2>1, <2>2, <2>3
<1> HIDE DEF d
<1>6. d = c
  BY <1>3, <1>4, <1>5, SeqEqual
<1> QED BY <1>6 DEF a, b, c, d

\* The bytes of a part are those of the document.
LEMMA PartBytes ==
    ASSUME NEW blocks \in Seq(PackBlocksSet), NEW s, Held(blocks, s), NEW doc \in Docs, Lies(doc, s),
           NEW x, IsPart(doc, blocks, x)
    PROVE  /\ SubSeq(blocks[x.id].bytes, x.offset + 1, x.offset + x.len)
                = SubSeq(doc.bytes, x.start + 1, x.start + x.len)
           /\ SubSeq(doc.bytes, 1, x.start) \o SubSeq(doc.bytes, x.start + 1, x.start + x.len)
                = SubSeq(doc.bytes, 1, x.start + x.len)
<1> DEFINE from == blocks[x.id].bytes
           bytes == doc.bytes
           b == Begins(doc)
           P == Pos(x.id)
           o == x.offset
           st == x.start
           len == x.len
<1>1. /\ x.id \in 1..Len(blocks) /\ o \in Nat /\ st \in Nat /\ len \in Nat /\ P + o = b + st
      /\ o + len <= Len(from) /\ st + len <= Len(bytes)
  BY DEF IsPart, PartSet
<1>2. from \in Seq(Byte) /\ bytes \in Seq(Byte) /\ b \in Nat /\ P \in Nat
  <2>1. blocks[x.id] \in PackBlocksSet /\ x.id \in Nat \ {0}
    BY <1>1
  <2> QED BY <2>1, PosIs, DocIs DEF PackBlocksSet
<1>3. \A i \in 1..Len(from) : from[i] = s[P + i]
  BY <1>1 DEF Held, HoldsBlock, LiesAt
<1>4. \A i \in 1..Len(bytes) : bytes[i] = s[b + i]
  BY DEF Lies, Begins
<1> HIDE DEF from, bytes, b, P, o, st, len
<1>5. ASSUME NEW i \in 1..len PROVE from[o + i] = bytes[st + i]
  <2>1. o + i \in 1..Len(from) /\ st + i \in 1..Len(bytes) /\ P + (o + i) = b + (st + i)
    BY <1>1, <1>2
  <2> QED BY <1>3, <1>4, <2>1
<1>6. SubSeq(from, o + 1, o + len) = SubSeq(bytes, st + 1, st + len)
  <2>1. o \in Nat /\ st \in Nat /\ len \in Nat /\ o + len <= Len(from) /\ st + len <= Len(bytes)
    BY <1>1
  <2>2. SameFrom(from, o, bytes, st, len)
    BY <1>5 DEF SameFrom
  <2> QED BY <1>2, <2>1, <2>2, SameStretch
<1>7. SubSeq(bytes, 1, st) \o SubSeq(bytes, st + 1, st + len) = SubSeq(bytes, 1, st + len)
  BY <1>1, <1>2, JoinStretches
<1> QED BY <1>6, <1>7 DEF from, bytes, o, st, len

\* What read_range and fetch_large cut out of a block.
LEMMA PartCut ==
    ASSUME NEW doc \in Docs, NEW blocks, NEW x, IsPart(doc, blocks, x), NEW from
    PROVE  /\ Overlaps(x, 0, Len(doc.bytes))
           /\ CutOf(x, from, 0, Len(doc.bytes)) = SubSeq(from, x.offset + 1, x.offset + x.len)
<1> DEFINE size == Len(doc.bytes)
           o == x.offset
           st == x.start
           len == x.len
<1>1. o \in Nat /\ st \in Nat /\ len \in Nat /\ len # 0 /\ st + len <= size /\ size \in Nat
  BY DocIs DEF IsPart, PartSet
<1> HIDE DEF size, o, st, len
<1>2. Max({0 - st, 0}) = 0
  <2> DEFINE n == 0 - st
  <2>1. n \in Int /\ n <= 0 /\ 0 \in Int
    BY <1>1
  <2> HIDE DEF n
  <2>2. Max({n, 0}) \in {n, 0} /\ Max({n, 0}) >= 0
    BY <2>1, MaxOfTwo
  <2>3. Max({n, 0}) = 0
    BY <2>1, <2>2
  <2> QED BY <2>3 DEF n
<1>3. Min({size - st, len}) = len
  <2> DEFINE n == size - st
  <2>1. n \in Int /\ len <= n /\ len \in Int
    BY <1>1
  <2> HIDE DEF n
  <2>2. Min({n, len}) \in {n, len} /\ Min({n, len}) <= len
    BY <2>1, MinOfTwo
  <2>3. Min({n, len}) = len
    BY <2>1, <2>2
  <2> QED BY <2>3 DEF n
<1>4. o + 0 + 1 = o + 1
  BY <1>1
<1>5. CutOf(x, from, 0, size) = SubSeq(from, o + 1, o + len)
  BY <1>2, <1>3, <1>4 DEF CutOf, o, st, len
<1>6. st + len > 0 /\ st < size
  BY <1>1
<1> QED BY <1>5, <1>6 DEF Overlaps, o, st, len, size

\* The loop of read_range.
ReadPart(bytes, p, blocks, lo, hi) ==
    IF Overlaps(p, lo, hi) THEN bytes \o CutOf(p, blocks[p.id].bytes, lo, hi) ELSE bytes
Reads(parts, blocks, lo, hi, f) ==
    f = [n \in 0..Len(parts) |-> IF n = 0 THEN <<>> ELSE ReadPart(f[n - 1], parts[n], blocks, lo, hi)]

\* A part continues the document.
LEMMA ReadPartIs ==
    ASSUME NEW blocks \in Seq(PackBlocksSet), NEW s, Held(blocks, s), NEW doc \in Docs, Lies(doc, s),
           NEW x, IsPart(doc, blocks, x), NEW bytes
    PROVE  /\ ReadPart(bytes, x, blocks, 0, Len(doc.bytes)) = bytes \o SubSeq(doc.bytes, x.start + 1, x.start + x.len)
           /\ SubSeq(doc.bytes, x.start + 1, x.start + x.len) \in Seq(Byte)
<1>1. /\ Overlaps(x, 0, Len(doc.bytes))
      /\ CutOf(x, blocks[x.id].bytes, 0, Len(doc.bytes)) = SubSeq(blocks[x.id].bytes, x.offset + 1, x.offset + x.len)
  BY PartCut
<1>2. SubSeq(blocks[x.id].bytes, x.offset + 1, x.offset + x.len) = SubSeq(doc.bytes, x.start + 1, x.start + x.len)
  BY PartBytes
<1>3. SubSeq(doc.bytes, x.start + 1, x.start + x.len) \in Seq(Byte)
  <2> DEFINE bs == doc.bytes
             m == x.start + 1
             n == x.start + x.len
  <2>1. bs \in Seq(Byte) /\ m \in Nat /\ n \in Nat /\ m >= 1 /\ n <= Len(bs)
    BY DocIs DEF IsPart, PartSet
  <2> HIDE DEF bs, m, n
  <2>2. SubSeq(bs, m, n) \in Seq(Byte)
    BY <2>1
  <2> QED BY <2>2 DEF bs, m, n
<1> QED BY <1>1, <1>2, <1>3 DEF ReadPart

LEMMA ReadsAre ==
    ASSUME NEW blocks \in Seq(PackBlocksSet), NEW s, Held(blocks, s), NEW doc \in Docs, Lies(doc, s),
           NEW parts \in Seq(PartSet), ArePartsOf(doc, blocks, parts)
    PROVE  \E f : /\ ReadRange(parts, blocks, 0, Len(doc.bytes)) = f[Len(parts)] /\ f[0] = <<>>
                  /\ \A n \in 1..Len(parts) : f[n] = ReadPart(f[n - 1], parts[n], blocks, 0, Len(doc.bytes))
<1> DEFINE l == Len(parts)
           size == Len(doc.bytes)
           V == Seq(Byte)
           G == [x \in (1..l) \X V |-> ReadPart(x[2], parts[x[1]], blocks, 0, size)]
           at == CHOOSE f : Reads(parts, blocks, 0, size, f)
<1>0. l \in Nat /\ <<>> \in V
  OBVIOUS
<1>1. G \in [(1..l) \X V -> V] /\ \A n \in 1..l, v \in V : G[<<n, v>>] = ReadPart(v, parts[n], blocks, 0, size)
  <2>1. ASSUME NEW x \in (1..l) \X V PROVE ReadPart(x[2], parts[x[1]], blocks, 0, size) \in V
    <3> DEFINE p == parts[x[1]]
               v == x[2]
    <3>1. v \in Seq(Byte) /\ IsPart(doc, blocks, p)
      BY DEF ArePartsOf
    <3> HIDE DEF p, v
    <3>2. /\ ReadPart(v, p, blocks, 0, size) = v \o SubSeq(doc.bytes, p.start + 1, p.start + p.len)
          /\ SubSeq(doc.bytes, p.start + 1, p.start + p.len) \in Seq(Byte)
      BY <3>1, ReadPartIs
    <3>3. v \o SubSeq(doc.bytes, p.start + 1, p.start + p.len) \in Seq(Byte)
      BY <3>1, <3>2, ConcatProperties
    <3> QED BY <3>2, <3>3 DEF p, v
  <2> HIDE DEF V
  <2> QED BY <2>1
<1>2. PICK f : Solution(V, <<>>, l, G, f)
  <2> HIDE DEF V, G
  <2> QED BY <1>0, <1>1, Recursion
<1>3. Reads(parts, blocks, 0, size, f)
  <2> DEFINE E(n) == IF n = 0 THEN <<>> ELSE ReadPart(f[n - 1], parts[n], blocks, 0, size)
  <2>1. f \in [0..l -> V] /\ f[0] = <<>> /\ \A n \in 1..l : f[n] = G[<<n, f[n - 1]>>]
    BY <1>2 DEF Solution
  <2>2. ASSUME NEW n \in 0..l PROVE f[n] = E(n)
    <3>1. CASE n = 0
      BY <2>1, <3>1
    <3>2. CASE n # 0
      <4>1. n \in 1..l /\ n - 1 \in 0..l
        BY <1>0, <3>2
      <4>2. f[n - 1] \in V
        BY <2>1, <4>1
      <4> HIDE DEF V, G, l
      <4> QED BY <1>1, <2>1, <3>2, <4>1, <4>2
    <3> QED BY <3>1, <3>2
  <2> HIDE DEF E
  <2>3. f = [n \in 0..l |-> E(n)]
    BY <2>1, <2>2
  <2> QED BY <2>3 DEF Reads, E
<1>4. Reads(parts, blocks, 0, size, at)
  BY <1>3
<1>5. ReadRange(parts, blocks, 0, size) = at[l]
  BY DEF ReadRange, Loop, Reads, ReadPart
<1> HIDE DEF at
<1> DEFINE E(n) == IF n = 0 THEN <<>> ELSE ReadPart(at[n - 1], parts[n], blocks, 0, size)
<1>6. at = [n \in 0..l |-> E(n)]
  BY <1>4 DEF Reads
<1> HIDE DEF E
<1>7. \A n \in 0..l : at[n] = E(n)
  BY <1>6
<1>8. at[0] = <<>>
  <2>1. 0 \in 0..l
    BY <1>0
  <2> QED BY <1>7, <2>1 DEF E
<1>9. ASSUME NEW n \in 1..l PROVE at[n] = ReadPart(at[n - 1], parts[n], blocks, 0, size)
  <2>1. n \in 0..l /\ n # 0
    BY <1>0
  <2> QED BY <1>7, <2>1 DEF E
<1> QED BY <1>5, <1>8, <1>9

\* How far the parts reach.
LEMMA ReachedIs ==
    ASSUME NEW blocks, NEW doc \in Docs, NEW parts, Len(parts) \in Nat, ArePartsOf(doc, blocks, parts), NEW n \in 1..Len(parts)
    PROVE  /\ IsPart(doc, blocks, parts[n]) /\ parts[n].start = Reached(parts, n - 1)
           /\ Reached(parts, n) = parts[n].start + parts[n].len
           /\ parts[n].offset = IF n = 1 THEN doc.slice.offset ELSE 0
<1>1. n # 0
  OBVIOUS
<1> QED BY <1>1 DEF ArePartsOf, Reached

\* read_range over the whole document is the document.
LEMMA ReadsWholeDocument ==
    ASSUME NEW blocks \in Seq(PackBlocksSet), NEW s, Held(blocks, s), NEW doc \in Docs, Lies(doc, s)
    PROVE  ReadRange(DocumentBlocks(doc.slice, Len(doc.bytes), blocks), blocks, 0, Len(doc.bytes)) = doc.bytes
<1> DEFINE parts == DocumentBlocks(doc.slice, Len(doc.bytes), blocks)
           size == Len(doc.bytes)
           l == Len(parts)
           bytes == doc.bytes
           R(n) == Reached(parts, n)
<1>0. parts \in Seq(PartSet) /\ ArePartsOf(doc, blocks, parts) /\ R(l) = size /\ bytes \in Seq(Byte)
  BY DocumentBlocksIs, DocIs
<1> HIDE DEF parts
<1>1. l \in Nat
  BY <1>0
<1>2. PICK f : /\ ReadRange(parts, blocks, 0, size) = f[l] /\ f[0] = <<>>
               /\ \A n \in 1..l : f[n] = ReadPart(f[n - 1], parts[n], blocks, 0, size)
  BY <1>0, ReadsAre
<1> DEFINE P(n) == f[n] = SubSeq(bytes, 1, R(n))
           S == {n \in Nat : n <= l => P(n)}
<1>3. 0 \in S
  <2>1. R(0) = 0
    BY DEF Reached
  <2>2. SubSeq(bytes, 1, 0) = <<>>
    BY <1>0
  <2> QED BY <1>2, <2>1, <2>2
<1>4. ASSUME NEW n \in S PROVE n + 1 \in S
  <2>1. n \in Nat /\ n + 1 \in Nat
    OBVIOUS
  <2>2. SUFFICES ASSUME n + 1 <= l PROVE P(n + 1)
    BY <2>1
  <2> DEFINE j == n + 1
             x == parts[j]
  <2>3. j \in 1..l /\ j - 1 = n /\ n <= l
    BY <1>1, <2>1, <2>2
  <2>4. P(n)
    <3> HIDE DEF P
    <3> QED BY <1>4, <2>3
  <2> HIDE DEF j
  <2>5. IsPart(doc, blocks, x) /\ x.start = R(n) /\ R(j) = x.start + x.len
    BY <1>0, <1>1, <2>3, ReachedIs
  <2>6. f[j] = ReadPart(f[n], x, blocks, 0, size)
    BY <1>2, <2>3
  <2> HIDE DEF x, bytes, size
  <2>7. f[j] = SubSeq(bytes, 1, x.start) \o SubSeq(bytes, x.start + 1, x.start + x.len)
    BY <2>4, <2>5, <2>6, ReadPartIs DEF bytes, size
  <2>8. f[j] = SubSeq(bytes, 1, x.start + x.len)
    BY <2>5, <2>7, PartBytes DEF bytes
  <2> QED BY <2>5, <2>8 DEF j
<1>5. S = Nat
  <2>1. S \in SUBSET Nat
    OBVIOUS
  <2> HIDE DEF S
  <2> QED BY <1>3, <1>4, <2>1, SetInduction
<1>6. P(l)
  <2>1. l <= l
    BY <1>1
  <2> HIDE DEF P
  <2> QED BY <1>1, <1>5, <2>1
<1>7. SubSeq(bytes, 1, size) = bytes
  BY <1>0
<1> QED BY <1>0, <1>2, <1>6, <1>7 DEF parts

-----------------------------------------------------------------------------
(***************************************************************************)
(* Runs and batches of blocks.                                             *)
(***************************************************************************)

RunSet == [pack : Nat, offset : Nat, len : Nat, ids : Seq(Nat)]
IdsOf(rs) == [i \in DOMAIN rs |-> rs[i].ids]

LEMMA IdsOfIs ==
    ASSUME NEW rs \in Seq(RunSet)
    PROVE  /\ IdsOf(rs) \in Seq(Seq(Nat)) /\ Len(IdsOf(rs)) = Len(rs)
           /\ \A i \in 1..Len(rs) : IdsOf(rs)[i] = rs[i].ids
<1> DEFINE l == Len(rs)
           t == IdsOf(rs)
<1>0. l \in Nat /\ DOMAIN rs = 1..l /\ \A i \in 1..l : rs[i] \in RunSet
  OBVIOUS
<1>1. \A i \in 1..l : rs[i].ids \in Seq(Nat)
  <2> HIDE DEF l
  <2> QED BY <1>0 DEF RunSet
<1>2. t \in [1..l -> Seq(Nat)] /\ \A i \in 1..l : t[i] = rs[i].ids
  BY <1>0, <1>1 DEF IdsOf
<1> HIDE DEF l, t
<1>3. t \in Seq(Seq(Nat)) /\ Len(t) = l
  BY <1>0, <1>2
<1> QED BY <1>2, <1>3 DEF l, t

\* A block goes to the end of the runs.
LEMMA AddToRunsIs ==
    ASSUME NEW rs \in Seq(RunSet), NEW id \in Nat, NEW b \in PackBlocksSet
    PROVE  /\ AddToRuns(rs, id, b) \in Seq(RunSet)
           /\ FlattenSeq(IdsOf(AddToRuns(rs, id, b))) = Append(FlattenSeq(IdsOf(rs)), id)
           /\ FlattenSeq(IdsOf(rs)) \in Seq(Nat)
<1> DEFINE l == Len(rs)
           z == rs[l]
           c == /\ rs # <<>> /\ z.pack = b.pack
                /\ z.offset + z.len = b.offset /\ z.len + b.len <= RangeBytes
           new == [pack |-> b.pack, offset |-> b.offset, len |-> b.len, ids |-> <<id>>]
           y == [z EXCEPT !.len = z.len + b.len, !.ids = Append(z.ids, id)]
           t == AddToRuns(rs, id, b)
           S == Seq(Nat)
<1>1. t = IF c THEN [rs EXCEPT ![l] = y] ELSE Append(rs, new)
  BY DEF AddToRuns, Last
<1>2. l \in Nat /\ rs \in [1..l -> RunSet] /\ b.pack \in Nat /\ b.offset \in Nat /\ b.len \in Nat
  BY DEF PackBlocksSet
<1>3. IdsOf(rs) \in Seq(Seq(Nat)) /\ Len(IdsOf(rs)) = l /\ \A i \in 1..l : IdsOf(rs)[i] = rs[i].ids
  BY IdsOfIs
<1>4. FlattenSeq(IdsOf(rs)) \in Seq(Nat)
  <2>1. <<id>> \in Seq(Nat)
    OBVIOUS
  <2> QED BY <1>3, <2>1, FlattenAppend
<1>5. CASE ~c
  <2>1. new \in RunSet /\ new.ids = <<id>>
    BY <1>2 DEF RunSet
  <2>2. t = Append(rs, new)
    BY <1>1, <1>5
  <2> HIDE DEF new, c
  <2>3. t \in Seq(RunSet) /\ Len(t) = l + 1 /\ t[l + 1] = new /\ \A i \in 1..l : t[i] = rs[i]
    BY <2>1, <2>2
  <2> HIDE DEF t, l
  <2>4. IdsOf(t) \in Seq(Seq(Nat)) /\ Len(IdsOf(t)) = l + 1 /\ \A i \in 1..(l + 1) : IdsOf(t)[i] = t[i].ids
    BY <2>3, IdsOfIs
  <2> DEFINE u == IdsOf(rs)
             v == IdsOf(t)
             w == Append(u, <<id>>)
  <2>5. v \in Seq(S) /\ Len(v) = l + 1 /\ v[l + 1] = <<id>> /\ \A i \in 1..l : v[i] = u[i]
    <3>1. l + 1 \in 1..(l + 1) /\ \A i \in 1..l : i \in 1..(l + 1)
      BY <1>2
    <3> QED BY <1>3, <2>1, <2>3, <2>4, <3>1
  <2>6. u \in Seq(S) /\ Len(u) = l
    BY <1>3
  <2>7. <<id>> \in S
    OBVIOUS
  <2> HIDE DEF u, v, S
  <2>8. w \in Seq(S) /\ Len(w) = l + 1 /\ w[l + 1] = <<id>> /\ \A i \in 1..l : w[i] = u[i]
    BY <2>6, <2>7
  <2>9. v = w
    <3> HIDE DEF w
    <3>1. ASSUME NEW i \in 1..(l + 1) PROVE v[i] = w[i]
      <4>1. i \in 1..l \/ i = l + 1
        BY <1>2
      <4> QED BY <2>5, <2>8, <4>1
    <3> QED BY <2>5, <2>8, <3>1, SeqEqual
  <2>10. FlattenSeq(v) = FlattenSeq(u) \o <<id>>
    BY <2>6, <2>7, <2>9, FlattenAppend DEF S
  <2>11. FlattenSeq(u) \o <<id>> = Append(FlattenSeq(u), id)
    BY <1>4 DEF u
  <2>12. t \in Seq(RunSet) /\ FlattenSeq(IdsOf(t)) = Append(FlattenSeq(IdsOf(rs)), id)
    BY <2>3, <2>10, <2>11 DEF u, v
  <2> QED BY <1>4, <2>12 DEF t
<1>6. CASE c
  <2>1. rs # <<>> /\ l \in 1..l /\ z \in RunSet
    BY <1>2, <1>6
  <2>2. y \in RunSet /\ y.ids = Append(z.ids, id)
    <3> HIDE DEF z
    <3>1. z.len \in Nat /\ z.ids \in Seq(Nat) /\ z.pack \in Nat /\ z.offset \in Nat
      BY <2>1 DEF RunSet
    <3>2. z.len + b.len \in Nat /\ Append(z.ids, id) \in Seq(Nat)
      BY <1>2, <3>1
    <3> QED BY <2>1, <3>2 DEF RunSet
  <2>3. t = [rs EXCEPT ![l] = y]
    BY <1>1, <1>6
  <2> HIDE DEF y, c
  <2>4. t \in [1..l -> RunSet] /\ t[l] = y /\ \A i \in 1..l : i # l => t[i] = rs[i]
    <3> HIDE DEF t, l
    <3> QED BY <1>2, <2>1, <2>2, <2>3
  <2> HIDE DEF t, l
  <2>5. t \in Seq(RunSet) /\ Len(t) = l
    BY <1>2, <2>4
  <2>6. IdsOf(t) \in Seq(Seq(Nat)) /\ Len(IdsOf(t)) = l /\ \A i \in 1..l : IdsOf(t)[i] = t[i].ids
    BY <2>5, IdsOfIs
  <2> DEFINE u == IdsOf(rs)
             v == IdsOf(t)
             e == Append(u[l], id)
             w == [u EXCEPT ![Len(u)] = Append(@, id)]
  <2>7. u \in Seq(Seq(Nat)) /\ Len(u) = l /\ u[l] = z.ids /\ u # <<>>
    BY <1>3, <2>1
  <2>8. v \in Seq(Seq(Nat)) /\ Len(v) = l /\ v[l] = e /\ \A i \in 1..l : i # l => v[i] = u[i]
    BY <1>3, <2>1, <2>2, <2>4, <2>6, <2>7
  <2> HIDE DEF u, v
  <2>9. w \in Seq(Seq(Nat)) /\ FlattenSeq(w) = Append(FlattenSeq(u), id)
    BY <2>7, FlattenLast
  <2>10. Len(w) = l /\ w[l] = e /\ \A i \in 1..l : i # l => w[i] = u[i]
    <3>1. u \in [1..l -> Seq(Nat)] /\ DOMAIN u = 1..l
      BY <2>7
    <3>2. w = [u EXCEPT ![l] = e]
      BY <2>7
    <3> HIDE DEF w, e
    <3>3. DOMAIN w = 1..l /\ w[l] = e /\ \A i \in 1..l : i # l => w[i] = u[i]
      BY <2>1, <3>1, <3>2
    <3> QED BY <1>2, <2>9, <3>3
  <2>11. v = w
    <3> HIDE DEF w, e
    <3>1. \A i \in 1..l : v[i] = w[i]
      BY <2>8, <2>10
    <3> DEFINE X == Seq(Nat)
    <3>2. v \in Seq(X) /\ w \in Seq(X) /\ Len(v) = Len(w) /\ \A i \in 1..Len(v) : v[i] = w[i]
      BY <2>8, <2>9, <2>10, <3>1
    <3> HIDE DEF X
    <3> QED BY <3>2, SeqEqual
  <2>12. t \in Seq(RunSet) /\ FlattenSeq(IdsOf(t)) = Append(FlattenSeq(IdsOf(rs)), id)
    <3>1. FlattenSeq(v) = Append(FlattenSeq(u), id)
      BY <2>9, <2>11
    <3> QED BY <2>5, <3>1 DEF u, v
  <2> QED BY <1>4, <2>12 DEF t
<1> QED BY <1>5, <1>6

\* The loop that makes the runs.
MakesRuns(ids, blocks, f) ==
    f = [n \in 0..Len(ids) |-> IF n = 0 THEN <<>> ELSE AddToRuns(f[n - 1], ids[n], blocks[ids[n]])]

LEMMA MakesRunsIs ==
    ASSUME NEW blocks \in Seq(PackBlocksSet), NEW ids \in Seq(1..Len(blocks))
    PROVE  \E f : /\ BlockRuns(ids, blocks) = f[Len(ids)] /\ f[0] = <<>>
                  /\ \A n \in 1..Len(ids) : f[n] = AddToRuns(f[n - 1], ids[n], blocks[ids[n]])
<1> DEFINE l == Len(ids)
           V == Seq(RunSet)
           G == [x \in (1..l) \X V |-> AddToRuns(x[2], ids[x[1]], blocks[ids[x[1]]])]
           at == CHOOSE f : MakesRuns(ids, blocks, f)
<1>0. l \in Nat /\ <<>> \in V /\ \A n \in 1..l : ids[n] \in Nat /\ blocks[ids[n]] \in PackBlocksSet
  OBVIOUS
<1>1. G \in [(1..l) \X V -> V] /\ \A n \in 1..l, v \in V : G[<<n, v>>] = AddToRuns(v, ids[n], blocks[ids[n]])
  <2>1. ASSUME NEW x \in (1..l) \X V PROVE AddToRuns(x[2], ids[x[1]], blocks[ids[x[1]]]) \in V
    <3>1. x[1] \in 1..l /\ x[2] \in Seq(RunSet)
      OBVIOUS
    <3> QED BY <1>0, <3>1, AddToRunsIs
  <2> HIDE DEF V
  <2> QED BY <2>1
<1>2. PICK f : Solution(V, <<>>, l, G, f)
  <2> HIDE DEF V, G
  <2> QED BY <1>0, <1>1, Recursion
<1>3. MakesRuns(ids, blocks, f)
  <2> DEFINE E(n) == IF n = 0 THEN <<>> ELSE AddToRuns(f[n - 1], ids[n], blocks[ids[n]])
  <2>1. f \in [0..l -> V] /\ f[0] = <<>> /\ \A n \in 1..l : f[n] = G[<<n, f[n - 1]>>]
    BY <1>2 DEF Solution
  <2>2. ASSUME NEW n \in 0..l PROVE f[n] = E(n)
    <3>1. CASE n = 0
      BY <2>1, <3>1
    <3>2. CASE n # 0
      <4>1. n \in 1..l /\ n - 1 \in 0..l
        BY <1>0, <3>2
      <4>2. f[n - 1] \in V
        BY <2>1, <4>1
      <4> HIDE DEF V, G, l
      <4> QED BY <1>1, <2>1, <3>2, <4>1, <4>2
    <3> QED BY <3>1, <3>2
  <2> HIDE DEF E
  <2>3. f = [n \in 0..l |-> E(n)]
    BY <2>1, <2>2
  <2> QED BY <2>3 DEF MakesRuns, E
<1>4. MakesRuns(ids, blocks, at)
  BY <1>3
<1>5. BlockRuns(ids, blocks) = at[l]
  BY DEF BlockRuns, Loop, MakesRuns
<1> HIDE DEF at
<1> DEFINE E(n) == IF n = 0 THEN <<>> ELSE AddToRuns(at[n - 1], ids[n], blocks[ids[n]])
<1>6. at = [n \in 0..l |-> E(n)]
  BY <1>4 DEF MakesRuns
<1> HIDE DEF E
<1>7. \A n \in 0..l : at[n] = E(n)
  BY <1>6
<1>8. at[0] = <<>>
  <2>1. 0 \in 0..l
    BY <1>0
  <2> QED BY <1>7, <2>1 DEF E
<1>9. ASSUME NEW n \in 1..l PROVE at[n] = AddToRuns(at[n - 1], ids[n], blocks[ids[n]])
  <2>1. n \in 0..l /\ n # 0
    BY <1>0
  <2> QED BY <1>7, <2>1 DEF E
<1> QED BY <1>5, <1>8, <1>9

\* The runs hold the blocks asked for, in their order.
LEMMA BlockRunsIs ==
    ASSUME NEW blocks \in Seq(PackBlocksSet), NEW ids \in Seq(1..Len(blocks))
    PROVE  BlockRuns(ids, blocks) \in Seq(RunSet) /\ FlattenSeq(IdsOf(BlockRuns(ids, blocks))) = ids
<1> DEFINE l == Len(ids)
<1>0. l \in Nat /\ ids \in Seq(Nat) /\ \A n \in 1..l : ids[n] \in Nat /\ blocks[ids[n]] \in PackBlocksSet
  OBVIOUS
<1>1. PICK f : /\ BlockRuns(ids, blocks) = f[l] /\ f[0] = <<>>
               /\ \A n \in 1..l : f[n] = AddToRuns(f[n - 1], ids[n], blocks[ids[n]])
  BY MakesRunsIs
<1> DEFINE P(n) == f[n] \in Seq(RunSet) /\ FlattenSeq(IdsOf(f[n])) = SubSeq(ids, 1, n)
           S == {n \in Nat : n <= l => P(n)}
<1>2. 0 \in S
  <2>1. f[0] \in Seq(RunSet) /\ Len(f[0]) = 0
    BY <1>1
  <2>2. IdsOf(f[0]) \in Seq(Seq(Nat)) /\ Len(IdsOf(f[0])) = 0
    BY <2>1, IdsOfIs
  <2>3. IdsOf(f[0]) = <<>> /\ FlattenSeq(IdsOf(f[0])) = IdsOf(f[0])
    BY <2>2 DEF FlattenSeq
  <2>4. SubSeq(ids, 1, 0) = <<>>
    BY <1>0
  <2>5. P(0)
    BY <2>1, <2>3, <2>4
  <2> HIDE DEF P
  <2> QED BY <2>5
<1>3. ASSUME NEW n \in S PROVE n + 1 \in S
  <2>1. n \in Nat /\ n + 1 \in Nat
    OBVIOUS
  <2>2. SUFFICES ASSUME n + 1 <= l PROVE P(n + 1)
    BY <2>1
  <2> DEFINE j == n + 1
  <2>3. j \in 1..l /\ j - 1 = n /\ n <= l
    BY <1>0, <2>1, <2>2
  <2>4. P(n)
    <3> HIDE DEF P
    <3> QED BY <1>3, <2>3
  <2>5. Append(SubSeq(ids, 1, n), ids[j]) = SubSeq(ids, 1, j)
    BY <1>0, <2>1, <2>3
  <2> HIDE DEF j
  <2>6. f[j] = AddToRuns(f[n], ids[j], blocks[ids[j]])
    BY <1>1, <2>3
  <2>7. f[j] \in Seq(RunSet) /\ FlattenSeq(IdsOf(f[j])) = Append(FlattenSeq(IdsOf(f[n])), ids[j])
    <3> DEFINE g == f[n]
               id == ids[j]
               b == blocks[id]
    <3>1. g \in Seq(RunSet) /\ id \in Nat /\ b \in PackBlocksSet /\ f[j] = AddToRuns(g, id, b)
      BY <1>0, <2>3, <2>4, <2>6
    <3> HIDE DEF g, id, b
    <3>2. f[j] \in Seq(RunSet) /\ FlattenSeq(IdsOf(f[j])) = Append(FlattenSeq(IdsOf(g)), id)
      BY <3>1, AddToRunsIs
    <3> QED BY <3>2 DEF g, id
  <2>8. P(j)
    BY <2>4, <2>5, <2>7
  <2> QED BY <2>8 DEF j
<1>4. S = Nat
  <2>1. S \in SUBSET Nat
    OBVIOUS
  <2> HIDE DEF S
  <2> QED BY <1>2, <1>3, <2>1, SetInduction
<1>5. P(l)
  <2>1. l <= l
    BY <1>0
  <2> HIDE DEF P
  <2> QED BY <1>0, <1>4, <2>1
<1>6. SubSeq(ids, 1, l) = ids
  BY <1>0
<1> QED BY <1>1, <1>5, <1>6

\* The loop that makes the batches.
AddToBatches(acc, e) ==
    IF acc # <<>> /\ InBatch(Last(acc), e) THEN [acc EXCEPT ![Len(acc)] = Append(@, e)] ELSE Append(acc, <<e>>)
MakesBatches(rs, f) ==
    f = [n \in 0..Len(rs) |-> IF n = 0 THEN <<>> ELSE AddToBatches(f[n - 1], rs[n])]

LEMMA AddToBatchesIs ==
    ASSUME NEW acc \in Seq(Seq(RunSet)), NEW e \in RunSet
    PROVE  /\ AddToBatches(acc, e) \in Seq(Seq(RunSet))
           /\ FlattenSeq(AddToBatches(acc, e)) = Append(FlattenSeq(acc), e)
<1> DEFINE c == acc # <<>> /\ InBatch(Last(acc), e)
           S == Seq(RunSet)
           w == [acc EXCEPT ![Len(acc)] = Append(@, e)]
           v == Append(acc, <<e>>)
<1>1. AddToBatches(acc, e) = IF c THEN w ELSE v
  BY DEF AddToBatches
<1>2. <<e>> \in S
  OBVIOUS
<1>3. FlattenSeq(v) = FlattenSeq(acc) \o <<e>> /\ FlattenSeq(acc) \in S
  BY <1>2, FlattenAppend
<1>4. v \in Seq(S)
  <2> HIDE DEF S
  <2>1. acc \in Seq(S)
    BY DEF S
  <2> QED BY <1>2, <2>1
<1>5. FlattenSeq(acc) \o <<e>> = Append(FlattenSeq(acc), e)
  <2> DEFINE u == FlattenSeq(acc)
  <2>1. u \in S
    BY <1>3
  <2> HIDE DEF u
  <2> QED BY <2>1
<1>6. c => w \in Seq(Seq(RunSet)) /\ FlattenSeq(w) = Append(FlattenSeq(acc), e)
  BY FlattenLast
<1> HIDE DEF w, v, c
<1> QED BY <1>1, <1>3, <1>4, <1>5, <1>6

LEMMA MakesBatchesIs ==
    ASSUME NEW rs \in Seq(RunSet)
    PROVE  \E f : /\ RunBatches(rs) = f[Len(rs)] /\ f[0] = <<>>
                  /\ \A n \in 1..Len(rs) : f[n] = AddToBatches(f[n - 1], rs[n])
<1> DEFINE l == Len(rs)
           V == Seq(Seq(RunSet))
           G == [x \in (1..l) \X V |-> AddToBatches(x[2], rs[x[1]])]
           at == CHOOSE f : MakesBatches(rs, f)
<1>0. l \in Nat /\ <<>> \in V /\ \A n \in 1..l : rs[n] \in RunSet
  OBVIOUS
<1>1. G \in [(1..l) \X V -> V] /\ \A n \in 1..l, v \in V : G[<<n, v>>] = AddToBatches(v, rs[n])
  <2>1. ASSUME NEW x \in (1..l) \X V PROVE AddToBatches(x[2], rs[x[1]]) \in V
    <3>1. x[1] \in 1..l /\ x[2] \in Seq(Seq(RunSet))
      OBVIOUS
    <3> QED BY <1>0, <3>1, AddToBatchesIs
  <2> HIDE DEF V
  <2> QED BY <2>1
<1>2. PICK f : Solution(V, <<>>, l, G, f)
  <2> HIDE DEF V, G
  <2> QED BY <1>0, <1>1, Recursion
<1>3. MakesBatches(rs, f)
  <2> DEFINE E(n) == IF n = 0 THEN <<>> ELSE AddToBatches(f[n - 1], rs[n])
  <2>1. f \in [0..l -> V] /\ f[0] = <<>> /\ \A n \in 1..l : f[n] = G[<<n, f[n - 1]>>]
    BY <1>2 DEF Solution
  <2>2. ASSUME NEW n \in 0..l PROVE f[n] = E(n)
    <3>1. CASE n = 0
      BY <2>1, <3>1
    <3>2. CASE n # 0
      <4>1. n \in 1..l /\ n - 1 \in 0..l
        BY <1>0, <3>2
      <4>2. f[n - 1] \in V
        BY <2>1, <4>1
      <4> HIDE DEF V, G, l
      <4> QED BY <1>1, <2>1, <3>2, <4>1, <4>2
    <3> QED BY <3>1, <3>2
  <2> HIDE DEF E
  <2>3. f = [n \in 0..l |-> E(n)]
    BY <2>1, <2>2
  <2> QED BY <2>3 DEF MakesBatches, E
<1>4. MakesBatches(rs, at)
  BY <1>3
<1>5. RunBatches(rs) = at[l]
  BY DEF RunBatches, Batches, Loop, MakesBatches, AddToBatches
<1> HIDE DEF at
<1> DEFINE E(n) == IF n = 0 THEN <<>> ELSE AddToBatches(at[n - 1], rs[n])
<1>6. at = [n \in 0..l |-> E(n)]
  BY <1>4 DEF MakesBatches
<1> HIDE DEF E
<1>7. \A n \in 0..l : at[n] = E(n)
  BY <1>6
<1>8. at[0] = <<>>
  <2>1. 0 \in 0..l
    BY <1>0
  <2> QED BY <1>7, <2>1 DEF E
<1>9. ASSUME NEW n \in 1..l PROVE at[n] = AddToBatches(at[n - 1], rs[n])
  <2>1. n \in 0..l /\ n # 0
    BY <1>0
  <2> QED BY <1>7, <2>1 DEF E
<1> QED BY <1>5, <1>8, <1>9

\* The batches hold the runs, in their order.
LEMMA RunBatchesIs ==
    ASSUME NEW rs \in Seq(RunSet)
    PROVE  FlattenSeq(RunBatches(rs)) = rs
<1> DEFINE l == Len(rs)
<1>0. l \in Nat /\ \A n \in 1..l : rs[n] \in RunSet
  OBVIOUS
<1>1. PICK f : /\ RunBatches(rs) = f[l] /\ f[0] = <<>>
               /\ \A n \in 1..l : f[n] = AddToBatches(f[n - 1], rs[n])
  BY MakesBatchesIs
<1> DEFINE P(n) == f[n] \in Seq(Seq(RunSet)) /\ FlattenSeq(f[n]) = SubSeq(rs, 1, n)
           S == {n \in Nat : n <= l => P(n)}
<1>2. 0 \in S
  <2>1. f[0] \in Seq(Seq(RunSet)) /\ Len(f[0]) = 0 /\ FlattenSeq(f[0]) = f[0]
    BY <1>1 DEF FlattenSeq
  <2>2. SubSeq(rs, 1, 0) = <<>>
    BY <1>0
  <2>3. P(0)
    BY <1>1, <2>1, <2>2
  <2> HIDE DEF P
  <2> QED BY <2>3
<1>3. ASSUME NEW n \in S PROVE n + 1 \in S
  <2>1. n \in Nat /\ n + 1 \in Nat
    OBVIOUS
  <2>2. SUFFICES ASSUME n + 1 <= l PROVE P(n + 1)
    BY <2>1
  <2> DEFINE j == n + 1
  <2>3. j \in 1..l /\ j - 1 = n /\ n <= l
    BY <1>0, <2>1, <2>2
  <2>4. P(n)
    <3> HIDE DEF P
    <3> QED BY <1>3, <2>3
  <2>5. Append(SubSeq(rs, 1, n), rs[j]) = SubSeq(rs, 1, j)
    BY <1>0, <2>1, <2>3
  <2> HIDE DEF j
  <2>6. f[j] = AddToBatches(f[n], rs[j])
    BY <1>1, <2>3
  <2>7. f[j] \in Seq(Seq(RunSet)) /\ FlattenSeq(f[j]) = Append(FlattenSeq(f[n]), rs[j])
    BY <1>0, <2>3, <2>4, <2>6, AddToBatchesIs
  <2>8. P(j)
    BY <2>4, <2>5, <2>7
  <2> QED BY <2>8 DEF j
<1>4. S = Nat
  <2>1. S \in SUBSET Nat
    OBVIOUS
  <2> HIDE DEF S
  <2> QED BY <1>2, <1>3, <2>1, SetInduction
<1>5. P(l)
  <2>1. l <= l
    BY <1>0
  <2> HIDE DEF P
  <2> QED BY <1>0, <1>4, <2>1
<1>6. SubSeq(rs, 1, l) = rs
  BY <1>0
<1> QED BY <1>1, <1>5, <1>6

\* visit_blocks visits the blocks asked for, in their order.
LEMMA VisitBlocksIs ==
    ASSUME NEW blocks \in Seq(PackBlocksSet), NEW ids \in Seq(1..Len(blocks))
    PROVE  VisitBlocks(ids, blocks) = ids
<1> DEFINE rs == BlockRuns(ids, blocks)
<1>1. rs \in Seq(RunSet) /\ FlattenSeq(IdsOf(rs)) = ids
  BY BlockRunsIs
<1> HIDE DEF rs
<1>2. FlattenSeq(RunBatches(rs)) = rs
  BY <1>1, RunBatchesIs
<1> QED BY <1>1, <1>2 DEF VisitBlocks, IdsOf, rs

-----------------------------------------------------------------------------
(***************************************************************************)
(* Fetching a large document.                                              *)
(***************************************************************************)

\* The loop of fetch_large.
Takes(start, ids, size, blocks, f) ==
    f = [n \in 0..Len(ids) |-> IF n = 0 THEN start ELSE TakeBlock(f[n - 1], size, blocks[ids[n]].bytes)]
TakesAll(start, ids, size, blocks) == Loop(LAMBDA acc, id : TakeBlock(acc, size, blocks[id].bytes), start, ids)
Taken == [out : Seq(Byte), offset : Nat]

LEMMA TakeBlockIs ==
    ASSUME NEW acc \in Taken, NEW size \in Nat, NEW from \in Seq(Byte)
    PROVE  TakeBlock(acc, size, from) \in Taken
<1> DEFINE u == size - Len(acc.out)
           v == Len(from) - acc.offset
           n == Min({u, v})
           m == acc.offset + 1
           k == acc.offset + n
<1>1. acc.out \in Seq(Byte) /\ acc.offset \in Nat
  BY DEF Taken
<1>2. u \in Int /\ v \in Int
  BY <1>1
<1>3. n \in {u, v} /\ n <= v
  <2> HIDE DEF u, v
  <2> QED BY <1>2, MinOfTwo
<1> HIDE DEF n
<1>4. m \in Int /\ k \in Int /\ m >= 1 /\ k <= Len(from)
  <2>1. n \in Int
    <3> HIDE DEF u, v
    <3> QED BY <1>2, <1>3
  <2> QED BY <1>1, <1>3, <2>1
<1> DEFINE w == SubSeq(from, m, k)
<1>5. w \in Seq(Byte)
  <2> HIDE DEF m, k
  <2>1. \A i \in m..k : from[i] \in Byte
    BY <1>4
  <2> QED BY <1>4, <2>1, SubSeqProperties
<1>6. TakeBlock(acc, size, from) = [out |-> acc.out \o w, offset |-> 0]
  BY DEF TakeBlock, n
<1> HIDE DEF w
<1>7. acc.out \o w \in Seq(Byte)
  BY <1>1, <1>5, ConcatProperties
<1> QED BY <1>6, <1>7 DEF Taken

LEMMA TakesAre ==
    ASSUME NEW blocks \in Seq(PackBlocksSet), NEW ids \in Seq(1..Len(blocks)), NEW size \in Nat, NEW start \in Taken
    PROVE  \E f : /\ TakesAll(start, ids, size, blocks) = f[Len(ids)] /\ f[0] = start
                  /\ \A n \in 1..Len(ids) : f[n] = TakeBlock(f[n - 1], size, blocks[ids[n]].bytes)
<1> DEFINE l == Len(ids)
           V == Taken
           G == [x \in (1..l) \X V |-> TakeBlock(x[2], size, blocks[ids[x[1]]].bytes)]
           at == CHOOSE f : Takes(start, ids, size, blocks, f)
<1>0. l \in Nat /\ start \in V /\ \A n \in 1..l : blocks[ids[n]].bytes \in Seq(Byte)
  <2>1. \A n \in 1..l : blocks[ids[n]] \in PackBlocksSet
    OBVIOUS
  <2> HIDE DEF l
  <2>2. \A n \in 1..l : blocks[ids[n]].bytes \in Seq(Byte)
    BY <2>1 DEF PackBlocksSet
  <2> QED BY <2>2 DEF l
<1>1. G \in [(1..l) \X V -> V] /\ \A n \in 1..l, v \in V : G[<<n, v>>] = TakeBlock(v, size, blocks[ids[n]].bytes)
  <2>1. ASSUME NEW x \in (1..l) \X V PROVE TakeBlock(x[2], size, blocks[ids[x[1]]].bytes) \in V
    <3>1. x[1] \in 1..l /\ x[2] \in Taken
      OBVIOUS
    <3> QED BY <1>0, <3>1, TakeBlockIs
  <2> HIDE DEF V
  <2> QED BY <2>1
<1>2. PICK f : Solution(V, start, l, G, f)
  <2> HIDE DEF V, G
  <2> QED BY <1>0, <1>1, Recursion
<1>3. Takes(start, ids, size, blocks, f)
  <2> DEFINE E(n) == IF n = 0 THEN start ELSE TakeBlock(f[n - 1], size, blocks[ids[n]].bytes)
  <2>1. f \in [0..l -> V] /\ f[0] = start /\ \A n \in 1..l : f[n] = G[<<n, f[n - 1]>>]
    BY <1>2 DEF Solution
  <2>2. ASSUME NEW n \in 0..l PROVE f[n] = E(n)
    <3>1. CASE n = 0
      BY <2>1, <3>1
    <3>2. CASE n # 0
      <4>1. n \in 1..l /\ n - 1 \in 0..l
        BY <1>0, <3>2
      <4>2. f[n - 1] \in V
        BY <2>1, <4>1
      <4> HIDE DEF V, G, l
      <4> QED BY <1>1, <2>1, <3>2, <4>1, <4>2
    <3> QED BY <3>1, <3>2
  <2> HIDE DEF E
  <2>3. f = [n \in 0..l |-> E(n)]
    BY <2>1, <2>2
  <2> QED BY <2>3 DEF Takes, E
<1>4. Takes(start, ids, size, blocks, at)
  BY <1>3
<1>5. TakesAll(start, ids, size, blocks) = at[l]
  BY DEF TakesAll, Loop, Takes
<1> HIDE DEF at
<1> DEFINE E(n) == IF n = 0 THEN start ELSE TakeBlock(at[n - 1], size, blocks[ids[n]].bytes)
<1>6. at = [n \in 0..l |-> E(n)]
  BY <1>4 DEF Takes
<1> HIDE DEF E
<1>7. \A n \in 0..l : at[n] = E(n)
  BY <1>6
<1>8. at[0] = start
  <2>1. 0 \in 0..l
    BY <1>0
  <2> QED BY <1>7, <2>1 DEF E
<1>9. ASSUME NEW n \in 1..l PROVE at[n] = TakeBlock(at[n - 1], size, blocks[ids[n]].bytes)
  <2>1. n \in 0..l /\ n # 0
    BY <1>0
  <2> QED BY <1>7, <2>1 DEF E
<1> QED BY <1>5, <1>8, <1>9

\* A block continues the document.
LEMMA TakesPart ==
    ASSUME NEW blocks \in Seq(PackBlocksSet), NEW s, Held(blocks, s), NEW doc \in Docs, Lies(doc, s),
           NEW x, IsPart(doc, blocks, x)
    PROVE  TakeBlock([out |-> SubSeq(doc.bytes, 1, x.start), offset |-> x.offset], Len(doc.bytes), blocks[x.id].bytes)
             = [out |-> SubSeq(doc.bytes, 1, x.start + x.len), offset |-> 0]
<1> DEFINE from == blocks[x.id].bytes
           bytes == doc.bytes
           size == Len(bytes)
           L == Len(from)
           o == x.offset
           st == x.start
           len == x.len
           head == SubSeq(bytes, 1, st)
           n == Min({size - st, L - o})
<1>1. /\ x.id \in 1..Len(blocks) /\ o \in Nat /\ st \in Nat /\ len \in Nat
      /\ o + len <= L /\ st + len <= size /\ (st + len = size \/ o + len = BlockBytes)
  BY DEF IsPart, PartSet
<1>2. bytes \in Seq(Byte) /\ size \in Nat /\ BlockBytes \in Nat
  BY DocIs
<1>3. L \in Nat /\ L <= BlockBytes
  <2>1. Len(blocks[x.id].bytes) \in 1..BlockBytes
    BY <1>1 DEF Held, HoldsBlock
  <2> QED BY <1>2, <2>1
<1>4. Len(head) = st
  <2> HIDE DEF bytes, st, len
  <2> QED BY <1>1, <1>2
<1>5. n = len
  <2> DEFINE u == size - st
             v == L - o
  <2> HIDE DEF size, st, L, o, len
  <2>1. u \in Int /\ v \in Int /\ len <= u /\ len <= v /\ (len = u \/ len = v)
    BY <1>1, <1>2, <1>3
  <2> HIDE DEF u, v
  <2>2. Min({u, v}) \in {u, v} /\ Min({u, v}) <= u /\ Min({u, v}) <= v
    BY <2>1, MinOfTwo
  <2>3. Min({u, v}) = len
    BY <1>1, <2>1, <2>2
  <2> QED BY <2>3 DEF u, v
<1>6. head \o SubSeq(from, o + 1, o + len) = SubSeq(bytes, 1, st + len)
  BY PartBytes
<1> DEFINE acc == [out |-> head, offset |-> o]
<1>7. TakeBlock(acc, size, from) = [out |-> head \o SubSeq(from, o + 1, o + n), offset |-> 0]
  <2>1. acc.out = head /\ acc.offset = o
    OBVIOUS
  <2> HIDE DEF acc, head, from, size, bytes
  <2> QED BY <1>4, <2>1 DEF TakeBlock
<1> HIDE DEF n, head
<1> QED BY <1>5, <1>6, <1>7 DEF head

\* fetch_large gives the document.
LEMMA FetchLargeIs ==
    ASSUME NEW blocks \in Seq(PackBlocksSet), NEW s, Held(blocks, s), NEW doc \in Docs, Lies(doc, s)
    PROVE  FetchLarge(doc.slice, Len(doc.bytes), blocks) = doc.bytes
<1> DEFINE parts == DocumentBlocks(doc.slice, Len(doc.bytes), blocks)
           size == Len(doc.bytes)
           l == Len(parts)
           bytes == doc.bytes
           R(n) == Reached(parts, n)
           ids == [i \in DOMAIN parts |-> parts[i].id]
           start == [out |-> <<>>, offset |-> doc.slice.offset]
<1>0. parts \in Seq(PartSet) /\ ArePartsOf(doc, blocks, parts) /\ R(l) = size /\ bytes \in Seq(Byte) /\ size \in Nat
  BY DocumentBlocksIs, DocIs
<1>0a. FetchLarge(doc.slice, size, blocks) =
           TakesAll(start, VisitBlocks(ids, blocks), size, blocks).out
  BY DEF FetchLarge, TakesAll
<1> HIDE DEF parts
<1>1. l \in Nat /\ DOMAIN parts = 1..l
  BY <1>0
<1>2. ids \in Seq(1..Len(blocks)) /\ Len(ids) = l /\ \A n \in 1..l : ids[n] = parts[n].id
  <2>1. \A n \in 1..l : parts[n].id \in 1..Len(blocks)
    BY <1>0 DEF ArePartsOf, IsPart
  <2>2. ids \in [1..l -> 1..Len(blocks)] /\ \A n \in 1..l : ids[n] = parts[n].id
    BY <1>1, <2>1
  <2> HIDE DEF ids, l
  <2> QED BY <1>1, <2>2
<1> HIDE DEF ids
<1>3. VisitBlocks(ids, blocks) = ids
  BY <1>2, VisitBlocksIs
<1>4. start \in Taken
  <2>1. <<>> \in Seq(Byte) /\ doc.slice.offset \in Nat
    BY DocIs
  <2> QED BY <2>1 DEF Taken
<1>5. PICK f : /\ TakesAll(start, ids, size, blocks) = f[l] /\ f[0] = start
               /\ \A n \in 1..l : f[n] = TakeBlock(f[n - 1], size, blocks[ids[n]].bytes)
  BY <1>0, <1>2, <1>4, TakesAre
<1> DEFINE P(n) == f[n] = [out |-> SubSeq(bytes, 1, R(n)), offset |-> IF n = 0 THEN doc.slice.offset ELSE 0]
           S == {n \in Nat : n <= l => P(n)}
<1>6. 0 \in S
  <2>1. R(0) = 0
    BY DEF Reached
  <2>2. SubSeq(bytes, 1, 0) = <<>>
    BY <1>0
  <2>3. P(0)
    BY <1>5, <2>1, <2>2
  <2> HIDE DEF P
  <2> QED BY <2>3
<1>7. ASSUME NEW n \in S PROVE n + 1 \in S
  <2>1. n \in Nat /\ n + 1 \in Nat
    OBVIOUS
  <2>2. SUFFICES ASSUME n + 1 <= l PROVE P(n + 1)
    BY <2>1
  <2> DEFINE j == n + 1
             x == parts[j]
  <2>3. j \in 1..l /\ j - 1 = n /\ n <= l /\ (j = 1 <=> n = 0) /\ j # 0
    BY <1>1, <2>1, <2>2
  <2>4. P(n)
    <3> HIDE DEF P
    <3> QED BY <1>7, <2>3
  <2> HIDE DEF j
  <2>5. /\ IsPart(doc, blocks, x) /\ x.start = R(n) /\ R(j) = x.start + x.len
        /\ x.offset = IF j = 1 THEN doc.slice.offset ELSE 0
    BY <1>0, <1>1, <2>3, ReachedIs
  <2>6. f[j] = TakeBlock(f[n], size, blocks[x.id].bytes)
    BY <1>2, <1>5, <2>3
  <2>7. f[n] = [out |-> SubSeq(bytes, 1, x.start), offset |-> x.offset]
    BY <2>3, <2>4, <2>5
  <2> HIDE DEF x
  <2>8. f[j] = [out |-> SubSeq(bytes, 1, x.start + x.len), offset |-> 0]
    BY <2>5, <2>6, <2>7, TakesPart
  <2>9. P(j)
    BY <2>3, <2>5, <2>8
  <2> QED BY <2>9 DEF j
<1>8. S = Nat
  <2>1. S \in SUBSET Nat
    OBVIOUS
  <2> HIDE DEF S
  <2> QED BY <1>6, <1>7, <2>1, SetInduction
<1>9. P(l)
  <2>1. l <= l
    BY <1>1
  <2> HIDE DEF P
  <2> QED BY <1>1, <1>8, <2>1
<1>10. f[l].out = bytes
  <2>1. f[l].out = SubSeq(bytes, 1, size)
    BY <1>0, <1>9
  <2>2. SubSeq(bytes, 1, size) = bytes
    BY <1>0
  <2> QED BY <2>1, <2>2
<1> QED BY <1>0a, <1>3, <1>5, <1>10

-----------------------------------------------------------------------------
(***************************************************************************)
(* Runs are ranges.                                                        *)
(***************************************************************************)

\* A run is a range, short enough, of existing blocks.
IsRun(run, blocks) ==
    /\ IsRange(run, blocks) /\ run.ids \in Seq(1..Len(blocks))
    /\ run.len <= RangeBytes \/ Len(run.ids) = 1

LEMMA NewRun ==
    ASSUME NEW blocks \in Seq(PackBlocksSet), NEW id \in 1..Len(blocks),
           NEW run, run = [pack |-> blocks[id].pack, offset |-> blocks[id].offset, len |-> blocks[id].len, ids |-> <<id>>]
    PROVE  IsRun(run, blocks)
<1> DEFINE ids == <<id>>
           b == blocks[id]
<1>1. run.ids = ids /\ run.pack = b.pack /\ run.offset = b.offset /\ run.len = b.len
  OBVIOUS
<1>2. ids \in Seq(1..Len(blocks)) /\ Len(ids) = 1 /\ ids[1] = id
  OBVIOUS
<1> HIDE DEF ids, b
<1>3. \A j \in 1..1 : j = 1 /\ ~(j > 1)
  OBVIOUS
<1>4. blocks[ids[1]] = b
  BY <1>2 DEF b
<1>5. IsRange(run, blocks)
  BY <1>1, <1>2, <1>3, <1>4 DEF IsRange
<1> QED BY <1>1, <1>2, <1>5 DEF IsRun

LEMMA LongerRun ==
    ASSUME NEW blocks \in Seq(PackBlocksSet), NEW id \in 1..Len(blocks), NEW run \in RunSet, IsRun(run, blocks),
           run.pack = blocks[id].pack, run.offset + run.len = blocks[id].offset,
           run.len + blocks[id].len <= RangeBytes,
           NEW new, new.pack = run.pack, new.offset = run.offset, new.len = run.len + blocks[id].len,
           new.ids = Append(run.ids, id)
    PROVE  IsRun(new, blocks)
<1> DEFINE ids == run.ids
           n == Len(ids)
           nids == Append(ids, id)
           b == blocks[id]
           at(j) == blocks[ids[j]]
           nat(j) == blocks[nids[j]]
<1>1. ids \in Seq(1..Len(blocks)) /\ n \in Nat
  BY DEF IsRun
<1>2. /\ n > 0 /\ at(1).offset = run.offset /\ at(n).offset + at(n).len = run.offset + run.len
      /\ \A j \in 1..n : at(j).pack = run.pack /\ (j > 1 => at(j).offset = at(j - 1).offset + at(j - 1).len)
  BY DEF IsRun, IsRange
<1>3. nids \in Seq(1..Len(blocks)) /\ Len(nids) = n + 1 /\ nids[n + 1] = id /\ \A j \in 1..n : nids[j] = ids[j]
  BY <1>1
<1>4. new.ids = nids
  OBVIOUS
<1>5. run.offset \in Nat /\ run.len \in Nat /\ b.len \in Nat /\ b.offset \in Nat
  <2>1. b \in PackBlocksSet
    OBVIOUS
  <2> HIDE DEF b
  <2> QED BY <2>1 DEF RunSet, PackBlocksSet
<1> HIDE DEF nids, ids, n
<1>6. nat(n + 1) = b /\ \A j \in 1..n : nat(j) = at(j)
  BY <1>3
<1> HIDE DEF b, at, nat
<1>6a. run.pack = b.pack /\ run.offset + run.len = b.offset /\ new.len = run.len + b.len
  BY DEF b
<1>7. 1 \in 1..n /\ n \in 1..n /\ n + 1 > 0
  BY <1>1, <1>2
<1>8. b.offset + b.len = new.offset + new.len
  BY <1>5, <1>6a
<1>9. ASSUME NEW j \in 1..(n + 1)
      PROVE  nat(j).pack = run.pack /\ (j > 1 => nat(j).offset = nat(j - 1).offset + nat(j - 1).len)
  <2>1. CASE j = n + 1
    <3>1. j - 1 = n
      BY <1>1, <2>1
    <3>2. nat(j) = b /\ nat(j - 1) = at(n)
      BY <1>6, <1>7, <2>1, <3>1
    <3> QED BY <1>2, <1>6a, <3>2
  <2>2. CASE j # n + 1
    <3>1. j \in 1..n /\ (j > 1 => j - 1 \in 1..n)
      BY <1>1, <2>2
    <3> QED BY <1>2, <1>6, <3>1
  <2> QED BY <2>1, <2>2
<1>10. nat(1).offset = new.offset
  BY <1>2, <1>6, <1>7
<1>11. IsRange(new, blocks)
  <2>1. nat(n + 1).offset + nat(n + 1).len = new.offset + new.len
    BY <1>6, <1>8
  <2> QED BY <1>3, <1>4, <1>7, <1>9, <1>10, <2>1 DEF IsRange, nat
<1>12. new.len <= RangeBytes
  OBVIOUS
<1> QED BY <1>3, <1>4, <1>11, <1>12 DEF IsRun

LEMMA AddKeepsRuns ==
    ASSUME NEW blocks \in Seq(PackBlocksSet), NEW id \in 1..Len(blocks), NEW rs \in Seq(RunSet),
           \A i \in 1..Len(rs) : IsRun(rs[i], blocks)
    PROVE  LET t == AddToRuns(rs, id, blocks[id]) IN \A i \in 1..Len(t) : IsRun(t[i], blocks)
<1> DEFINE l == Len(rs)
           b == blocks[id]
           z == rs[l]
           c == /\ rs # <<>> /\ z.pack = b.pack
                /\ z.offset + z.len = b.offset /\ z.len + b.len <= RangeBytes
           new == [pack |-> b.pack, offset |-> b.offset, len |-> b.len, ids |-> <<id>>]
           y == [z EXCEPT !.len = z.len + b.len, !.ids = Append(z.ids, id)]
           t == AddToRuns(rs, id, b)
<1>1. t = IF c THEN [rs EXCEPT ![l] = y] ELSE Append(rs, new)
  BY DEF AddToRuns, Last
<1>2. l \in Nat /\ rs \in [1..l -> RunSet]
  OBVIOUS
<1>3. CASE ~c
  <2>1. IsRun(new, blocks)
    BY NewRun
  <2>2. t = Append(rs, new)
    BY <1>1, <1>3
  <2> HIDE DEF new, c
  <2>3. Len(t) = l + 1 /\ t[l + 1] = new /\ \A i \in 1..l : t[i] = rs[i]
    BY <2>2
  <2> HIDE DEF t, l
  <2>4. \A i \in 1..Len(t) : i \in 1..l \/ i = l + 1
    BY <1>2, <2>3
  <2>5. \A i \in 1..l : IsRun(rs[i], blocks)
    BY DEF l
  <2>6. \A i \in 1..Len(t) : IsRun(t[i], blocks)
    BY <2>1, <2>3, <2>4, <2>5
  <2> QED BY <2>6 DEF t
<1>4. CASE c
  <2>1. l \in 1..l /\ z \in RunSet /\ IsRun(z, blocks)
    BY <1>2, <1>4
  <2>2. IsRun(y, blocks)
    <3>1. z.pack = blocks[id].pack /\ z.offset + z.len = blocks[id].offset /\ z.len + blocks[id].len <= RangeBytes
      BY <1>4
    <3> HIDE DEF z
    <3>2. y.pack = z.pack /\ y.offset = z.offset /\ y.len = z.len + blocks[id].len /\ y.ids = Append(z.ids, id)
      BY <2>1 DEF RunSet
    <3> HIDE DEF y
    <3> QED BY <2>1, <3>1, <3>2, LongerRun
  <2>3. t = [rs EXCEPT ![l] = y]
    BY <1>1, <1>4
  <2> HIDE DEF y, c, t, z
  <2>4. DOMAIN t = 1..l /\ t[l] = y /\ \A i \in 1..l : i # l => t[i] = rs[i]
    <3> HIDE DEF l
    <3> QED BY <1>2, <2>1, <2>3
  <2>5. Len(t) = l
    <3>1. t \in Seq(RunSet)
      <4>1. id \in Nat /\ b \in PackBlocksSet
        OBVIOUS
      <4> HIDE DEF b
      <4> QED BY <4>1, AddToRunsIs DEF t
    <3> HIDE DEF l
    <3> QED BY <1>2, <2>4, <3>1
  <2>6. \A i \in 1..Len(t) : IsRun(t[i], blocks)
    BY <2>2, <2>4, <2>5
  <2> QED BY <2>6 DEF t
<1> QED BY <1>3, <1>4

\* Every run is a range of existing blocks.
LEMMA RunsAre ==
    ASSUME NEW blocks \in Seq(PackBlocksSet), NEW ids \in Seq(1..Len(blocks))
    PROVE  \A i \in 1..Len(BlockRuns(ids, blocks)) : IsRun(BlockRuns(ids, blocks)[i], blocks)
<1> DEFINE l == Len(ids)
<1>0. l \in Nat /\ \A n \in 1..l : ids[n] \in 1..Len(blocks) /\ ids[n] \in Nat /\ blocks[ids[n]] \in PackBlocksSet
  OBVIOUS
<1>1. PICK f : /\ BlockRuns(ids, blocks) = f[l] /\ f[0] = <<>>
               /\ \A n \in 1..l : f[n] = AddToRuns(f[n - 1], ids[n], blocks[ids[n]])
  BY MakesRunsIs
<1> DEFINE P(n) == f[n] \in Seq(RunSet) /\ \A i \in 1..Len(f[n]) : IsRun(f[n][i], blocks)
           S == {n \in Nat : n <= l => P(n)}
<1>2. 0 \in S
  <2>1. P(0)
    BY <1>1
  <2> HIDE DEF P
  <2> QED BY <2>1
<1>3. ASSUME NEW n \in S PROVE n + 1 \in S
  <2>1. n \in Nat /\ n + 1 \in Nat
    OBVIOUS
  <2>2. SUFFICES ASSUME n + 1 <= l PROVE P(n + 1)
    BY <2>1
  <2> DEFINE j == n + 1
  <2>3. j \in 1..l /\ j - 1 = n /\ n <= l
    BY <1>0, <2>1, <2>2
  <2>4. P(n)
    <3> HIDE DEF P
    <3> QED BY <1>3, <2>3
  <2> HIDE DEF j
  <2> DEFINE g == f[n]
             id == ids[j]
             h == f[j]
  <2>5. /\ g \in Seq(RunSet) /\ (\A i \in 1..Len(g) : IsRun(g[i], blocks)) /\ id \in 1..Len(blocks)
        /\ id \in Nat /\ blocks[id] \in PackBlocksSet /\ h = AddToRuns(g, id, blocks[id])
    BY <1>0, <1>1, <2>3, <2>4
  <2> HIDE DEF g, id, h
  <2>6. h \in Seq(RunSet) /\ \A i \in 1..Len(h) : IsRun(h[i], blocks)
    BY <2>5, AddToRunsIs, AddKeepsRuns
  <2> QED BY <2>6 DEF h, j
<1>4. S = Nat
  <2>1. S \in SUBSET Nat
    OBVIOUS
  <2> HIDE DEF S
  <2> QED BY <1>2, <1>3, <2>1, SetInduction
<1>5. P(l)
  <2>1. l <= l
    BY <1>0
  <2> HIDE DEF P
  <2> QED BY <1>0, <1>4, <2>1
<1> QED BY <1>1, <1>5

\* A finite set of numbers has an n-th smallest.
LEMMA NthSmallestIs ==
    ASSUME NEW m \in Nat, NEW T \in SUBSET (1..m)
    PROVE  IsFiniteSet(T) /\ \A n \in 1..Cardinality(T) : NthSmallest(T, n) \in T
<1> DEFINE Under(x) == {y \in T : y < x}
           c == Cardinality(T)
           S == {n \in Nat : n < c => \E x \in T : Cardinality(Under(x)) = n}
<1>1. IsFiniteSet(T) /\ c \in Nat /\ T \in SUBSET Nat
  <2>1. IsFiniteSet(1..m)
    BY FS_Interval
  <2>2. IsFiniteSet(T)
    BY <2>1, FS_Subset
  <2> QED BY <2>2, FS_CardinalityType
<1>2. \A x : IsFiniteSet(Under(x)) /\ Cardinality(Under(x)) \in Nat
  <2> SUFFICES ASSUME NEW x PROVE IsFiniteSet(Under(x)) /\ Cardinality(Under(x)) \in Nat
    OBVIOUS
  <2>1. IsFiniteSet(Under(x))
    BY <1>1, FS_Subset
  <2> QED BY <2>1, FS_CardinalityType
<1>3. 0 \in S
  <2> SUFFICES ASSUME 0 < c PROVE \E x \in T : Cardinality(Under(x)) = 0
    OBVIOUS
  <2>1. T # {}
    BY <1>1, FS_EmptySet
  <2>2. PICK x \in T : \A y \in T : x <= y
    BY <1>1, <2>1, SmallestIs
  <2>3. Under(x) = {}
    <3>1. \A y \in T : y \in Nat /\ x \in Nat /\ x <= y
      BY <1>1, <2>2
    <3>2. \A y \in T : ~(y < x)
      BY <3>1
    <3> QED BY <3>2
  <2> QED BY <2>3, FS_EmptySet
<1>4. ASSUME NEW n \in S PROVE n + 1 \in S
  <2>1. n \in Nat /\ n + 1 \in Nat
    OBVIOUS
  <2>2. SUFFICES ASSUME n + 1 < c PROVE \E x \in T : Cardinality(Under(x)) = n + 1
    BY <2>1
  <2>3. n < c
    BY <1>1, <2>1, <2>2
  <2>4. PICK x \in T : Cardinality(Under(x)) = n
    BY <1>4, <2>3
  <2> DEFINE W == Under(x) \cup {x}
             A == {y \in T : y > x}
  <2>5. x \notin Under(x) /\ x \in Nat
    BY <1>1
  <2>6. Cardinality(W) = n + 1
    <3> DEFINE U == Under(x)
    <3>1. IsFiniteSet(U) /\ x \notin U /\ Cardinality(U) = n
      BY <1>2, <2>4, <2>5
    <3> HIDE DEF U
    <3>2. Cardinality(U \cup {x}) = IF x \in U THEN Cardinality(U) ELSE Cardinality(U) + 1
      BY <3>1, FS_AddElement
    <3>3. Cardinality(U \cup {x}) = n + 1
      BY <3>1, <3>2
    <3> QED BY <3>3 DEF U
  <2>7. A # {}
    <3> SUFFICES ASSUME A = {} PROVE FALSE
      OBVIOUS
    <3>1. T = W
      <4>1. \A y \in T : y \in Nat /\ ~(y > x)
        BY <1>1
      <4>2. \A y \in T : y < x \/ y = x
        BY <2>5, <4>1
      <4> QED BY <4>2
    <3> QED BY <1>1, <2>1, <2>2, <2>6, <3>1
  <2>8. A \in SUBSET Nat
    BY <1>1
  <2>9. PICK z \in A : \A y \in A : z <= y
    BY <2>7, <2>8, SmallestIs
  <2>10. Under(z) = W
    <3>1. z \in Nat /\ z \in T /\ z > x
      BY <1>1, <2>9
    <3>2. \A y \in T : y < z <=> y <= x
      <4> SUFFICES ASSUME NEW y \in T PROVE y < z <=> y <= x
        OBVIOUS
      <4>1. y \in Nat /\ (y > x => z <= y)
        BY <1>1, <2>9
      <4> QED BY <2>5, <3>1, <4>1
    <3>3. \A y \in T : y <= x <=> y < x \/ y = x
      BY <1>1
    <3> QED BY <3>2, <3>3
  <2>11. z \in T
    BY <2>9
  <2> QED BY <2>6, <2>10, <2>11
<1>5. S = Nat
  <2>1. S \in SUBSET Nat
    OBVIOUS
  <2> HIDE DEF S
  <2> QED BY <1>3, <1>4, <2>1, SetInduction
<1>6. ASSUME NEW n \in 1..c PROVE NthSmallest(T, n) \in T
  <2>1. n - 1 \in S /\ n - 1 < c
    BY <1>1, <1>5
  <2>2. \E x \in T : Cardinality(Under(x)) = n - 1
    BY <2>1
  <2> QED BY <2>2 DEF NthSmallest
<1> QED BY <1>1, <1>6

LEMMA AscendingIs ==
    ASSUME NEW m \in Nat, NEW T \in SUBSET (1..m)
    PROVE  Ascending(T) \in Seq(1..m)
<1> DEFINE c == Cardinality(T)
           a == Ascending(T)
<1>1. IsFiniteSet(T) /\ \A n \in 1..c : NthSmallest(T, n) \in T
  BY NthSmallestIs
<1>2. c \in Nat
  BY <1>1, FS_CardinalityType
<1> HIDE DEF c
<1>3. \A n \in 1..c : NthSmallest(T, n) \in 1..m
  BY <1>1
<1>4. a \in [1..c -> 1..m]
  BY <1>3 DEF Ascending, c
<1> HIDE DEF a
<1>5. a \in Seq(1..m)
  BY <1>2, <1>4
<1> QED BY <1>5 DEF a

-----------------------------------------------------------------------------
(***************************************************************************)
(* The invariant of the packs.                                             *)
(***************************************************************************)

\* What was appended, whether still in the builder or finished, is a sequence of
\* bytes in which each document lies where its slice says.
WriterInv ==
    /\ builder \in Builders /\ PacksFit(builder) /\ documents \in Seq(Docs) /\ packed \in BOOLEAN
    /\ packed => builder.active = 0
    /\ \E s \in Seq(Byte) :
          /\ \A d \in DOMAIN documents : Lies(documents[d], s)
          /\ IF packed THEN Held(builder.blocks, s) ELSE Streams(builder, s)

LEMMA WriterStarts == WriterInit => WriterInv
<1> SUFFICES ASSUME WriterInit PROVE WriterInv
  OBVIOUS
<1>1. /\ builder = [block |-> <<>>, blocks |-> <<>>, packs |-> <<>>, active |-> 0]
      /\ documents = <<>> /\ packed = FALSE
  BY DEF WriterInit
<1>2. builder \in Builders
  BY <1>1 DEF Builders
<1>3. PacksFit(builder)
  <2>1. builder.packs = <<>> /\ builder.active = 0 /\ PackBytes \in Nat
    BY <1>1, PackWriterAssumption
  <2>2. 0 <= PackBytes
    BY <2>1
  <2>3. builder.blocks = <<>>
    BY <1>1
  <2> QED BY <2>1, <2>2, <2>3 DEF PacksFit, FitsPack
<1>4. Streams(builder, <<>>)
  <2>1. builder.block = <<>> /\ builder.blocks = <<>>
    BY <1>1
  <2>2. Len(builder.block) = 0 /\ Len(builder.blocks) + 1 = 1 /\ Len(builder.blocks) = 0
    BY <2>1
  <2>3. BlockBytes \in Nat \ {0} /\ Pos(1) = 0
    BY PosIs
  <2>4. 0 < BlockBytes /\ <<>> \in Seq(Byte) /\ Len(<<>>) = 0 /\ 0 + 0 = 0
    BY <2>3
  <2>5. LiesAt(builder.block, 0, 1, <<>>)
    BY <2>2 DEF LiesAt
  <2> QED BY <2>2, <2>3, <2>4, <2>5 DEF Streams
<1>5. \A d \in DOMAIN documents : Lies(documents[d], <<>>)
  BY <1>1
<1>6. packed \in BOOLEAN
  BY <1>1
<1>7. documents \in Seq(Docs) /\ <<>> \in Seq(Byte)
  BY <1>1
<1> QED BY <1>1, <1>2, <1>3, <1>4, <1>5, <1>6, <1>7 DEF WriterInv

LEMMA WriterKeeps == WriterInv /\ [WriterNext]_writerVars => WriterInv'
<1> SUFFICES ASSUME WriterInv, [WriterNext]_writerVars PROVE WriterInv'
  OBVIOUS
<1>0. builder \in Builders /\ PacksFit(builder) /\ documents \in Seq(Docs) /\ packed \in BOOLEAN
  BY DEF WriterInv
<1>1. PICK s \in Seq(Byte) : /\ \A d \in DOMAIN documents : Lies(documents[d], s)
                             /\ IF packed THEN Held(builder.blocks, s) ELSE Streams(builder, s)
  BY DEF WriterInv
<1>2. ASSUME NEW bytes \in Bodies, AppendDocument(bytes) PROVE WriterInv'
  <2> DEFINE doc == [bytes |-> bytes, slice |-> SliceOf(builder, bytes)]
             t == s \o bytes
             ds == Append(documents, doc)
             c == Loop(AppendByte, builder, bytes)
  <2>1. ~packed /\ builder' = c /\ documents' = ds /\ packed' = packed
    BY <1>2 DEF AppendDocument
  <2>2. bytes \in Seq(Byte)
    BY PackWriterAssumption DEF Byte
  <2>3. Streams(builder, s)
    BY <1>1, <2>1
  <2>4. c \in Builders /\ PacksFit(c) /\ Streams(c, t)
    BY <1>0, <2>2, <2>3, DocumentStreams
  <2>5. doc \in Docs /\ Lies(doc, t)
    BY <1>0, <2>2, <2>3, DocumentLies
  <2>6. t \in Seq(Byte)
    BY <2>2, ConcatProperties
  <2>7. ASSUME NEW d \in DOMAIN documents PROVE Lies(documents[d], t)
    <3>1. documents[d] \in Docs
      BY <1>0
    <3> QED BY <1>1, <2>2, <3>1, LiesStays
  <2> HIDE DEF doc, t, c
  <2>8. /\ ds \in Seq(Docs) /\ ds[Len(documents) + 1] = doc /\ Len(documents) \in Nat
        /\ DOMAIN ds = 1..(Len(documents) + 1) /\ DOMAIN documents = 1..Len(documents)
        /\ \A d \in DOMAIN documents : ds[d] = documents[d]
    BY <1>0, <2>5
  <2>9. \A d \in DOMAIN ds : Lies(ds[d], t)
    <3> HIDE DEF ds
    <3>1. \A d \in DOMAIN ds : d \in DOMAIN documents \/ d = Len(documents) + 1
      BY <2>8
    <3> QED BY <2>5, <2>7, <2>8, <3>1
  <2> HIDE DEF ds
  <2>10. builder' \in Builders /\ PacksFit(builder') /\ documents' \in Seq(Docs) /\ packed' \in BOOLEAN /\ ~packed'
    BY <1>0, <2>1, <2>4, <2>8
  <2>11. (\A d \in DOMAIN documents' : Lies(documents'[d], t)) /\ Streams(builder', t)
    BY <2>1, <2>4, <2>9
  <2> QED BY <2>6, <2>10, <2>11 DEF WriterInv
<1>3. CASE FinishPacks
  <2> DEFINE b == FlushBlock(builder)
             c == FinishPack(b)
  <2>1. ~packed /\ builder' = c /\ documents' = documents /\ packed' = TRUE
    BY <1>3 DEF FinishPacks
  <2>2. Streams(builder, s)
    BY <1>1, <2>1
  <2>3. Held(b.blocks, s) /\ b \in Builders /\ PacksFit(b)
    BY <1>0, <2>2, FlushHolds
  <2> HIDE DEF b
  <2>4. c \in Builders /\ PacksFit(c) /\ c.blocks = b.blocks /\ c.active = 0
    BY <2>3, FinishPackIs
  <2> HIDE DEF c
  <2>5. builder' \in Builders /\ PacksFit(builder') /\ Held(builder'.blocks, s) /\ builder'.active = 0
    BY <2>1, <2>3, <2>4
  <2> QED BY <1>0, <1>1, <2>1, <2>5 DEF WriterInv
<1>4. CASE UNCHANGED writerVars
  BY <1>4 DEF WriterInv, writerVars
<1> QED BY <1>2, <1>3, <1>4 DEF WriterNext

\* Documents are read back as they were written, and packs are bounded.
LEMMA WriterReads == WriterInv => ReadsBack /\ RunsAreRanges /\ PacksBounded
<1> SUFFICES ASSUME WriterInv PROVE ReadsBack /\ RunsAreRanges /\ PacksBounded
  OBVIOUS
<1>0. builder \in Builders /\ PacksFit(builder) /\ documents \in Seq(Docs) /\ packed \in BOOLEAN
  BY DEF WriterInv
<1>1. PICK s \in Seq(Byte) : /\ \A d \in DOMAIN documents : Lies(documents[d], s)
                             /\ IF packed THEN Held(builder.blocks, s) ELSE Streams(builder, s)
  BY DEF WriterInv
<1> DEFINE blocks == builder.blocks
<1>2. blocks \in Seq(PackBlocksSet)
  BY <1>0 DEF Builders
<1>6. packed => builder.active = 0
  BY DEF WriterInv
<1>3. ReadsBack
  <2> SUFFICES ASSUME packed, NEW d \in DOMAIN documents
               PROVE  /\ ReadRange(DocumentBlocks(documents[d].slice, Len(documents[d].bytes), blocks), blocks, 0, Len(documents[d].bytes))
                           = documents[d].bytes
                      /\ FetchLarge(documents[d].slice, Len(documents[d].bytes), blocks) = documents[d].bytes
    BY DEF ReadsBack
  <2> DEFINE doc == documents[d]
  <2>1. Held(blocks, s) /\ doc \in Docs /\ Lies(doc, s)
    BY <1>0, <1>1
  <2> HIDE DEF doc, blocks
  <2>2. ReadRange(DocumentBlocks(doc.slice, Len(doc.bytes), blocks), blocks, 0, Len(doc.bytes)) = doc.bytes
    BY <1>2, <2>1, ReadsWholeDocument
  <2>3. FetchLarge(doc.slice, Len(doc.bytes), blocks) = doc.bytes
    BY <1>2, <2>1, FetchLargeIs
  <2> QED BY <2>2, <2>3 DEF doc
<1>4. PacksBounded
  BY <1>0 DEF PacksBounded, PacksFit, FitsPack
<1>5. RunsAreRanges
  <2> SUFFICES ASSUME packed, NEW T \in SUBSET DOMAIN builder.blocks
               PROVE  LET rs == BlockRuns(Ascending(T), builder.blocks) IN
                      /\ FlattenSeq([i \in DOMAIN rs |-> rs[i].ids]) = Ascending(T)
                      /\ \A i \in DOMAIN rs :
                            /\ IsRange(rs[i], builder.blocks)
                            /\ rs[i].pack \in DOMAIN builder.packs
                            /\ rs[i].offset + rs[i].len <= builder.packs[rs[i].pack]
                            /\ rs[i].len <= RangeBytes \/ Len(rs[i].ids) = 1
    BY DEF RunsAreRanges
  <2> DEFINE m == Len(blocks)
             ids == Ascending(T)
             rs == BlockRuns(ids, blocks)
  <2>1. m \in Nat /\ DOMAIN blocks = 1..m
    BY <1>2
  <2>2. ids \in Seq(1..m)
    <3>1. T \in SUBSET (1..m)
      BY <2>1
    <3> HIDE DEF m
    <3> QED BY <2>1, <3>1, AscendingIs
  <2> HIDE DEF ids
  <2>3. rs \in Seq(RunSet) /\ FlattenSeq(IdsOf(rs)) = ids
    BY <1>2, <2>2, BlockRunsIs
  <2>4. \A i \in 1..Len(rs) : IsRun(rs[i], blocks)
    BY <1>2, <2>2, RunsAre
  <2> HIDE DEF rs
  <2>5. ASSUME NEW i \in DOMAIN rs
        PROVE  /\ IsRange(rs[i], blocks) /\ rs[i].pack \in DOMAIN builder.packs
               /\ rs[i].offset + rs[i].len <= builder.packs[rs[i].pack]
               /\ rs[i].len <= RangeBytes \/ Len(rs[i].ids) = 1
    <3> DEFINE run == rs[i]
               n == Len(run.ids)
               x == blocks[run.ids[n]]
    <3>1. IsRun(run, blocks)
      BY <2>3, <2>4
    <3> HIDE DEF run
    <3>2. run.ids \in Seq(1..m) /\ IsRange(run, blocks) /\ (run.len <= RangeBytes \/ n = 1)
      BY <3>1 DEF IsRun
    <3>3. n > 0 /\ n \in Nat
      BY <3>2 DEF IsRange
    <3>4. n \in 1..n
      BY <3>3
    <3>5. x.pack = run.pack /\ x.offset + x.len = run.offset + run.len
      BY <3>2, <3>4 DEF IsRange
    <3>6. run.ids[n] \in 1..m
      BY <3>2, <3>4
    <3>7. x \in PackBlocksSet /\ InsidePack(builder, x)
      BY <1>0, <1>2, <2>1, <3>6 DEF PacksFit
    <3>8. builder.active = 0
      BY <1>6
    <3> HIDE DEF x, n
    <3>9. x.len \in Nat /\ x.offset \in Nat
      BY <3>7 DEF PackBlocksSet
    <3>10. x.pack \in DOMAIN builder.packs /\ x.offset + x.len <= builder.packs[x.pack]
      BY <3>7, <3>8, <3>9 DEF InsidePack
    <3> QED BY <3>2, <3>5, <3>10 DEF run, n
  <2>6. FlattenSeq([i \in DOMAIN rs |-> rs[i].ids]) = ids
    BY <2>3 DEF IdsOf
  <2> QED BY <2>5, <2>6 DEF rs, ids
<1> QED BY <1>3, <1>4, <1>5

WriterSpec == WriterInit /\ [][WriterNext]_writerVars

\* What PackBuilder writes, the readers of whole documents read: wherever blocks and
\* packs end, read_range and fetch_large give the bytes that were appended, the runs of
\* block_runs are ranges of packs with the blocks asked for and nothing else, and a pack
\* is longer than its target only when it is one block.
THEOREM DocumentsReadBack == WriterSpec => [](ReadsBack /\ RunsAreRanges /\ PacksBounded)
<1>1. WriterInit => WriterInv
  BY WriterStarts
<1>2. WriterInv /\ [WriterNext]_writerVars => WriterInv'
  BY WriterKeeps
<1>3. WriterInv => ReadsBack /\ RunsAreRanges /\ PacksBounded
  BY WriterReads
<1> QED BY <1>1, <1>2, <1>3, PTL DEF WriterSpec
=============================================================================
