-------------------------- MODULE AccountingProofs --------------------------
(***************************************************************************)
(* Proofs about what is counted: the permits of the request limiter with    *)
(* the tokens of its hedges, the bytes that downloads may hold, and the      *)
(* size of the object cache.                                                *)
(***************************************************************************)
EXTENDS RequestLimiter, Downloads, ObjectCache, FiniteSetTheorems, WellFoundedInduction, TLAPS

(***************************************************************************)
(* Counting.                                                               *)
(***************************************************************************)

One(b) == IF b THEN 1 ELSE 0

\* Two finite sets that differ in one element.
LEMMA CountChange ==
    ASSUME NEW S, NEW T, NEW x, IsFiniteSet(S), S \ {x} = T \ {x}
    PROVE  /\ IsFiniteSet(T) /\ Cardinality(S) \in Nat /\ Cardinality(T) \in Nat
           /\ Cardinality(T) + One(x \in S) = Cardinality(S) + One(x \in T)
<1> DEFINE R == S \ {x}
<1>1. IsFiniteSet(R) /\ Cardinality(R) = IF x \in S THEN Cardinality(S) - 1 ELSE Cardinality(S)
  BY FS_RemoveElement
<1>2. R \ {x} = R /\ x \notin R /\ (x \in T => T = R \cup {x}) /\ (x \notin T => T = R)
  OBVIOUS
<1>3. Cardinality(R) \in Nat /\ Cardinality(S) \in Nat
  BY <1>1, FS_CardinalityType
<1> HIDE DEF R
<1>4. IsFiniteSet(R \cup {x}) /\ Cardinality(R \cup {x}) = Cardinality(R) + 1
  BY <1>1, <1>2, FS_AddElement
<1>5. IsFiniteSet(T) /\ Cardinality(T) = IF x \in T THEN Cardinality(R) + 1 ELSE Cardinality(R)
  BY <1>1, <1>2, <1>4
<1>6. Cardinality(T) \in Nat
  BY <1>5, FS_CardinalityType
<1> QED BY <1>1, <1>3, <1>5, <1>6 DEF One

\* The units of an amount for each member of X, at most N for each.
Units(X, N, amount) == {y \in X \X (1..N) : y[2] <= amount[y[1]]}

\* Amounts that differ at x.
LEMMA UnitsChange ==
    ASSUME NEW X, IsFiniteSet(X), NEW N \in Nat, NEW a \in [X -> 0..N], NEW b \in [X -> 0..N],
           NEW x \in X, \A y \in X : y # x => a[y] = b[y]
    PROVE  /\ IsFiniteSet(Units(X, N, a)) /\ Cardinality(Units(X, N, a)) \in Nat
           /\ Cardinality(Units(X, N, b)) \in Nat
           /\ Cardinality(Units(X, N, b)) + a[x] = Cardinality(Units(X, N, a)) + b[x]
<1> DEFINE R == {y \in Units(X, N, a) : y[1] # x}
           Of(n) == {x} \X (1..n)
<1>1. IsFiniteSet(Units(X, N, a))
  <2>1. IsFiniteSet(1..N)
    BY FS_Interval
  <2>2. IsFiniteSet(X \X (1..N))
    BY <2>1, FS_Product
  <2>3. Units(X, N, a) \in SUBSET (X \X (1..N))
    BY DEF Units
  <2> QED BY <2>2, <2>3, FS_Subset
<1>2. IsFiniteSet(R) /\ Cardinality(R) \in Nat
  BY <1>1, FS_Subset, FS_CardinalityType
<1>3. ASSUME NEW n \in 0..N PROVE IsFiniteSet(Of(n)) /\ Cardinality(Of(n)) = n
  <2>1. 1 \in Int /\ n \in Int /\ n \in Nat
    OBVIOUS
  <2>2. IsFiniteSet(1..n) /\ Cardinality(1..n) = IF 1 > n THEN 0 ELSE n - 1 + 1
    BY <2>1, FS_Interval
  <2>3. Cardinality(1..n) = n
    BY <2>1, <2>2
  <2>4. IsFiniteSet({x}) /\ Cardinality({x}) = 1
    BY FS_Singleton
  <2>5. IsFiniteSet({x} \X (1..n)) /\ Cardinality({x} \X (1..n)) = Cardinality({x}) * Cardinality(1..n)
    BY <2>2, <2>4, FS_Product
  <2> QED BY <2>1, <2>3, <2>4, <2>5
<1>4. ASSUME NEW n \in 0..N, NEW T, T = R \cup Of(n) PROVE Cardinality(T) = Cardinality(R) + n
  <2>1. R \cap Of(n) = {}
    OBVIOUS
  <2>2. Cardinality(R \cap Of(n)) = 0
    BY <2>1, FS_EmptySet
  <2> HIDE DEF R, Of
  <2>3. Cardinality(R \cup Of(n)) = Cardinality(R) + Cardinality(Of(n)) - Cardinality(R \cap Of(n))
    BY <1>2, <1>3, FS_Union
  <2> QED BY <1>2, <1>3, <1>4, <2>2, <2>3
<1>5. Units(X, N, a) = R \cup Of(a[x])
  BY DEF Units
<1>6. Units(X, N, b) = R \cup Of(b[x])
  BY DEF Units
<1>7. a[x] \in 0..N /\ b[x] \in 0..N
  OBVIOUS
<1> HIDE DEF R, Of
<1>8. Cardinality(Units(X, N, a)) = Cardinality(R) + a[x]
  BY <1>4, <1>5, <1>7
<1>9. Cardinality(Units(X, N, b)) = Cardinality(R) + b[x]
  BY <1>4, <1>6, <1>7
<1> QED BY <1>1, <1>2, <1>7, <1>8, <1>9

-----------------------------------------------------------------------------
(***************************************************************************)
(* The request limiter.                                                    *)
(***************************************************************************)

LaneSet == Calls \X Lanes
LaneFcns == [Calls -> [Lanes -> Lane]]

\* The lanes that hold a permit or are about to add one, and the permits owed, of any
\* state f of the lanes.
LanesAt(f, pc) == {x \in LaneSet : f[x[1]][x[2]].pc = pc}
Out(f) == Cardinality(LanesAt(f, "send")) + Cardinality(LanesAt(f, "held")) + Cardinality(LanesAt(f, "add"))
OwedOf(f) == [x \in LaneSet |-> f[x[1]][x[2]].owed]
OwedCount(f) == Cardinality(Units(LaneSet, Cap, OwedOf(f)))
Weight(q) == One(q.pc \in {"send", "held", "add"})

LEMMA LanesFinite == IsFiniteSet(LaneSet)
<1>1. IsFiniteSet({"primary"}) /\ IsFiniteSet({"primary"} \cup {"hedge"})
  BY FS_Singleton, FS_AddElement
<1>2. Lanes = {"primary"} \cup {"hedge"}
  BY DEF Lanes
<1> QED BY <1>1, <1>2, LimiterAssumption, FS_Product DEF LaneSet

\* The count of the lanes at a pc when one lane changes.
LEMMA PcChange ==
    ASSUME NEW f \in LaneFcns, NEW g \in LaneFcns, NEW x \in LaneSet,
           \A y \in LaneSet : y # x => g[y[1]][y[2]] = f[y[1]][y[2]], NEW p
    PROVE  /\ Cardinality(LanesAt(f, p)) \in Nat /\ Cardinality(LanesAt(g, p)) \in Nat
           /\ Cardinality(LanesAt(g, p)) + One(f[x[1]][x[2]].pc = p)
                = Cardinality(LanesAt(f, p)) + One(g[x[1]][x[2]].pc = p)
<1>1. IsFiniteSet(LanesAt(f, p))
  BY LanesFinite, FS_Subset DEF LanesAt
<1>2. LanesAt(f, p) \ {x} = LanesAt(g, p) \ {x}
  BY DEF LanesAt
<1>3. (x \in LanesAt(f, p) <=> f[x[1]][x[2]].pc = p) /\ (x \in LanesAt(g, p) <=> g[x[1]][x[2]].pc = p)
  BY DEF LanesAt
<1> QED BY <1>1, <1>2, <1>3, CountChange DEF One

\* What is out and what is owed when one lane changes.
LEMMA LaneChange ==
    ASSUME NEW f \in LaneFcns, NEW g \in LaneFcns, NEW c \in Calls, NEW l \in Lanes,
           \A d \in Calls, m \in Lanes : <<d, m>> # <<c, l>> => g[d][m] = f[d][m]
    PROVE  /\ {Out(f), Out(g), OwedCount(f), OwedCount(g)} \subseteq Nat
           /\ Out(g) + Weight(f[c][l]) = Out(f) + Weight(g[c][l])
           /\ OwedCount(g) + f[c][l].owed = OwedCount(f) + g[c][l].owed
<1> DEFINE x == <<c, l>>
<1>1. x \in LaneSet /\ x[1] = c /\ x[2] = l /\ \A y \in LaneSet : y # x => g[y[1]][y[2]] = f[y[1]][y[2]]
  BY DEF LaneSet
<1> HIDE DEF x
<1>2. ASSUME NEW p
      PROVE  /\ Cardinality(LanesAt(f, p)) \in Nat /\ Cardinality(LanesAt(g, p)) \in Nat
             /\ Cardinality(LanesAt(g, p)) + One(f[c][l].pc = p) = Cardinality(LanesAt(f, p)) + One(g[c][l].pc = p)
  BY <1>1, PcChange
<1>3. ASSUME NEW q PROVE Weight(q) = One(q.pc = "send") + One(q.pc = "held") + One(q.pc = "add")
  BY DEF Weight, One
<1>4. ASSUME NEW b \in BOOLEAN PROVE One(b) \in Nat
  BY DEF One
<1>5. /\ Out(f) \in Nat /\ Out(g) \in Nat
      /\ Out(g) + Weight(f[c][l]) = Out(f) + Weight(g[c][l])
  <2> DEFINE F(p) == Cardinality(LanesAt(f, p))
             G(p) == Cardinality(LanesAt(g, p))
             a(p) == One(f[c][l].pc = p)
             b(p) == One(g[c][l].pc = p)
  <2>1. ASSUME NEW p PROVE F(p) \in Nat /\ G(p) \in Nat /\ a(p) \in Nat /\ b(p) \in Nat /\ G(p) + a(p) = F(p) + b(p)
    BY <1>2, <1>4
  <2>2. /\ Weight(f[c][l]) = a("send") + a("held") + a("add")
        /\ Weight(g[c][l]) = b("send") + b("held") + b("add")
    BY <1>3
  <2>3. Out(f) = F("send") + F("held") + F("add") /\ Out(g) = G("send") + G("held") + G("add")
    BY DEF Out
  <2> HIDE DEF F, G, a, b
  <2>4. {F("send"), G("send"), a("send"), b("send")} \subseteq Nat /\ G("send") + a("send") = F("send") + b("send")
    BY <2>1
  <2>5. {F("held"), G("held"), a("held"), b("held")} \subseteq Nat /\ G("held") + a("held") = F("held") + b("held")
    BY <2>1
  <2>6. {F("add"), G("add"), a("add"), b("add")} \subseteq Nat /\ G("add") + a("add") = F("add") + b("add")
    BY <2>1
  <2> QED BY <2>2, <2>3, <2>4, <2>5, <2>6
<1>6. OwedOf(f) \in [LaneSet -> 0..Cap] /\ OwedOf(g) \in [LaneSet -> 0..Cap]
  BY DEF OwedOf, LaneSet, LaneFcns, Lane
<1>7. OwedOf(f)[x] = f[c][l].owed /\ OwedOf(g)[x] = g[c][l].owed
  BY <1>1 DEF OwedOf
<1>8. \A y \in LaneSet : y # x => OwedOf(f)[y] = OwedOf(g)[y]
  BY <1>1 DEF OwedOf
<1>9. /\ OwedCount(f) \in Nat /\ OwedCount(g) \in Nat
      /\ OwedCount(g) + OwedOf(f)[x] = OwedCount(f) + OwedOf(g)[x]
  BY <1>1, <1>6, <1>8, LanesFinite, LimiterAssumption, UnitsChange DEF OwedCount
<1> QED BY <1>5, <1>7, <1>9

\* Only on_throttle owes permits, and a lane backs off only if it may try again.
LaneOK(q) ==
    /\ q.pc # "forget" => q.owed = 0
    /\ q.pc = "backoff" => q.attempt < MaxRetries

\* The inductive invariant behind LimiterSound.
LimiterInv == LimiterSound /\ \A c \in Calls, l \in Lanes : LaneOK(lane[c][l])

LEMMA BalanceAsCounts ==
    ASSUME TypeOK
    PROVE  PermitsBalance <=> permits + Out(lane) = limit + pendingShrink + OwedCount(lane)
<1>1. /\ Sending = LanesAt(lane, "send") /\ Holding = LanesAt(lane, "held")
      /\ InLane("add") = LanesAt(lane, "add")
  BY DEF Sending, Holding, InLane, LanesAt, LaneSet
<1>2. Owed = Units(LaneSet, Cap, OwedOf(lane))
  BY DEF Owed, Units, OwedOf, LaneSet
<1>3. ASSUME NEW p PROVE Cardinality(LanesAt(lane, p)) \in Nat
  BY LanesFinite, FS_Subset, FS_CardinalityType DEF LanesAt
<1>4. permits \in Nat
  BY DEF TypeOK
<1> QED BY <1>1, <1>2, <1>3, <1>4 DEF PermitsBalance, Out, OwedCount

Hedges(f) == {c \in Calls : f[c]["hedge"].pc # "off"}

\* Lane l of call c goes on as q: the invariant stays if the books are kept.
LEMMA LaneMoves ==
    ASSUME LimiterInv, NEW c \in Calls, NEW l \in Lanes, NEW q \in Lane, LaneOK(q),
           lane' = [lane EXCEPT ![c][l] = q], UNCHANGED tokens,
           l = "hedge" => (q.pc = "off" <=> lane[c][l].pc = "off"),
           limit' \in 1..Cap, permits' \in Nat, pendingShrink' \in Nat, cooling' \in BOOLEAN,
           hedging' \in [Calls -> Hedging],
           permits' + Weight(q) + limit + pendingShrink + lane[c][l].owed
                = permits + Weight(lane[c][l]) + limit' + pendingShrink' + q.owed
    PROVE  LimiterInv'
<1>1. /\ TypeOK /\ PermitsBalance /\ TokensBalance /\ lane \in LaneFcns
      /\ limit \in Nat /\ permits \in Nat /\ pendingShrink \in Nat
  BY LimiterAssumption DEF LimiterInv, LimiterSound, TypeOK, LaneFcns
<1>2. lane' \in LaneFcns /\ lane'[c][l] = q
  BY <1>1 DEF LaneFcns
<1>3. \A d \in Calls, m \in Lanes : <<d, m>> # <<c, l>> => lane'[d][m] = lane[d][m]
  BY <1>1 DEF LaneFcns
<1>4. TypeOK'
  BY <1>1, <1>2 DEF TypeOK, LaneFcns
<1>5. PermitsBalance'
  <2>0. /\ {Out(lane), Out(lane'), OwedCount(lane), OwedCount(lane')} \subseteq Nat
        /\ Out(lane') + Weight(lane[c][l]) = Out(lane) + Weight(lane'[c][l])
        /\ OwedCount(lane') + lane[c][l].owed = OwedCount(lane) + lane'[c][l].owed
    <3> DEFINE g == lane'
    <3>1. g \in LaneFcns /\ lane \in LaneFcns
      BY <1>1, <1>2
    <3>2. \A d \in Calls, m \in Lanes : <<d, m>> # <<c, l>> => g[d][m] = lane[d][m]
      BY <1>3
    <3> HIDE DEF g
    <3>3. /\ {Out(lane), Out(g), OwedCount(lane), OwedCount(g)} \subseteq Nat
          /\ Out(g) + Weight(lane[c][l]) = Out(lane) + Weight(g[c][l])
          /\ OwedCount(g) + lane[c][l].owed = OwedCount(lane) + g[c][l].owed
      BY <3>1, <3>2, LaneChange
    <3> QED BY <3>3 DEF g
  <2>1. /\ {Out(lane), Out(lane'), OwedCount(lane), OwedCount(lane')} \subseteq Nat
        /\ Out(lane') + Weight(lane[c][l]) = Out(lane) + Weight(q)
        /\ OwedCount(lane') + lane[c][l].owed = OwedCount(lane) + q.owed
    BY <1>2, <2>0
  <2>2. permits + Out(lane) = limit + pendingShrink + OwedCount(lane)
    BY <1>1, BalanceAsCounts
  <2>3. /\ Weight(q) \in Nat /\ Weight(lane[c][l]) \in Nat /\ q.owed \in Nat /\ lane[c][l].owed \in Nat
        /\ limit' \in Nat
    BY <1>1, LimiterAssumption DEF Weight, One, Lane, LaneFcns
  <2>4. permits' + Out(lane') = limit' + pendingShrink' + OwedCount(lane')
    BY <1>1, <2>1, <2>2, <2>3
  <2>5. (permits + Out(lane) = limit + pendingShrink + OwedCount(lane))' => PermitsBalance'
    BY <1>4, BalanceAsCounts, PTL
  <2> QED BY <2>4, <2>5
<1>6. TokensBalance'
  <2>1. ASSUME NEW d \in Calls PROVE lane'[d]["hedge"].pc # "off" <=> lane[d]["hedge"].pc # "off"
    <3>1. "hedge" \in Lanes
      BY DEF Lanes
    <3>2. CASE <<d, "hedge">> = <<c, l>>
      BY <1>2, <3>2
    <3>3. CASE <<d, "hedge">> # <<c, l>>
      BY <1>3, <3>1, <3>3
    <3> QED BY <3>2, <3>3
  <2>2. {d \in Calls : lane'[d]["hedge"].pc # "off"} = {d \in Calls : lane[d]["hedge"].pc # "off"}
    BY <2>1
  <2> QED BY <1>1, <2>2 DEF TokensBalance, Hedged
<1>7. \A d \in Calls, m \in Lanes : LaneOK(lane'[d][m])
  BY <1>2, <1>3 DEF LimiterInv
<1> QED BY <1>4, <1>5, <1>6, <1>7 DEF LimiterInv, LimiterSound

LEMMA LaneTypes ==
    Off \in Lane /\ Begun \in Lane /\ LaneOK(Off) /\ LaneOK(Begun)
    /\ Off.pc = "off" /\ Off.owed = 0 /\ Begun.pc = "want" /\ Begun.owed = 0
BY LimiterAssumption DEF Off, Begun, Lane, LaneOK

\* A call returns: its lanes are dropped with what they hold, and what the lane that
\* returns owed is left to those who acquire.
LEMMA ReturnMoves ==
    ASSUME LimiterInv, NEW c \in Calls, NEW l \in Lanes, NEW released \in {0, 1}, Return(c, l, released),
           lane[c][Other(l)].pc \in Awaiting, released = Weight(lane[c][l]),
           limit' = limit, pendingShrink' = pendingShrink + lane[c][l].owed, cooling' \in BOOLEAN
    PROVE  LimiterInv'
<1> DEFINE m == Other(l)
           f == [lane EXCEPT ![c][l] = Off]
           g == [lane EXCEPT ![c] = [k \in Lanes |-> Off]]
<1>1. /\ TypeOK /\ PermitsBalance /\ TokensBalance /\ lane \in LaneFcns
      /\ limit \in Nat /\ permits \in Nat /\ pendingShrink \in Nat /\ tokens \in Nat
  BY LimiterAssumption DEF LimiterInv, LimiterSound, TypeOK, LaneFcns
<1>2. m \in Lanes /\ m # l /\ Lanes = {l, m}
  BY DEF Other, Lanes
<1>3. /\ lane' = g /\ hedging' = [hedging EXCEPT ![c] = "unarmed"]
      /\ permits' = permits + released + IF lane[c][m].pc = "send" THEN 1 ELSE 0
      /\ tokens' = IF Hedged(c) /\ tokens < HedgeTokens THEN tokens + 1 ELSE tokens
  BY DEF Return
<1> HIDE DEF m
<1>4. /\ f \in LaneFcns /\ f[c][l] = Off /\ f[c][m] = lane[c][m]
      /\ \A d \in Calls, k \in Lanes : <<d, k>> # <<c, l>> => f[d][k] = lane[d][k]
  BY <1>1, <1>2, LaneTypes DEF LaneFcns
<1>5. /\ g \in LaneFcns /\ g[c][m] = Off
      /\ \A d \in Calls, k \in Lanes : g[d][k] = IF d = c THEN Off ELSE lane[d][k]
  BY <1>1, <1>2, LaneTypes DEF LaneFcns
<1>6. \A d \in Calls, k \in Lanes : <<d, k>> # <<c, m>> => g[d][k] = f[d][k]
  BY <1>2, <1>4, <1>5
<1> HIDE DEF f, g
<1>7. /\ {Out(lane), Out(f), OwedCount(lane), OwedCount(f)} \subseteq Nat
      /\ Out(f) + Weight(lane[c][l]) = Out(lane) + Weight(Off)
      /\ OwedCount(f) + lane[c][l].owed = OwedCount(lane) + Off.owed
  BY <1>1, <1>4, LaneChange
<1>8. /\ {Out(f), Out(g), OwedCount(f), OwedCount(g)} \subseteq Nat
      /\ Out(g) + Weight(lane[c][m]) = Out(f) + Weight(Off)
      /\ OwedCount(g) + lane[c][m].owed = OwedCount(f) + Off.owed
  BY <1>2, <1>4, <1>5, <1>6, LaneChange
<1>9. /\ Weight(Off) = 0 /\ Off.owed = 0 /\ lane[c][m].owed = 0
      /\ Weight(lane[c][m]) = IF lane[c][m].pc = "send" THEN 1 ELSE 0
  <2>1. lane[c][m].pc \in Awaiting /\ LaneOK(lane[c][m])
    BY <1>2 DEF LimiterInv, m
  <2> QED BY <2>1, LaneTypes DEF Weight, One, Awaiting, LaneOK
<1>10. lane[c][l].owed \in Nat
  BY <1>1, LimiterAssumption DEF LaneFcns, Lane
<1>11. permits' + Out(g) = limit' + pendingShrink' + OwedCount(g)
  <2>1. permits + Out(lane) = limit + pendingShrink + OwedCount(lane)
    BY <1>1, BalanceAsCounts
  <2>2. permits' = permits + Weight(lane[c][l]) + Weight(lane[c][m]) /\ Weight(lane[c][l]) \in Nat /\ Weight(lane[c][m]) \in Nat
    BY <1>3, <1>9
  <2> QED BY <1>1, <1>7, <1>8, <1>9, <1>10, <2>1, <2>2
<1>12. Cardinality(Hedges(lane)) \in Nat /\ Cardinality(Hedges(g)) \in Nat
       /\ Cardinality(Hedges(g)) + One(Hedged(c)) = Cardinality(Hedges(lane))
  <2>1. IsFiniteSet(Hedges(lane))
    BY LimiterAssumption, FS_Subset DEF Hedges
  <2>2. Hedges(lane) \ {c} = Hedges(g) \ {c} /\ c \notin Hedges(g) /\ (c \in Hedges(lane) <=> Hedged(c))
    BY <1>5, LaneTypes DEF Hedges, Hedged, Lanes
  <2> QED BY <2>1, <2>2, CountChange DEF One
<1>13. tokens + Cardinality(Hedges(lane)) = HedgeTokens
  BY <1>1 DEF TokensBalance, Hedges, Hedged
<1>14. tokens' + Cardinality(Hedges(g)) = HedgeTokens /\ tokens' \in 0..HedgeTokens
  BY <1>1, <1>3, <1>12, <1>13, LimiterAssumption DEF One
<1>15. TypeOK'
  <2>1. permits' \in Nat /\ pendingShrink' \in Nat
    BY <1>1, <1>3, <1>10
  <2>2. hedging' \in [Calls -> Hedging]
    BY <1>1, <1>3 DEF TypeOK, Hedging
  <2> QED BY <1>1, <1>3, <1>5, <1>14, <2>1, <2>2 DEF TypeOK, LaneFcns
<1>16. PermitsBalance'
  <2>1. (permits + Out(lane) = limit + pendingShrink + OwedCount(lane))' => PermitsBalance'
    BY <1>15, BalanceAsCounts, PTL
  <2> QED BY <1>3, <1>11, <2>1
<1>17. TokensBalance'
  BY <1>3, <1>14 DEF TokensBalance, Hedges, Hedged
<1>18. \A d \in Calls, k \in Lanes : LaneOK(lane'[d][k])
  BY <1>3, <1>5, LaneTypes DEF LimiterInv
<1> QED BY <1>15, <1>16, <1>17, <1>18 DEF LimiterInv, LimiterSound

LEMMA HedgeMoves ==
    ASSUME LimiterInv, NEW c \in Calls, Hedge(c)
    PROVE  LimiterInv'
<1>1. /\ TypeOK /\ PermitsBalance /\ TokensBalance /\ lane \in LaneFcns
      /\ limit \in Nat /\ permits \in Nat /\ pendingShrink \in Nat /\ tokens \in Nat
  BY LimiterAssumption DEF LimiterInv, LimiterSound, TypeOK, LaneFcns
<1>2. hedging' \in [Calls -> Hedging] /\ UNCHANGED <<limit, permits, pendingShrink, cooling>>
  BY <1>1 DEF Hedge, TypeOK, Hedging, limiter
<1>3. CASE UNCHANGED <<tokens, lane>>
  BY <1>1, <1>2, <1>3 DEF LimiterInv, LimiterSound, TypeOK, PermitsBalance, TokensBalance, Sending, Holding, InLane,
                          Owed, Hedged
<1>4. CASE tokens > 0 /\ tokens' = tokens - 1 /\ lane' = [lane EXCEPT ![c]["hedge"] = Begun]
  <2> DEFINE g == [lane EXCEPT ![c]["hedge"] = Begun]
  <2>1. lane[c]["hedge"].pc = "off" /\ "hedge" \in Lanes
    BY DEF Hedge, At, Lanes
  <2>2. /\ g \in LaneFcns /\ g[c]["hedge"] = Begun
        /\ \A d \in Calls, k \in Lanes : <<d, k>> # <<c, "hedge">> => g[d][k] = lane[d][k]
    BY <1>1, <2>1, LaneTypes DEF LaneFcns
  <2>3. lane' = g
    BY <1>4
  <2> HIDE DEF g
  <2>4. /\ {Out(lane), Out(g), OwedCount(lane), OwedCount(g)} \subseteq Nat
        /\ Out(g) + Weight(lane[c]["hedge"]) = Out(lane) + Weight(Begun)
        /\ OwedCount(g) + lane[c]["hedge"].owed = OwedCount(lane) + Begun.owed
    BY <1>1, <2>1, <2>2, LaneChange
  <2>5. Weight(lane[c]["hedge"]) = 0 /\ Weight(Begun) = 0 /\ lane[c]["hedge"].owed = 0 /\ Begun.owed = 0
    BY <2>1, LaneTypes DEF LimiterInv, LaneOK, Weight, One
  <2>6. permits + Out(lane) = limit + pendingShrink + OwedCount(lane)
    BY <1>1, BalanceAsCounts
  <2>7. permits' + Out(g) = limit' + pendingShrink' + OwedCount(g)
    BY <1>2, <2>4, <2>5, <2>6
  <2>8. Cardinality(Hedges(lane)) \in Nat /\ Cardinality(Hedges(g)) = Cardinality(Hedges(lane)) + 1
    <3>1. IsFiniteSet(Hedges(lane))
      BY LimiterAssumption, FS_Subset DEF Hedges
    <3>2. Hedges(lane) \ {c} = Hedges(g) \ {c} /\ c \in Hedges(g) /\ c \notin Hedges(lane)
      BY <2>1, <2>2, LaneTypes DEF Hedges
    <3> QED BY <3>1, <3>2, CountChange DEF One
  <2>9. tokens + Cardinality(Hedges(lane)) = HedgeTokens
    BY <1>1 DEF TokensBalance, Hedges, Hedged
  <2>10. tokens' + Cardinality(Hedges(g)) = HedgeTokens /\ tokens' \in 0..HedgeTokens
    BY <1>1, <1>4, <2>8, <2>9, LimiterAssumption
  <2>11. TypeOK'
    BY <1>1, <1>2, <2>2, <2>3, <2>10 DEF TypeOK, LaneFcns
  <2>12. PermitsBalance'
    <3>1. (permits + Out(lane) = limit + pendingShrink + OwedCount(lane))' => PermitsBalance'
      BY <2>11, BalanceAsCounts, PTL
    <3> QED BY <2>3, <2>7, <3>1
  <2>13. TokensBalance'
    BY <2>3, <2>10 DEF TokensBalance, Hedges, Hedged
  <2>14. \A d \in Calls, k \in Lanes : LaneOK(lane'[d][k])
    BY <2>2, <2>3, LaneTypes DEF LimiterInv
  <2> QED BY <2>11, <2>12, <2>13, <2>14 DEF LimiterInv, LimiterSound
<1> QED BY <1>3, <1>4 DEF Hedge

\* A lane goes to another pc; its attempts and what it owes stay.
LEMMA GotoMoves ==
    ASSUME LimiterInv, NEW c \in Calls, NEW l \in Lanes, NEW p, Goto(c, l, p),
           [lane[c][l] EXCEPT !.pc = p] \in Lane, p \notin {"off", "forget"},
           p = "backoff" => lane[c][l].attempt < MaxRetries,
           lane[c][l].pc \notin {"off", "forget"}, UNCHANGED tokens,
           limit' \in 1..Cap, permits' \in Nat, pendingShrink' \in Nat, cooling' \in BOOLEAN,
           hedging' \in [Calls -> Hedging],
           permits' + One(p \in {"send", "held", "add"}) + limit + pendingShrink
                = permits + Weight(lane[c][l]) + limit' + pendingShrink'
    PROVE  LimiterInv'
<1> DEFINE q == [lane[c][l] EXCEPT !.pc = p]
<1>1. lane \in LaneFcns /\ limit \in Nat /\ permits \in Nat /\ pendingShrink \in Nat /\ limit' \in Nat
  BY LimiterAssumption DEF LimiterInv, LimiterSound, TypeOK, LaneFcns
<1>2. lane' = [lane EXCEPT ![c][l] = q]
  BY <1>1 DEF Goto, LaneFcns
<1>3. q \in Lane /\ q.pc = p /\ q.owed = lane[c][l].owed /\ q.attempt = lane[c][l].attempt
  BY <1>1 DEF Lane, LaneFcns
<1> HIDE DEF q
<1>4. lane[c][l].owed = 0
  BY DEF LimiterInv, LaneOK
<1>5. LaneOK(q)
  BY <1>3, <1>4 DEF LaneOK
<1>6. Weight(q) = One(p \in {"send", "held", "add"}) /\ Weight(q) \in Nat /\ Weight(lane[c][l]) \in Nat
  BY <1>3 DEF Weight, One
<1>7. permits' + Weight(q) + limit + pendingShrink + lane[c][l].owed
        = permits + Weight(lane[c][l]) + limit' + pendingShrink' + q.owed
  BY <1>1, <1>3, <1>4, <1>6
<1> QED BY <1>2, <1>3, <1>5, <1>7, LaneMoves

\* The end of on_throttle, from a lane that holds no permit.
LEMMA AfterThrottleMoves ==
    ASSUME LimiterInv, NEW c \in Calls, NEW l \in Lanes, AfterThrottle(c, l),
           lane[c][Other(l)].pc \in Awaiting, lane[c][l].pc \in {"throttled", "halve", "forget"},
           limit' = limit, pendingShrink' = pendingShrink + lane[c][l].owed, cooling' \in BOOLEAN
    PROVE  LimiterInv'
<1> DEFINE q == [lane[c][l] EXCEPT !.pc = "backoff", !.owed = 0]
<1>1. /\ lane \in LaneFcns /\ limit \in 1..Cap /\ permits \in Nat /\ pendingShrink \in Nat
      /\ limit \in Nat /\ hedging \in [Calls -> Hedging]
  BY LimiterAssumption DEF LimiterInv, LimiterSound, TypeOK, LaneFcns
<1>2. Weight(lane[c][l]) = 0 /\ lane[c][l].owed \in Nat
  BY <1>1, LimiterAssumption DEF Weight, One, LaneFcns, Lane
<1>3. CASE Return(c, l, 0)
  BY <1>2, <1>3, ReturnMoves
<1>4. CASE /\ ~LastAttempt(c, l)
           /\ lane' = [lane EXCEPT ![c][l].pc = "backoff", ![c][l].owed = 0]
           /\ UNCHANGED <<permits, tokens, hedging>>
  <2>1. lane' = [lane EXCEPT ![c][l] = q]
    BY <1>1, <1>4 DEF LaneFcns
  <2>2. q \in Lane /\ q.pc = "backoff" /\ q.owed = 0 /\ q.attempt = lane[c][l].attempt
    <3>1. lane[c][l] \in Lane
      BY <1>1 DEF LaneFcns
    <3>2. 0 \in 0..Cap
      BY LimiterAssumption
    <3> QED BY <3>1, <3>2 DEF Lane
  <2> HIDE DEF q
  <2>3. LaneOK(q) /\ Weight(q) = 0
    <3>1. lane[c][l].attempt < MaxRetries
      BY <1>1, <1>4, LimiterAssumption DEF LastAttempt, LaneFcns, Lane
    <3> QED BY <2>2, <3>1 DEF LaneOK, Weight, One
  <2>4. permits' \in Nat /\ pendingShrink' \in Nat /\ hedging' \in [Calls -> Hedging] /\ UNCHANGED tokens
    BY <1>1, <1>2, <1>4
  <2>5. permits' + Weight(q) + limit + pendingShrink + lane[c][l].owed
          = permits + Weight(lane[c][l]) + limit' + pendingShrink' + q.owed
    BY <1>1, <1>2, <1>4, <2>2, <2>3
  <2> QED BY <1>1, <2>1, <2>2, <2>3, <2>4, <2>5, LaneMoves
<1> QED BY <1>3, <1>4 DEF AfterThrottle

LEMMA LimiterStep ==
    ASSUME LimiterInv, [Next]_vars
    PROVE  LimiterInv'
<1>0. /\ lane \in LaneFcns /\ limit \in 1..Cap /\ limit \in Nat /\ Cap \in Nat /\ permits \in Nat
      /\ pendingShrink \in Nat /\ cooling \in BOOLEAN /\ hedging \in [Calls -> Hedging]
  BY LimiterAssumption DEF LimiterInv, LimiterSound, TypeOK, LaneFcns
<1>q. ASSUME NEW c \in Calls, NEW l \in Lanes
      PROVE  /\ lane[c][l] \in Lane /\ LaneOK(lane[c][l]) /\ lane[c][l].owed \in Nat
             /\ Weight(lane[c][l]) = One(lane[c][l].pc \in {"send", "held", "add"})
  BY <1>0, LimiterAssumption DEF LimiterInv, LaneFcns, Lane, Weight
<1>p. ASSUME NEW c \in Calls, NEW l \in Lanes,
             NEW p \in {"want", "held", "send", "raise", "add", "throttled", "halve", "backoff"}
      PROVE  [lane[c][l] EXCEPT !.pc = p] \in Lane /\ p \notin {"off", "forget"}
  BY <1>q DEF Lane
<1>1. ASSUME NEW c \in Calls, Begin(c) PROVE LimiterInv'
  <2>1. /\ lane' = [lane EXCEPT ![c]["primary"] = Begun] /\ "primary" \in Lanes
        /\ UNCHANGED <<limit, permits, pendingShrink, cooling, tokens, hedging>>
        /\ lane[c]["primary"].pc = "off"
    BY <1>1 DEF Begin, limiter, Lanes, Active
  <2>2. Weight(Begun) = 0 /\ Weight(lane[c]["primary"]) = 0 /\ lane[c]["primary"].owed = 0 /\ Begun.owed = 0
    BY <1>q, <2>1, LaneTypes DEF Weight, One, LaneOK
  <2>3. permits' + Weight(Begun) + limit + pendingShrink + lane[c]["primary"].owed
          = permits + Weight(lane[c]["primary"]) + limit' + pendingShrink' + Begun.owed
    BY <1>0, <2>1, <2>2
  <2> QED BY <1>0, <2>1, <2>3, LaneTypes, LaneMoves
<1>2. ASSUME NEW c \in Calls, NEW l \in Lanes, Acquire(c, l) PROVE LimiterInv'
  <2>1. /\ Goto(c, l, "held") /\ permits > 0 /\ permits' = permits - 1
        /\ UNCHANGED <<limit, pendingShrink, cooling, tokens, hedging>> /\ lane[c][l].pc = "want"
    BY <1>2 DEF Acquire, At
  <2>2. Weight(lane[c][l]) = 0 /\ permits' \in Nat
    BY <1>0, <1>q, <2>1 DEF One
  <2>3. permits' + One("held" \in {"send", "held", "add"}) + limit + pendingShrink
          = permits + Weight(lane[c][l]) + limit' + pendingShrink'
    BY <1>0, <2>1, <2>2 DEF One
  <2> QED BY <1>0, <1>p, <2>1, <2>2, <2>3, GotoMoves
<1>3. ASSUME NEW c \in Calls, NEW l \in Lanes, PayShrink(c, l) PROVE LimiterInv'
  <2>1. /\ Goto(c, l, "want") /\ pendingShrink > 0 /\ pendingShrink' = pendingShrink - 1
        /\ UNCHANGED <<limit, permits, cooling, tokens, hedging>> /\ lane[c][l].pc = "held"
    BY <1>3 DEF PayShrink, At
  <2>2. Weight(lane[c][l]) = 1 /\ pendingShrink' \in Nat
    BY <1>0, <1>q, <2>1 DEF One
  <2>3. permits' + One("want" \in {"send", "held", "add"}) + limit + pendingShrink
          = permits + Weight(lane[c][l]) + limit' + pendingShrink'
    BY <1>0, <2>1, <2>2 DEF One
  <2> QED BY <1>0, <1>p, <2>1, <2>2, <2>3, GotoMoves
<1>4. ASSUME NEW c \in Calls, NEW l \in Lanes, Send(c, l) PROVE LimiterInv'
  <2>1. /\ Goto(c, l, "send") /\ UNCHANGED <<limit, permits, pendingShrink, cooling, tokens>> /\ lane[c][l].pc = "held"
    BY <1>4 DEF Send, At, limiter
  <2>2. hedging' \in [Calls -> Hedging]
    BY <1>0, <1>4 DEF Send, Hedging
  <2>3. Weight(lane[c][l]) = 1
    BY <1>q, <2>1 DEF One
  <2>4. permits' + One("send" \in {"send", "held", "add"}) + limit + pendingShrink
          = permits + Weight(lane[c][l]) + limit' + pendingShrink'
    BY <1>0, <2>1, <2>3 DEF One
  <2> QED BY <1>0, <1>p, <2>1, <2>2, <2>4, GotoMoves
\* A request ends and its permit is released.
<1>5. ASSUME NEW c \in Calls, NEW l \in Lanes, NEW p \in {"raise", "throttled", "backoff"}, Goto(c, l, p),
             lane[c][l].pc = "send", p = "backoff" => lane[c][l].attempt < MaxRetries,
             permits' = permits + 1, UNCHANGED <<limit, pendingShrink, cooling, tokens, hedging>>
      PROVE  LimiterInv'
  <2>1. Weight(lane[c][l]) = 1 /\ permits' \in Nat
    BY <1>0, <1>q, <1>5 DEF One
  <2>2. permits' + One(p \in {"send", "held", "add"}) + limit + pendingShrink
          = permits + Weight(lane[c][l]) + limit' + pendingShrink'
    BY <1>0, <1>5, <2>1 DEF One
  <2> QED BY <1>0, <1>p, <1>5, <2>1, <2>2, GotoMoves
<1>6. ASSUME NEW c \in Calls, NEW l \in Lanes, Succeed(c, l) \/ Throttle(c, l) PROVE LimiterInv'
  BY <1>5, <1>6 DEF Succeed, Throttle, At
<1>7. ASSUME NEW c \in Calls, NEW l \in Lanes, lane[c][l].pc \in {"send", "add"}, Return(c, l, 1),
             lane[c][Other(l)].pc \in Awaiting, UNCHANGED <<limit, pendingShrink, cooling>>
      PROVE  LimiterInv'
  <2>1. Weight(lane[c][l]) = 1 /\ lane[c][l].owed = 0
    BY <1>q, <1>7 DEF One, LaneOK
  <2> QED BY <1>0, <1>7, <2>1, ReturnMoves
<1>8. ASSUME NEW c \in Calls, NEW l \in Lanes, Fail(c, l) \/ AddPermit(c, l) PROVE LimiterInv'
  BY <1>7, <1>8 DEF Fail, AddPermit, At
<1>9. ASSUME NEW c \in Calls, NEW l \in Lanes, Transient(c, l) PROVE LimiterInv'
  <2>1. CASE Return(c, l, 1)
    BY <1>7, <1>9, <2>1 DEF Transient, At
  <2>2. CASE /\ ~LastAttempt(c, l) /\ permits' = permits + 1 /\ Goto(c, l, "backoff")
             /\ UNCHANGED <<tokens, hedging>>
    <3>1. lane[c][l].attempt < MaxRetries
      BY <1>q, <2>2, LimiterAssumption DEF LastAttempt, Lane
    <3> QED BY <1>5, <1>9, <2>2, <3>1 DEF Transient, At
  <2> QED BY <1>9, <2>1, <2>2 DEF Transient
<1>10. ASSUME NEW c \in Calls, NEW l \in Lanes, Retry(c, l) PROVE LimiterInv'
  <2> DEFINE q == [lane[c][l] EXCEPT !.pc = "want", !.attempt = @ + 1]
  <2>1. /\ lane' = [lane EXCEPT ![c][l] = q] /\ lane[c][l].pc = "backoff"
        /\ UNCHANGED <<limit, permits, pendingShrink, cooling, tokens, hedging>>
    BY <1>0, <1>10 DEF Retry, At, limiter, LaneFcns
  <2>2. lane[c][l].attempt < MaxRetries /\ lane[c][l].owed = 0 /\ lane[c][l].attempt \in Nat
    BY <1>q, <2>1, LimiterAssumption DEF LaneOK, Lane
  <2>3. q \in Lane /\ q.pc = "want" /\ q.owed = lane[c][l].owed
    <3>1. lane[c][l].attempt + 1 \in 0..MaxRetries
      BY <2>2, LimiterAssumption
    <3> QED BY <1>q, <3>1 DEF Lane
  <2> HIDE DEF q
  <2>4. LaneOK(q) /\ Weight(q) = 0 /\ Weight(lane[c][l]) = 0
    BY <1>q, <2>1, <2>2, <2>3 DEF LaneOK, Weight, One
  <2>5. permits' + Weight(q) + limit + pendingShrink + lane[c][l].owed
          = permits + Weight(lane[c][l]) + limit' + pendingShrink' + q.owed
    BY <1>0, <2>1, <2>2, <2>3, <2>4
  <2> QED BY <1>0, <2>1, <2>3, <2>4, <2>5, LaneMoves
<1>11. ASSUME NEW c \in Calls, NEW l \in Lanes, Raise(c, l) PROVE LimiterInv'
  <2>1. /\ lane[c][l].pc = "raise" /\ lane[c][Other(l)].pc \in Awaiting
        /\ UNCHANGED <<pendingShrink, cooling>>
    BY <1>11 DEF Raise, At
  <2>2. Weight(lane[c][l]) = 0 /\ lane[c][l].owed = 0
    BY <1>q, <2>1 DEF One, LaneOK
  <2>3. CASE limit < Cap /\ limit' = limit + 1 /\ Goto(c, l, "add") /\ UNCHANGED <<permits, tokens, hedging>>
    <3>1. permits' + One("add" \in {"send", "held", "add"}) + limit + pendingShrink
            = permits + Weight(lane[c][l]) + limit' + pendingShrink'
      BY <1>0, <2>1, <2>2, <2>3 DEF One
    <3>2. limit' \in 1..Cap
      BY <1>0, <2>3
    <3> QED BY <1>0, <1>p, <2>1, <2>3, <3>1, <3>2, GotoMoves
  <2>4. CASE Return(c, l, 0) /\ UNCHANGED limit
    BY <1>0, <2>1, <2>2, <2>4, ReturnMoves
  <2> QED BY <1>11, <2>3, <2>4 DEF Raise
<1>12. ASSUME NEW c \in Calls, NEW l \in Lanes, StartShrink(c, l) PROVE LimiterInv'
  <2>1. /\ lane[c][l].pc = "throttled" /\ lane[c][Other(l)].pc \in Awaiting
        /\ UNCHANGED <<limit, pendingShrink>>
    BY <1>12 DEF StartShrink, At
  <2>2. Weight(lane[c][l]) = 0 /\ lane[c][l].owed = 0
    BY <1>q, <2>1 DEF One, LaneOK
  <2>3. CASE AfterThrottle(c, l) /\ UNCHANGED cooling
    BY <1>0, <2>1, <2>2, <2>3, AfterThrottleMoves
  <2>4. CASE cooling' = TRUE /\ Goto(c, l, "halve") /\ UNCHANGED <<permits, tokens, hedging>>
    <3>1. permits' + One("halve" \in {"send", "held", "add"}) + limit + pendingShrink
            = permits + Weight(lane[c][l]) + limit' + pendingShrink'
      BY <1>0, <2>1, <2>2, <2>4 DEF One
    <3>2. cooling' \in BOOLEAN
      BY <2>4, Zenon
    <3> QED BY <1>0, <1>p, <2>1, <2>4, <3>1, <3>2, GotoMoves
  <2> QED BY <1>12, <2>3, <2>4 DEF StartShrink
<1>13. ASSUME NEW c \in Calls, NEW l \in Lanes, Halve(c, l) PROVE LimiterInv'
  <2>1. /\ lane[c][l].pc = "halve" /\ lane[c][Other(l)].pc \in Awaiting
        /\ UNCHANGED <<pendingShrink, cooling>>
    BY <1>13 DEF Halve, At
  <2>2. Weight(lane[c][l]) = 0 /\ lane[c][l].owed = 0
    BY <1>q, <2>1 DEF One, LaneOK
  <2>3. CASE AfterThrottle(c, l) /\ UNCHANGED limit
    BY <1>0, <2>1, <2>2, <2>3, AfterThrottleMoves
  <2>4. CASE /\ limit > 1 /\ limit' = limit \div 2 /\ UNCHANGED <<permits, tokens, hedging>>
             /\ lane' = [lane EXCEPT ![c][l].pc = "forget", ![c][l].owed = limit - limit \div 2]
    <3> DEFINE half == limit \div 2
               q == [lane[c][l] EXCEPT !.pc = "forget", !.owed = limit - half]
    <3>1. half \in 1..Cap /\ limit - half \in 0..Cap /\ half \in Nat
      BY <1>0, <2>4
    <3>2. limit' = half
      BY <2>4
    <3>3. lane' = [lane EXCEPT ![c][l] = q]
      BY <1>0, <2>4 DEF LaneFcns
    <3> HIDE DEF half
    <3>4. q \in Lane /\ q.pc = "forget" /\ q.owed = limit - half
      BY <1>q, <3>1 DEF Lane
    <3> HIDE DEF q
    <3>5. LaneOK(q) /\ Weight(q) = 0
      BY <3>4 DEF LaneOK, Weight, One
    <3>6. permits' + Weight(q) + limit + pendingShrink + lane[c][l].owed
            = permits + Weight(lane[c][l]) + limit' + pendingShrink' + q.owed
      BY <1>0, <2>1, <2>2, <2>4, <3>1, <3>2, <3>4, <3>5
    <3>7. /\ limit' \in 1..Cap /\ permits' \in Nat /\ pendingShrink' \in Nat /\ cooling' \in BOOLEAN
          /\ hedging' \in [Calls -> Hedging] /\ UNCHANGED tokens /\ q.pc # "off" /\ lane[c][l].pc # "off"
      BY <1>0, <2>1, <2>4, <3>1, <3>2, <3>4
    <3> QED BY <3>3, <3>4, <3>5, <3>6, <3>7, LaneMoves
  <2> QED BY <1>13, <2>3, <2>4 DEF Halve
<1>14. ASSUME NEW c \in Calls, NEW l \in Lanes, Forget(c, l) PROVE LimiterInv'
  <2> DEFINE q == [lane[c][l] EXCEPT !.owed = @ - 1]
  <2>1. /\ lane' = [lane EXCEPT ![c][l] = q] /\ lane[c][l].pc = "forget" /\ lane[c][l].owed > 0 /\ permits > 0
        /\ permits' = permits - 1 /\ UNCHANGED <<limit, pendingShrink, cooling, tokens, hedging>>
    BY <1>0, <1>14 DEF Forget, At, LaneFcns
  <2>2. q \in Lane /\ q.pc = "forget" /\ q.owed = lane[c][l].owed - 1
    BY <1>0, <1>q, <2>1 DEF Lane
  <2> HIDE DEF q
  <2>3. LaneOK(q) /\ Weight(q) = 0 /\ Weight(lane[c][l]) = 0
    BY <2>1, <2>2 DEF LaneOK, Weight, One
  <2>4. permits' + Weight(q) + limit + pendingShrink + lane[c][l].owed
          = permits + Weight(lane[c][l]) + limit' + pendingShrink' + q.owed
    BY <1>0, <1>q, <2>1, <2>2, <2>3
  <2>5. /\ limit' \in 1..Cap /\ permits' \in Nat /\ pendingShrink' \in Nat /\ cooling' \in BOOLEAN
        /\ hedging' \in [Calls -> Hedging] /\ UNCHANGED tokens /\ q.pc # "off" /\ lane[c][l].pc # "off"
    BY <1>0, <2>1, <2>2
  <2> QED BY <2>1, <2>2, <2>3, <2>4, <2>5, LaneMoves
<1>15. ASSUME NEW c \in Calls, NEW l \in Lanes, LeaveShrink(c, l) PROVE LimiterInv'
  BY <1>0, <1>15, AfterThrottleMoves DEF LeaveShrink, At
<1>16. CASE CoolDown
  BY <1>0, <1>16 DEF CoolDown, LimiterInv, LimiterSound, TypeOK, PermitsBalance, TokensBalance, Sending, Holding,
                     InLane, Owed, Hedged
<1>17. CASE UNCHANGED vars
  BY <1>0, <1>17 DEF vars, limiter, LimiterInv, LimiterSound, TypeOK, PermitsBalance, TokensBalance, Sending,
                     Holding, InLane, Owed, Hedged
<1> QED BY <1>1, <1>2, <1>3, <1>4, <1>6, <1>8, <1>9, <1>10, <1>11, <1>12, <1>13, <1>14, <1>15, <1>16, <1>17,
           HedgeMoves DEF Next, LaneStep

\* The books of AimdLimiter and HedgeBudget balance for any number of concurrent calls,
\* any limits, retries and tokens: no interleaving of on_success, on_throttle, acquire
\* and dropped hedges makes or loses a permit or a token.
THEOREM LimiterBalances == Spec => []LimiterSound
<1>1. Init => LimiterInv
  <2> SUFFICES ASSUME Init PROVE LimiterInv
    OBVIOUS
  <2>0. lane = [c \in Calls |-> [l \in Lanes |-> Off]]
    BY DEF Init
  <2>1. TypeOK /\ \A c \in Calls, l \in Lanes : lane[c][l] = Off
    <3>1. lane \in [Calls -> [Lanes -> Lane]] /\ \A c \in Calls, l \in Lanes : lane[c][l] = Off
      BY <2>0, LaneTypes
    <3>2. /\ limit \in 1..Cap /\ permits \in Nat /\ pendingShrink \in Nat /\ tokens \in 0..HedgeTokens
          /\ hedging \in [Calls -> Hedging]
      BY LimiterAssumption DEF Init, Hedging
    <3>3. cooling \in BOOLEAN
      BY Zenon DEF Init
    <3> QED BY <3>1, <3>2, <3>3 DEF TypeOK
  <2>2. Sending = {} /\ Holding = {} /\ InLane("add") = {} /\ {c \in Calls : Hedged(c)} = {}
    BY <2>1, LaneTypes DEF Sending, Holding, InLane, Hedged, Lanes
  <2>3. Owed = {}
    <3>1. ASSUME NEW y \in (Calls \X Lanes) \X (1..Cap) PROVE ~(y[2] <= lane[y[1][1]][y[1][2]].owed)
      BY <2>1, LaneTypes
    <3> QED BY <3>1 DEF Owed
  <2>4. PermitsBalance /\ TokensBalance
    BY <2>2, <2>3, LimiterAssumption, FS_EmptySet DEF Init, PermitsBalance, TokensBalance
  <2> QED BY <2>1, <2>4, LaneTypes DEF LimiterInv, LimiterSound
<1>2. LimiterInv /\ [Next]_vars => LimiterInv'
  BY LimiterStep
<1>3. LimiterInv => LimiterSound
  BY DEF LimiterInv
<1> QED BY <1>1, <1>2, <1>3, PTL DEF Spec

-----------------------------------------------------------------------------
(***************************************************************************)
(* Downloads.  While the cache is asked, each source below the counter is   *)
(* in one place: with a worker, in the channel, remembered as a miss, or     *)
(* consumed.  Afterwards the state of its request tells whether it is.       *)
(***************************************************************************)

Found == {"hit", "miss", "error"}
RequestStates == {"none", "queued", "waiting", "fetching", "body", "gone", "error", "sent"}

DownloadTypes ==
    /\ phase \in {"idle", "cache", "join", "network", "driver", "done", "failed"}
    /\ nextKey \in Nat \ {0} /\ cancelled \in BOOLEAN
    /\ pool \in [Workers -> [pc : {"ready", "read", "ended"} \cup Found, key : Nat]]
    /\ channel \in Seq([pc : Found \cup {"body", "gone"}, key : Sources])
    /\ wanted \in Seq(Sources)
    /\ fetch \in [Sources -> RequestStates]
    /\ driving \in BOOLEAN /\ driverError \in BOOLEAN
    /\ eaten \in [Sources -> 0..1]

Carries(w, s) == pool[w].pc \in {"read"} \cup Found /\ pool[w].key = s
Travels(i, s) == i \in 1..Len(channel) /\ channel[i].key = s

\* The places exclude one another, and each source the counter has passed is in one.
PlacesInv ==
    /\ \A s \in Sources :
        /\ \A w \in Workers : Carries(w, s) =>
            /\ s < nextKey /\ s \notin Missed /\ eaten[s] = 0
            /\ \A v \in Workers : Carries(v, s) => v = w
            /\ \A i \in Nat : ~Travels(i, s)
        /\ \A i \in Nat : Travels(i, s) =>
            /\ s < nextKey /\ s \notin Missed /\ eaten[s] = 0
            /\ \A j \in Nat : Travels(j, s) => j = i
        /\ s \in Missed => s < nextKey /\ eaten[s] = 0
        /\ eaten[s] = 1 => s < nextKey
        /\ s < nextKey =>
            eaten[s] = 1 \/ s \in Missed \/ (\E w \in Workers : Carries(w, s)) \/ (\E i \in Nat : Travels(i, s))
    /\ \A w \in Workers : pool[w].pc \in {"read"} \cup Found => pool[w].key \in Sources

\* Unless an error is on its way to the caller, workers end when no key is left.
EndsInv ==
    /\ cancelled =>
        \/ \E w \in Workers : pool[w].pc = "error"
        \/ \E i \in 1..Len(channel) : channel[i].pc = "error"
    /\ \A w \in Workers :
        /\ pool[w].pc = "ended" => cancelled \/ nextKey \notin Sources
        /\ pool[w].pc = "error" => cancelled

NetworkInv ==
    /\ \A s \in Sources :
        /\ fetch[s] = "none" <=> eaten[s] = 1
        /\ fetch[s] = "sent" <=> \E i \in Nat : Travels(i, s)
        /\ \A i, j \in Nat : Travels(i, s) /\ Travels(j, s) => i = j
    /\ ~driving /\ ~driverError => \A s \in Sources : fetch[s] \in {"none", "sent"}

DownloadsInv ==
    /\ DownloadTypes
    /\ phase \in {"idle", "cache"} => PlacesInv /\ EndsInv
    /\ phase = "network" => NetworkInv
    /\ phase = "done" => \A s \in Sources : eaten[s] = 1
    /\ Cardinality(Held) <= BytePermits

-----------------------------------------------------------------------------
\* A source asks for one permit at least, for as many as its size where the budget
\* has that many, and never for more than the budget.
LEMMA NeededBounds ==
    ASSUME NEW s \in Sources
    PROVE  /\ Needed(s) \in 1..BytePermits
           /\ \A n \in 1..BytePermits : n <= SourceSize[s] => n <= Needed(s)
<1> DEFINE a == SourceSize[s]
           m == Max({a, 1})
<1>1. a \in Nat /\ BytePermits \in Nat \ {0}
  BY DownloadsAssumption
<1> HIDE DEF a
<1>2. m \in {a, 1} /\ m >= a /\ m >= 1
  <2>1. \E x \in {a, 1} : \A y \in {a, 1} : x >= y
    BY <1>1
  <2> QED BY <1>1, <2>1 DEF Max
<1> HIDE DEF m
<1> DEFINE n == Min({m, BytePermits})
<1>3. n \in {m, BytePermits} /\ n <= m /\ n <= BytePermits
  <2>1. \E x \in {m, BytePermits} : \A y \in {m, BytePermits} : x <= y
    BY <1>1, <1>2
  <2> QED BY <1>1, <1>2, <2>1 DEF Min
<1>4. n = Needed(s)
  BY DEF Needed, m, a
<1> HIDE DEF n
<1> QED BY <1>1, <1>2, <1>3, <1>4 DEF a

\* The permits of any set of sources.
HeldBy(R) == {x \in R \X (1..BytePermits) : x[2] <= Needed(x[1])}

LEMMA HeldFinite ==
    ASSUME NEW R, R \subseteq Sources
    PROVE  IsFiniteSet(HeldBy(R)) /\ Cardinality(HeldBy(R)) \in Nat
<1>1. IsFiniteSet(1..BytePermits)
  BY FS_Interval, DownloadsAssumption
<1>2. IsFiniteSet(R)
  BY FS_Subset, DownloadsAssumption
<1>3. IsFiniteSet(R \X (1..BytePermits))
  BY <1>1, <1>2, FS_Product
<1>4. HeldBy(R) \in SUBSET (R \X (1..BytePermits))
  BY DEF HeldBy
<1> QED BY <1>3, <1>4, FS_Subset, FS_CardinalityType

\* Giving permits back keeps the budget.
LEMMA HeldShrinks ==
    ASSUME NEW R, NEW T, R \subseteq Sources, T \subseteq R
    PROVE  Cardinality(HeldBy(T)) <= Cardinality(HeldBy(R))
<1>1. HeldBy(T) \in SUBSET HeldBy(R)
  BY DEF HeldBy
<1> QED BY <1>1, HeldFinite, FS_Subset

\* A source that gets what it needs adds that much.
LEMMA HeldGrows ==
    ASSUME NEW R, R \subseteq Sources, NEW s \in Sources
    PROVE  Cardinality(HeldBy(R \cup {s})) <= Cardinality(HeldBy(R)) + Needed(s)
<1> DEFINE own == {s} \X (1..Needed(s))
<1>1. HeldBy(R \cup {s}) \in SUBSET (HeldBy(R) \cup own)
  BY NeededBounds DEF HeldBy
<1>2. IsFiniteSet(1..Needed(s)) /\ Cardinality(1..Needed(s)) = Needed(s)
  <2>1. 1 \in Int /\ Needed(s) \in Int /\ ~(1 > Needed(s))
    BY NeededBounds, DownloadsAssumption
  <2>2. IsFiniteSet(1..Needed(s)) /\ Cardinality(1..Needed(s)) = IF 1 > Needed(s) THEN 0 ELSE Needed(s) - 1 + 1
    BY <2>1, FS_Interval
  <2> QED BY <2>1, <2>2
<1>3. IsFiniteSet({s}) /\ Cardinality({s}) = 1
  BY FS_Singleton
<1>4. IsFiniteSet(own) /\ Cardinality(own) = Cardinality({s}) * Cardinality(1..Needed(s))
  BY <1>2, <1>3, FS_Product
<1>5. Cardinality(own) = Needed(s) /\ Needed(s) \in Nat
  BY <1>2, <1>3, <1>4, NeededBounds, DownloadsAssumption
<1> HIDE DEF own
<1>6. IsFiniteSet(HeldBy(R)) /\ Cardinality(HeldBy(R)) \in Nat
  BY HeldFinite
<1> DEFINE h == HeldBy(R)
<1>7. /\ IsFiniteSet(h \cup own)
      /\ Cardinality(h \cup own) = Cardinality(h) + Cardinality(own) - Cardinality(h \cap own)
  BY <1>4, <1>6, FS_Union
<1>8. Cardinality(h \cap own) \in Nat
  BY <1>6, FS_Intersection, FS_CardinalityType
<1>9. Cardinality(HeldBy(R \cup {s})) <= Cardinality(h \cup own)
  BY <1>1, <1>7, FS_Subset
<1>10. Cardinality(HeldBy(R \cup {s})) \in Nat
  BY HeldFinite
<1> QED BY <1>5, <1>6, <1>7, <1>8, <1>9, <1>10

-----------------------------------------------------------------------------
LEMMA HeldIs == Held = HeldBy(Retained) /\ Held' = HeldBy(Retained') /\ Retained \subseteq Sources
BY DEF Held, HeldBy, Retained, Needed

\* Steps that acquire nothing.
LEMMA BudgetStays ==
    ASSUME Cardinality(Held) <= BytePermits, Retained' \subseteq Retained
    PROVE  Cardinality(Held') <= BytePermits
<1>1. Cardinality(HeldBy(Retained')) <= Cardinality(HeldBy(Retained))
  BY HeldIs, HeldShrinks
<1>2. {Cardinality(HeldBy(Retained')), Cardinality(HeldBy(Retained))} \subseteq Nat
  BY HeldIs, HeldFinite
<1> QED BY <1>1, <1>2, HeldIs, DownloadsAssumption

LEMMA SourcesCount == Cardinality(Sources) \in Nat /\ \A s \in Sources : s \in Nat \ {0}
BY FS_CardinalityType, DownloadsAssumption

LEMMA CallDownloadsStep ==
    ASSUME DownloadsInv, CallDownloads
    PROVE  DownloadsInv'
<1> USE DEF CallDownloads, PoolUnchanged, NetworkUnchanged
<1>1. DownloadTypes'
  BY DEF DownloadsInv, DownloadTypes
<1>2. PlacesInv' /\ EndsInv'
  BY DEF DownloadsInv, PlacesInv, EndsInv, Carries, Travels, Missed
<1>3. Cardinality(Held') <= BytePermits
  BY BudgetStays DEF DownloadsInv, Retained
<1> QED BY <1>1, <1>2, <1>3 DEF DownloadsInv

LEMMA TakeKeyStep ==
    ASSUME DownloadsInv, NEW w \in Workers, TakeKey(w)
    PROVE  DownloadsInv'
<1> USE DEF TakeKey, NetworkUnchanged
<1>0. nextKey \in Nat \ {0} /\ InPool /\ pool[w].pc = "ready" /\ \A s \in Sources : s \in Nat
  BY SourcesCount DEF DownloadsInv, DownloadTypes
<1>1. DownloadTypes'
  <2>0. pool \in [Workers -> [pc : {"ready", "read", "ended"} \cup Found, key : Nat]]
    BY DEF DownloadsInv, DownloadTypes
  <2>1. pool' \in [Workers -> [pc : {"ready", "read", "ended"} \cup Found, key : Nat]]
    BY <1>0, <2>0 DEF Ended
  <2>2. nextKey' \in Nat \ {0}
    BY <1>0
  <2> QED BY <2>1, <2>2 DEF DownloadsInv, DownloadTypes
<1>2. CASE cancelled \/ nextKey \notin Sources
  <2>1. ASSUME phase = "cache" PROVE PlacesInv' /\ EndsInv'
    <3>0. PlacesInv /\ EndsInv /\ DownloadTypes
      BY <2>1 DEF DownloadsInv
    <3>1. \A v \in Workers, s \in Sources : Carries(v, s)' <=> Carries(v, s)
      <4>1. pool' = [pool EXCEPT ![w] = Ended] /\ Ended.pc = "ended"
        BY <1>2 DEF Ended
      <4>2. ASSUME NEW v \in Workers, v # w PROVE pool'[v] = pool[v]
        BY <3>0, <4>1, <4>2 DEF DownloadTypes
      <4>3. pool'[w].pc = "ended"
        BY <3>0, <4>1 DEF DownloadTypes
      <4> HIDE DEF TakeKey
      <4> QED BY <1>0, <4>2, <4>3 DEF Carries, Found
    <3>2. \A i \in Nat, s \in Sources : Travels(i, s)' <=> Travels(i, s)
      BY DEF Travels
    <3>3. PlacesInv'
      <4>1. nextKey' = nextKey /\ eaten' = eaten /\ Missed' = Missed
        BY <1>2 DEF Missed
      <4>2. \A v \in Workers : pool'[v].pc \in {"read"} \cup Found => pool[v] = pool'[v]
        BY <1>0, <1>2, <3>0 DEF DownloadTypes, Ended, Found
      <4> HIDE DEF TakeKey
      <4> QED BY <3>0, <3>1, <3>2, <4>1, <4>2 DEF PlacesInv
    <3>4. EndsInv'
      <4>1. pool' = [pool EXCEPT ![w] = Ended] /\ UNCHANGED <<channel, cancelled, nextKey>> /\ Ended.pc = "ended"
        BY <1>2 DEF Ended
      <4>2. (\A v \in Workers : v # w => pool'[v] = pool[v]) /\ pool'[w].pc = "ended"
        BY <3>0, <4>1 DEF DownloadTypes
      <4> HIDE DEF TakeKey
      <4> QED BY <1>0, <1>2, <3>0, <4>1, <4>2 DEF EndsInv
    <3> QED BY <3>3, <3>4
  <2> QED BY <1>0, <1>1, <2>1, BudgetStays DEF DownloadsInv, InPool, Retained
<1>3. CASE ~cancelled /\ nextKey \in Sources
  <2>1. ASSUME phase = "cache" PROVE PlacesInv' /\ EndsInv'
    <3>0. PlacesInv /\ EndsInv /\ DownloadTypes
      BY <2>1 DEF DownloadsInv
    <3>1. \A v \in Workers, s \in Sources :
            Carries(v, s)' <=> Carries(v, s) \/ (v = w /\ s = nextKey)
      BY <1>0, <1>3, <3>0 DEF Carries, DownloadTypes, Found
    <3>2. \A i \in Nat, s \in Sources : Travels(i, s)' <=> Travels(i, s)
      BY DEF Travels
    <3>3. \A v \in Workers, s \in Sources : Carries(v, s) => s # nextKey
      BY <1>0, <3>0 DEF PlacesInv
    <3>4. nextKey' = nextKey + 1 /\ eaten' = eaten /\ Missed' = Missed
      BY <1>3 DEF Missed
    <3>5. \A v \in Workers : pool'[v].pc \in {"read"} \cup Found => v = w \/ pool[v] = pool'[v]
      BY <1>0, <1>3, <3>0 DEF DownloadTypes
    <3>6. pool'[w].key = nextKey
      BY <1>3, <3>0 DEF DownloadTypes
    <3>7. eaten[nextKey] = 0 /\ nextKey \notin Missed /\ \A i \in Nat : ~Travels(i, nextKey)
      BY <1>0, <1>3, <3>0 DEF PlacesInv, DownloadTypes
    <3>8. \A s \in Sources : ~Carries(w, s)
      BY <1>0 DEF Carries, Found
    <3>9. PlacesInv'
      <4> HIDE DEF TakeKey
      <4>1. \A v \in Workers : pool'[v].pc \in {"read"} \cup Found => pool'[v].key \in Sources
        BY <1>3, <3>0, <3>5, <3>6 DEF PlacesInv
      <4>2. ASSUME NEW s \in Sources, s # nextKey
            PROVE  /\ \A v \in Workers : Carries(v, s)' <=> Carries(v, s)
                   /\ s < nextKey' <=> s < nextKey
        BY <1>0, <3>1, <3>4, <4>2
      <4>3. ASSUME NEW s \in Sources, s = nextKey
            PROVE  /\ \A v \in Workers : Carries(v, s)' <=> v = w
                   /\ s < nextKey'
        BY <1>0, <3>1, <3>3, <3>4, <4>3
      <4> QED BY <1>3, <3>0, <3>2, <3>4, <3>7, <4>1, <4>2, <4>3 DEF PlacesInv
    <3>10. EndsInv'
      <4>1. UNCHANGED <<channel, cancelled>> /\ pool'[w].pc = "read"
        BY <1>3, <3>0 DEF DownloadTypes
      <4>2. \A v \in Workers : v # w => pool'[v] = pool[v]
        BY <1>3, <3>0 DEF DownloadTypes
      <4> HIDE DEF TakeKey
      <4> QED BY <1>3, <3>0, <4>1, <4>2 DEF EndsInv
    <3> QED BY <3>9, <3>10
  <2> QED BY <1>0, <1>1, <2>1, BudgetStays DEF DownloadsInv, InPool, Retained
<1> QED BY <1>2, <1>3

LEMMA ReadCacheStep ==
    ASSUME DownloadsInv, NEW w \in Workers, ReadCache(w)
    PROVE  DownloadsInv'
<1> USE DEF NetworkUnchanged
<1>0. InPool /\ pool[w].pc = "read" /\ DownloadTypes
  BY DEF ReadCache, DownloadsInv
<1>1. PICK found \in Found :
        pool' = [pool EXCEPT ![w].pc = found] /\ cancelled' = (cancelled \/ found = "error")
  BY DEF ReadCache, Found
<1>2. UNCHANGED <<phase, nextKey, channel, wanted, fetch, driving, driverError, eaten>>
  BY DEF ReadCache
<1>3. /\ pool' \in [Workers -> [pc : {"ready", "read", "ended"} \cup Found, key : Nat]]
      /\ pool'[w].pc = found /\ pool'[w].key = pool[w].key
      /\ \A v \in Workers : v # w => pool'[v] = pool[v]
  BY <1>0, <1>1 DEF DownloadTypes
<1>4. cancelled' \in BOOLEAN
  BY <1>1
<1>5. DownloadTypes'
  BY <1>0, <1>2, <1>3, <1>4 DEF DownloadTypes
<1>6. ASSUME phase = "cache" PROVE PlacesInv' /\ EndsInv'
  <2>0. PlacesInv /\ EndsInv
    BY <1>6 DEF DownloadsInv
  <2>1. \A v \in Workers, s \in Sources : Carries(v, s)' <=> Carries(v, s)
    BY <1>0, <1>1, <1>3 DEF Carries
  <2>2. \A i \in Nat, s \in Sources : Travels(i, s)' <=> Travels(i, s)
    BY <1>2 DEF Travels
  <2>3. PlacesInv'
    <3>1. Missed' = Missed
      BY <1>2 DEF Missed
    <3>2. \A v \in Workers : pool'[v].pc \in {"read"} \cup Found => pool'[v].key \in Sources
      BY <1>0, <1>3, <2>0 DEF PlacesInv
    <3> QED BY <1>2, <2>0, <2>1, <2>2, <3>1, <3>2 DEF PlacesInv
  <2>4. EndsInv'
    <3>1. CASE found = "error"
      BY <1>1, <1>2, <1>3, <2>0, <3>1 DEF EndsInv
    <3>2. CASE found # "error"
      <4>1. cancelled' = cancelled
        BY <1>0, <1>1, <3>2 DEF DownloadTypes
      <4>2. \A v \in Workers : pool'[v].pc = "ended" => pool[v].pc = "ended"
        BY <1>1, <1>3 DEF Found
      <4>3. \A v \in Workers : pool[v].pc = "error" => pool'[v].pc = "error"
        BY <1>0, <1>3
      <4>4. \A v \in Workers : pool'[v].pc = "error" => pool[v].pc = "error"
        BY <1>1, <1>3, <3>2
      <4> QED BY <1>2, <2>0, <4>1, <4>2, <4>3, <4>4 DEF EndsInv
    <3> QED BY <3>1, <3>2
  <2> QED BY <2>3, <2>4
<1>7. Retained' = Retained
  BY <1>2 DEF Retained
<1> QED BY <1>0, <1>2, <1>5, <1>6, <1>7, BudgetStays DEF DownloadsInv, InPool

LEMMA SendFoundStep ==
    ASSUME DownloadsInv, NEW w \in Workers, SendFound(w)
    PROVE  DownloadsInv'
<1> USE DEF NetworkUnchanged
<1>0. InPool /\ pool[w].pc \in Found /\ DownloadTypes
  BY DEF SendFound, DownloadsInv, Found
<1>1. UNCHANGED <<phase, nextKey, cancelled, wanted, fetch, driving, driverError, eaten>>
  BY DEF SendFound
<1>2. /\ pool'[w] \in {Ready, Ended} /\ pool'[w].pc \in {"ready", "ended"}
      /\ pool' \in [Workers -> [pc : {"ready", "read", "ended"} \cup Found, key : Nat]]
      /\ \A v \in Workers : v # w => pool'[v] = pool[v]
  <2>1. PICK q \in {Ready, Ended} : pool' = [pool EXCEPT ![w] = q]
    BY <1>0 DEF SendFound, DownloadTypes
  <2>2. q \in [pc : {"ready", "ended"}, key : Nat]
    BY <2>1 DEF Ready, Ended
  <2> QED BY <1>0, <2>1, <2>2 DEF DownloadTypes
<1>3. Retained' = Retained
  BY <1>1 DEF Retained
<1>4. CASE phase # "cache"
  <2>1. channel' = channel
    BY <1>4 DEF SendFound, Received
  <2>2. DownloadTypes'
    BY <1>0, <1>1, <1>2, <2>1 DEF DownloadTypes
  <2> QED BY <1>0, <1>1, <1>3, <1>4, <2>2, BudgetStays DEF DownloadsInv, InPool
<1>5. CASE phase = "cache"
  <2>0. PlacesInv /\ EndsInv
    BY <1>5 DEF DownloadsInv
  <2>1. PICK item \in [pc : Found \cup {"body", "gone"}, key : Sources] : item = pool[w]
    <3>1. pool[w] \in [pc : Found \cup {"body", "gone"}, key : Sources]
      BY <1>0, <2>0 DEF PlacesInv, DownloadTypes
    <3> QED BY <3>1
  <2>2. PICK n \in Nat, k \in Sources : n = Len(channel) + 1 /\ k = item.key
    BY <1>0, <2>1 DEF DownloadTypes
  <2>3. /\ channel' \in Seq([pc : Found \cup {"body", "gone"}, key : Sources])
        /\ Len(channel') = n /\ channel'[n] = item
        /\ \A i \in 1..Len(channel) : channel'[i] = channel[i]
    <3>1. channel' = Append(channel, item)
      BY <1>5, <2>1 DEF SendFound, Received
    <3> QED BY <1>0, <2>1, <2>2, <3>1 DEF DownloadTypes
  <2>4. DownloadTypes'
    BY <1>0, <1>1, <1>2, <2>3 DEF DownloadTypes
  <2>5. \A v \in Workers, s \in Sources : Carries(v, s)' <=> Carries(v, s) /\ v # w
    BY <1>2 DEF Carries, Found
  <2>6. \A i \in Nat, s \in Sources : Travels(i, s)' <=> Travels(i, s) \/ (i = n /\ s = k)
    <3>0. \A i \in Nat : i \in 1..Len(channel') <=> i \in 1..Len(channel) \/ i = n
      BY <1>0, <2>2, <2>3 DEF DownloadTypes
    <3>1. n \notin 1..Len(channel)
      BY <1>0, <2>2 DEF DownloadTypes
    <3> QED BY <2>2, <2>3, <3>0, <3>1 DEF Travels
  <2>7. Carries(w, k) /\ \A s \in Sources : Carries(w, s) => s = k
    BY <1>0, <2>1, <2>2 DEF Carries
  <2>8. Missed' = Missed
    BY <1>1 DEF Missed
  <2>9. PlacesInv'
    <3>1. \A v \in Workers : pool'[v].pc \in {"read"} \cup Found => pool'[v].key \in Sources
      BY <1>2, <2>0 DEF PlacesInv, Found
    <3>2. ASSUME NEW s \in Sources, s # k
          PROVE  /\ \A v \in Workers : Carries(v, s)' <=> Carries(v, s)
                 /\ \A i \in Nat : Travels(i, s)' <=> Travels(i, s)
      BY <2>5, <2>6, <2>7, <3>2
    <3>3. k < nextKey /\ k \notin Missed /\ eaten[k] = 0
      BY <2>0, <2>7 DEF PlacesInv
    <3>4. \A v \in Workers : ~Carries(v, k)'
      BY <2>0, <2>5, <2>7 DEF PlacesInv
    <3>5. \A i \in Nat : Travels(i, k)' <=> i = n
      BY <2>0, <2>6, <2>7 DEF PlacesInv
    <3> QED BY <1>1, <2>0, <2>8, <3>1, <3>2, <3>3, <3>4, <3>5 DEF PlacesInv
  <2>10. EndsInv'
    <3>1. ASSUME cancelled PROVE \/ \E v \in Workers : pool'[v].pc = "error"
                                 \/ \E i \in 1..Len(channel') : channel'[i].pc = "error"
      <4>1. CASE item.pc = "error"
        BY <2>2, <2>3, <4>1
      <4>2. CASE item.pc # "error"
        <5>1. \A i \in 1..Len(channel) : i \in 1..Len(channel')
          BY <1>0, <2>2, <2>3 DEF DownloadTypes
        <5> QED BY <1>2, <2>0, <2>1, <2>3, <3>1, <4>2, <5>1 DEF EndsInv
      <4> QED BY <4>1, <4>2
    <3>2. ASSUME NEW v \in Workers, pool'[v].pc = "ended" PROVE cancelled \/ nextKey \notin Sources
      <4>1. CASE v # w
        BY <1>2, <2>0, <3>2, <4>1 DEF EndsInv
      <4>2. CASE v = w
        <5>1. pool[w].pc = "error"
          BY <1>0, <1>5, <3>2, <4>2 DEF SendFound, Received, Ready, DownloadTypes
        <5> QED BY <2>0, <5>1 DEF EndsInv
      <4> QED BY <4>1, <4>2
    <3>3. \A v \in Workers : pool'[v].pc = "error" => pool[v].pc = "error"
      BY <1>2
    <3> QED BY <1>1, <2>0, <3>1, <3>2, <3>3 DEF EndsInv
  <2> QED BY <1>1, <1>3, <1>5, <2>4, <2>9, <2>10, BudgetStays DEF DownloadsInv
<1> QED BY <1>4, <1>5

\* What is left of the channel when its head is taken.
LEMMA HeadTaken ==
    ASSUME DownloadTypes, channel # <<>>, channel' = Tail(channel)
    PROVE  /\ Head(channel) = channel[1] /\ channel[1] \in [pc : Found \cup {"body", "gone"}, key : Sources]
           /\ channel' \in Seq([pc : Found \cup {"body", "gone"}, key : Sources])
           /\ \A s \in Sources : Travels(1, s) <=> s = channel[1].key
           /\ \A i \in Nat, s \in Sources : Travels(i, s)' <=> i >= 1 /\ Travels(i + 1, s)
           /\ \A i \in 1..Len(channel) : i # 1 => i - 1 \in 1..Len(channel') /\ channel'[i - 1] = channel[i]
           /\ \A i \in Nat, s \in Sources : Travels(i, s) => i = 1 \/ (i - 1 \in Nat /\ i - 1 >= 1 /\ i = (i - 1) + 1)
<1>1. channel \in Seq([pc : Found \cup {"body", "gone"}, key : Sources])
  BY DEF DownloadTypes
<1>2. /\ Head(channel) = channel[1] /\ channel[1] \in [pc : Found \cup {"body", "gone"}, key : Sources]
      /\ channel' \in Seq([pc : Found \cup {"body", "gone"}, key : Sources])
      /\ Len(channel) \in Nat /\ Len(channel) >= 1 /\ Len(channel') = Len(channel) - 1
      /\ \A i \in 1..(Len(channel) - 1) : channel'[i] = channel[i + 1]
  <2> DEFINE M == [pc : Found \cup {"body", "gone"}, key : Sources]
  <2>0. channel \in Seq(M) /\ channel # <<>> /\ channel' = Tail(channel)
    BY <1>1
  <2> HIDE DEF M
  <2>1. Len(channel) \in Nat /\ Len(channel) >= 1 /\ channel[1] \in M /\ Head(channel) = channel[1]
    BY <2>0
  <2>2. channel' \in Seq(M) /\ Len(channel') = Len(channel) - 1
    BY <2>0, <2>1
  <2>3. \A i \in 1..(Len(channel) - 1) : channel'[i] = channel[i + 1]
    BY <2>0, <2>1
  <2> QED BY <2>1, <2>2, <2>3 DEF M
<1>3. \A s \in Sources : Travels(1, s) <=> s = channel[1].key
  BY <1>2 DEF Travels
<1>4. ASSUME NEW i \in Nat, NEW s \in Sources
      PROVE  Travels(i, s)' <=> i >= 1 /\ Travels(i + 1, s)
  <2>1. i \in 1..Len(channel') <=> i \in 1..(Len(channel) - 1)
    BY <1>2
  <2>2. i \in 1..(Len(channel) - 1) <=> i >= 1 /\ i + 1 \in 1..Len(channel)
    BY <1>2
  <2> QED BY <1>2, <2>1, <2>2 DEF Travels
<1>5. \A i \in 1..Len(channel) : i # 1 => i - 1 \in 1..Len(channel') /\ channel'[i - 1] = channel[i]
  <2>1. ASSUME NEW i \in 1..Len(channel), i # 1
        PROVE  i - 1 \in 1..(Len(channel) - 1) /\ (i - 1) + 1 = i
    BY <1>2, <2>1
  <2> QED BY <1>2, <2>1
<1>6. \A i \in Nat, s \in Sources : Travels(i, s) => i = 1 \/ (i - 1 \in Nat /\ i - 1 >= 1 /\ i = (i - 1) + 1)
  BY <1>2 DEF Travels
<1> QED BY <1>2, <1>3, <1>4, <1>5, <1>6

LEMMA TakeFoundStep ==
    ASSUME DownloadsInv, TakeFound
    PROVE  DownloadsInv'
<1>0. /\ phase = "cache" /\ channel # <<>> /\ DownloadTypes /\ PlacesInv /\ EndsInv
      /\ UNCHANGED <<nextKey, pool, fetch, driving, driverError>>
  BY DEF TakeFound, DownloadsInv
<1>1. Retained' = Retained
  BY <1>0 DEF Retained
<1>2. CASE phase' = "join"
  <2>1. cancelled' = TRUE /\ channel' = <<>> /\ UNCHANGED <<wanted, eaten>>
    BY <1>0, <1>2 DEF TakeFound
  <2>2. DownloadTypes'
    BY <1>0, <1>2, <2>1 DEF DownloadTypes
  <2> QED BY <1>1, <1>2, <2>2, BudgetStays DEF DownloadsInv
<1>3. CASE phase' # "join"
  <2>0. phase' = phase /\ cancelled' = cancelled /\ channel' = Tail(channel)
    BY <1>0, <1>3 DEF TakeFound
  <2>1. PICK k \in Sources : k = channel[1].key
    BY <1>0, <2>0, HeadTaken
  <2>2. \A v \in Workers, s \in Sources : Carries(v, s)' <=> Carries(v, s)
    BY <1>0 DEF Carries
  <2>3. /\ k < nextKey /\ k \notin Missed /\ eaten[k] = 0
        /\ \A v \in Workers : ~Carries(v, k)
        /\ \A i \in Nat : Travels(i, k) => i = 1
    <3>1. Travels(1, k)
      BY <1>0, <2>0, <2>1, HeadTaken
    <3> QED BY <1>0, <3>1 DEF PlacesInv
  <2>4. \A i \in Nat : ~Travels(i, k)'
    <3>1. ASSUME NEW i \in Nat, Travels(i, k)' PROVE FALSE
      <4>1. i >= 1 /\ Travels(i + 1, k) /\ i + 1 \in Nat
        BY <1>0, <2>0, <3>1, HeadTaken
      <4> QED BY <2>3, <4>1
    <3> QED BY <3>1
  <2>5. ASSUME NEW s \in Sources, s # k
        PROVE  /\ \A i \in Nat : Travels(i, s)' => Travels(i + 1, s) /\ i + 1 \in Nat
               /\ (\E i \in Nat : Travels(i, s)) => (\E i \in Nat : Travels(i, s)')
    <3>1. \A i \in Nat : Travels(i, s)' => Travels(i + 1, s) /\ i + 1 \in Nat
      BY <1>0, <2>0, HeadTaken
    <3>2. ASSUME NEW i \in Nat, Travels(i, s) PROVE \E j \in Nat : Travels(j, s)'
      <4>1. i # 1
        BY <1>0, <2>0, <2>1, <2>5, <3>2, HeadTaken
      <4>2. i - 1 \in Nat /\ i - 1 >= 1 /\ i = (i - 1) + 1
        BY <1>0, <2>0, <3>2, <4>1, HeadTaken
      <4>3. PICK j \in Nat : j >= 1 /\ i = j + 1
        BY <4>2
      <4>4. Travels(j, s)'
        BY <1>0, <2>0, <3>2, <4>3, HeadTaken
      <4> QED BY <4>4
    <3> QED BY <3>1, <3>2
  <2>6. ASSUME NEW s \in Sources, s # k, NEW i \in Nat, Travels(i, s)'
        PROVE  /\ s < nextKey /\ s \notin Missed /\ eaten[s] = 0
               /\ \A v \in Workers : ~Carries(v, s)
               /\ \A j \in Nat : Travels(j, s)' => j = i
    <3>1. Travels(i + 1, s) /\ i + 1 \in Nat
      BY <2>5, <2>6
    <3>2. /\ s < nextKey /\ s \notin Missed /\ eaten[s] = 0
          /\ \A v \in Workers : ~Carries(v, s)
          /\ \A j \in Nat : Travels(j, s) => j = i + 1
      BY <1>0, <3>1 DEF PlacesInv
    <3>3. ASSUME NEW j \in Nat, Travels(j, s)' PROVE j = i
      <4>1. Travels(j + 1, s) /\ j + 1 \in Nat
        BY <2>5, <2>6, <3>3
      <4>2. j + 1 = i + 1
        BY <3>2, <4>1
      <4> QED BY <4>2
    <3> QED BY <3>2, <3>3
  <2>7. channel[1].pc # "error"
    BY <1>0, <1>3, <2>0, HeadTaken DEF TakeFound
  <2>8. EndsInv'
    <3>1. ASSUME NEW i \in 1..Len(channel), channel[i].pc = "error"
          PROVE  \E j \in 1..Len(channel') : channel'[j].pc = "error"
      <4>1. i # 1
        BY <2>7, <3>1
      <4>2. i - 1 \in 1..Len(channel') /\ channel'[i - 1] = channel[i]
        BY <1>0, <2>0, <4>1, HeadTaken
      <4> QED BY <3>1, <4>2
    <3> QED BY <1>0, <2>0, <3>1 DEF EndsInv
  <2>9. channel' \in Seq([pc : Found \cup {"body", "gone"}, key : Sources])
    BY <1>0, <2>0, HeadTaken
  <2>10. CASE eaten' = [eaten EXCEPT ![k] = @ + 1] /\ wanted' = wanted
    <3>1. eaten' \in [Sources -> 0..1] /\ eaten'[k] = 1 /\ \A s \in Sources : s # k => eaten'[s] = eaten[s]
      BY <1>0, <2>3, <2>10 DEF DownloadTypes
    <3>2. Missed' = Missed
      BY <2>10 DEF Missed
    <3>3. DownloadTypes'
      BY <1>0, <2>0, <2>9, <2>10, <3>1 DEF DownloadTypes
    <3>4. PlacesInv'
      BY <1>0, <2>2, <2>3, <2>4, <2>5, <2>6, <3>1, <3>2 DEF PlacesInv
    <3> QED BY <1>0, <1>1, <2>0, <2>8, <3>3, <3>4, BudgetStays DEF DownloadsInv
  <2>11. CASE wanted' = Append(wanted, k) /\ eaten' = eaten
    <3>1. wanted' \in Seq(Sources) /\ Missed' = Missed \cup {k}
      <4>1. wanted' \in Seq(Sources) /\ Len(wanted') = Len(wanted) + 1 /\ Len(wanted) \in Nat
            /\ wanted'[Len(wanted) + 1] = k /\ \A i \in 1..Len(wanted) : wanted'[i] = wanted[i]
        BY <1>0, <2>11 DEF DownloadTypes
      <4>2. DOMAIN wanted = 1..Len(wanted) /\ DOMAIN wanted' = 1..(Len(wanted) + 1)
        BY <1>0, <4>1 DEF DownloadTypes
      <4>3. \A i : i \in 1..(Len(wanted) + 1) <=> i \in 1..Len(wanted) \/ i = Len(wanted) + 1
        BY <4>1
      <4> QED BY <4>1, <4>2, <4>3 DEF Missed, ToSet
    <3>2. DownloadTypes'
      BY <1>0, <2>0, <2>9, <2>11, <3>1 DEF DownloadTypes
    <3>3. PlacesInv'
      BY <1>0, <2>2, <2>3, <2>4, <2>5, <2>6, <2>11, <3>1 DEF PlacesInv
    <3> QED BY <1>0, <1>1, <2>0, <2>8, <3>2, <3>3, BudgetStays DEF DownloadsInv
  <2> QED BY <1>0, <1>3, <2>0, <2>1, <2>10, <2>11, HeadTaken DEF TakeFound
<1> QED BY <1>2, <1>3

LEMMA JoinPoolStep ==
    ASSUME DownloadsInv, JoinPool
    PROVE  DownloadsInv'
<1>0. /\ PoolOver /\ channel = <<>> /\ DownloadTypes
      /\ UNCHANGED <<nextKey, cancelled, pool, channel, wanted, driverError, eaten>>
  BY DEF JoinPool, DownloadsInv, PoolUnchanged
<1>1. CASE phase = "join"
  <2>1. phase' = "failed" /\ UNCHANGED <<fetch, driving>>
    BY <1>1 DEF JoinPool
  <2>2. DownloadTypes'
    BY <1>0, <2>1 DEF DownloadTypes
  <2>3. Retained' = Retained
    BY <2>1 DEF Retained
  <2> QED BY <2>1, <2>2, <2>3, BudgetStays DEF DownloadsInv
<1>2. CASE phase = "cache"
  <2>1. /\ phase' = "network" /\ driving' = TRUE
        /\ fetch' = [s \in Sources |-> IF s \in Missed THEN "queued" ELSE "none"]
    BY <1>2 DEF JoinPool
  <2>2. DownloadTypes'
    BY <1>0, <2>1 DEF DownloadTypes, RequestStates
  <2>3. Retained' = {}
    BY <2>1 DEF Retained
  <2>4. PlacesInv /\ EndsInv
    BY <1>2 DEF DownloadsInv
  <2>5. \A w \in Workers : pool[w].pc = "ended"
    BY <1>0 DEF PoolOver, Ended
  <2>6. (\A i \in Nat, s \in Sources : ~Travels(i, s)) /\ (\A w \in Workers, s \in Sources : ~Carries(w, s))
    BY <1>0, <2>5 DEF Travels, Carries, Found
  <2>7. nextKey \notin Sources
    <3>1. ~cancelled
      BY <1>0, <2>4, <2>5 DEF EndsInv
    <3> QED BY <2>4, <2>5, <3>1, DownloadsAssumption DEF EndsInv
  <2>8. \A s \in Sources : s < nextKey
    BY <1>0, <2>7, SourcesCount, DownloadsAssumption DEF DownloadTypes
  <2>9. \A s \in Sources : (eaten[s] = 1 <=> s \notin Missed)
    BY <2>4, <2>6, <2>8 DEF PlacesInv
  <2>10. \A i \in Nat, s \in Sources : ~Travels(i, s)'
    BY <1>0, <2>6 DEF Travels
  <2>11. NetworkInv'
    BY <1>0, <2>1, <2>9, <2>10 DEF NetworkInv
  <2> QED BY <2>1, <2>2, <2>3, <2>11, BudgetStays DEF DownloadsInv
<1> QED BY <1>1, <1>2 DEF JoinPool

\* A request moves on without the channel, the caller or the driver.
LEMMA RequestMoves ==
    ASSUME DownloadsInv, NEW s \in Sources, NEW next \in RequestStates \ {"none", "sent"},
           fetch[s] \notin {"none", "sent"}, driving,
           fetch' = [fetch EXCEPT ![s] = next],
           UNCHANGED <<phase, nextKey, cancelled, pool, channel, wanted, driving, driverError, eaten>>,
           Cardinality(Held') <= BytePermits
    PROVE  DownloadsInv'
<1>0. DownloadTypes
  BY DEF DownloadsInv
<1>1. fetch' \in [Sources -> RequestStates] /\ fetch'[s] = next /\ \A r \in Sources : r # s => fetch'[r] = fetch[r]
  BY <1>0 DEF DownloadTypes
<1>2. DownloadTypes'
  BY <1>0, <1>1 DEF DownloadTypes
<1>3. \A i \in Nat, r \in Sources : Travels(i, r)' <=> Travels(i, r)
  BY DEF Travels
<1>4. NetworkInv => NetworkInv'
  BY <1>1, <1>3 DEF NetworkInv
<1>5. PlacesInv /\ EndsInv => PlacesInv' /\ EndsInv'
  BY DEF PlacesInv, EndsInv, Carries, Travels, Missed
<1> QED BY <1>2, <1>4, <1>5 DEF DownloadsInv

LEMMA StartFetchStep ==
    ASSUME DownloadsInv, StartFetch
    PROVE  DownloadsInv'
<1>1. PICK s \in Sources : fetch[s] = "queued" /\ fetch' = [fetch EXCEPT ![s] = "waiting"]
  BY DEF StartFetch
<1>2. UNCHANGED <<phase, nextKey, cancelled, pool, channel, wanted, driving, driverError, eaten>> /\ driving
  BY DEF StartFetch, PoolUnchanged
<1>3. Retained' \subseteq Retained
  BY <1>1 DEF Retained, DownloadsInv, DownloadTypes
<1>4. Cardinality(Held') <= BytePermits
  BY <1>3, BudgetStays DEF DownloadsInv
<1>5. "waiting" \in RequestStates \ {"none", "sent"} /\ fetch[s] \notin {"none", "sent"}
  BY <1>1 DEF RequestStates
<1> QED BY <1>1, <1>2, <1>4, <1>5, RequestMoves

LEMMA AcquirePermitsStep ==
    ASSUME DownloadsInv, NEW s \in Sources, AcquirePermits(s)
    PROVE  DownloadsInv'
<1>1. fetch[s] = "waiting" /\ fetch' = [fetch EXCEPT ![s] = "fetching"] /\ Needed(s) <= FreePermits
  BY DEF AcquirePermits
<1>2. UNCHANGED <<phase, nextKey, cancelled, pool, channel, wanted, driving, driverError, eaten>> /\ driving
  BY DEF AcquirePermits, PoolUnchanged
<1>3. Retained' = Retained \cup {s}
  BY <1>1 DEF Retained, DownloadsInv, DownloadTypes
<1>4. Cardinality(Held') <= BytePermits
  <2>1. Cardinality(Held') <= Cardinality(Held) + Needed(s)
    BY <1>3, HeldIs, HeldGrows
  <2>2. Cardinality(Held) \in Nat /\ Cardinality(Held') \in Nat
    <3>1. Retained' \subseteq Sources
      BY <1>3, HeldIs
    <3> QED BY <3>1, HeldIs, HeldFinite
  <2> QED BY <1>1, <2>1, <2>2, NeededBounds, DownloadsAssumption DEF FreePermits
<1>5. "fetching" \in RequestStates \ {"none", "sent"} /\ fetch[s] \notin {"none", "sent"}
  BY <1>1 DEF RequestStates
<1> QED BY <1>1, <1>2, <1>4, <1>5, RequestMoves

LEMMA EndFetchStep ==
    ASSUME DownloadsInv, NEW s \in Sources, EndFetch(s)
    PROVE  DownloadsInv'
<1>1. PICK result \in {"body", "gone", "error"} : fetch' = [fetch EXCEPT ![s] = result]
  BY DEF EndFetch
<1>2. UNCHANGED <<phase, nextKey, cancelled, pool, channel, wanted, driving, driverError, eaten>> /\ driving
  BY DEF EndFetch, PoolUnchanged
<1>3. fetch[s] = "fetching"
  BY DEF EndFetch
<1>4. Retained' = Retained
  BY <1>1, <1>3 DEF Retained, DownloadsInv, DownloadTypes
<1>5. Cardinality(Held') <= BytePermits
  BY <1>4, BudgetStays DEF DownloadsInv
<1>6. result \in RequestStates \ {"none", "sent"} /\ fetch[s] \notin {"none", "sent"}
  BY <1>3 DEF RequestStates
<1> QED BY <1>1, <1>2, <1>5, <1>6, RequestMoves

LEMMA SendBodyStep ==
    ASSUME DownloadsInv, NEW s \in Sources, SendBody(s)
    PROVE  DownloadsInv'
<1>0. /\ driving /\ phase = "network" /\ fetch[s] \in {"body", "gone", "error"} /\ DownloadTypes /\ NetworkInv
      /\ UNCHANGED <<phase, nextKey, cancelled, pool, wanted, eaten>>
  BY DEF SendBody, DownloadsInv, PoolUnchanged
<1>1. CASE fetch[s] = "error"
  <2>1. driving' = FALSE /\ driverError' = TRUE /\ UNCHANGED <<fetch, channel>>
    BY <1>1 DEF SendBody
  <2>2. DownloadTypes'
    BY <1>0, <2>1 DEF DownloadTypes
  <2>3. NetworkInv'
    BY <1>0, <2>1 DEF NetworkInv, Travels
  <2>4. Retained' = Retained
    BY <2>1 DEF Retained
  <2> QED BY <1>0, <2>2, <2>3, <2>4, BudgetStays DEF DownloadsInv
<1>2. CASE fetch[s] # "error"
  <2>1. fetch' = [fetch EXCEPT ![s] = "sent"] /\ UNCHANGED <<driving, driverError>>
    BY <1>2 DEF SendBody
  <2>2. PICK item \in [pc : Found \cup {"body", "gone"}, key : Sources] :
          item.key = s /\ channel' = Append(channel, item)
    <3>1. [pc |-> fetch[s], key |-> s] \in [pc : Found \cup {"body", "gone"}, key : Sources]
      BY <1>0, <1>2
    <3> QED BY <1>2, <3>1 DEF SendBody
  <2>3. PICK n \in Nat : n = Len(channel) + 1
    BY <1>0 DEF DownloadTypes
  <2>4. /\ channel' \in Seq([pc : Found \cup {"body", "gone"}, key : Sources])
        /\ Len(channel') = n /\ channel'[n] = item
        /\ \A i \in 1..Len(channel) : channel'[i] = channel[i]
    BY <1>0, <2>2, <2>3 DEF DownloadTypes
  <2>5. \A i \in Nat, r \in Sources : Travels(i, r)' <=> Travels(i, r) \/ (i = n /\ r = s)
    <3>0. \A i \in Nat : i \in 1..Len(channel') <=> i \in 1..Len(channel) \/ i = n
      BY <1>0, <2>3, <2>4 DEF DownloadTypes
    <3>1. n \notin 1..Len(channel)
      BY <1>0, <2>3 DEF DownloadTypes
    <3> QED BY <2>2, <2>4, <3>0, <3>1 DEF Travels
  <2>6. fetch' \in [Sources -> RequestStates] /\ fetch'[s] = "sent" /\ \A r \in Sources : r # s => fetch'[r] = fetch[r]
    BY <1>0, <2>1 DEF DownloadTypes, RequestStates
  <2>7. DownloadTypes'
    BY <1>0, <2>1, <2>4, <2>6 DEF DownloadTypes
  <2>8. NetworkInv'
    <3>1. \A i \in Nat : ~Travels(i, s)
      BY <1>0 DEF NetworkInv
    <3>2. eaten[s] # 1
      BY <1>0 DEF NetworkInv
    <3> QED BY <1>0, <2>1, <2>5, <2>6, <3>1, <3>2 DEF NetworkInv
  <2>9. Retained' = Retained
    BY <1>0, <2>6 DEF Retained
  <2> QED BY <1>0, <2>7, <2>8, <2>9, BudgetStays DEF DownloadsInv
<1> QED BY <1>1, <1>2

LEMMA EndDriverStep ==
    ASSUME DownloadsInv, EndDriver
    PROVE  DownloadsInv'
<1>0. /\ driving /\ DownloadTypes /\ driving' = FALSE
      /\ UNCHANGED <<phase, nextKey, cancelled, pool, channel, wanted, fetch, driverError, eaten>>
  BY DEF EndDriver, DownloadsInv, PoolUnchanged
<1>1. DownloadTypes'
  BY <1>0 DEF DownloadTypes
<1>2. ASSUME phase = "network" PROVE NetworkInv'
  <2>1. NetworkInv
    BY <1>2 DEF DownloadsInv
  <2>2. \A s \in Sources : fetch[s] \in {"none", "sent"}
    BY <1>0, <1>2 DEF EndDriver, InWindow, DownloadTypes, RequestStates
  <2> QED BY <1>0, <2>1, <2>2 DEF NetworkInv, Travels
<1>3. PlacesInv /\ EndsInv => PlacesInv' /\ EndsInv'
  BY <1>0 DEF PlacesInv, EndsInv, Carries, Travels, Missed
<1>4. Retained' = Retained
  BY <1>0 DEF Retained
<1> QED BY <1>0, <1>1, <1>2, <1>3, <1>4, BudgetStays DEF DownloadsInv

LEMMA TakeBodyStep ==
    ASSUME DownloadsInv, TakeBody
    PROVE  DownloadsInv'
<1>0. /\ phase = "network" /\ channel # <<>> /\ DownloadTypes /\ NetworkInv
      /\ UNCHANGED <<nextKey, cancelled, pool, wanted, driving, driverError>>
  BY DEF TakeBody, DownloadsInv, PoolUnchanged
<1>1. CASE phase' = "driver"
  <2>1. channel' = <<>> /\ UNCHANGED <<fetch, eaten>>
    BY <1>0, <1>1 DEF TakeBody
  <2>2. DownloadTypes'
    BY <1>0, <1>1, <2>1 DEF DownloadTypes
  <2>3. Retained' = Retained
    BY <2>1 DEF Retained
  <2> QED BY <1>1, <2>2, <2>3, BudgetStays DEF DownloadsInv
<1>2. CASE phase' # "driver"
  <2>0. phase' = phase /\ channel' = Tail(channel)
    BY <1>0, <1>2 DEF TakeBody
  <2>1. PICK k \in Sources : k = channel[1].key
    BY <1>0, <2>0, HeadTaken
  <2>2. eaten' = [eaten EXCEPT ![k] = @ + 1] /\ fetch' = [fetch EXCEPT ![k] = "none"]
    BY <1>0, <1>2, <2>0, <2>1, HeadTaken DEF TakeBody
  <2>3. Travels(1, k) /\ fetch[k] = "sent" /\ eaten[k] = 0 /\ \A i \in Nat : Travels(i, k) => i = 1
    <3>1. Travels(1, k)
      BY <1>0, <2>0, <2>1, HeadTaken
    <3> QED BY <1>0, <3>1 DEF NetworkInv, DownloadTypes
  <2>4. /\ eaten' \in [Sources -> 0..1] /\ eaten'[k] = 1 /\ \A s \in Sources : s # k => eaten'[s] = eaten[s]
        /\ fetch' \in [Sources -> RequestStates] /\ fetch'[k] = "none" /\ \A s \in Sources : s # k => fetch'[s] = fetch[s]
    BY <1>0, <2>2, <2>3 DEF DownloadTypes, RequestStates
  <2>5. DownloadTypes'
    <3>1. channel' \in Seq([pc : Found \cup {"body", "gone"}, key : Sources])
      BY <1>0, <2>0, HeadTaken
    <3> QED BY <1>0, <2>0, <2>4, <3>1 DEF DownloadTypes
  <2>6. \A i \in Nat : ~Travels(i, k)'
    <3>1. ASSUME NEW i \in Nat, Travels(i, k)' PROVE FALSE
      <4>1. i >= 1 /\ Travels(i + 1, k) /\ i + 1 \in Nat
        BY <1>0, <2>0, <3>1, HeadTaken
      <4> QED BY <2>3, <4>1
    <3> QED BY <3>1
  <2>7. ASSUME NEW s \in Sources, s # k
        PROVE  /\ (\E i \in Nat : Travels(i, s)') <=> (\E i \in Nat : Travels(i, s))
               /\ \A i, j \in Nat : Travels(i, s)' /\ Travels(j, s)' => i = j
    <3>1. \A i \in Nat : Travels(i, s)' => Travels(i + 1, s) /\ i + 1 \in Nat
      BY <1>0, <2>0, HeadTaken
    <3>2. ASSUME NEW i \in Nat, Travels(i, s) PROVE \E j \in Nat : Travels(j, s)'
      <4>1. i # 1
        BY <1>0, <2>0, <2>1, <2>7, <3>2, HeadTaken
      <4>2. i - 1 \in Nat /\ i - 1 >= 1 /\ i = (i - 1) + 1
        BY <1>0, <2>0, <3>2, <4>1, HeadTaken
      <4>3. PICK j \in Nat : j >= 1 /\ i = j + 1
        BY <4>2
      <4>4. Travels(j, s)'
        BY <1>0, <2>0, <3>2, <4>3, HeadTaken
      <4> QED BY <4>4
    <3>3. ASSUME NEW i \in Nat, NEW j \in Nat, Travels(i, s)', Travels(j, s)' PROVE i = j
      <4>1. i + 1 = j + 1
        BY <1>0, <3>1, <3>3 DEF NetworkInv
      <4> QED BY <4>1
    <3> QED BY <3>1, <3>2, <3>3
  <2>8. NetworkInv'
    BY <1>0, <2>4, <2>6, <2>7 DEF NetworkInv
  <2>9. Retained' \subseteq Retained
    BY <2>4 DEF Retained
  <2> QED BY <1>0, <2>0, <2>5, <2>8, <2>9, BudgetStays DEF DownloadsInv
<1> QED BY <1>1, <1>2

LEMMA EndCallStep ==
    ASSUME DownloadsInv, EndCall
    PROVE  DownloadsInv'
<1>0. /\ ~driving /\ DownloadTypes
      /\ UNCHANGED <<nextKey, cancelled, pool, channel, wanted, fetch, driving, driverError, eaten>>
  BY DEF EndCall, DownloadsInv, PoolUnchanged
<1>1. phase' \in {"failed", "done"}
  BY DEF EndCall
<1>2. DownloadTypes'
  BY <1>0, <1>1 DEF DownloadTypes
<1>3. ASSUME phase' = "done" PROVE \A s \in Sources : eaten'[s] = 1
  <2>1. phase = "network" /\ channel = <<>> /\ ~driverError
    BY <1>3 DEF EndCall
  <2>2. \A i \in Nat, s \in Sources : ~Travels(i, s)
    BY <2>1 DEF Travels
  <2> QED BY <1>0, <2>1, <2>2 DEF DownloadsInv, NetworkInv
<1>4. Retained' = Retained
  BY <1>0 DEF Retained
<1> QED BY <1>1, <1>2, <1>3, <1>4, BudgetStays DEF DownloadsInv

\* However the workers, the requests and the caller interleave, and whatever fails:
\* fetch_each hands over no source twice, one that returns Ok has handed over each,
\* and the bodies in memory keep to max_inflight_bytes.
THEOREM DownloadsKept == DownloadsSpec => []DownloadsSound
<1>1. DownloadsInit => DownloadsInv
  <2> SUFFICES ASSUME DownloadsInit PROVE DownloadsInv
    OBVIOUS
  <2> USE DEF DownloadsInit
  <2>1. DownloadTypes
    <3>1. Ready \in [pc : {"ready", "read", "ended"} \cup Found, key : Nat]
      BY DEF Ready
    <3>2. pool \in [Workers -> [pc : {"ready", "read", "ended"} \cup Found, key : Nat]]
      BY <3>1
    <3>3. nextKey \in Nat \ {0} /\ fetch \in [Sources -> RequestStates] /\ eaten \in [Sources -> 0..1]
      BY DEF RequestStates
    <3>4. /\ channel \in Seq([pc : Found \cup {"body", "gone"}, key : Sources]) /\ wanted \in Seq(Sources)
          /\ phase \in {"idle", "cache", "join", "network", "driver", "done", "failed"}
      OBVIOUS
    <3>5. cancelled \in BOOLEAN /\ driving \in BOOLEAN /\ driverError \in BOOLEAN
      BY Zenon
    <3> QED BY <3>2, <3>3, <3>4, <3>5 DEF DownloadTypes
  <2>2. PlacesInv /\ EndsInv
    <3>1. (\A i \in Nat, s \in Sources : ~Travels(i, s)) /\ (\A w \in Workers, s \in Sources : ~Carries(w, s))
      BY DEF Travels, Carries, Found, Ready
    <3>2. Missed = {}
      BY DEF Missed, ToSet
    <3>3. \A s \in Sources : ~(s < nextKey) /\ eaten[s] = 0
      BY SourcesCount
    <3>4. \A w \in Workers : pool[w].pc = "ready"
      BY DEF Ready
    <3> QED BY <3>1, <3>2, <3>3, <3>4 DEF PlacesInv, EndsInv, Found
  <2>3. Cardinality(Held) <= BytePermits
    <3>1. Held = {}
      BY DEF Held, Retained
    <3> QED BY <3>1, FS_EmptySet, DownloadsAssumption
  <2> QED BY <2>1, <2>2, <2>3 DEF DownloadsInv
<1>2. DownloadsInv /\ [DownloadsNext]_downloadVars => DownloadsInv'
  <2> SUFFICES ASSUME DownloadsInv, [DownloadsNext]_downloadVars PROVE DownloadsInv'
    OBVIOUS
  <2>1. CASE UNCHANGED downloadVars
    BY <2>1 DEF downloadVars, DownloadsInv, DownloadTypes, PlacesInv, EndsInv, NetworkInv, Carries, Travels,
                Missed, Held, Retained, Needed
  <2>2. CASE DownloadsNext
    BY <2>2, CallDownloadsStep, TakeKeyStep, ReadCacheStep, SendFoundStep, TakeFoundStep, JoinPoolStep,
       StartFetchStep, EndDriverStep, TakeBodyStep, EndCallStep, AcquirePermitsStep, EndFetchStep, SendBodyStep
       DEF DownloadsNext, DownloadStep
  <2> QED BY <2>1, <2>2
<1>3. DownloadsInv => DownloadsSound
  <2> SUFFICES ASSUME DownloadsInv PROVE DownloadsSound
    OBVIOUS
  <2>1. EachConsumedOnce
    BY DEF DownloadsInv, DownloadTypes, EachConsumedOnce
  <2>2. BudgetKept
    <3> DEFINE kept == {x \in Retained \X (1..BytePermits) : x[2] <= SourceSize[x[1]]}
    <3>1. kept \in SUBSET HeldBy(Retained)
      BY NeededBounds, HeldIs DEF HeldBy
    <3>2. IsFiniteSet(HeldBy(Retained)) /\ Cardinality(HeldBy(Retained)) \in Nat
      BY HeldIs, HeldFinite
    <3>3. IsFiniteSet(kept) /\ Cardinality(kept) <= Cardinality(HeldBy(Retained))
      BY <3>1, <3>2, FS_Subset
    <3>4. Cardinality(kept) \in Nat
      BY <3>3, FS_CardinalityType
    <3>5. Cardinality(HeldBy(Retained)) <= BytePermits
      BY HeldIs DEF DownloadsInv
    <3>6. Cardinality(kept) <= BytePermits
      <4> HIDE DEF kept
      <4> QED BY <3>2, <3>3, <3>4, <3>5, DownloadsAssumption
    <3> QED BY <3>6 DEF BudgetKept, Retained
  <2> QED BY <2>1, <2>2 DEF DownloadsSound
<1> QED BY <1>1, <1>2, <1>3, PTL DEF DownloadsSpec

-----------------------------------------------------------------------------
(***************************************************************************)
(* The object cache.  What the state file says, or what the task that holds *)
(* the lock has in memory, falls short of the bytes on the disk by at most  *)
(* one entry for each fault.                                                *)
(***************************************************************************)

Working == {"repair", "mark", "write", "remove", "unlink", "persist"}
EntrySet == [len : Nat, stamp : 0..MaxStamp, good : BOOLEAN]
CachePcs == {"idle", "lock", "locked", "clean", "scan", "evict", "save"} \cup Working
CacheCall == [pc : CachePcs, op : {"none", "open", "get", "put"}, key : CacheKeys, old : Nat,
              mem : [total : Nat, stamp : 0..MaxStamp], then : {"save", "repair"}, found : [CacheKeys -> Nat]]

Faults == crashes + damages
Slack == Faults * LargestLen
Bytes == TotalLen(CacheKeys)

CacheTypes ==
    /\ entries \in [CacheKeys -> EntrySet]
    /\ temps \in BOOLEAN
    /\ stateFile \in [total : Nat, stamp : 0..(MaxStamp + 1)]
    /\ cacheLock \in Tasks \cup {Nobody}
    /\ doing \in [Tasks -> CacheCall]
    /\ damages \in 0..MaxDamage /\ crashes \in 0..MaxCrashes

\* An entry is the one that was put, unless it was damaged.
EntriesInv ==
    \A k \in CacheKeys :
        /\ entries[k].len <= BodyLen[k]
        /\ k \in Present => entries[k].stamp >= 1 /\ HeaderLen - 1 <= entries[k].len /\ (damages = 0 => entries[k].good)
        /\ entries[k].good => entries[k].len = BodyLen[k] /\ entries[k].stamp >= 1

\* What the state file says, when it says something.
FileInv ==
    stateFile # Dirty =>
        /\ stateFile.total <= CapBytes /\ Bytes <= stateFile.total + Slack
        /\ stateFile.stamp <= MaxStamp
        /\ \A k \in Present : entries[k].stamp <= stateFile.stamp

\* Without a fault the cap is exceeded only between a put and the eviction after it.
Overfull(d) == d.pc = "scan" \/ (d.pc = "evict" /\ d.then = "save")
UnderCap == Faults = 0 /\ (\A t \in Tasks : ~Overfull(doing[t])) => Bytes <= CapBytes

\* Where a task can be in its call; past the lock it holds it.
TaskCall(t) ==
    LET d == doing[t] IN
    /\ d.pc \notin {"idle", "lock"} => cacheLock = t
    /\ d.old <= LargestLen
    /\ d.pc \in {"idle", "lock", "locked", "scan"} => d.then = "save"
    /\ d.pc = "clean" /\ d.then = "save" => d.op = "open"
    /\ d.pc = "lock" => d.op # "none"
    /\ d.pc = "locked" \/ d.then = "repair" => d.op \in {"get", "put"}
    /\ d.pc \in {"repair", "mark"} => d.then = "repair"
    /\ d.pc \in {"write", "unlink", "persist"} => d.op = "put" /\ stateFile = Dirty
    /\ d.pc = "remove" => d.op = "get"
    /\ d.op = "put" => BodyLen[d.key] <= CapBytes

\* Which entries a scan found and has not removed, and how long it found them.
LeftFound(d) == [k \in CacheKeys |-> IF k \in Present THEN d.found[k] ELSE 0]

\* What a task knows of the size of the cache.
TaskSizes(t) ==
    LET d == doing[t] IN
    /\ d.pc = "evict" =>
        /\ d.mem.total = Cardinality(Units(CacheKeys, LargestLen, LeftFound(d)))
        /\ \A k \in Present : d.found[k] \in entries[k].len..BodyLen[k]
    /\ d.pc \in {"clean", "evict"} /\ d.then = "repair" /\ Faults = 0 => d.old = entries[d.key].len
    /\ d.pc = "evict" /\ d.then = "repair" /\ Faults = 0 => d.mem.total <= CapBytes
    /\ d.pc \in Working => d.mem.total <= CapBytes /\ Bytes + d.old <= d.mem.total + entries[d.key].len + Slack
    /\ d.pc \in {"repair", "save"} => d.mem.total <= CapBytes /\ Bytes <= d.mem.total + Slack

\* The entry just put, which the scan that follows must not evict, has the last stamp.
JustPut(d) == (d.pc = "save" \/ Overfull(d)) /\ d.op = "put"

TaskStamps(t) ==
    LET d == doing[t] IN
    /\ d.pc \in Working \cup {"evict", "save"} => \A k \in Present : entries[k].stamp <= d.mem.stamp
    /\ d.pc \in {"unlink", "persist"} => d.mem.stamp >= 1 /\ \A k \in Present : entries[k].stamp < d.mem.stamp
    /\ JustPut(d) /\ damages = 0 =>
        d.key \in Present /\ \A h \in Present \ {d.key} : entries[h].stamp < entries[d.key].stamp

\* get_body removes the entry it found damaged, or nothing.
TaskRemoval(t) ==
    LET d == doing[t] IN
    d.op = "get" /\ d.pc \in {"clean", "scan", "evict"} \cup Working => ~entries[d.key].good

TaskInv(t) == TaskCall(t) /\ TaskSizes(t) /\ TaskStamps(t) /\ TaskRemoval(t)

CacheInv == CacheTypes /\ EntriesInv /\ FileInv /\ UnderCap /\ \A t \in Tasks : TaskInv(t)

-----------------------------------------------------------------------------
LEMMA LeastNatural ==
    ASSUME NEW S \in SUBSET Nat, S # {}
    PROVE  \E x \in S : \A y \in S : x <= y
<1> DEFINE R == OpToRel(<, Nat)
<1>1. IsWellFoundedOn(R, Nat)
  BY NatLessThanWellFounded
<1>2. \A x, y \in Nat : <<y, x>> \in R <=> y < x
  BY DEF OpToRel
<1> HIDE DEF R
<1>3. PICK x \in S : \A y \in S : ~(<<y, x>> \in R)
  BY <1>1, WFMin
<1>4. ASSUME NEW y \in S PROVE x <= y
  <2>1. x \in Nat /\ y \in Nat /\ ~(<<y, x>> \in R)
    BY <1>3
  <2>2. ~(y < x)
    BY <1>2, <2>1
  <2> QED BY <2>1, <2>2
<1> QED BY <1>4

\* A set of naturals with a bound has a largest member: the least bound.
LEMMA MaxIsLargest ==
    ASSUME NEW S \in SUBSET Nat, S # {}, NEW b \in Nat, \A x \in S : x <= b
    PROVE  Max(S) \in S /\ \A y \in S : y <= Max(S)
<1> DEFINE B == {n \in Nat : \A x \in S : x <= n}
<1>1. PICK m \in B : \A n \in B : m <= n
  <2>1. B \in SUBSET Nat /\ b \in B
    OBVIOUS
  <2> HIDE DEF B
  <2> QED BY <2>1, LeastNatural
<1>2. m \in Nat /\ \A x \in S : x <= m
  OBVIOUS
<1>3. m \in S
  <2> SUFFICES ASSUME m \notin S PROVE FALSE
    OBVIOUS
  <2>1. PICK x \in S : TRUE
    OBVIOUS
  <2>2. \A y \in S : y \in Nat /\ y < m
    BY <1>2
  <2>3. m - 1 \in B
    BY <1>2, <2>1, <2>2
  <2>4. m <= m - 1
    BY <1>1, <2>3
  <2> QED BY <1>2, <2>4
<1>4. \E x \in S : \A y \in S : x >= y
  BY <1>2, <1>3
<1>5. Max(S) \in S /\ \A y \in S : Max(S) >= y
  BY <1>4 DEF Max
<1> QED BY <1>5

LEMMA LargestIs == LargestLen \in Nat /\ \A k \in CacheKeys : BodyLen[k] <= LargestLen
<1> DEFINE S == {BodyLen[k] : k \in CacheKeys}
           C == {1..BodyLen[k] : k \in CacheKeys}
<1>1. S \in SUBSET Nat /\ S # {}
  BY CacheAssumption
<1>2. ASSUME NEW k \in CacheKeys PROVE IsFiniteSet(1..BodyLen[k]) /\ Cardinality(1..BodyLen[k]) = BodyLen[k]
  <2>1. 1 \in Int /\ BodyLen[k] \in Int /\ BodyLen[k] \in Nat
    BY CacheAssumption
  <2>2. IsFiniteSet(1..BodyLen[k]) /\ Cardinality(1..BodyLen[k]) = IF 1 > BodyLen[k] THEN 0 ELSE BodyLen[k] - 1 + 1
    BY <2>1, FS_Interval
  <2> QED BY <2>1, <2>2
<1>3. IsFiniteSet(UNION C)
  <2>1. IsFiniteSet(C)
    <3> DEFINE f == [k \in CacheKeys |-> 1..BodyLen[k]]
    <3>1. f \in Surjection(CacheKeys, C)
      BY DEF Surjection
    <3> HIDE DEF f, C
    <3> QED BY <3>1, CacheAssumption, FS_Surjection
  <2>2. \A T \in C : IsFiniteSet(T)
    BY <1>2
  <2> HIDE DEF C
  <2> QED BY <2>1, <2>2, FS_UNION
<1>4. ASSUME NEW k \in CacheKeys PROVE BodyLen[k] <= Cardinality(UNION C)
  <2>1. (1..BodyLen[k]) \in SUBSET UNION C
    OBVIOUS
  <2> HIDE DEF C
  <2> QED BY <1>2, <1>3, <2>1, FS_Subset
<1>5. Cardinality(UNION C) \in Nat
  BY <1>3, FS_CardinalityType
<1> DEFINE b == Cardinality(UNION C)
<1>6. b \in Nat /\ \A x \in S : x <= b
  BY <1>4, <1>5
<1> HIDE DEF b
<1>7. Max(S) \in S /\ \A y \in S : y <= Max(S)
  <2> HIDE DEF S
  <2> QED BY <1>1, <1>6, MaxIsLargest
<1> QED BY <1>1, <1>7 DEF LargestLen

-----------------------------------------------------------------------------
(***************************************************************************)
(* The bytes of the cache, as the units of the lengths of its entries.      *)
(***************************************************************************)
LensOf(e) == [k \in CacheKeys |-> e[k].len]
BytesOf(e) == Cardinality(UNION {{k} \X (1..e[k].len) : k \in CacheKeys})

LEMMA BytesAre ==
    ASSUME NEW e \in [CacheKeys -> EntrySet], \A k \in CacheKeys : e[k].len <= BodyLen[k]
    PROVE  /\ LensOf(e) \in [CacheKeys -> 0..LargestLen]
           /\ BytesOf(e) = Cardinality(Units(CacheKeys, LargestLen, LensOf(e)))
           /\ BytesOf(e) \in Nat
<1>1. \A k \in CacheKeys : e[k].len \in Nat /\ BodyLen[k] \in Nat /\ e[k].len <= LargestLen
  BY LargestIs, CacheAssumption DEF EntrySet
<1>2. LensOf(e) \in [CacheKeys -> 0..LargestLen]
  BY <1>1, LargestIs DEF LensOf
<1>3. UNION {{k} \X (1..e[k].len) : k \in CacheKeys} = Units(CacheKeys, LargestLen, LensOf(e))
  <2>1. ASSUME NEW y \in Units(CacheKeys, LargestLen, LensOf(e))
        PROVE  y \in UNION {{k} \X (1..e[k].len) : k \in CacheKeys}
    BY <1>1, LargestIs DEF Units, LensOf
  <2>2. ASSUME NEW k \in CacheKeys, NEW y \in {k} \X (1..e[k].len)
        PROVE  y \in Units(CacheKeys, LargestLen, LensOf(e))
    BY <1>1, LargestIs DEF Units, LensOf
  <2> QED BY <2>1, <2>2
<1>4. PICK k \in CacheKeys : TRUE
  BY CacheAssumption
<1>5. Cardinality(Units(CacheKeys, LargestLen, LensOf(e))) \in Nat
  BY <1>2, <1>4, LargestIs, CacheAssumption, UnitsChange
<1> QED BY <1>2, <1>3, <1>5 DEF BytesOf

\* One entry changes.
LEMMA BytesChange ==
    ASSUME NEW e \in [CacheKeys -> EntrySet], \A k \in CacheKeys : e[k].len <= BodyLen[k],
           NEW f \in [CacheKeys -> EntrySet], \A k \in CacheKeys : f[k].len <= BodyLen[k],
           NEW k \in CacheKeys, \A h \in CacheKeys : h # k => e[h] = f[h]
    PROVE  BytesOf(f) + e[k].len = BytesOf(e) + f[k].len
<1> DEFINE a == LensOf(e)
           b == LensOf(f)
<1>1. /\ a \in [CacheKeys -> 0..LargestLen] /\ b \in [CacheKeys -> 0..LargestLen]
      /\ BytesOf(e) = Cardinality(Units(CacheKeys, LargestLen, a))
      /\ BytesOf(f) = Cardinality(Units(CacheKeys, LargestLen, b))
  BY BytesAre
<1>2. a[k] = e[k].len /\ b[k] = f[k].len /\ \A h \in CacheKeys : h # k => a[h] = b[h]
  BY DEF LensOf
<1> HIDE DEF a, b
<1>3. Cardinality(Units(CacheKeys, LargestLen, b)) + a[k] = Cardinality(Units(CacheKeys, LargestLen, a)) + b[k]
  <2>1. IsFiniteSet(CacheKeys) /\ LargestLen \in Nat
    BY LargestIs, CacheAssumption
  <2>2. a \in [CacheKeys -> 0..LargestLen] /\ b \in [CacheKeys -> 0..LargestLen]
    BY <1>1
  <2>3. \A h \in CacheKeys : h # k => a[h] = b[h]
    BY <1>2
  <2> QED BY ONLY <2>1, <2>2, <2>3, k \in CacheKeys, UnitsChange
<1> QED BY <1>1, <1>2, <1>3

\* Amounts that are nowhere larger.
LEMMA UnitsLess ==
    ASSUME NEW a \in [CacheKeys -> 0..LargestLen], NEW b \in [CacheKeys -> 0..LargestLen],
           \A k \in CacheKeys : a[k] <= b[k]
    PROVE  /\ Cardinality(Units(CacheKeys, LargestLen, a)) <= Cardinality(Units(CacheKeys, LargestLen, b))
           /\ Cardinality(Units(CacheKeys, LargestLen, a)) \in Nat
           /\ Cardinality(Units(CacheKeys, LargestLen, b)) \in Nat
<1>1. PICK k \in CacheKeys : TRUE
  BY CacheAssumption
<1>2. /\ IsFiniteSet(Units(CacheKeys, LargestLen, b)) /\ Cardinality(Units(CacheKeys, LargestLen, b)) \in Nat
      /\ Cardinality(Units(CacheKeys, LargestLen, a)) \in Nat
  BY <1>1, LargestIs, CacheAssumption, UnitsChange
<1>3. Units(CacheKeys, LargestLen, a) \in SUBSET Units(CacheKeys, LargestLen, b)
  BY LargestIs DEF Units
<1> QED BY <1>2, <1>3, FS_Subset

\* An amount for one key only is the sum.
LEMMA UnitsOfOne ==
    ASSUME NEW a \in [CacheKeys -> 0..LargestLen], NEW k \in CacheKeys, \A h \in CacheKeys : h # k => a[h] = 0
    PROVE  Cardinality(Units(CacheKeys, LargestLen, a)) = a[k]
<1> DEFINE z == [h \in CacheKeys |-> 0]
<1>1. z \in [CacheKeys -> 0..LargestLen] /\ z[k] = 0 /\ \A h \in CacheKeys : h # k => z[h] = a[h]
  BY LargestIs
<1>2. Units(CacheKeys, LargestLen, z) = {}
  BY LargestIs DEF Units
<1>3. Cardinality(Units(CacheKeys, LargestLen, z)) = 0
  BY <1>2, FS_EmptySet
<1> HIDE DEF z
<1>4. /\ Cardinality(Units(CacheKeys, LargestLen, a)) + z[k] = Cardinality(Units(CacheKeys, LargestLen, z)) + a[k]
      /\ Cardinality(Units(CacheKeys, LargestLen, a)) \in Nat
  BY <1>1, LargestIs, CacheAssumption, UnitsChange
<1>5. a[k] \in Nat
  BY LargestIs
<1> QED BY <1>1, <1>3, <1>4, <1>5

\* Entries that are nowhere longer.
LEMMA BytesLess ==
    ASSUME NEW e \in [CacheKeys -> EntrySet], \A k \in CacheKeys : e[k].len <= BodyLen[k],
           NEW f \in [CacheKeys -> EntrySet], \A k \in CacheKeys : f[k].len <= BodyLen[k],
           \A k \in CacheKeys : e[k].len <= f[k].len
    PROVE  BytesOf(e) <= BytesOf(f)
<1>1. /\ LensOf(e) \in [CacheKeys -> 0..LargestLen] /\ LensOf(f) \in [CacheKeys -> 0..LargestLen]
      /\ BytesOf(e) = Cardinality(Units(CacheKeys, LargestLen, LensOf(e)))
      /\ BytesOf(f) = Cardinality(Units(CacheKeys, LargestLen, LensOf(f)))
  BY BytesAre
<1>2. \A k \in CacheKeys : LensOf(e)[k] <= LensOf(f)[k]
  BY DEF LensOf
<1> QED BY <1>1, <1>2, UnitsLess

LEMMA BytesHold ==
    ASSUME NEW e \in [CacheKeys -> EntrySet], \A k \in CacheKeys : e[k].len <= BodyLen[k], NEW k \in CacheKeys
    PROVE  e[k].len <= BytesOf(e) /\ e[k].len \in Nat
<1> DEFINE f == [e EXCEPT ![k] = [@ EXCEPT !.len = 0]]
<1>1. /\ f \in [CacheKeys -> EntrySet] /\ f[k].len = 0 /\ \A h \in CacheKeys : h # k => e[h] = f[h]
  BY DEF EntrySet
<1>2. \A h \in CacheKeys : f[h].len <= BodyLen[h]
  BY <1>1, CacheAssumption
<1> HIDE DEF f
<1>3. BytesOf(f) + e[k].len = BytesOf(e) + f[k].len /\ BytesOf(f) \in Nat /\ BytesOf(e) \in Nat
  BY <1>1, <1>2, BytesChange, BytesAre
<1>4. e[k].len \in Nat
  BY DEF EntrySet
<1> QED BY <1>1, <1>3, <1>4

LEMMA BytesNow == Bytes = BytesOf(entries) /\ Bytes' = BytesOf(entries')
BY DEF Bytes, TotalLen, BytesOf

\* The slack of n faults.
LEMMA SlackGrows ==
    ASSUME NEW n \in Nat
    PROVE  /\ n * LargestLen \in Nat /\ 0 * LargestLen = 0
           /\ (n + 1) * LargestLen = n * LargestLen + LargestLen
           /\ n >= 1 => LargestLen <= n * LargestLen
<1>1. LargestLen \in Nat
  BY LargestIs
<1> DEFINE L == LargestLen
<1> HIDE DEF L
<1>2. L \in Nat
  BY <1>1 DEF L
<1>3. n * L \in Nat /\ 0 * L = 0 /\ (n + 1) * L = n * L + L
  BY <1>2
<1>4. ASSUME n >= 1 PROVE L <= n * L
  <2>1. PICK m \in Nat : n = m + 1
    BY <1>4
  <2>2. m * L \in Nat /\ (m + 1) * L = m * L + L
    BY <1>2
  <2> QED BY <1>2, <2>1, <2>2
<1> QED BY <1>3, <1>4 DEF L

-----------------------------------------------------------------------------
LEMMA RestingIs ==
    /\ Resting \in CacheCall
    /\ Resting.pc = "idle" /\ Resting.op = "none" /\ Resting.old = 0 /\ Resting.then = "save"
<1>1. (CHOOSE k \in CacheKeys : TRUE) \in CacheKeys
  BY CacheAssumption
<1>2. [k \in CacheKeys |-> 0] \in [CacheKeys -> Nat]
  OBVIOUS
<1>3. [total |-> 0, stamp |-> 0] \in [total : Nat, stamp : 0..MaxStamp]
  BY CacheAssumption
<1> QED BY <1>1, <1>2, <1>3 DEF Resting, CacheCall, CachePcs

\* What the invariant says of numbers.
LEMMA CacheNumbers ==
    ASSUME CacheInv
    PROVE  /\ Bytes \in Nat /\ Faults \in Nat /\ Slack \in Nat
           /\ Faults = 0 => Slack = 0
           /\ Faults # 0 => LargestLen <= Slack
           /\ \A k \in CacheKeys : entries[k].len \in Nat /\ entries[k].len <= Bytes /\ entries[k].len <= LargestLen
<1>1. /\ entries \in [CacheKeys -> EntrySet] /\ (\A k \in CacheKeys : entries[k].len <= BodyLen[k])
      /\ crashes \in 0..MaxCrashes /\ damages \in 0..MaxDamage
  BY DEF CacheInv, CacheTypes, EntriesInv
<1>2. Faults \in Nat
  BY <1>1, CacheAssumption DEF Faults
<1>3. Bytes \in Nat
  BY <1>1, BytesNow, BytesAre
<1>4. Slack \in Nat /\ (Faults = 0 => Slack = 0) /\ (Faults # 0 => LargestLen <= Slack)
  BY <1>2, SlackGrows DEF Slack
<1>5. \A k \in CacheKeys : entries[k].len \in Nat /\ entries[k].len <= Bytes
  BY <1>1, BytesNow, BytesHold
<1>6. \A k \in CacheKeys : entries[k].len <= LargestLen
  BY <1>1, <1>5, LargestIs, CacheAssumption
<1> QED BY <1>2, <1>3, <1>4, <1>5, <1>6

\* The tasks that do not hold the lock are before it.
LEMMA OthersWait ==
    ASSUME CacheInv, NEW t \in Tasks, cacheLock \in {t, Nobody}, NEW u \in Tasks, u # t
    PROVE  doing[u].pc \in {"idle", "lock"}
BY CacheAssumption DEF CacheInv, TaskInv, TaskCall

\* A step of the task that has the lock or takes it.
LEMMA HolderFrame ==
    ASSUME CacheInv, NEW t \in Tasks, cacheLock \in {t, Nobody},
           \A u \in Tasks : u # t => doing'[u] = doing[u],
           CacheTypes', EntriesInv', FileInv', UnderCap', TaskInv(t)'
    PROVE  CacheInv'
<1>1. ASSUME NEW u \in Tasks, u # t PROVE TaskInv(u)'
  <2>1. doing'[u] = doing[u] /\ doing[u].pc \in {"idle", "lock"} /\ TaskCall(u)
    BY <1>1, OthersWait DEF CacheInv, TaskInv
  <2>2. TaskCall(u)'
    BY <2>1 DEF TaskCall
  <2>3. TaskSizes(u)' /\ TaskRemoval(u)'
    BY <2>1 DEF TaskSizes, TaskRemoval, Working
  <2>4. TaskStamps(u)'
    BY <2>1 DEF TaskStamps, JustPut, Overfull, Working
  <2> QED BY <2>2, <2>3, <2>4 DEF TaskInv
<1> QED BY <1>1 DEF CacheInv

\* Without a fault, the cap holds unless the holder of the lock is about to evict.
LEMMA CapBefore ==
    ASSUME CacheInv, NEW t \in Tasks, cacheLock \in {t, Nobody}, ~Overfull(doing[t]), Faults = 0
    PROVE  Bytes <= CapBytes
<1>1. \A u \in Tasks : ~Overfull(doing[u])
  BY OthersWait DEF Overfull
<1> QED BY <1>1 DEF CacheInv, UnderCap

\* A call that is over.
LEMMA Rested ==
    ASSUME NEW t \in Tasks, doing'[t] = Resting
    PROVE  TaskInv(t)'
<1>1. TaskCall(t)'
  BY RestingIs, LargestIs DEF TaskCall
<1>2. TaskSizes(t)' /\ TaskRemoval(t)'
  BY RestingIs DEF TaskSizes, TaskRemoval, Working
<1>3. TaskStamps(t)'
  BY RestingIs DEF TaskStamps, JustPut, Overfull, Working
<1> QED BY <1>1, <1>2, <1>3 DEF TaskInv

\* The steps that change no entry and no fault.
LEMMA SameEntries ==
    ASSUME UNCHANGED <<entries, damages, crashes>>
    PROVE  /\ Bytes' = Bytes /\ Faults' = Faults /\ Slack' = Slack /\ Present' = Present
           /\ EntriesInv => EntriesInv'
BY DEF Bytes, TotalLen, Faults, Slack, Present, EntriesInv

LEMMA SameFile ==
    ASSUME FileInv, UNCHANGED <<entries, stateFile, damages, crashes>>
    PROVE  FileInv'
BY SameEntries DEF FileInv

LEMMA SameTask ==
    ASSUME NEW u, TaskInv(u), doing'[u] = doing[u],
           UNCHANGED <<entries, stateFile, cacheLock, damages, crashes>>
    PROVE  TaskInv(u)'
<1>0. Bytes' = Bytes /\ Faults' = Faults /\ Slack' = Slack /\ Present' = Present
  BY SameEntries
<1>1. TaskCall(u)'
  BY DEF TaskInv, TaskCall
<1>2. TaskSizes(u)'
  <2>1. LeftFound(doing'[u]) = LeftFound(doing[u]) /\ LeftFound(doing[u])' = LeftFound(doing[u])
    BY <1>0 DEF LeftFound
  <2> QED BY <1>0, <2>1 DEF TaskInv, TaskSizes
<1>3. TaskStamps(u)'
  BY <1>0 DEF TaskInv, TaskStamps
<1>4. TaskRemoval(u)'
  BY DEF TaskInv, TaskRemoval
<1> QED BY <1>1, <1>2, <1>3, <1>4 DEF TaskInv

LEMMA CallFrame ==
    ASSUME CacheInv, NEW t \in Tasks, doing[t].pc = "idle",
           NEW o \in {"open", "get", "put"}, NEW k \in CacheKeys, o = "put" => BodyLen[k] <= CapBytes,
           doing' = [doing EXCEPT ![t] = [Resting EXCEPT !.pc = "lock", !.op = o, !.key = k]],
           KeepFiles, UNCHANGED cacheLock
    PROVE  CacheInv'
<1> DEFINE r == [Resting EXCEPT !.pc = "lock", !.op = o, !.key = k]
<1>1. /\ r \in CacheCall /\ r.pc = "lock" /\ r.op = o /\ r.key = k /\ r.old = 0 /\ r.then = "save"
  BY RestingIs DEF CacheCall, CachePcs
<1>2. doing' = [doing EXCEPT ![t] = r]
  OBVIOUS
<1> HIDE DEF r
<1>3. UNCHANGED <<entries, temps, stateFile, cacheLock, damages, crashes>>
  BY DEF KeepFiles
<1>4. doing' \in [Tasks -> CacheCall] /\ doing'[t] = r /\ \A u \in Tasks : u # t => doing'[u] = doing[u]
  BY <1>1, <1>2 DEF CacheInv, CacheTypes
<1>5. CacheTypes'
  BY <1>3, <1>4 DEF CacheInv, CacheTypes
<1>6. EntriesInv' /\ FileInv'
  BY <1>3, SameEntries, SameFile DEF CacheInv
<1>7. UnderCap'
  <2>1. \A u \in Tasks : Overfull(doing[u]) <=> Overfull(doing'[u])
    BY <1>1, <1>4 DEF Overfull
  <2> QED BY <1>3, <2>1, SameEntries DEF CacheInv, UnderCap
<1>8. ASSUME NEW u \in Tasks, u # t PROVE TaskInv(u)'
  <2>1. TaskInv(u) /\ doing'[u] = doing[u]
    BY <1>4, <1>8 DEF CacheInv
  <2> QED BY <1>3, <2>1, SameTask
<1>9. TaskInv(t)'
  <2>0. o # "none" /\ (o = "put" => BodyLen[k] <= CapBytes) /\ LargestLen \in Nat
    BY LargestIs
  <2>1. TaskCall(t)'
    BY ONLY <1>1, <1>4, <2>0 DEF TaskCall
  <2>2. TaskSizes(t)' /\ TaskRemoval(t)'
    BY <1>1, <1>4 DEF TaskSizes, TaskRemoval, Working
  <2>3. TaskStamps(t)'
    BY <1>1, <1>4 DEF TaskStamps, JustPut, Overfull, Working
  <2> QED BY <2>1, <2>2, <2>3 DEF TaskInv
<1> QED BY <1>5, <1>6, <1>7, <1>8, <1>9 DEF CacheInv

-----------------------------------------------------------------------------
\* The task's record changes to r, and no file.
LEMMA RecordChange ==
    ASSUME CacheInv, NEW t \in Tasks, NEW r \in CacheCall, doing' = [doing EXCEPT ![t] = r]
    PROVE  doing' \in [Tasks -> CacheCall] /\ doing'[t] = r /\ \A u \in Tasks : u # t => doing'[u] = doing[u]
BY DEF CacheInv, CacheTypes

LEMMA TaskIs ==
    ASSUME CacheInv, NEW t \in Tasks
    PROVE  /\ doing[t] \in CacheCall /\ TaskInv(t) /\ EntriesInv /\ FileInv
           /\ doing[t].pc \notin {"idle", "lock"} => cacheLock = t
           /\ doing[t].key \in CacheKeys /\ doing[t].old \in Nat /\ doing[t].old <= LargestLen
           /\ doing[t].mem.total \in Nat /\ doing[t].mem.stamp \in 0..MaxStamp
<1>1. doing[t] \in CacheCall /\ TaskInv(t) /\ EntriesInv /\ FileInv /\ TaskCall(t)
  BY DEF CacheInv, CacheTypes, TaskInv
<1>2. /\ doing[t].key \in CacheKeys /\ doing[t].old \in Nat
      /\ doing[t].mem.total \in Nat /\ doing[t].mem.stamp \in 0..MaxStamp
  BY <1>1 DEF CacheCall
<1> QED BY <1>1, <1>2 DEF TaskCall

LEMMA TakeLockStep ==
    ASSUME CacheInv, NEW t \in Tasks, TakeLock(t)
    PROVE  CacheInv'
<1> DEFINE p == IF doing[t].op = "open" THEN "clean" ELSE "locked"
           r == [doing[t] EXCEPT !.pc = p]
<1>0. doing[t] \in CacheCall /\ TaskCall(t) /\ doing[t].pc = "lock" /\ CacheTypes /\ FileInv /\ EntriesInv
  BY TaskIs DEF TakeLock, TaskInv, CacheInv
<1>1. /\ r \in CacheCall /\ r.pc = p /\ r.op = doing[t].op /\ r.key = doing[t].key
      /\ r.old = doing[t].old /\ r.then = doing[t].then
  BY <1>0 DEF CacheCall, CachePcs
<1>2. doing' = [doing EXCEPT ![t] = r]
  BY <1>0 DEF TakeLock, Proceed, CacheTypes
<1>3. cacheLock = Nobody /\ cacheLock' = t /\ UNCHANGED <<entries, temps, stateFile, damages, crashes>>
  BY DEF TakeLock, KeepFiles, CacheLockFree
<1>4. p \in {"clean", "locked"} /\ (p = "clean" <=> r.op = "open")
  BY <1>1
<1> HIDE DEF r, p
<1>5. doing' \in [Tasks -> CacheCall] /\ doing'[t] = r /\ \A u \in Tasks : u # t => doing'[u] = doing[u]
  BY <1>1, <1>2, RecordChange
<1>6. CacheTypes' /\ EntriesInv' /\ FileInv'
  BY <1>0, <1>3, <1>5, SameEntries, SameFile DEF CacheTypes
<1>7. UnderCap'
  <2>1. ~Overfull(doing[t])
    BY <1>0 DEF Overfull
  <2>2. Faults = 0 => Bytes <= CapBytes
    BY <1>3, <2>1, CapBefore
  <2> QED BY <1>3, <2>2, SameEntries DEF UnderCap
<1>8. TaskInv(t)'
  <2>1. r.then = "save" /\ r.op # "none" /\ r.op \in {"none", "open", "get", "put"}
    BY <1>0, <1>1 DEF TaskCall, CacheCall
  <2>2. TaskCall(t)'
    BY <1>0, <1>1, <1>3, <1>4, <1>5, <2>1 DEF TaskCall
  <2>3. TaskSizes(t)'
    BY <1>1, <1>4, <1>5, <2>1 DEF TaskSizes, Working
  <2>4. TaskStamps(t)'
    BY <1>1, <1>4, <1>5, <2>1 DEF TaskStamps, JustPut, Overfull, Working
  <2>5. TaskRemoval(t)'
    BY <1>1, <1>4, <1>5, <2>1 DEF TaskRemoval, Working
  <2> QED BY <2>2, <2>3, <2>4, <2>5 DEF TaskInv
<1> QED BY <1>3, <1>5, <1>6, <1>7, <1>8, HolderFrame

\* The calls that end without touching an entry.
LEMMA UnlockFrame ==
    ASSUME CacheInv, NEW t \in Tasks, doing[t].pc \notin {"idle", "lock"}, Unlock(t), FileInv', Overfull(doing[t]) => FALSE,
           UNCHANGED <<entries, damages, crashes>>, temps' \in BOOLEAN,
           stateFile' \in [total : Nat, stamp : 0..(MaxStamp + 1)]
    PROVE  CacheInv'
<1>1. doing' \in [Tasks -> CacheCall] /\ doing'[t] = Resting /\ \A u \in Tasks : u # t => doing'[u] = doing[u]
  BY RestingIs, RecordChange DEF Unlock
<1>2. cacheLock' = Nobody /\ cacheLock = t
  BY TaskIs DEF Unlock
<1>3. CacheTypes' /\ EntriesInv'
  BY <1>1, <1>2, SameEntries DEF CacheInv, CacheTypes
<1>4. UnderCap'
  <2>1. Faults = 0 => Bytes <= CapBytes
    BY <1>2, CapBefore
  <2> QED BY <2>1, SameEntries DEF UnderCap
<1>5. TaskInv(t)'
  BY <1>1, Rested
<1> QED BY <1>1, <1>2, <1>3, <1>4, <1>5, HolderFrame

LEMMA GiveUpStep ==
    ASSUME CacheInv, NEW t \in Tasks, GiveUp(t) \/ NoStampLeft(t)
    PROVE  CacheInv'
<1>1. /\ doing[t].pc \in {"locked", "write"} /\ Unlock(t)
      /\ UNCHANGED <<entries, temps, stateFile, damages, crashes>>
  BY DEF GiveUp, NoStampLeft, KeepFiles
<1>2. FileInv' /\ temps' \in BOOLEAN /\ stateFile' \in [total : Nat, stamp : 0..(MaxStamp + 1)]
  BY <1>1, SameFile DEF CacheInv, CacheTypes
<1>3. ~Overfull(doing[t])
  BY <1>1 DEF Overfull
<1> QED BY <1>1, <1>2, <1>3, UnlockFrame

LEMMA SaveStep ==
    ASSUME CacheInv, NEW t \in Tasks, Save(t)
    PROVE  CacheInv'
<1>1. /\ doing[t].pc = "save" /\ Unlock(t) /\ stateFile' = doing[t].mem
      /\ UNCHANGED <<entries, temps, damages, crashes>>
  BY DEF Save
<1>2. stateFile' \in [total : Nat, stamp : 0..MaxStamp] /\ temps' \in BOOLEAN
  BY <1>1, TaskIs DEF CacheInv, CacheTypes, CacheCall
<1>3. FileInv'
  BY <1>1, <1>2, TaskIs, SameEntries DEF FileInv, TaskInv, TaskSizes, TaskStamps
<1>4. stateFile' \in [total : Nat, stamp : 0..(MaxStamp + 1)]
  BY <1>2, CacheAssumption
<1>5. ~Overfull(doing[t])
  BY <1>1 DEF Overfull
<1> QED BY <1>1, <1>2, <1>3, <1>4, <1>5, UnlockFrame

\* The steps of the holder that touch no entry.
LEMMA FileFrame ==
    ASSUME CacheInv, NEW t \in Tasks, doing[t].pc \notin {"idle", "lock"}, NEW r \in CacheCall,
           doing' = [doing EXCEPT ![t] = r],
           UNCHANGED <<entries, cacheLock, damages, crashes>>, temps' \in BOOLEAN,
           stateFile' \in [total : Nat, stamp : 0..(MaxStamp + 1)],
           FileInv', ~Overfull(doing[t]), TaskInv(t)'
    PROVE  CacheInv'
<1>1. doing' \in [Tasks -> CacheCall] /\ doing'[t] = r /\ \A u \in Tasks : u # t => doing'[u] = doing[u]
  BY RecordChange
<1>2. cacheLock = t
  BY TaskIs
<1>3. CacheTypes' /\ EntriesInv'
  BY <1>1, SameEntries DEF CacheInv, CacheTypes
<1>4. UnderCap'
  <2>1. Faults = 0 => Bytes <= CapBytes
    BY <1>2, CapBefore
  <2> QED BY <2>1, SameEntries DEF UnderCap
<1> QED BY <1>1, <1>2, <1>3, <1>4, HolderFrame

LEMMA ReadStateStep ==
    ASSUME CacheInv, NEW t \in Tasks, ReadState(t)
    PROVE  CacheInv'
<1> DEFINE d == doing[t]
           p == IF stateFile = Dirty THEN "clean" ELSE "mark"
           m == IF stateFile = Dirty THEN d.mem ELSE stateFile
           r == [d EXCEPT !.old = entries[d.key].len, !.pc = p, !.mem = m, !.then = "repair"]
<1>0. d \in CacheCall /\ TaskCall(t) /\ d.pc = "locked" /\ CacheTypes /\ FileInv /\ EntriesInv /\ cacheLock = t
  BY TaskIs DEF ReadState, TaskInv, CacheInv
<1>1. doing' = [doing EXCEPT ![t] = r] /\ UNCHANGED <<entries, temps, stateFile, cacheLock, damages, crashes>>
  BY <1>0 DEF ReadState, KeepFiles, CacheTypes
<1>2. entries[d.key].len \in Nat /\ entries[d.key].len <= LargestLen /\ d.key \in CacheKeys
  BY <1>0, CacheNumbers DEF CacheCall
<1>3. m \in [total : Nat, stamp : 0..MaxStamp]
  <2>1. CASE stateFile = Dirty
    BY <1>0, <2>1 DEF CacheCall
  <2>2. CASE stateFile # Dirty
    BY <1>0, <2>2, CacheAssumption DEF FileInv, CacheTypes
  <2> QED BY <2>1, <2>2
<1> HIDE DEF m, p
<1>4. p \in CachePcs
  BY DEF p, CachePcs, Working
<1>5. /\ r \in CacheCall /\ r.pc = p /\ r.op = d.op /\ r.key = d.key /\ r.old = entries[d.key].len
      /\ r.mem = m /\ r.then = "repair"
  BY <1>0, <1>2, <1>3, <1>4 DEF CacheCall
<1>6. d.op \in {"get", "put"} /\ (d.op = "put" => BodyLen[d.key] <= CapBytes)
  BY <1>0 DEF TaskCall
<1>7. d.op = "get" => ~entries[d.key].good
  BY DEF ReadState, MustRemove
<1> HIDE DEF r, d
<1>8. doing'[t] = r
  BY <1>1, <1>5, RecordChange
<1>9. TaskCall(t)'
  BY <1>0, <1>1, <1>2, <1>5, <1>6, <1>8 DEF TaskCall, p
<1>10. CASE stateFile = Dirty
  <2>1. p = "clean"
    BY <1>10 DEF p
  <2>2. TaskSizes(t)'
    BY <1>1, <1>5, <1>8, <2>1 DEF TaskSizes, Working
  <2>3. TaskStamps(t)'
    BY <1>5, <1>8, <2>1 DEF TaskStamps, JustPut, Overfull, Working
  <2>4. TaskRemoval(t)'
    BY <1>1, <1>5, <1>7, <1>8 DEF TaskRemoval
  <2>5. TaskInv(t)'
    BY <1>9, <2>2, <2>3, <2>4 DEF TaskInv
  <2> QED BY <1>0, <1>1, <1>5, <2>5, FileFrame, SameFile DEF CacheTypes, Overfull, d
<1>11. CASE stateFile # Dirty
  <2>1. p = "mark" /\ m = stateFile
    BY <1>11 DEF p, m
  <2>2. TaskSizes(t)'
    <3>1. stateFile.total <= CapBytes /\ Bytes <= stateFile.total + Slack /\ stateFile.total \in Nat
      BY <1>0, <1>11 DEF FileInv, CacheTypes
    <3>2. Bytes \in Nat /\ Slack \in Nat
      BY CacheNumbers
    <3>3. Bytes + r.old <= stateFile.total + entries[r.key].len + Slack
      BY <1>2, <1>5, <3>1, <3>2
    <3> QED BY <1>1, <1>5, <1>8, <2>1, <3>1, <3>3, SameEntries DEF TaskSizes, Working
  <2>3. TaskStamps(t)'
    BY <1>0, <1>1, <1>5, <1>8, <1>11, <2>1, SameEntries DEF TaskStamps, JustPut, Overfull, Working, FileInv
  <2>4. TaskRemoval(t)'
    BY <1>1, <1>5, <1>7, <1>8 DEF TaskRemoval
  <2>5. TaskInv(t)'
    BY <1>9, <2>2, <2>3, <2>4 DEF TaskInv
  <2> QED BY <1>0, <1>1, <1>5, <2>5, FileFrame, SameFile DEF CacheTypes, Overfull, d
<1> QED BY <1>10, <1>11

LEMMA RepairStep ==
    ASSUME CacheInv, NEW t \in Tasks, Repair(t)
    PROVE  CacheInv'
<1> DEFINE d == doing[t]
           r == [d EXCEPT !.pc = "mark"]
<1>0. d \in CacheCall /\ TaskInv(t) /\ d.pc = "repair" /\ CacheTypes /\ cacheLock = t
  BY TaskIs DEF Repair, CacheInv
<1>1. doing' = [doing EXCEPT ![t] = r] /\ UNCHANGED <<entries, temps, cacheLock, damages, crashes>> /\ stateFile' = d.mem
  BY <1>0 DEF Repair, Proceed, CacheTypes
<1>2. /\ r \in CacheCall /\ r.pc = "mark" /\ r.op = d.op /\ r.key = d.key /\ r.old = d.old /\ r.mem = d.mem /\ r.then = d.then
  BY <1>0 DEF CacheCall, CachePcs, Working
<1>3. d.mem \in [total : Nat, stamp : 0..MaxStamp]
  BY <1>0 DEF CacheCall
<1>4. doing'[t] = r
  BY <1>1, <1>2, RecordChange
<1> HIDE DEF r, d
<1>5. FileInv'
  BY <1>0, <1>1, <1>3, SameEntries DEF FileInv, TaskInv, TaskSizes, TaskStamps, Working, d
<1>6. TaskInv(t)'
  <2>1. TaskCall(t)'
    BY <1>0, <1>1, <1>2, <1>4 DEF TaskInv, TaskCall, d
  <2>2. TaskSizes(t)'
    BY <1>0, <1>1, <1>2, <1>4, SameEntries DEF TaskInv, TaskSizes, Working, d
  <2>3. TaskStamps(t)'
    BY <1>0, <1>1, <1>2, <1>4, SameEntries DEF TaskInv, TaskStamps, JustPut, Overfull, Working, d
  <2>4. TaskRemoval(t)'
    BY <1>0, <1>1, <1>2, <1>4 DEF TaskInv, TaskRemoval, Working, d
  <2> QED BY <2>1, <2>2, <2>3, <2>4 DEF TaskInv
<1>7. stateFile' \in [total : Nat, stamp : 0..(MaxStamp + 1)]
  BY <1>1, <1>3, CacheAssumption
<1> QED BY <1>0, <1>1, <1>2, <1>5, <1>6, <1>7, FileFrame DEF CacheTypes, Overfull, d

LEMMA MarkStep ==
    ASSUME CacheInv, NEW t \in Tasks, Mark(t)
    PROVE  CacheInv'
<1> DEFINE d == doing[t]
           p == IF d.op = "get" THEN "remove" ELSE "write"
           r == [d EXCEPT !.pc = p]
<1>0. d \in CacheCall /\ TaskInv(t) /\ d.pc = "mark" /\ CacheTypes /\ cacheLock = t
  BY TaskIs DEF Mark, CacheInv
<1>1. doing' = [doing EXCEPT ![t] = r] /\ UNCHANGED <<entries, temps, cacheLock, damages, crashes>> /\ stateFile' = Dirty
  BY <1>0 DEF Mark, Proceed, CacheTypes, Marked
<1>2. p \in {"remove", "write"} /\ (p = "remove" <=> d.op = "get")
  OBVIOUS
<1> HIDE DEF p
<1>3. /\ r \in CacheCall /\ r.pc = p /\ r.op = d.op /\ r.key = d.key /\ r.old = d.old /\ r.mem = d.mem /\ r.then = d.then
  BY <1>0, <1>2 DEF CacheCall, CachePcs, Working
<1>4. doing'[t] = r
  BY <1>1, <1>3, RecordChange
<1> HIDE DEF r, d
<1>5. FileInv' /\ stateFile' \in [total : Nat, stamp : 0..(MaxStamp + 1)]
  BY <1>1, CacheAssumption DEF FileInv, Dirty
<1>6. TaskInv(t)'
  <2>1. TaskCall(t)'
    BY <1>0, <1>1, <1>2, <1>3, <1>4 DEF TaskInv, TaskCall, d
  <2>2. TaskSizes(t)'
    BY <1>0, <1>1, <1>2, <1>3, <1>4, SameEntries DEF TaskInv, TaskSizes, Working, d
  <2>3. TaskStamps(t)'
    BY <1>0, <1>1, <1>2, <1>3, <1>4, SameEntries DEF TaskInv, TaskStamps, JustPut, Overfull, Working, d
  <2>4. TaskRemoval(t)'
    BY <1>0, <1>1, <1>2, <1>3, <1>4 DEF TaskInv, TaskRemoval, Working, d
  <2> QED BY <2>1, <2>2, <2>3, <2>4 DEF TaskInv
<1> QED BY <1>0, <1>1, <1>3, <1>5, <1>6, FileFrame DEF CacheTypes, Overfull, d

LEMMA WriteTempStep ==
    ASSUME CacheInv, NEW t \in Tasks, WriteTemp(t)
    PROVE  CacheInv'
<1> DEFINE d == doing[t]
           m == [d.mem EXCEPT !.stamp = d.mem.stamp + 1]
           r == [d EXCEPT !.pc = "unlink", !.mem = m]
<1>0. d \in CacheCall /\ TaskInv(t) /\ d.pc = "write" /\ CacheTypes /\ cacheLock = t /\ FileInv /\ d.mem.stamp < MaxStamp
  BY TaskIs DEF WriteTemp, CacheInv
<1>1. doing' = [doing EXCEPT ![t] = r] /\ UNCHANGED <<entries, stateFile, cacheLock, damages, crashes>> /\ temps' = TRUE
  BY <1>0 DEF WriteTemp, CacheTypes, CacheCall
<1>2. m \in [total : Nat, stamp : 0..MaxStamp] /\ m.total = d.mem.total /\ m.stamp = d.mem.stamp + 1 /\ d.mem.stamp \in Nat
  BY <1>0, CacheAssumption DEF CacheCall
<1> HIDE DEF m
<1>3. /\ r \in CacheCall /\ r.pc = "unlink" /\ r.op = d.op /\ r.key = d.key /\ r.old = d.old /\ r.mem = m /\ r.then = d.then
  BY <1>0, <1>2 DEF CacheCall, CachePcs, Working
<1>4. doing'[t] = r
  BY <1>1, <1>3, RecordChange
<1> HIDE DEF r, d
<1>5. FileInv'
  BY <1>0, <1>1, SameFile
<1>6. TaskInv(t)'
  <2>1. TaskCall(t)'
    BY <1>0, <1>1, <1>3, <1>4 DEF TaskInv, TaskCall, d
  <2>2. TaskSizes(t)'
    BY <1>0, <1>1, <1>2, <1>3, <1>4, SameEntries DEF TaskInv, TaskSizes, Working, d
  <2>3. TaskStamps(t)'
    <3>1. \A k \in Present : entries[k].stamp \in Nat /\ entries[k].stamp <= d.mem.stamp
      BY <1>0 DEF TaskInv, TaskStamps, Working, d, Present, CacheTypes, EntrySet
    <3>2. \A k \in Present : entries[k].stamp < m.stamp /\ entries[k].stamp <= m.stamp
      BY <1>2, <3>1
    <3>3. m.stamp >= 1
      BY <1>2
    <3> QED BY <1>1, <1>3, <1>4, <3>2, <3>3, SameEntries DEF TaskStamps, JustPut, Overfull
  <2>4. TaskRemoval(t)'
    BY <1>0, <1>1, <1>3, <1>4 DEF TaskInv, TaskRemoval, Working, d
  <2> QED BY <2>1, <2>2, <2>3, <2>4 DEF TaskInv
<1>7. temps' \in BOOLEAN
  BY <1>1
<1>8. stateFile' \in [total : Nat, stamp : 0..(MaxStamp + 1)]
  BY <1>0, <1>1 DEF CacheTypes
<1> QED BY <1>0, <1>1, <1>3, <1>5, <1>6, <1>7, <1>8, FileFrame DEF Overfull, d

\* One entry goes.
LEMMA EntryRemoved ==
    ASSUME CacheInv, NEW k \in CacheKeys, entries' = [entries EXCEPT ![k] = Missing],
           UNCHANGED <<damages, crashes>>
    PROVE  /\ entries' \in [CacheKeys -> EntrySet] /\ EntriesInv'
           /\ entries'[k] = Missing /\ (\A h \in CacheKeys : h # k => entries'[h] = entries[h])
           /\ entries'[k].len = 0 /\ entries'[k].good = FALSE
           /\ Present' = Present \ {k}
           /\ Bytes' \in Nat /\ Bytes' + entries[k].len = Bytes
           /\ Faults' = Faults /\ Slack' = Slack
           /\ stateFile' = stateFile => FileInv'
<1>0. entries \in [CacheKeys -> EntrySet] /\ EntriesInv /\ FileInv /\ Bytes \in Nat /\ Slack \in Nat
  BY CacheNumbers DEF CacheInv, CacheTypes
<1>1. Missing \in EntrySet /\ Missing.len = 0 /\ Missing.good = FALSE
  BY CacheAssumption DEF Missing, EntrySet
<1>2. /\ entries' \in [CacheKeys -> EntrySet] /\ entries'[k] = Missing
      /\ \A h \in CacheKeys : h # k => entries'[h] = entries[h]
  BY <1>0, <1>1
<1>3. Present' = Present \ {k}
  BY <1>2 DEF Present
<1>4. EntriesInv'
  <2>1. ASSUME NEW h \in CacheKeys, h # k
        PROVE  /\ entries'[h].len <= BodyLen[h]
               /\ h \in Present' => entries'[h].stamp >= 1 /\ HeaderLen - 1 <= entries'[h].len /\ (damages' = 0 => entries'[h].good)
               /\ entries'[h].good => entries'[h].len = BodyLen[h] /\ entries'[h].stamp >= 1
    BY <1>0, <1>2, <1>3, <2>1 DEF EntriesInv
  <2>2. /\ entries'[k].len <= BodyLen[k] /\ k \notin Present' /\ ~entries'[k].good
    BY <1>1, <1>2, <1>3, CacheAssumption
  <2> QED BY <2>1, <2>2 DEF EntriesInv
<1>5. Bytes' \in Nat /\ Bytes' + entries[k].len = Bytes
  <2> DEFINE f == entries'
  <2>0. (\A h \in CacheKeys : entries[h].len <= BodyLen[h]) /\ (\A h \in CacheKeys : f[h].len <= BodyLen[h])
    BY <1>0, <1>4 DEF EntriesInv
  <2>1. f \in [CacheKeys -> EntrySet] /\ f[k].len = 0 /\ \A h \in CacheKeys : h # k => entries[h] = f[h]
    BY <1>1, <1>2
  <2>2. Bytes = BytesOf(entries) /\ Bytes' = BytesOf(f)
    BY BytesNow
  <2> HIDE DEF f
  <2>3. BytesOf(f) + entries[k].len = BytesOf(entries) + f[k].len /\ BytesOf(f) \in Nat
    BY <1>0, <2>0, <2>1, BytesChange, BytesAre
  <2> QED BY <1>0, <2>1, <2>2, <2>3
<1>6. Faults' = Faults /\ Slack' = Slack
  BY DEF Faults, Slack
<1>7. ASSUME stateFile' = stateFile PROVE FileInv'
  <2> SUFFICES ASSUME stateFile # Dirty PROVE FileInv'
    BY <1>7 DEF FileInv
  <2>1. stateFile.total <= CapBytes /\ Bytes <= stateFile.total + Slack /\ stateFile.total \in Nat
    BY <1>0 DEF FileInv, CacheInv, CacheTypes
  <2>2. entries[k].len \in Nat
    BY <1>0 DEF EntrySet
  <2>3. Bytes' <= stateFile'.total + Slack'
    BY <1>0, <1>5, <1>6, <1>7, <2>1, <2>2
  <2>4. \A h \in Present' : entries'[h].stamp <= stateFile'.stamp
    BY <1>0, <1>2, <1>3, <1>7 DEF FileInv, Present
  <2> QED BY <1>0, <1>7, <2>1, <2>3, <2>4 DEF FileInv
<1> QED BY <1>1, <1>2, <1>3, <1>4, <1>5, <1>6, <1>7

\* The steps of the holder that remove an entry.
LEMMA RemovalFrame ==
    ASSUME CacheInv, NEW t \in Tasks, doing[t].pc \notin {"idle", "lock"}, NEW r \in CacheCall,
           doing' = [doing EXCEPT ![t] = r], NEW k \in CacheKeys, entries' = [entries EXCEPT ![k] = Missing],
           UNCHANGED <<temps, stateFile, cacheLock, damages, crashes>>,
           Overfull(doing[t]) => Overfull(r), TaskInv(t)'
    PROVE  CacheInv'
<1>1. doing' \in [Tasks -> CacheCall] /\ doing'[t] = r /\ \A u \in Tasks : u # t => doing'[u] = doing[u]
  BY RecordChange
<1>2. cacheLock = t
  BY TaskIs
<1>3. CacheTypes' /\ EntriesInv' /\ FileInv'
  BY <1>1, EntryRemoved DEF CacheInv, CacheTypes
<1>4. UnderCap'
  <2>1. ASSUME Faults' = 0, ~Overfull(r) PROVE Bytes' <= CapBytes
    <3>1. Bytes <= CapBytes
      BY <1>2, <2>1, CapBefore, EntryRemoved
    <3>2. Bytes' \in Nat /\ Bytes' + entries[k].len = Bytes /\ entries[k].len \in Nat /\ CapBytes \in Nat
      BY EntryRemoved, CacheNumbers, CacheAssumption
    <3> QED BY <3>1, <3>2
  <2> QED BY <1>1, <2>1 DEF UnderCap
<1> QED BY <1>1, <1>2, <1>3, <1>4, HolderFrame

LEMMA RemoveDamagedStep ==
    ASSUME CacheInv, NEW t \in Tasks, RemoveDamaged(t)
    PROVE  CacheInv'
<1> DEFINE d == doing[t]
           k == d.key
           n == IF d.mem.total < d.old THEN 0 ELSE d.mem.total - d.old
           m == [d.mem EXCEPT !.total = n]
           r == [d EXCEPT !.pc = "save", !.mem = m]
<1>0. d \in CacheCall /\ TaskInv(t) /\ d.pc = "remove" /\ CacheTypes /\ cacheLock = t
  BY TaskIs DEF RemoveDamaged, CacheInv
<1>1. /\ doing' = [doing EXCEPT ![t] = r] /\ UNCHANGED <<temps, stateFile, cacheLock, damages, crashes>>
      /\ entries' = [entries EXCEPT ![k] = Missing]
  BY <1>0 DEF RemoveDamaged, CacheTypes, CacheCall
<1>2. /\ k \in CacheKeys /\ d.mem.total \in Nat /\ d.old \in Nat /\ d.mem.stamp \in 0..MaxStamp
      /\ d.mem \in [total : Nat, stamp : 0..MaxStamp]
  BY <1>0 DEF CacheCall
<1>3. n \in Nat /\ n <= d.mem.total /\ d.mem.total <= n + d.old
  BY <1>2
<1> HIDE DEF n
<1>4. m \in [total : Nat, stamp : 0..MaxStamp] /\ m.total = n /\ m.stamp = d.mem.stamp
  BY <1>2, <1>3
<1> HIDE DEF m
<1>5. /\ r \in CacheCall /\ r.pc = "save" /\ r.op = d.op /\ r.key = k /\ r.old = d.old /\ r.mem = m /\ r.then = d.then
  BY <1>0, <1>4 DEF CacheCall, CachePcs
<1>6. doing'[t] = r
  BY <1>1, <1>5, RecordChange
<1> HIDE DEF r, d, k
<1>7. /\ Present' = Present \ {k} /\ (\A h \in CacheKeys : h # k => entries'[h] = entries[h])
      /\ Bytes' \in Nat /\ Bytes' + entries[k].len = Bytes /\ Slack' = Slack
  BY <1>1, <1>2, EntryRemoved
<1>8. TaskInv(t)'
  <2>1. TaskCall(t)'
    BY <1>0, <1>1, <1>5, <1>6 DEF TaskInv, TaskCall, d, k
  <2>2. TaskSizes(t)'
    <3>1. d.mem.total <= CapBytes /\ Bytes + d.old <= d.mem.total + entries[k].len + Slack
      BY <1>0 DEF TaskInv, TaskSizes, Working, d, k
    <3>2. Bytes \in Nat /\ Slack \in Nat /\ entries[k].len \in Nat
      BY <1>2, CacheNumbers
    <3>3. n <= CapBytes
      BY <1>2, <1>3, <3>1, CacheAssumption
    <3>4. Bytes' <= n + Slack
      BY <1>2, <1>3, <1>7, <3>1, <3>2
    <3> QED BY <1>4, <1>5, <1>6, <1>7, <3>3, <3>4 DEF TaskSizes, Working
  <2>3. TaskStamps(t)'
    <3>1. \A h \in Present : entries[h].stamp <= d.mem.stamp
      BY <1>0 DEF TaskInv, TaskStamps, Working, d
    <3>2. \A h \in Present' : entries'[h].stamp <= m.stamp
      BY <1>4, <1>7, <3>1 DEF Present
    <3>3. r.op = "get"
      BY <1>0, <1>5 DEF TaskInv, TaskCall, d
    <3> QED BY <1>5, <1>6, <3>2, <3>3 DEF TaskStamps, JustPut, Overfull, Working
  <2>4. TaskRemoval(t)'
    BY <1>5, <1>6 DEF TaskRemoval, Working
  <2> QED BY <2>1, <2>2, <2>3, <2>4 DEF TaskInv
<1>9. ~Overfull(doing[t])
  BY <1>0 DEF Overfull, d
<1> QED BY <1>0, <1>1, <1>2, <1>5, <1>8, <1>9, RemovalFrame DEF d

LEMMA UnlinkStep ==
    ASSUME CacheInv, NEW t \in Tasks, Unlink(t)
    PROVE  CacheInv'
<1> DEFINE d == doing[t]
           k == d.key
           r == [d EXCEPT !.pc = "persist"]
<1>0. d \in CacheCall /\ TaskInv(t) /\ d.pc = "unlink" /\ CacheTypes /\ cacheLock = t
  BY TaskIs DEF Unlink, CacheInv
<1>1. /\ doing' = [doing EXCEPT ![t] = r] /\ UNCHANGED <<temps, stateFile, cacheLock, damages, crashes>>
      /\ entries' = [entries EXCEPT ![k] = Missing]
  BY <1>0 DEF Unlink, Proceed, CacheTypes
<1>2. /\ r \in CacheCall /\ r.pc = "persist" /\ r.op = d.op /\ r.key = k /\ r.old = d.old /\ r.mem = d.mem /\ r.then = d.then
      /\ k \in CacheKeys /\ d.mem.total \in Nat /\ d.old \in Nat
  BY <1>0 DEF CacheCall, CachePcs, Working
<1>3. doing'[t] = r
  BY <1>1, <1>2, RecordChange
<1> HIDE DEF r, d, k
<1>4. /\ Present' = Present \ {k} /\ (\A h \in CacheKeys : h # k => entries'[h] = entries[h]) /\ entries'[k].len = 0
      /\ Bytes' \in Nat /\ Bytes' + entries[k].len = Bytes /\ Slack' = Slack
  BY <1>1, <1>2, EntryRemoved
<1>5. TaskInv(t)'
  <2>1. TaskCall(t)'
    BY <1>0, <1>1, <1>2, <1>3 DEF TaskInv, TaskCall, d, k
  <2>2. TaskSizes(t)'
    <3>1. d.mem.total <= CapBytes /\ Bytes + d.old <= d.mem.total + entries[k].len + Slack
      BY <1>0 DEF TaskInv, TaskSizes, Working, d, k
    <3>2. Bytes \in Nat /\ Slack \in Nat /\ entries[k].len \in Nat
      BY <1>2, CacheNumbers
    <3>3. Bytes' + d.old <= d.mem.total + entries'[k].len + Slack'
      BY <1>2, <1>4, <3>1, <3>2
    <3> QED BY <1>2, <1>3, <3>1, <3>3 DEF TaskSizes, Working
  <2>3. TaskStamps(t)'
    <3>1. /\ \A h \in Present : entries[h].stamp <= d.mem.stamp /\ entries[h].stamp < d.mem.stamp
          /\ d.mem.stamp >= 1
      BY <1>0 DEF TaskInv, TaskStamps, Working, d
    <3>2. \A h \in Present' : entries'[h].stamp <= d.mem.stamp /\ entries'[h].stamp < d.mem.stamp
      BY <1>4, <3>1 DEF Present
    <3> QED BY <1>2, <1>3, <3>1, <3>2 DEF TaskStamps, JustPut, Overfull, Working
  <2>4. TaskRemoval(t)'
    <3>1. r.op = "put"
      BY <1>0, <1>2 DEF TaskInv, TaskCall, d
    <3> QED BY <1>3, <3>1 DEF TaskRemoval
  <2> QED BY <2>1, <2>2, <2>3, <2>4 DEF TaskInv
<1>6. ~Overfull(doing[t])
  BY <1>0 DEF Overfull, d
<1> QED BY <1>0, <1>1, <1>2, <1>5, <1>6, RemovalFrame DEF d

LEMMA PersistStep ==
    ASSUME CacheInv, NEW t \in Tasks, Persist(t)
    PROVE  CacheInv'
<1> DEFINE d == doing[t]
           k == d.key
           total == (d.mem.total + BodyLen[k]) - d.old
           fresh == [len |-> BodyLen[k], stamp |-> d.mem.stamp, good |-> TRUE]
<1>0. d \in CacheCall /\ TaskInv(t) /\ d.pc = "persist" /\ CacheTypes /\ EntriesInv /\ cacheLock = t
  BY TaskIs DEF Persist, CacheInv
<1>1. /\ UNCHANGED <<stateFile, damages, crashes>> /\ temps' = FALSE
      /\ entries' = [entries EXCEPT ![k] = fresh]
  BY DEF Persist
<1>2. /\ k \in CacheKeys /\ d.mem.total \in Nat /\ d.old \in Nat /\ d.mem.stamp \in 0..MaxStamp
      /\ d.mem \in [total : Nat, stamp : 0..MaxStamp] /\ BodyLen[k] \in Nat /\ entries \in [CacheKeys -> EntrySet]
  BY <1>0, CacheAssumption DEF CacheCall, CacheTypes
<1>3. /\ stateFile = Dirty /\ d.op = "put" /\ BodyLen[k] <= CapBytes
      /\ d.mem.total <= CapBytes /\ Bytes + d.old <= d.mem.total + entries[k].len + Slack
      /\ d.mem.stamp >= 1 /\ \A h \in Present : entries[h].stamp < d.mem.stamp
  BY <1>0 DEF TaskInv, TaskCall, TaskSizes, TaskStamps, Working
<1>4. fresh \in EntrySet /\ fresh.len = BodyLen[k] /\ fresh.stamp = d.mem.stamp /\ fresh.good = TRUE /\ fresh # Missing
  BY <1>2 DEF EntrySet, Missing
<1> HIDE DEF fresh
<1>5. entries' \in [CacheKeys -> EntrySet] /\ entries'[k] = fresh /\ \A h \in CacheKeys : h # k => entries'[h] = entries[h]
  BY <1>1, <1>2, <1>4
<1>6. Present' = Present \cup {k} /\ Faults' = Faults /\ Slack' = Slack
  BY <1>1, <1>2, <1>4, <1>5 DEF Present, Faults, Slack
<1>7. EntriesInv'
  <2>1. ASSUME NEW h \in CacheKeys, h # k
        PROVE  /\ entries'[h].len <= BodyLen[h]
               /\ h \in Present' => entries'[h].stamp >= 1 /\ HeaderLen - 1 <= entries'[h].len /\ (damages' = 0 => entries'[h].good)
               /\ entries'[h].good => entries'[h].len = BodyLen[h] /\ entries'[h].stamp >= 1
    BY <1>0, <1>1, <1>5, <1>6, <2>1 DEF EntriesInv
  <2>2. /\ entries'[k].len <= BodyLen[k] /\ entries'[k].len = BodyLen[k] /\ entries'[k].stamp >= 1 /\ entries'[k].good
        /\ HeaderLen - 1 <= entries'[k].len
    BY <1>2, <1>3, <1>4, <1>5, CacheAssumption
  <2> QED BY <2>1, <2>2 DEF EntriesInv
<1>8. Bytes' \in Nat /\ Bytes' + entries[k].len = Bytes + BodyLen[k]
  <2> DEFINE f == entries'
  <2>0. (\A h \in CacheKeys : entries[h].len <= BodyLen[h]) /\ (\A h \in CacheKeys : f[h].len <= BodyLen[h])
    BY <1>0, <1>7 DEF EntriesInv
  <2>1. f \in [CacheKeys -> EntrySet] /\ f[k].len = BodyLen[k] /\ \A h \in CacheKeys : h # k => entries[h] = f[h]
    BY <1>4, <1>5
  <2>2. Bytes = BytesOf(entries) /\ Bytes' = BytesOf(f)
    BY BytesNow
  <2> HIDE DEF f
  <2>3. BytesOf(f) + entries[k].len = BytesOf(entries) + f[k].len /\ BytesOf(f) \in Nat
    BY <1>2, <2>0, <2>1, BytesChange, BytesAre
  <2> QED BY <2>1, <2>2, <2>3
<1>9. FileInv'
  BY <1>1, <1>3 DEF FileInv
<1>10. Bytes \in Nat /\ Slack \in Nat /\ entries[k].len \in Nat /\ entries[k].len <= Bytes /\ (Faults = 0 => Slack = 0)
  BY <1>2, CacheNumbers
<1>11. temps' \in BOOLEAN /\ stateFile' \in [total : Nat, stamp : 0..(MaxStamp + 1)]
  BY <1>0, <1>1 DEF CacheTypes
<1>12. CASE d.mem.total < d.old
  <2>1. Unlock(t)
    BY <1>12 DEF Persist
  <2>2. doing' \in [Tasks -> CacheCall] /\ doing'[t] = Resting /\ \A u \in Tasks : u # t => doing'[u] = doing[u]
    BY <2>1, RestingIs, RecordChange DEF Unlock
  <2>3. cacheLock' = Nobody
    BY <2>1 DEF Unlock
  <2>4. CacheTypes'
    BY <1>0, <1>1, <1>5, <1>11, <2>2, <2>3 DEF CacheTypes
  <2>5. UnderCap'
    <3>1. Faults # 0
      BY <1>2, <1>3, <1>10, <1>12
    <3> QED BY <1>6, <3>1 DEF UnderCap
  <2>6. TaskInv(t)'
    BY <2>2, Rested
  <2> QED BY <1>0, <1>7, <1>9, <2>2, <2>4, <2>5, <2>6, HolderFrame
<1>13. CASE d.mem.total >= d.old
  <2> DEFINE p == IF total > CapBytes THEN "scan" ELSE "save"
             m == [d.mem EXCEPT !.total = total]
             r == [d EXCEPT !.mem = m, !.then = "save", !.pc = p]
  <2>1. doing' = [doing EXCEPT ![t] = r] /\ UNCHANGED cacheLock
    BY <1>0, <1>2, <1>13 DEF Persist, CacheTypes, CacheCall
  <2>2. total \in Nat
    BY <1>2, <1>13
  <2>3. m \in [total : Nat, stamp : 0..MaxStamp] /\ m.total = total /\ m.stamp = d.mem.stamp
    BY <1>2, <2>2
  <2>4. p \in {"scan", "save"} /\ (p = "save" => total <= CapBytes)
    BY <2>2, CacheAssumption
  <2>5. Bytes' <= total + Slack'
    BY <1>2, <1>3, <1>6, <1>8, <1>10, <1>13
  <2> HIDE DEF m, p, total
  <2>6. r \in CacheCall /\ r.pc = p /\ r.op = d.op /\ r.key = k /\ r.old = d.old /\ r.mem = m /\ r.then = "save"
    BY <1>0, <2>3, <2>4 DEF CacheCall, CachePcs
  <2> HIDE DEF r
  <2>7. doing' \in [Tasks -> CacheCall] /\ doing'[t] = r /\ \A u \in Tasks : u # t => doing'[u] = doing[u]
    BY <2>1, <2>6, RecordChange
  <2>8. CacheTypes'
    BY <1>0, <1>1, <1>5, <1>11, <2>1, <2>7 DEF CacheTypes
  <2>9. UnderCap'
    <3>1. ASSUME Faults' = 0, ~Overfull(r) PROVE Bytes' <= CapBytes
      <4>1. p = "save"
        BY <2>4, <2>6, <3>1 DEF Overfull
      <4> QED BY <1>6, <1>8, <1>10, <2>2, <2>4, <2>5, <3>1, <4>1, CacheAssumption
    <3> QED BY <2>7, <3>1 DEF UnderCap
  <2>10. TaskInv(t)'
    <3> HIDE DEF d, k
    <3>1. TaskCall(t)'
      <4>1. d.old <= LargestLen
        BY <1>0 DEF TaskInv, TaskCall, d
      <4> QED BY <1>0, <1>3, <2>1, <2>4, <2>6, <2>7, <4>1 DEF TaskCall
    <3>2. TaskSizes(t)'
      BY <2>3, <2>4, <2>5, <2>6, <2>7 DEF TaskSizes, Working
    <3>3. TaskStamps(t)'
      <4>1. \A h \in Present' : h # k => entries'[h].stamp < d.mem.stamp
        BY <1>3, <1>5, <1>6 DEF Present
      <4>2. entries'[k].stamp = d.mem.stamp /\ k \in Present'
        BY <1>4, <1>5, <1>6
      <4>3. \A h \in Present' : entries'[h].stamp <= d.mem.stamp
        <5>1. \A h \in Present' : entries'[h].stamp \in Nat
          BY <1>5 DEF Present, EntrySet
        <5> QED BY <1>2, <4>1, <4>2, <5>1
      <4>4. \A h \in Present' \ {k} : entries'[h].stamp < entries'[k].stamp
        BY <4>1, <4>2
      <4> QED BY <2>3, <2>4, <2>6, <2>7, <4>2, <4>3, <4>4 DEF TaskStamps, JustPut, Overfull, Working
    <3>4. TaskRemoval(t)'
      BY <1>3, <2>6, <2>7 DEF TaskRemoval
    <3> QED BY <3>1, <3>2, <3>3, <3>4 DEF TaskInv
  <2> QED BY <1>0, <1>7, <1>9, <2>7, <2>8, <2>9, <2>10, HolderFrame
<1> QED BY <1>2, <1>12, <1>13

\* What a scan leaves: the entries with a whole header, all of them without a fault.
LEMMA ScanLeaves ==
    ASSUME CacheInv, NEW whole, whole = {k \in Present : entries[k].len >= HeaderLen},
           entries' = [k \in CacheKeys |-> IF k \in whole THEN entries[k] ELSE Missing],
           UNCHANGED <<stateFile, damages, crashes>>
    PROVE  /\ entries' \in [CacheKeys -> EntrySet] /\ EntriesInv' /\ FileInv'
           /\ Present' = whole /\ whole \subseteq CacheKeys
           /\ \A k \in whole : entries'[k] = entries[k]
           /\ \A k \in CacheKeys : entries'[k].good => entries[k].good
           /\ \A k \in CacheKeys : k \notin whole => entries'[k].len = 0
           /\ Bytes' = TotalLen(whole) /\ Bytes' \in Nat /\ Bytes' <= Bytes
           /\ damages = 0 => whole = Present /\ entries' = entries
<1>0. entries \in [CacheKeys -> EntrySet] /\ EntriesInv /\ FileInv /\ Bytes \in Nat /\ Slack \in Nat
  BY CacheNumbers DEF CacheInv, CacheTypes
<1>1. Missing \in EntrySet /\ Missing.len = 0 /\ Missing.good = FALSE
  BY CacheAssumption DEF Missing, EntrySet
<1>2. whole \subseteq CacheKeys /\ whole \subseteq Present
  BY DEF Present
<1>3. /\ entries' \in [CacheKeys -> EntrySet]
      /\ \A k \in whole : entries'[k] = entries[k]
      /\ \A k \in CacheKeys : k \notin whole => entries'[k] = Missing
  BY <1>0, <1>1, <1>2
<1>4. Present' = whole
  BY <1>2, <1>3 DEF Present
<1>5. \A k \in CacheKeys : entries'[k].good => k \in whole
  BY <1>1, <1>3
<1>6. EntriesInv'
  <2>1. ASSUME NEW k \in CacheKeys, k \in whole
        PROVE  /\ entries'[k].len <= BodyLen[k]
               /\ k \in Present' => entries'[k].stamp >= 1 /\ HeaderLen - 1 <= entries'[k].len /\ (damages' = 0 => entries'[k].good)
               /\ entries'[k].good => entries'[k].len = BodyLen[k] /\ entries'[k].stamp >= 1
    BY <1>0, <1>2, <1>3, <2>1 DEF EntriesInv
  <2>2. ASSUME NEW k \in CacheKeys, k \notin whole
        PROVE  entries'[k].len <= BodyLen[k] /\ k \notin Present' /\ ~entries'[k].good
    BY <1>1, <1>3, <1>4, <1>5, <2>2, CacheAssumption
  <2> QED BY <2>1, <2>2 DEF EntriesInv
<1>7. Bytes' = TotalLen(whole)
  <2>1. UNION {{k} \X (1..entries'[k].len) : k \in CacheKeys} = UNION {{k} \X (1..entries[k].len) : k \in whole}
    <3>1. ASSUME NEW k \in CacheKeys, k \notin whole PROVE 1..entries'[k].len = {}
      BY <1>1, <1>3, <3>1
    <3>2. \A k \in whole : entries'[k].len = entries[k].len /\ k \in CacheKeys
      BY <1>2, <1>3
    <3>3. ASSUME NEW y \in UNION {{k} \X (1..entries'[k].len) : k \in CacheKeys}
          PROVE  y \in UNION {{k} \X (1..entries[k].len) : k \in whole}
      BY <3>1, <3>2
    <3>4. ASSUME NEW y \in UNION {{k} \X (1..entries[k].len) : k \in whole}
          PROVE  y \in UNION {{k} \X (1..entries'[k].len) : k \in CacheKeys}
      BY <3>2
    <3> QED BY <3>3, <3>4
  <2> QED BY <2>1, BytesNow DEF BytesOf, TotalLen
<1>8. Bytes' \in Nat /\ Bytes' <= Bytes
  <2> DEFINE f == entries'
  <2>0. (\A h \in CacheKeys : entries[h].len <= BodyLen[h]) /\ (\A h \in CacheKeys : f[h].len <= BodyLen[h])
    BY <1>0, <1>6 DEF EntriesInv
  <2>1. f \in [CacheKeys -> EntrySet] /\ \A h \in CacheKeys : f[h].len <= entries[h].len
    BY <1>0, <1>1, <1>3 DEF EntrySet
  <2>2. Bytes = BytesOf(entries) /\ Bytes' = BytesOf(f)
    BY BytesNow
  <2> HIDE DEF f
  <2>3. BytesOf(f) <= BytesOf(entries) /\ BytesOf(f) \in Nat
    BY <1>0, <2>0, <2>1, BytesLess, BytesAre
  <2> QED BY <2>2, <2>3
<1>9. FileInv'
  <2> SUFFICES ASSUME stateFile # Dirty PROVE FileInv'
    BY DEF FileInv
  <2>1. stateFile.total <= CapBytes /\ Bytes <= stateFile.total + Slack /\ stateFile.total \in Nat
    BY <1>0 DEF FileInv, CacheInv, CacheTypes
  <2>2. Bytes' <= stateFile'.total + Slack'
    <3>1. Slack' = Slack
      BY DEF Slack, Faults
    <3> QED BY <1>0, <1>8, <2>1, <3>1
  <2>3. \A h \in Present' : entries'[h].stamp <= stateFile'.stamp
    BY <1>0, <1>2, <1>3, <1>4 DEF FileInv
  <2> QED BY <1>0, <2>1, <2>2, <2>3 DEF FileInv
<1>10. ASSUME damages = 0 PROVE whole = Present /\ entries' = entries
  <2>1. \A k \in Present : entries[k].len = BodyLen[k] /\ k \in CacheKeys
    BY <1>0, <1>10 DEF EntriesInv, Present
  <2>2. whole = Present
    BY <2>1, CacheAssumption
  <2>3. \A k \in CacheKeys : entries'[k] = entries[k]
    BY <1>3, <2>2 DEF Present
  <2> QED BY <1>0, <1>3, <2>2, <2>3
<1> QED BY <1>1, <1>2, <1>3, <1>4, <1>5, <1>6, <1>7, <1>8, <1>9, <1>10

LEMMA ScanStep ==
    ASSUME CacheInv, NEW t \in Tasks, Scan(t)
    PROVE  CacheInv'
<1> DEFINE d == doing[t]
           S == {k \in Present : entries[k].len >= HeaderLen}
<1>0. d \in CacheCall /\ TaskInv(t) /\ d.pc \in {"clean", "scan"} /\ CacheTypes /\ EntriesInv /\ cacheLock = t
  BY TaskIs DEF Scan, CacheInv
<1>1. PICK whole : whole = S
  OBVIOUS
<1> HIDE DEF S
<1> DEFINE lens == [k \in CacheKeys |-> IF k \in whole THEN entries[k].len ELSE 0]
           stamps == {0} \cup {entries[k].stamp : k \in whole}
           m == [total |-> TotalLen(whole), stamp |-> Max(stamps)]
           r == [d EXCEPT !.pc = "evict", !.found = lens, !.mem = m]
<1>2. /\ entries' = [k \in CacheKeys |-> IF k \in whole THEN entries[k] ELSE Missing]
      /\ doing' = [doing EXCEPT ![t] = r]
      /\ temps' = (temps /\ d.pc = "scan")
      /\ UNCHANGED <<stateFile, cacheLock, damages, crashes>>
  BY <1>0, <1>1 DEF Scan, CacheTypes, S
<1>3. /\ entries' \in [CacheKeys -> EntrySet] /\ EntriesInv' /\ FileInv'
      /\ Present' = whole /\ whole \subseteq CacheKeys
      /\ \A k \in whole : entries'[k] = entries[k]
      /\ \A k \in CacheKeys : entries'[k].good => entries[k].good
      /\ \A k \in CacheKeys : k \notin whole => entries'[k].len = 0
      /\ Bytes' = TotalLen(whole) /\ Bytes' \in Nat /\ Bytes' <= Bytes
      /\ damages = 0 => whole = Present /\ entries' = entries
  BY <1>1, <1>2, ScanLeaves DEF S
<1>4. Max(stamps) \in 0..MaxStamp /\ \A k \in whole : entries[k].stamp <= Max(stamps)
  <2>1. \A k \in whole : entries[k].stamp \in 0..MaxStamp
    BY <1>0, <1>3 DEF CacheTypes, EntrySet
  <2>2. stamps \in SUBSET Nat /\ stamps # {} /\ (\A x \in stamps : x <= MaxStamp) /\ MaxStamp \in Nat
    BY <2>1, CacheAssumption
  <2>3. Max(stamps) \in stamps /\ \A y \in stamps : y <= Max(stamps)
    <3> HIDE DEF stamps
    <3> QED BY <2>2, MaxIsLargest
  <2>4. \A k \in whole : entries[k].stamp \in stamps
    OBVIOUS
  <2> HIDE DEF stamps
  <2>5. Max(stamps) \in Nat /\ Max(stamps) <= MaxStamp
    BY <2>2, <2>3
  <2>6. Max(stamps) \in 0..MaxStamp
    BY <2>2, <2>5
  <2> QED BY <2>3, <2>4, <2>6
<1>5. lens \in [CacheKeys -> Nat] /\ lens = LensOf(entries')
  <2>1. \A k \in CacheKeys : lens[k] = entries'[k].len /\ lens[k] \in Nat
    BY <1>3 DEF EntrySet
  <2> QED BY <2>1 DEF LensOf
<1>6. m \in [total : Nat, stamp : 0..MaxStamp] /\ m.total = Bytes' /\ m.stamp = Max(stamps)
  BY <1>3, <1>4
<1> HIDE DEF m, lens, stamps
<1>7. r \in CacheCall /\ r.pc = "evict" /\ r.op = d.op /\ r.key = d.key /\ r.old = d.old /\ r.mem = m /\ r.then = d.then
      /\ r.found = lens
  BY <1>0, <1>5, <1>6 DEF CacheCall, CachePcs
<1> HIDE DEF r
<1>8. doing' \in [Tasks -> CacheCall] /\ doing'[t] = r /\ \A u \in Tasks : u # t => doing'[u] = doing[u]
  BY <1>2, <1>7, RecordChange
<1>9. CacheTypes'
  <2>1. temps' \in BOOLEAN
    BY <1>2
  <2> QED BY <1>0, <1>2, <1>3, <1>8, <2>1 DEF CacheTypes
<1>10. Faults' = Faults /\ Slack' = Slack /\ Faults \in Nat
  BY <1>2, CacheNumbers DEF Faults, Slack
<1>11. ASSUME Faults = 0 PROVE damages = 0
  BY <1>0, <1>11, CacheAssumption DEF Faults, CacheTypes
<1>12. ASSUME r.then = "repair", Faults = 0 PROVE Bytes <= CapBytes
  <2>1. ~Overfull(doing[t])
    BY <1>0, <1>7, <1>12 DEF Overfull, TaskInv, TaskCall
  <2> QED BY <1>0, <1>12, <2>1, CapBefore
<1>13. UnderCap'
  <2>1. ASSUME Faults' = 0, ~Overfull(r) PROVE Bytes' <= CapBytes
    <3>1. r.then = "repair"
      BY <1>7, <2>1 DEF Overfull, CacheCall
    <3> QED BY <1>3, <1>10, <1>12, <2>1, <3>1, CacheNumbers, CacheAssumption
  <2> QED BY <1>8, <2>1 DEF UnderCap
<1>14. TaskInv(t)'
  <2>1. TaskCall(t)'
    BY <1>0, <1>2, <1>7, <1>8 DEF TaskInv, TaskCall
  <2>2. TaskSizes(t)'
    <3> DEFINE f == entries'
    <3>1. LeftFound(doing[t])' = lens
      <4>1. lens = [k \in CacheKeys |-> IF k \in whole THEN lens[k] ELSE 0]
        BY DEF lens
      <4>2. Present' = whole /\ doing'[t].found = lens
        BY <1>3, <1>7, <1>8
      <4> QED BY <4>1, <4>2 DEF LeftFound
    <3>2. f \in [CacheKeys -> EntrySet] /\ (\A k \in CacheKeys : f[k].len <= BodyLen[k]) /\ Bytes' = BytesOf(f) /\ lens = LensOf(f)
      BY <1>3, <1>5, BytesNow DEF EntriesInv
    <3>3. Bytes' = Cardinality(Units(CacheKeys, LargestLen, lens))
      <4> HIDE DEF f
      <4> QED BY <3>2, BytesAre
    <3>4. \A k \in Present' : lens[k] = f[k].len /\ lens[k] \in Nat /\ lens[k] <= BodyLen[k] /\ BodyLen[k] \in Nat
      BY <1>3, <1>5, <3>2, CacheAssumption DEF LensOf
    <3>5. \A k \in Present' : lens[k] \in f[k].len..BodyLen[k]
      BY <3>4
    <3>6. ASSUME r.then = "repair", Faults' = 0 PROVE r.old = f[r.key].len /\ r.mem.total <= CapBytes
      <4>1. d.pc = "clean"
        BY <1>0, <1>7, <3>6 DEF TaskInv, TaskCall
      <4>2. d.old = entries[d.key].len
        BY <1>0, <1>7, <1>10, <3>6, <4>1 DEF TaskInv, TaskSizes
      <4>3. f = entries
        BY <1>3, <1>10, <1>11, <3>6
      <4>4. Bytes' <= CapBytes
        BY <1>3, <1>10, <1>12, <3>6, CacheNumbers, CacheAssumption
      <4> QED BY <1>6, <1>7, <4>2, <4>3, <4>4
    <3> HIDE DEF d
    <3> QED BY <1>6, <1>7, <1>8, <3>1, <3>3, <3>5, <3>6 DEF TaskSizes, Working
  <2>3. TaskStamps(t)'
    <3>1. \A k \in Present' : entries'[k].stamp <= r.mem.stamp
      BY <1>3, <1>4, <1>6, <1>7
    <3>2. ASSUME JustPut(r), damages' = 0
          PROVE  r.key \in Present' /\ \A h \in Present' \ {r.key} : entries'[h].stamp < entries'[r.key].stamp
      <4>1. d.then = "save" /\ d.op = "put"
        BY <1>7, <3>2 DEF JustPut, Overfull
      <4>2. d.pc = "scan"
        BY <1>0, <4>1 DEF TaskInv, TaskCall
      <4>3. JustPut(d)
        BY <4>1, <4>2 DEF JustPut, Overfull
      <4>4. damages = 0 /\ entries' = entries /\ Present' = Present
        BY <1>2, <1>3, <3>2
      <4>5. d.key \in Present /\ \A h \in Present \ {d.key} : entries[h].stamp < entries[d.key].stamp
        BY <1>0, <4>3, <4>4 DEF TaskInv, TaskStamps
      <4> QED BY <1>7, <4>4, <4>5
    <3> HIDE DEF d
    <3> QED BY <1>7, <1>8, <3>1, <3>2 DEF TaskStamps, Working
  <2>4. TaskRemoval(t)'
    <3>1. ASSUME r.op = "get" PROVE ~entries'[r.key].good
      <4>2. r.key \in CacheKeys /\ d.key = r.key /\ d.op = "get"
        BY <1>7, <3>1 DEF CacheCall
      <4>3. ~entries[r.key].good
        BY <1>0, <4>2 DEF TaskInv, TaskRemoval
      <4> QED BY <1>3, <4>2, <4>3
    <3> QED BY <1>8, <3>1 DEF TaskRemoval
  <2> QED BY <2>1, <2>2, <2>3, <2>4 DEF TaskInv
<1> QED BY <1>0, <1>3, <1>8, <1>9, <1>13, <1>14, HolderFrame

\* What a scan found and left, as amounts.
LEMMA LeftFoundIs ==
    ASSUME CacheInv, NEW t \in Tasks, doing[t].pc = "evict"
    PROVE  /\ LeftFound(doing[t]) \in [CacheKeys -> 0..LargestLen]
           /\ doing[t].mem.total = Cardinality(Units(CacheKeys, LargestLen, LeftFound(doing[t])))
           /\ \A k \in CacheKeys : LeftFound(doing[t])[k] = IF k \in Present THEN doing[t].found[k] ELSE 0
           /\ \A k \in Present : /\ k \in CacheKeys /\ doing[t].found[k] \in Nat
                                 /\ entries[k].len <= doing[t].found[k] /\ doing[t].found[k] <= BodyLen[k]
<1>1. TaskSizes(t) /\ doing[t] \in CacheCall
  BY TaskIs DEF TaskInv
<1>2. \A k \in CacheKeys : LeftFound(doing[t])[k] = IF k \in Present THEN doing[t].found[k] ELSE 0
  BY DEF LeftFound
<1>3. ASSUME NEW k \in Present
      PROVE  /\ k \in CacheKeys /\ doing[t].found[k] \in Nat /\ doing[t].found[k] <= LargestLen
             /\ entries[k].len <= doing[t].found[k] /\ doing[t].found[k] <= BodyLen[k]
  <2>1. k \in CacheKeys /\ BodyLen[k] \in Nat /\ BodyLen[k] <= LargestLen /\ entries[k].len \in Nat
    BY LargestIs, CacheNumbers, CacheAssumption DEF Present
  <2>2. doing[t].found[k] \in entries[k].len..BodyLen[k]
    BY <1>1 DEF TaskSizes
  <2> QED BY <2>1, <2>2, LargestIs
<1>4. \A k \in CacheKeys : LeftFound(doing[t])[k] \in 0..LargestLen
  BY <1>2, <1>3, LargestIs
<1>5. LeftFound(doing[t]) \in [CacheKeys -> 0..LargestLen]
  BY <1>4 DEF LeftFound
<1> QED BY <1>1, <1>2, <1>3, <1>5 DEF TaskSizes

\* There is an entry to evict, and it is not the one just put.
LEMMA VictimIs ==
    ASSUME CacheInv, NEW t \in Tasks, doing[t].pc = "evict", doing[t].mem.total > CapBytes
    PROVE  /\ Victim \in Present
           /\ JustPut(doing[t]) /\ damages = 0 => Victim # doing[t].key
<1> DEFINE d == doing[t]
           a == LeftFound(d)
           stamps == {entries[k].stamp : k \in Present}
<1>0. /\ a \in [CacheKeys -> 0..LargestLen] /\ d.mem.total = Cardinality(Units(CacheKeys, LargestLen, a))
      /\ \A k \in CacheKeys : a[k] = IF k \in Present THEN d.found[k] ELSE 0
      /\ \A k \in Present : k \in CacheKeys /\ d.found[k] \in Nat /\ d.found[k] <= BodyLen[k]
  BY LeftFoundIs
<1>1. d.mem.total \in Nat /\ TaskInv(t) /\ d \in CacheCall /\ d.key \in CacheKeys
  BY TaskIs
<1>2. CapBytes \in Nat /\ CapBytes >= 1 /\ d.mem.total > CapBytes
  BY CacheAssumption
<1> HIDE DEF a
<1>3. Present # {}
  <2> SUFFICES ASSUME Present = {} PROVE FALSE
    OBVIOUS
  <2>1. PICK k \in CacheKeys : TRUE
    BY CacheAssumption
  <2>2. \A h \in CacheKeys : a[h] = 0
    BY <1>0
  <2>3. Cardinality(Units(CacheKeys, LargestLen, a)) = a[k]
    BY <1>0, <2>2, UnitsOfOne
  <2> QED BY <1>0, <1>2, <2>2, <2>3
<1>4. \A k \in Present : entries[k].stamp \in Nat
  BY <1>0 DEF CacheInv, CacheTypes, EntrySet
<1>5. PICK x \in stamps : \A y \in stamps : x <= y
  <2>1. stamps \in SUBSET Nat /\ stamps # {}
    BY <1>3, <1>4
  <2> HIDE DEF stamps
  <2> QED BY <2>1, LeastNatural
<1>6. PICK k \in Present : x = entries[k].stamp
  OBVIOUS
<1>7. \A h \in Present : entries[k].stamp <= entries[h].stamp
  BY <1>5, <1>6
<1>8. Victim \in Present /\ \A h \in Present : entries[Victim].stamp <= entries[h].stamp
  BY <1>6, <1>7 DEF Victim
<1>9. ASSUME JustPut(d), damages = 0, Victim = d.key PROVE FALSE
  <2>1. d.key \in Present /\ \A h \in Present \ {d.key} : entries[h].stamp < entries[d.key].stamp
    BY <1>1, <1>9 DEF TaskInv, TaskStamps
  <2>2. \A h \in Present : h = d.key
    <3> SUFFICES ASSUME NEW h \in Present, h # d.key PROVE FALSE
      OBVIOUS
    <3>1. entries[h].stamp < entries[d.key].stamp /\ entries[d.key].stamp <= entries[h].stamp
      BY <1>8, <1>9, <2>1
    <3> QED BY <1>4, <2>1, <3>1
  <2>3. \A h \in CacheKeys : h # d.key => a[h] = 0
    BY <1>0, <2>2
  <2>4. Cardinality(Units(CacheKeys, LargestLen, a)) = a[d.key]
    BY <1>0, <1>1, <2>3, UnitsOfOne
  <2>5. d.mem.total <= BodyLen[d.key]
    BY <1>0, <1>1, <2>1, <2>4
  <2>6. BodyLen[d.key] <= CapBytes /\ BodyLen[d.key] \in Nat
    BY <1>1, <1>9, CacheAssumption DEF TaskInv, TaskCall, JustPut
  <2> QED BY <1>1, <1>2, <2>5, <2>6
<1> QED BY <1>8, <1>9

LEMMA EvictStep ==
    ASSUME CacheInv, NEW t \in Tasks, Evict(t)
    PROVE  CacheInv'
<1> DEFINE d == doing[t]
           a == LeftFound(d)
<1>0. /\ d \in CacheCall /\ TaskInv(t) /\ d.pc = "evict" /\ CacheTypes /\ cacheLock = t /\ d.key \in CacheKeys
      /\ d.mem.total > CapBytes /\ d.mem.total \in Nat /\ d.mem \in [total : Nat, stamp : 0..MaxStamp]
  BY TaskIs DEF Evict, CacheInv, CacheCall
<1>1. PICK v : v = Victim
  OBVIOUS
<1> DEFINE n == d.mem.total - d.found[v]
           m == [d.mem EXCEPT !.total = n]
           r == [d EXCEPT !.mem = m]
<1>2. /\ doing' = [doing EXCEPT ![t] = r] /\ UNCHANGED <<temps, stateFile, cacheLock, damages, crashes>>
      /\ entries' = [entries EXCEPT ![v] = Missing]
  BY <1>0, <1>1 DEF Evict, CacheTypes, CacheCall
<1>3. v \in Present /\ v \in CacheKeys /\ (JustPut(d) /\ damages = 0 => v # d.key)
  BY <1>0, <1>1, VictimIs DEF Present
<1>4. /\ a \in [CacheKeys -> 0..LargestLen] /\ d.mem.total = Cardinality(Units(CacheKeys, LargestLen, a))
      /\ \A k \in CacheKeys : a[k] = IF k \in Present THEN d.found[k] ELSE 0
      /\ \A k \in Present : /\ k \in CacheKeys /\ d.found[k] \in Nat
                            /\ entries[k].len <= d.found[k] /\ d.found[k] <= BodyLen[k]
  BY <1>0, LeftFoundIs
<1> DEFINE b == [a EXCEPT ![v] = 0]
<1>5. b \in [CacheKeys -> 0..LargestLen] /\ b[v] = 0 /\ \A h \in CacheKeys : h # v => b[h] = a[h]
  BY <1>3, <1>4, LargestIs
<1> HIDE DEF a, b
<1>6. n \in Nat /\ n = Cardinality(Units(CacheKeys, LargestLen, b))
  <2>1. IsFiniteSet(CacheKeys) /\ LargestLen \in Nat
    BY LargestIs, CacheAssumption
  <2>2. /\ Cardinality(Units(CacheKeys, LargestLen, b)) + a[v] = Cardinality(Units(CacheKeys, LargestLen, a)) + b[v]
        /\ Cardinality(Units(CacheKeys, LargestLen, b)) \in Nat
    BY <1>3, <1>4, <1>5, <2>1, UnitsChange
  <2>3. a[v] = d.found[v] /\ d.found[v] \in Nat
    BY <1>3, <1>4
  <2> QED BY <1>0, <1>4, <1>5, <2>2, <2>3
<1> HIDE DEF n
<1>7. m \in [total : Nat, stamp : 0..MaxStamp] /\ m.total = n /\ m.stamp = d.mem.stamp
  BY <1>0, <1>6
<1> HIDE DEF m
<1>8. /\ r \in CacheCall /\ r.pc = "evict" /\ r.op = d.op /\ r.key = d.key /\ r.old = d.old /\ r.mem = m /\ r.then = d.then
      /\ r.found = d.found
  BY <1>0, <1>7 DEF CacheCall, CachePcs
<1>9. doing'[t] = r
  BY <1>2, <1>8, RecordChange
<1> HIDE DEF r
<1>10. /\ Present' = Present \ {v} /\ (\A h \in CacheKeys : h # v => entries'[h] = entries[h])
       /\ entries'[v].good = FALSE /\ Faults' = Faults
  BY <1>2, <1>3, EntryRemoved
<1>11. TaskInv(t)'
  <2>1. TaskCall(t)'
    BY <1>0, <1>2, <1>8, <1>9 DEF TaskInv, TaskCall
  <2>2. TaskSizes(t)'
    <3>1. LeftFound(doing[t])' = b
      <4>1. \A k \in CacheKeys : b[k] = IF k \in Present' THEN d.found[k] ELSE 0
        BY <1>3, <1>4, <1>5, <1>10
      <4>2. b = [k \in CacheKeys |-> IF k \in Present' THEN d.found[k] ELSE 0]
        BY <1>5, <4>1
      <4>3. doing'[t].found = d.found
        BY <1>8, <1>9
      <4> QED BY <4>2, <4>3 DEF LeftFound
    <3>2. \A k \in Present' : d.found[k] \in entries'[k].len..BodyLen[k]
      <4>1. ASSUME NEW k \in Present' PROVE d.found[k] \in entries'[k].len..BodyLen[k]
        <5>1. k \in Present /\ k # v /\ k \in CacheKeys
          BY <1>4, <1>10
        <5>2. entries'[k] = entries[k] /\ entries[k].len \in Nat /\ BodyLen[k] \in Nat
          BY <1>10, <5>1, CacheNumbers, CacheAssumption
        <5> QED BY <1>4, <5>1, <5>2
      <4> QED BY <4>1
    <3>3. ~(d.then = "repair" /\ Faults = 0)
      BY <1>0, CacheAssumption DEF TaskInv, TaskSizes
    <3> HIDE DEF d
    <3> QED BY <1>6, <1>7, <1>8, <1>9, <1>10, <3>1, <3>2, <3>3 DEF TaskSizes, Working
  <2>3. TaskStamps(t)'
    <3>1. \A k \in Present : entries[k].stamp <= d.mem.stamp
      BY <1>0 DEF TaskInv, TaskStamps
    <3>2. \A k \in Present' : entries'[k].stamp <= m.stamp
      BY <1>4, <1>7, <1>10, <3>1
    <3>3. ASSUME JustPut(r), damages' = 0
          PROVE  r.key \in Present' /\ \A h \in Present' \ {r.key} : entries'[h].stamp < entries'[r.key].stamp
      <4>1. JustPut(d) /\ damages = 0
        BY <1>0, <1>2, <1>8, <3>3 DEF JustPut, Overfull
      <4>2. d.key \in Present /\ \A h \in Present \ {d.key} : entries[h].stamp < entries[d.key].stamp
        BY <1>0, <4>1 DEF TaskInv, TaskStamps
      <4>3. d.key # v /\ entries'[d.key] = entries[d.key]
        BY <1>0, <1>3, <1>10, <4>1
      <4> QED BY <1>4, <1>8, <1>10, <4>2, <4>3
    <3> HIDE DEF d
    <3> QED BY <1>8, <1>9, <3>2, <3>3 DEF TaskStamps, Working
  <2>4. TaskRemoval(t)'
    <3>1. ASSUME r.op = "get" PROVE ~entries'[r.key].good
      <4>1. ~entries[d.key].good
        BY <1>0, <1>8, <3>1 DEF TaskInv, TaskRemoval
      <4>2. CASE d.key = v
        BY <1>8, <1>10, <4>2
      <4>3. CASE d.key # v
        BY <1>0, <1>8, <1>10, <4>1, <4>3
      <4> QED BY <4>2, <4>3
    <3> QED BY <1>9, <3>1 DEF TaskRemoval
  <2> QED BY <2>1, <2>2, <2>3, <2>4 DEF TaskInv
<1>12. Overfull(doing[t]) => Overfull(r)
  BY <1>0, <1>8 DEF Overfull
<1> QED BY <1>0, <1>2, <1>3, <1>8, <1>11, <1>12, RemovalFrame

LEMMA EvictDoneStep ==
    ASSUME CacheInv, NEW t \in Tasks, EvictDone(t)
    PROVE  CacheInv'
<1> DEFINE d == doing[t]
           r == [d EXCEPT !.pc = d.then, !.found = Resting.found]
<1>0. /\ d \in CacheCall /\ TaskInv(t) /\ d.pc = "evict" /\ CacheTypes /\ cacheLock = t /\ d.key \in CacheKeys
      /\ d.mem.total <= CapBytes /\ d.mem.total \in Nat /\ d.old \in Nat /\ d.old <= LargestLen
  BY TaskIs DEF EvictDone, CacheInv
<1>1. doing' = [doing EXCEPT ![t] = r] /\ UNCHANGED <<entries, temps, stateFile, cacheLock, damages, crashes>>
  BY <1>0 DEF EvictDone, KeepFiles, CacheTypes
<1>2. /\ r \in CacheCall /\ r.pc = d.then /\ r.op = d.op /\ r.key = d.key /\ r.old = d.old /\ r.mem = d.mem /\ r.then = d.then
      /\ d.then \in {"save", "repair"}
  BY <1>0, RestingIs DEF CacheCall, CachePcs, Working
<1> HIDE DEF r
<1>3. doing' \in [Tasks -> CacheCall] /\ doing'[t] = r /\ \A u \in Tasks : u # t => doing'[u] = doing[u]
  BY <1>1, <1>2, RecordChange
<1>4. Bytes' = Bytes /\ Faults' = Faults /\ Slack' = Slack /\ Present' = Present /\ EntriesInv' /\ FileInv'
  BY <1>1, SameEntries, SameFile DEF CacheInv
<1>5. CacheTypes'
  BY <1>0, <1>1, <1>3 DEF CacheTypes
<1>6. Bytes <= d.mem.total
  <2> DEFINE a == LensOf(entries)
             b == LeftFound(d)
  <2>1. /\ b \in [CacheKeys -> 0..LargestLen] /\ d.mem.total = Cardinality(Units(CacheKeys, LargestLen, b))
        /\ \A k \in CacheKeys : b[k] = IF k \in Present THEN d.found[k] ELSE 0
        /\ \A k \in Present : entries[k].len <= d.found[k]
    BY <1>0, LeftFoundIs
  <2>2. a \in [CacheKeys -> 0..LargestLen] /\ Bytes = Cardinality(Units(CacheKeys, LargestLen, a))
    BY BytesAre, BytesNow DEF CacheInv, CacheTypes, EntriesInv
  <2>3. \A k \in CacheKeys : a[k] <= b[k]
    <3>1. \A k \in CacheKeys : k \notin Present => entries[k].len = 0
      BY DEF Present, Missing
    <3> QED BY <2>1, <3>1 DEF LensOf
  <2> HIDE DEF a, b
  <2> QED BY <2>1, <2>2, <2>3, UnitsLess
<1>7. Bytes \in Nat /\ Slack \in Nat /\ Faults \in Nat /\ (Faults # 0 => LargestLen <= Slack) /\ entries[d.key].len \in Nat
  BY <1>0, CacheNumbers
<1>8. UnderCap'
  BY <1>0, <1>4, <1>6, <1>7, CacheAssumption DEF UnderCap
<1>9. TaskInv(t)'
  <2>1. TaskCall(t)'
    BY <1>0, <1>1, <1>2, <1>3 DEF TaskInv, TaskCall
  <2>2. TaskSizes(t)'
    <3>1. Bytes <= d.mem.total + Slack
      BY <1>0, <1>6, <1>7
    <3>2. ASSUME d.then = "repair" PROVE Bytes + d.old <= d.mem.total + entries[d.key].len + Slack
      <4>1. CASE Faults = 0
        <5>1. d.old = entries[d.key].len
          BY <1>0, <3>2, <4>1 DEF TaskInv, TaskSizes
        <5> QED BY <1>0, <1>6, <1>7, <5>1
      <4>2. CASE Faults # 0
        BY <1>0, <1>6, <1>7, <4>2, LargestIs
      <4> QED BY <4>1, <4>2
    <3>3. d.mem.total <= CapBytes
      BY <1>0
    <3>4. doing'[t] = r /\ entries' = entries
      BY <1>1, <1>3
    <3> HIDE DEF d
    <3> QED BY ONLY <1>2, <1>4, <3>1, <3>2, <3>3, <3>4 DEF TaskSizes, Working
  <2>3. TaskStamps(t)'
    <3>1. \A k \in Present : entries[k].stamp <= d.mem.stamp
      BY <1>0 DEF TaskInv, TaskStamps
    <3>2. ASSUME JustPut(r), damages = 0
          PROVE  d.key \in Present /\ \A h \in Present \ {d.key} : entries[h].stamp < entries[d.key].stamp
      <4>1. JustPut(d)
        BY <1>0, <1>2, <3>2 DEF JustPut, Overfull
      <4> QED BY <1>0, <3>2, <4>1 DEF TaskInv, TaskStamps
    <3> HIDE DEF d
    <3> QED BY <1>1, <1>2, <1>3, <1>4, <3>1, <3>2 DEF TaskStamps, Working
  <2>4. TaskRemoval(t)'
    BY <1>0, <1>1, <1>2, <1>3 DEF TaskInv, TaskRemoval
  <2> QED BY <2>1, <2>2, <2>3, <2>4 DEF TaskInv
<1> QED BY <1>0, <1>3, <1>4, <1>5, <1>8, <1>9, HolderFrame

-----------------------------------------------------------------------------
\* A fault in the middle of a call of another task, or of the same one for an entry:
\* entries may get shorter, and the slack grows by the largest one.
LEMMA FaultTask ==
    ASSUME CacheInv, NEW u \in Tasks, doing'[u] = doing[u], stateFile' = stateFile,
           doing[u].pc \notin {"idle", "lock"} => cacheLock' = cacheLock,
           Present' = Present, Faults' # 0, Slack' = Slack + LargestLen, Bytes' \in Nat, Bytes' <= Bytes,
           damages' = 0 => damages = 0,
           \A k \in CacheKeys : /\ entries'[k].len \in Nat /\ entries'[k].len <= entries[k].len
                                /\ entries'[k].stamp = entries[k].stamp
                                /\ entries'[k].good => entries[k].good
    PROVE  TaskInv(u)'
<1> DEFINE d == doing[u]
<1>0. /\ d \in CacheCall /\ TaskInv(u) /\ d.key \in CacheKeys /\ d.old \in Nat /\ d.mem.total \in Nat
      /\ Bytes \in Nat /\ Slack \in Nat /\ LargestLen \in Nat
      /\ \A k \in CacheKeys : entries[k].len \in Nat /\ entries[k].len <= LargestLen
  BY TaskIs, CacheNumbers, LargestIs
<1>1. TaskCall(u)'
  BY <1>0 DEF TaskInv, TaskCall
<1>2. TaskSizes(u)'
  <2>1. LeftFound(doing[u])' = LeftFound(d)
    BY DEF LeftFound
  <2>2. ASSUME d.pc = "evict"
        PROVE  /\ d.mem.total = Cardinality(Units(CacheKeys, LargestLen, LeftFound(d)))
               /\ \A k \in Present' : d.found[k] \in entries'[k].len..BodyLen[k]
    <3>1. /\ d.mem.total = Cardinality(Units(CacheKeys, LargestLen, LeftFound(d)))
          /\ \A k \in Present : /\ k \in CacheKeys /\ d.found[k] \in Nat
                                /\ entries[k].len <= d.found[k] /\ d.found[k] <= BodyLen[k]
      BY <2>2, LeftFoundIs
    <3>2. ASSUME NEW k \in Present' PROVE d.found[k] \in entries'[k].len..BodyLen[k]
      <4>1. /\ k \in CacheKeys /\ d.found[k] \in Nat /\ entries[k].len <= d.found[k] /\ d.found[k] <= BodyLen[k]
        BY <3>1
      <4>2. entries'[k].len \in Nat /\ entries'[k].len <= entries[k].len /\ entries[k].len \in Nat /\ BodyLen[k] \in Nat
        BY <1>0, <4>1, CacheAssumption
      <4> QED BY <4>1, <4>2
    <3> QED BY <3>1, <3>2
  <2>3. ASSUME d.pc \in Working
        PROVE  d.mem.total <= CapBytes /\ Bytes' + d.old <= d.mem.total + entries'[d.key].len + Slack'
    <3>1. d.mem.total <= CapBytes /\ Bytes + d.old <= d.mem.total + entries[d.key].len + Slack
      BY <1>0, <2>3 DEF TaskInv, TaskSizes
    <3>2. entries[d.key].len <= entries'[d.key].len + LargestLen /\ entries'[d.key].len \in Nat /\ entries[d.key].len \in Nat
      BY <1>0
    <3> HIDE DEF d
    <3> QED BY <1>0, <3>1, <3>2
  <2>4. ASSUME d.pc \in {"repair", "save"}
        PROVE  d.mem.total <= CapBytes /\ Bytes' <= d.mem.total + Slack'
    <3>1. d.mem.total <= CapBytes /\ Bytes <= d.mem.total + Slack
      BY <1>0, <2>4 DEF TaskInv, TaskSizes
    <3> QED BY <1>0, <3>1
  <2>5. doing'[u] = d /\ Faults' # 0
    OBVIOUS
  <2> HIDE DEF d
  <2> QED BY ONLY <2>1, <2>2, <2>3, <2>4, <2>5 DEF TaskSizes
<1>3. TaskStamps(u)'
  <2>1. \A k \in Present : entries'[k].stamp = entries[k].stamp
    BY DEF Present
  <2> QED BY <1>0, <2>1 DEF TaskInv, TaskStamps
<1>4. TaskRemoval(u)'
  BY <1>0 DEF TaskInv, TaskRemoval
<1> QED BY <1>1, <1>2, <1>3, <1>4 DEF TaskInv

\* What a fault does to the numbers and to what the state file says.
LEMMA FaultFrame ==
    ASSUME CacheInv, stateFile' = stateFile, Faults' = Faults + 1,
           Present' = Present, Bytes' \in Nat, Bytes' <= Bytes,
           \A k \in CacheKeys : entries'[k].stamp = entries[k].stamp
    PROVE  Faults' # 0 /\ Slack' = Slack + LargestLen /\ FileInv' /\ UnderCap'
<1>1. Bytes \in Nat /\ Slack \in Nat /\ Faults \in Nat /\ LargestLen \in Nat /\ FileInv /\ CacheTypes
  BY CacheNumbers, LargestIs DEF CacheInv
<1>2. Faults' # 0
  BY <1>1
<1>3. Slack' = Slack + LargestLen
  <2>1. Slack' = (Faults + 1) * LargestLen
    BY DEF Slack
  <2> QED BY <1>1, <2>1, SlackGrows DEF Slack
<1>4. FileInv'
  <2> SUFFICES ASSUME stateFile # Dirty PROVE FileInv'
    BY DEF FileInv
  <2>1. stateFile.total <= CapBytes /\ Bytes <= stateFile.total + Slack /\ stateFile.total \in Nat
    BY <1>1 DEF FileInv, CacheTypes
  <2>2. Bytes' <= stateFile'.total + Slack'
    BY <1>1, <1>3, <2>1
  <2>3. \A h \in Present' : entries'[h].stamp <= stateFile'.stamp
    BY <1>1 DEF FileInv, Present
  <2> QED BY <1>1, <2>1, <2>2, <2>3 DEF FileInv
<1>5. UnderCap'
  BY <1>2 DEF UnderCap
<1> QED BY <1>2, <1>3, <1>4, <1>5

LEMMA CrashStep ==
    ASSUME CacheInv, NEW t \in Tasks, Crash(t)
    PROVE  CacheInv'
<1>1. /\ UNCHANGED <<entries, stateFile, damages>> /\ crashes < MaxCrashes /\ crashes' = crashes + 1
      /\ doing' = [doing EXCEPT ![t] = Resting]
      /\ cacheLock' = (IF cacheLock = t THEN Nobody ELSE cacheLock)
  BY DEF Crash
<1>2. CacheTypes /\ EntriesInv /\ entries \in [CacheKeys -> EntrySet] /\ (\A k \in CacheKeys : entries[k].len \in Nat)
  BY CacheNumbers DEF CacheInv, CacheTypes
<1>3. doing' \in [Tasks -> CacheCall] /\ doing'[t] = Resting /\ \A u \in Tasks : u # t => doing'[u] = doing[u]
  BY <1>1, RestingIs, RecordChange
<1>4. temps' \in BOOLEAN
  BY <1>2 DEF CacheTypes, Crash
<1>5. CacheTypes'
  <2>1. crashes' \in 0..MaxCrashes
    BY <1>1, <1>2, CacheAssumption DEF CacheTypes
  <2> QED BY <1>1, <1>2, <1>3, <1>4, <2>1 DEF CacheTypes
<1>6. Present' = Present /\ Bytes' = Bytes /\ Bytes \in Nat /\ EntriesInv'
  BY <1>1, <1>2, CacheNumbers DEF Present, Bytes, TotalLen, EntriesInv
<1>7. Faults' = Faults + 1
  BY <1>1, <1>2 DEF Faults, CacheTypes
<1>8. \A k \in CacheKeys : entries[k].len <= entries[k].len
  BY <1>2
<1>9. Faults' # 0 /\ Slack' = Slack + LargestLen /\ FileInv' /\ UnderCap'
  BY <1>1, <1>6, <1>7, FaultFrame
<1>10. ASSUME NEW u \in Tasks, u # t PROVE TaskInv(u)'
  <2>1. doing[u].pc \notin {"idle", "lock"} => cacheLock' = cacheLock
    BY <1>1, <1>10, TaskIs
  <2>2. doing'[u] = doing[u]
    BY <1>3, <1>10
  <2> QED BY <1>1, <1>2, <1>6, <1>8, <1>9, <2>1, <2>2, FaultTask
<1>11. TaskInv(t)'
  BY <1>3, Rested
<1> QED BY <1>5, <1>6, <1>9, <1>10, <1>11 DEF CacheInv

LEMMA DamageStep ==
    ASSUME CacheInv, NEW k \in CacheKeys, Damage(k)
    PROVE  CacheInv'
<1>1. /\ UNCHANGED <<temps, stateFile, cacheLock, doing, crashes>> /\ damages < MaxDamage /\ damages' = damages + 1
      /\ k \in Present
  BY DEF Damage
<1>2. PICK n \in {HeaderLen - 1, entries[k].len} : entries' = [entries EXCEPT ![k] = [@ EXCEPT !.len = n, !.good = FALSE]]
  BY DEF Damage
<1>3. /\ CacheTypes /\ EntriesInv /\ entries \in [CacheKeys -> EntrySet] /\ entries[k] \in EntrySet
      /\ (\A h \in CacheKeys : entries[h].len \in Nat) /\ HeaderLen \in Nat /\ HeaderLen >= 1
  BY CacheNumbers, CacheAssumption DEF CacheInv, CacheTypes
<1>4. n \in Nat /\ HeaderLen - 1 <= n /\ n <= entries[k].len /\ entries[k].stamp >= 1 /\ entries[k].len <= BodyLen[k]
      /\ BodyLen[k] \in Nat /\ entries[k].stamp \in 0..MaxStamp
  BY <1>1, <1>3, CacheAssumption DEF EntriesInv, EntrySet
<1> DEFINE e == [entries[k] EXCEPT !.len = n, !.good = FALSE]
<1>5. e \in EntrySet /\ e.len = n /\ e.good = FALSE /\ e.stamp = entries[k].stamp
  BY <1>3, <1>4 DEF EntrySet
<1>6. entries' = [entries EXCEPT ![k] = e]
  BY <1>2
<1> HIDE DEF e
<1>7. entries' \in [CacheKeys -> EntrySet] /\ entries'[k] = e /\ \A h \in CacheKeys : h # k => entries'[h] = entries[h]
  BY <1>3, <1>5, <1>6
<1>8. e # Missing /\ entries[k] # Missing
  <2>1. e.stamp >= 1 /\ entries[k].stamp >= 1 /\ Missing.stamp = 0
    BY <1>4, <1>5 DEF Missing
  <2> QED BY <2>1
<1>9. Present' = Present
  BY <1>7, <1>8 DEF Present
<1>10. damages' # 0 /\ damages' \in 0..MaxDamage
  BY <1>1, <1>3, CacheAssumption DEF CacheTypes
<1>11. EntriesInv'
  <2>1. ASSUME NEW h \in CacheKeys, h # k
        PROVE  /\ entries'[h].len <= BodyLen[h]
               /\ h \in Present' => entries'[h].stamp >= 1 /\ HeaderLen - 1 <= entries'[h].len /\ (damages' = 0 => entries'[h].good)
               /\ entries'[h].good => entries'[h].len = BodyLen[h] /\ entries'[h].stamp >= 1
    BY <1>3, <1>7, <1>9, <1>10, <2>1 DEF EntriesInv
  <2>2. entries'[k].len <= BodyLen[k] /\ entries'[k].stamp >= 1 /\ HeaderLen - 1 <= entries'[k].len /\ ~entries'[k].good
    BY <1>3, <1>4, <1>5, <1>7
  <2> QED BY <1>10, <2>1, <2>2 DEF EntriesInv
<1>12. \A h \in CacheKeys : /\ entries'[h].len \in Nat /\ entries'[h].len <= entries[h].len
                            /\ entries'[h].stamp = entries[h].stamp
                            /\ entries'[h].good => entries[h].good
  <2>1. ASSUME NEW h \in CacheKeys, h # k
        PROVE  /\ entries'[h].len \in Nat /\ entries'[h].len <= entries[h].len
               /\ entries'[h].stamp = entries[h].stamp /\ (entries'[h].good => entries[h].good)
    BY <1>3, <1>7, <2>1
  <2>2. /\ entries'[k].len \in Nat /\ entries'[k].len <= entries[k].len
        /\ entries'[k].stamp = entries[k].stamp /\ ~entries'[k].good
    BY <1>4, <1>5, <1>7
  <2> QED BY <2>1, <2>2
<1>13. Bytes' \in Nat /\ Bytes' <= Bytes
  <2> DEFINE f == entries'
  <2>0. (\A h \in CacheKeys : entries[h].len <= BodyLen[h]) /\ (\A h \in CacheKeys : f[h].len <= BodyLen[h])
    BY <1>3, <1>11 DEF EntriesInv
  <2>1. f \in [CacheKeys -> EntrySet] /\ \A h \in CacheKeys : f[h].len <= entries[h].len
    BY <1>7, <1>12
  <2>2. Bytes = BytesOf(entries) /\ Bytes' = BytesOf(f)
    BY BytesNow
  <2> HIDE DEF f
  <2>3. BytesOf(f) <= BytesOf(entries) /\ BytesOf(f) \in Nat
    BY <1>3, <2>0, <2>1, BytesLess, BytesAre
  <2> QED BY <2>2, <2>3
<1>14. Faults' = Faults + 1
  BY <1>1, <1>3 DEF Faults, CacheTypes
<1>15. Faults' # 0 /\ Slack' = Slack + LargestLen /\ FileInv' /\ UnderCap'
  BY <1>1, <1>9, <1>12, <1>13, <1>14, FaultFrame
<1>16. CacheTypes'
  BY <1>1, <1>3, <1>7, <1>10 DEF CacheTypes
<1>17. ASSUME NEW u \in Tasks PROVE TaskInv(u)'
  BY <1>1, <1>9, <1>10, <1>12, <1>13, <1>15, FaultTask
<1> QED BY <1>11, <1>15, <1>16, <1>17 DEF CacheInv

-----------------------------------------------------------------------------
LEMMA CacheStepInv ==
    ASSUME CacheInv, [CacheNext]_cacheVars
    PROVE  CacheInv'
<1>1. ASSUME NEW t \in Tasks, CallOpen(t) PROVE CacheInv'
  <2> DEFINE k == Resting.key
  <2>1. k \in CacheKeys
    BY RestingIs DEF CacheCall
  <2>2. [Resting EXCEPT !.pc = "lock", !.op = "open"] = [Resting EXCEPT !.pc = "lock", !.op = "open", !.key = k]
    BY RestingIs DEF CacheCall
  <2>3. /\ doing' = [doing EXCEPT ![t] = [Resting EXCEPT !.pc = "lock", !.op = "open", !.key = k]]
        /\ doing[t].pc = "idle" /\ KeepFiles /\ UNCHANGED cacheLock
    BY <1>1, <2>2 DEF CallOpen
  <2> HIDE DEF k
  <2> QED BY <2>1, <2>3, CallFrame
<1>2. ASSUME NEW t \in Tasks, NEW k \in CacheKeys, CallGet(t, k) PROVE CacheInv'
  BY <1>2, CallFrame DEF CallGet
<1>3. ASSUME NEW t \in Tasks, NEW k \in CacheKeys, CallPut(t, k) PROVE CacheInv'
  BY <1>3, CallFrame DEF CallPut
<1>4. ASSUME NEW t \in Tasks, CacheStep(t) PROVE CacheInv'
  BY <1>4, TakeLockStep, GiveUpStep, ReadStateStep, ScanStep, EvictStep, EvictDoneStep, RepairStep, MarkStep,
     RemoveDamagedStep, WriteTempStep, UnlinkStep, PersistStep, SaveStep DEF CacheStep
<1>5. CASE UNCHANGED cacheVars
  <2>1. UNCHANGED <<entries, temps, stateFile, cacheLock, doing, damages, crashes>>
    BY <1>5 DEF cacheVars
  <2>2. CacheTypes' /\ EntriesInv' /\ FileInv'
    BY <2>1, SameEntries, SameFile DEF CacheInv, CacheTypes
  <2>3. UnderCap'
    BY <2>1, SameEntries DEF CacheInv, UnderCap
  <2>4. ASSUME NEW u \in Tasks PROVE TaskInv(u)'
    BY <2>1, SameTask DEF CacheInv
  <2> QED BY <2>2, <2>3, <2>4 DEF CacheInv
<1> QED BY <1>1, <1>2, <1>3, <1>4, <1>5, CrashStep, DamageStep DEF CacheNext

LEMMA CacheStart == CacheInit => CacheInv
<1> SUFFICES ASSUME CacheInit PROVE CacheInv
  OBVIOUS
<1>0. /\ entries = [k \in CacheKeys |-> Missing] /\ temps = FALSE /\ stateFile = Dirty /\ cacheLock = Nobody
      /\ doing = [t \in Tasks |-> Resting] /\ damages = 0 /\ crashes = 0
  BY DEF CacheInit
<1>1. Missing \in EntrySet /\ Missing.len = 0 /\ Missing.good = FALSE
  BY CacheAssumption DEF Missing, EntrySet
<1>2. entries \in [CacheKeys -> EntrySet] /\ Present = {} /\ \A k \in CacheKeys : entries[k] = Missing
  BY <1>0, <1>1 DEF Present
<1>3. Dirty \in [total : Nat, stamp : 0..(MaxStamp + 1)]
  BY CacheAssumption DEF Dirty
<1>4. doing \in [Tasks -> CacheCall] /\ \A t \in Tasks : doing[t] = Resting
  BY <1>0, RestingIs
<1>5. CacheTypes
  <2>1. temps \in BOOLEAN
    BY <1>0
  <2>2. damages \in 0..MaxDamage /\ crashes \in 0..MaxCrashes
    BY <1>0, CacheAssumption
  <2> QED BY <1>0, <1>2, <1>3, <1>4, <2>1, <2>2 DEF CacheTypes
<1>6. EntriesInv
  BY <1>1, <1>2, CacheAssumption DEF EntriesInv
<1>7. FileInv
  BY <1>0 DEF FileInv
<1>8. UnderCap
  <2>1. UNION {{k} \X (1..entries[k].len) : k \in CacheKeys} = {}
    BY <1>1, <1>2
  <2>2. Bytes = 0
    BY <2>1, FS_EmptySet DEF Bytes, TotalLen
  <2> QED BY <2>2, CacheAssumption DEF UnderCap
<1>9. ASSUME NEW t \in Tasks PROVE TaskInv(t)
  <2>0. doing[t] = Resting
    BY <1>4
  <2>1. TaskCall(t)
    BY <2>0, RestingIs, LargestIs DEF TaskCall
  <2>2. TaskSizes(t) /\ TaskRemoval(t)
    BY <2>0, RestingIs DEF TaskSizes, TaskRemoval, Working
  <2>3. TaskStamps(t)
    BY <2>0, RestingIs DEF TaskStamps, JustPut, Overfull, Working
  <2> QED BY <2>1, <2>2, <2>3 DEF TaskInv
<1> QED BY <1>5, <1>6, <1>7, <1>8, <1>9 DEF CacheInv

\* Whatever processes die and whatever entries are damaged: whoever is past the lock
\* holds it, what the state file says is at most the cap and falls short of the bytes
\* on the disk by at most one entry for each fault, and the eviction a put causes
\* leaves the entry just put, which has the last insertion stamp.
THEOREM CacheAccounts == CacheSpec => []CacheSound
<1>1. CacheInit => CacheInv
  BY CacheStart
<1>2. CacheInv /\ [CacheNext]_cacheVars => CacheInv'
  BY CacheStepInv
<1>3. CacheInv => CacheSound
  <2> SUFFICES ASSUME CacheInv PROVE CacheSound
    OBVIOUS
  <2>1. CacheTypeOK
    BY TaskIs DEF CacheInv, CacheTypes, CacheTypeOK, EntrySet
  <2>2. CacheBounded
    BY DEF CacheInv, FileInv, CacheBounded, Bytes, Slack, Faults
  <2>3. PutSurvives
    <3> SUFFICES ASSUME NEW t \in Tasks, doing[t].pc = "save", doing[t].op = "put", ~(damages > 0)
                 PROVE  doing[t].key \in Present /\ \A h \in Present \ {doing[t].key} : entries[h].stamp < entries[doing[t].key].stamp
      BY DEF PutSurvives
    <3>1. damages = 0
      BY CacheAssumption DEF CacheInv, CacheTypes
    <3> QED BY <3>1, TaskIs DEF TaskInv, TaskStamps, JustPut
  <2> QED BY <2>1, <2>2, <2>3 DEF CacheSound
<1> QED BY <1>1, <1>2, <1>3, PTL DEF CacheSpec

\* No step taken while get_body is about to remove the entry it found damaged takes
\* away a good entry: the one it removes is damaged still, or gone, and everybody
\* else waits for the lock.
THEOREM OnlyDamagedGo == CacheSpec => OnlyDamagedRemoved
<1> DEFINE Spared == \A t \in Tasks, k \in CacheKeys :
               doing[t].pc = "remove" /\ k \in Present /\ entries[k].good => entries'[k] # Missing
<1>1. CacheInit => CacheInv
  BY CacheStart
<1>2. CacheInv /\ [CacheNext]_cacheVars => CacheInv'
  BY CacheStepInv
<1>3. CacheInv /\ [CacheNext]_cacheVars => [Spared]_cacheVars
  <2> SUFFICES ASSUME CacheInv, CacheNext, NEW t \in Tasks, NEW k \in CacheKeys,
                      doing[t].pc = "remove", k \in Present, entries[k].good
               PROVE  entries'[k] # Missing
    OBVIOUS
  <2>0. /\ cacheLock = t /\ entries[k] # Missing /\ doing[t].op = "get" /\ ~entries[doing[t].key].good
        /\ entries \in [CacheKeys -> EntrySet] /\ Nobody # t
    BY TaskIs, CacheAssumption DEF TaskInv, TaskCall, TaskRemoval, Working, Present, CacheInv, CacheTypes
  <2>1. ASSUME NEW u \in Tasks, CacheStep(u), u # t PROVE entries' = entries
    <3>1. doing[u].pc \in {"idle", "lock"}
      BY <2>0, <2>1, OthersWait
    <3>2. cacheLock # Nobody
      BY <2>0
    <3> QED BY <2>1, <3>1, <3>2 DEF CacheStep, TakeLock, CacheLockFree, GiveUp, ReadState, Scan, Evict, EvictDone, Repair,
            Mark, RemoveDamaged, WriteTemp, NoStampLeft, Unlink, Persist, Save
  <2>2. ASSUME CacheStep(t) PROVE entries' = [entries EXCEPT ![doing[t].key] = Missing]
    BY <2>2 DEF CacheStep, TakeLock, GiveUp, ReadState, Scan, Evict, EvictDone, Repair, Mark, RemoveDamaged, WriteTemp,
       NoStampLeft, Unlink, Persist, Save
  <2>3. ASSUME NEW h \in CacheKeys, Damage(h) PROVE entries'[k] # Missing
    <3>1. PICK n \in {HeaderLen - 1, entries[h].len} : entries' = [entries EXCEPT ![h] = [@ EXCEPT !.len = n, !.good = FALSE]]
      BY <2>3 DEF Damage
    <3>2. entries[k].stamp >= 1
      BY DEF CacheInv, EntriesInv
    <3>3. entries'[k].stamp = entries[k].stamp
      BY <2>0, <3>1 DEF EntrySet
    <3> QED BY <3>2, <3>3 DEF Missing
  <2>4. ASSUME NEW u \in Tasks, CallOpen(u) \/ Crash(u) PROVE entries' = entries
    BY <2>4 DEF CallOpen, Crash, KeepFiles
  <2>5. ASSUME NEW u \in Tasks, NEW h \in CacheKeys, CallGet(u, h) \/ CallPut(u, h) PROVE entries' = entries
    BY <2>5 DEF CallGet, CallPut, KeepFiles
  <2>6. entries[k] = entries'[k] \/ (\E h \in CacheKeys : Damage(h))
    BY <2>0, <2>1, <2>2, <2>4, <2>5 DEF CacheNext
  <2> QED BY <2>0, <2>3, <2>6
<1> QED BY <1>1, <1>2, <1>3, PTL DEF CacheSpec, OnlyDamagedRemoved
=============================================================================
