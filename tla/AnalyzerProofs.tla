---------------------------- MODULE AnalyzerProofs ----------------------------
(***************************************************************************)
(* What is proved of a price-action engine: what it remembers agrees with  *)
(* the whole history of bars it was fed, and fed the mirrored market its   *)
(* counter and trend find what mirrors it.                                 *)
(***************************************************************************)
EXTENDS Analyzer, FiniteInduction

-----------------------------------------------------------------------------
(* Lists.                                                                  *)

(* The last entries of a list, at most so many. *)
LastOnes(all, limit) == SubSeq(all, Larger(1, Len(all) - limit + 1), Len(all))

LEMMA LastOnesFacts ==
  ASSUME NEW S, NEW all \in Seq(S), NEW limit \in Nat \ {0}
  PROVE  LET r == LastOnes(all, limit)
         IN  /\ r \in Seq(S)
             /\ Len(r) = Smaller(Len(all), limit)
             /\ \A i \in 1 .. Len(r) :
                  /\ Len(all) - Len(r) + i \in 1 .. Len(all)
                  /\ r[i] = all[Len(all) - Len(r) + i]
<1> DEFINE first == Larger(1, Len(all) - limit + 1)
           r == LastOnes(all, limit)
           n == Len(all)
<1>1. n \in Nat
  OBVIOUS
<1>2. CASE n = 0
  <2>1. r = <<>> /\ all = <<>>
    BY <1>2 DEF LastOnes, Larger
  <2> QED BY <2>1, <1>2 DEF Smaller
<1>3. CASE n > 0
  <2>1. first \in 1 .. n
    BY <1>1, <1>3 DEF Larger
  <2>2. r \in Seq(S) /\ Len(r) = n - first + 1 /\ \A i \in 1 .. Len(r) : r[i] = all[first + i - 1]
    <3> HIDE DEF first
    <3>1. r = SubSeq(all, first, Len(all))
      BY DEF LastOnes, first
    <3> QED BY <2>1, <3>1
  <2>3. n - first + 1 = Smaller(n, limit)
    <3>1. first = IF 1 > n - limit + 1 THEN 1 ELSE n - limit + 1
      BY DEF Larger
    <3>2. Smaller(n, limit) = IF n < limit THEN n ELSE limit
      BY DEF Smaller
    <3> HIDE DEF n, first
    <3>3. limit \in Nat
      OBVIOUS
    <3> QED BY <1>1, <1>3, <3>1, <3>2, <3>3
  <2> HIDE DEF first, r, n
  <2>4. ASSUME NEW i \in 1 .. Len(r) PROVE n - Len(r) + i \in 1 .. n /\ r[i] = all[n - Len(r) + i]
    <3>1. n - Len(r) + i = first + i - 1
      BY <1>1, <2>1, <2>2
    <3> QED BY <1>1, <2>1, <2>2, <3>1
  <2> QED BY <2>2, <2>3, <2>4 DEF r, n
<1> QED BY <1>1, <1>2, <1>3

(* What is remembered are the last entries, the new one among them. *)
LEMMA RememberFacts ==
  ASSUME NEW S, NEW list \in Seq(S), NEW x \in S, NEW limit \in Nat \ {0}
  PROVE  LET r == Remember(list, x, limit)
             n == Len(list) + 1
         IN  /\ r \in Seq(S)
             /\ Len(r) = Smaller(n, limit)
             /\ \A i \in 1 .. Len(r) :
                  /\ n - Len(r) + i \in 1 .. n
                  /\ r[i] = IF i = Len(r) THEN x ELSE list[n - Len(r) + i]
<1> DEFINE all == Append(list, x)
           r == LastOnes(all, limit)
<1>1. all \in Seq(S) /\ Len(all) = Len(list) + 1 /\ Len(list) \in Nat
  OBVIOUS
<1>2. Remember(list, x, limit) = r
  BY DEF Remember, LastOnes
<1>3. /\ r \in Seq(S) /\ Len(r) = Smaller(Len(all), limit)
      /\ \A i \in 1 .. Len(r) : /\ Len(all) - Len(r) + i \in 1 .. Len(all)
                                /\ r[i] = all[Len(all) - Len(r) + i]
  <2> HIDE DEF all
  <2> QED BY <1>1, LastOnesFacts, SMTT(30)
<1> HIDE DEF r
<1>4. ASSUME NEW i \in 1 .. Len(r)
      PROVE  r[i] = IF i = Len(r) THEN x ELSE list[Len(list) + 1 - Len(r) + i]
  <2>1. Len(r) \in Nat
    BY <1>3
  <2>2. r[i] = all[Len(list) + 1 - Len(r) + i] /\ Len(list) + 1 - Len(r) + i \in 1 .. Len(list) + 1
    BY <1>1, <1>3
  <2>3. CASE i = Len(r)
    BY <1>1, <2>1, <2>2, <2>3
  <2>4. CASE i # Len(r)
    <3>1. Len(list) + 1 - Len(r) + i \in 1 .. Len(list)
      BY <1>1, <2>1, <2>2, <2>4
    <3> QED BY <2>2, <2>4, <3>1
  <2> QED BY <2>3, <2>4
<1> QED BY <1>1, <1>2, <1>3, <1>4

(* Entries at given places are entries of the list, one for each place. *)
LEMMA SelectedFacts ==
  ASSUME NEW S, NEW list \in Seq(S), NEW places \in SUBSET (DOMAIN list)
  PROVE  LET r == Selected(list, places)
         IN  /\ r \in Seq(S)
             /\ \A k \in DOMAIN r : \E i \in places : r[k] = list[i]
<1> DEFINE R == {p \in places \X places : p[1] < p[2]}
           At(k) == CHOOSE i \in places : Cardinality({j \in places : j < i}) = k - 1
           r == Selected(list, places)
<1>1. /\ IsFiniteSet(places) /\ Cardinality(places) \in Nat /\ places \in SUBSET Int
      /\ \A i \in places : list[i] \in S
  <2>1. DOMAIN list = 1 .. Len(list) /\ Len(list) \in Nat
    OBVIOUS
  <2>2. IsFiniteSet(1 .. Len(list))
    BY <2>1, FS_Interval
  <2>3. IsFiniteSet(places)
    BY <2>1, <2>2, FS_Subset, Zenon
  <2> QED BY <2>1, <2>3, FS_CardinalityType
<1>2. OrdersStrictly(R, places)
  BY <1>1 DEF OrdersStrictly
<1>3. \A i \in places : BelowIn(i, R, places) = {j \in places : j < i}
  BY DEF BelowIn
<1>4. ASSUME NEW k \in 1 .. Cardinality(places) PROVE At(k) \in places
  <2> HIDE DEF R
  <2>1. k - 1 \in Nat /\ k - 1 < Cardinality(places)
    BY <1>1
  <2>2. \E i \in places : Cardinality(BelowIn(i, R, places)) = k - 1
    BY <1>1, <1>2, <2>1, RanksAreTaken
  <2>3. \E i \in places : Cardinality({j \in places : j < i}) = k - 1
    BY <1>3, <2>2
  <2> QED BY <2>3, Zenon
<1>5. r = [k \in 1 .. Cardinality(places) |-> list[At(k)]]
  BY DEF Selected
<1> HIDE DEF At, r
<1>6. r \in Seq(S)
  <2>1. \A k \in 1 .. Cardinality(places) : list[At(k)] \in S
    BY <1>1, <1>4
  <2> QED BY <1>1, <1>5, <2>1
<1>7. ASSUME NEW k \in DOMAIN r PROVE \E i \in places : r[k] = list[i]
  <2>1. k \in 1 .. Cardinality(places)
    BY <1>5
  <2> QED BY <1>4, <1>5, <2>1
<1> QED BY <1>6, <1>7 DEF r

LEMMA MaxIs ==
  ASSUME NEW S \in SUBSET Int, NEW m \in S, \A x \in S : m >= x
  PROVE  Max(S) = m
<1>1. \E x \in S : \A y \in S : x >= y
  OBVIOUS
<1>2. Max(S) \in S /\ \A y \in S : Max(S) >= y
  BY <1>1, Zenon DEF Max
<1>3. Max(S) \in Int /\ m \in Int /\ Max(S) >= m /\ m >= Max(S)
  BY <1>2
<1> HIDE DEF Max
<1> QED BY <1>3

LEMMA MinIs ==
  ASSUME NEW S \in SUBSET Int, NEW m \in S, \A x \in S : m <= x
  PROVE  Min(S) = m
<1>1. \E x \in S : \A y \in S : x <= y
  OBVIOUS
<1>2. Min(S) \in S /\ \A y \in S : Min(S) <= y
  BY <1>1, Zenon DEF Min
<1>3. Min(S) \in Int /\ m \in Int /\ Min(S) <= m /\ m <= Min(S)
  BY <1>2
<1> HIDE DEF Min
<1> QED BY <1>3

LEMMA OneMore ==
  ASSUME NEW U, IsFiniteSet(U), NEW n, n \notin U, NEW T
  PROVE  /\ Cardinality((U \union {n}) \intersect T) \in Nat
         /\ Cardinality(U \intersect T) \in Nat
         /\ Cardinality((U \union {n}) \intersect T)
              = Cardinality(U \intersect T) + IF n \in T THEN 1 ELSE 0
<1>1. IsFiniteSet(U \intersect T)
  BY FS_Subset
<1>2. CASE n \in T
  <2>1. (U \union {n}) \intersect T = (U \intersect T) \union {n} /\ n \notin U \intersect T
    BY <1>2
  <2> QED BY <1>1, <1>2, <2>1, FS_AddElement, FS_CardinalityType
<1>3. CASE n \notin T
  <2>1. (U \union {n}) \intersect T = U \intersect T
    BY <1>3
  <2>2. Cardinality(U \intersect T) \in Nat
    BY <1>1, FS_CardinalityType
  <2>3. Cardinality((U \union {n}) \intersect T) = Cardinality(U \intersect T)
    BY <2>1
  <2> DEFINE m == Cardinality(U \intersect T)
             k == Cardinality((U \union {n}) \intersect T)
  <2>4. m \in Nat /\ k = m
    BY <2>2, <2>3
  <2> HIDE DEF m, k
  <2>5. k \in Nat /\ m \in Nat /\ k = m + IF n \in T THEN 1 ELSE 0
    BY <1>3, <2>4
  <2> QED BY <2>5 DEF m, k
<1> QED BY <1>2, <1>3

LEMMA BarsAreRecords == \A b \in Shapes : b \in BarRecords
BY AnalyzerAssumption, MaxPriceAssumption DEF AnalyzerAssumption, MaxPriceAssumption, BarRecords

(* A bar's prices, and that its extremes enclose the others. *)
LEMMA BarFacts ==
  ASSUME NEW b \in Shapes
  PROVE  /\ b.open \in Int /\ b.high \in Nat \ {0} /\ b.low \in Nat \ {0} /\ b.close \in Int
         /\ b.low <= MaxPrice
         /\ b.low <= b.open /\ b.open <= b.high /\ b.low <= b.close /\ b.close <= b.high
BY AnalyzerAssumption, MaxPriceAssumption DEF AnalyzerAssumption, MaxPriceAssumption

LEMMA HistoryGrows ==
  ASSUME NEW h \in Seq(Shapes), NEW b \in Shapes
  PROVE  /\ Append(h, b) \in Seq(Shapes)
         /\ Len(h) \in Nat /\ Len(Append(h, b)) = Len(h) + 1
         /\ Append(h, b)[Len(h) + 1] = b
         /\ \A i \in 1 .. Len(h) : Append(h, b)[i] = h[i] /\ h[i] \in Shapes
OBVIOUS

-----------------------------------------------------------------------------
(* The counter.                                                            *)

Counters == [bull : Nat, bear : Nat, length : Nat, high : Nat, low : Nat, total : Nat]

Run(c, n) == n - c.length + 1 .. n

OfType(h, types) == {i \in 1 .. Len(h) : TypeOfBar(h[i], Config.dojiPct) \in types}

(* The extremes and counts are those of the run that ends with the last bar. *)
Measures(c, h, U) ==
  /\ \A i \in U : h[i].high <= c.high /\ h[i].low >= c.low
  /\ \E i \in U : h[i].high = c.high
  /\ \E i \in U : h[i].low = c.low
  /\ c.bull = Cardinality(U \intersect OfType(h, BullTypes))
  /\ c.bear = Cardinality(U \intersect OfType(h, BearTypes))

CounterFits(c, h) ==
  /\ c \in Counters /\ c.total = Len(h)
  /\ c.bull = 0 \/ c.bear = 0
  /\ IF h = <<>> THEN c = NewCounter
     ELSE c.length \in 1 .. Len(h) /\ Measures(c, h, Run(c, Len(h)))

LEMMA NewCounterFits == CounterFits(NewCounter, <<>>)
BY MaxPriceAssumption DEF CounterFits, NewCounter, Counters, MaxPriceAssumption

(* One bar more: it joins the run, or starts one of its own. *)
LEMMA CounterKeepsFitting ==
  ASSUME NEW h \in Seq(Shapes), NEW b \in Shapes, NEW c, CounterFits(c, h)
  PROVE  CounterFits(CountBar(c, b, TypeOfBar(b, Config.dojiPct)), Append(h, b))
<1> DEFINE type == TypeOfBar(b, Config.dojiPct)
           N == Len(h)
           g == Append(h, b)
           d == CountBar(c, b, type)
           turned == Turned(c, type)
           U == IF turned \/ N = 0 THEN {} ELSE Run(c, N)
<1>1. /\ g \in Seq(Shapes) /\ Len(g) = N + 1 /\ N \in Nat /\ g[N + 1] = b
      /\ \A i \in 1 .. N : g[i] = h[i] /\ h[i] \in Shapes
  BY HistoryGrows
<1>2. /\ b.high \in Nat /\ b.low \in Nat /\ b.high > 0 /\ b.low <= MaxPrice /\ MaxPrice \in Nat
  BY BarFacts, MaxPriceAssumption DEF MaxPriceAssumption
<1>3. c.bull \in Nat /\ c.bear \in Nat /\ c.length \in Nat /\ c.high \in Nat /\ c.low \in Nat
      /\ c.total = N /\ (c.bull = 0 \/ c.bear = 0)
  BY DEF CounterFits, Counters
<1>4. type \in BullTypes => type \notin BearTypes
  BY DEF BullTypes, BearTypes
<1>5. /\ turned <=> \/ type \in BullTypes /\ c.bear > 0
                    \/ type \in BearTypes /\ c.bull > 0
      /\ d.bull = IF type \in BullTypes THEN c.bull + 1 ELSE IF turned THEN 0 ELSE c.bull
      /\ d.bear = IF type \in BearTypes THEN c.bear + 1 ELSE IF turned THEN 0 ELSE c.bear
      /\ d.length = (IF turned THEN 0 ELSE c.length) + 1
      /\ d.high = IF turned THEN b.high ELSE Larger(c.high, b.high)
      /\ d.low = IF turned THEN b.low ELSE Smaller(c.low, b.low)
      /\ d.total = c.total + 1
      /\ d = [bull |-> d.bull, bear |-> d.bear, length |-> d.length, high |-> d.high,
              low |-> d.low, total |-> d.total]
  BY DEF CountBar, Turned
<1>6. h = <<>> <=> N = 0
  OBVIOUS
<1>7. N = 0 => ~ turned /\ c.length = 0 /\ c.bull = 0 /\ c.bear = 0 /\ c.high = 0 /\ c.low = MaxPrice
  BY <1>5, <1>6 DEF CounterFits, NewCounter
<1>8. N # 0 => c.length \in 1 .. N /\ Measures(c, h, Run(c, N))
  BY <1>6 DEF CounterFits
<1>9. U \subseteq 1 .. N
  BY <1>1, <1>8 DEF Run
<1> HIDE DEF type, N, g, d, turned
<1>10. d.length \in 1 .. N + 1 /\ Run(d, N + 1) = U \union {N + 1}
  <2>1. CASE turned \/ N = 0
    <3>1. d.length = 1
      BY <1>5, <1>7, <2>1
    <3> QED BY <1>1, <2>1, <3>1 DEF Run
  <2>2. CASE ~ turned /\ N # 0
    <3>1. d.length = c.length + 1
      BY <1>5, <2>2
    <3> QED BY <1>1, <1>8, <2>2, <3>1 DEF Run
  <2> QED BY <2>1, <2>2
<1>11. /\ IF turned \/ N = 0 THEN d.high = b.high /\ d.low = b.low
          ELSE d.high = Larger(c.high, b.high) /\ d.low = Smaller(c.low, b.low)
  BY <1>2, <1>5, <1>7 DEF Larger, Smaller
<1>12. d.high \in Nat /\ d.low \in Nat
  BY <1>2, <1>3, <1>5 DEF Larger, Smaller
<1> DEFINE bulls == OfType(g, BullTypes)
           bears == OfType(g, BearTypes)
<1>13. /\ U \intersect bulls = U \intersect OfType(h, BullTypes)
       /\ U \intersect bears = U \intersect OfType(h, BearTypes)
       /\ N + 1 \in bulls <=> type \in BullTypes
       /\ N + 1 \in bears <=> type \in BearTypes
  BY <1>1, <1>9 DEF OfType, type, N
<1>14. IsFiniteSet(U) /\ N + 1 \notin U
  <2>1. IsFiniteSet(1 .. N)
    BY <1>1, FS_Interval
  <2>2. IsFiniteSet(U)
    BY <1>9, <2>1, FS_Subset, Zenon
  <2> QED BY <1>1, <1>9, <2>2
<1>15. IF turned \/ N = 0
       THEN Cardinality(U \intersect bulls) = 0 /\ Cardinality(U \intersect bears) = 0
       ELSE Cardinality(U \intersect bulls) = c.bull /\ Cardinality(U \intersect bears) = c.bear
  <2>1. CASE turned \/ N = 0
    <3>1. U \intersect bulls = {} /\ U \intersect bears = {}
      BY <2>1
    <3> QED BY <2>1, <3>1, FS_EmptySet
  <2>2. CASE ~ (turned \/ N = 0)
    BY <1>8, <1>13, <2>2 DEF Measures
  <2> QED BY <2>1, <2>2
<1> HIDE DEF bulls, bears
<1>16. /\ Cardinality((U \union {N + 1}) \intersect bulls)
            = Cardinality(U \intersect bulls) + IF N + 1 \in bulls THEN 1 ELSE 0
       /\ Cardinality((U \union {N + 1}) \intersect bears)
            = Cardinality(U \intersect bears) + IF N + 1 \in bears THEN 1 ELSE 0
  BY <1>14, OneMore
<1>17. /\ d.bull = Cardinality((U \union {N + 1}) \intersect bulls)
       /\ d.bear = Cardinality((U \union {N + 1}) \intersect bears)
       /\ d.bull \in Nat /\ d.bear \in Nat
       /\ d.bull = 0 \/ d.bear = 0
  <2> DEFINE p == Cardinality(U \intersect bulls)
             q == Cardinality(U \intersect bears)
             up == Cardinality((U \union {N + 1}) \intersect bulls)
             uq == Cardinality((U \union {N + 1}) \intersect bears)
  <2>1. /\ up = p + IF type \in BullTypes THEN 1 ELSE 0
        /\ uq = q + IF type \in BearTypes THEN 1 ELSE 0
    BY <1>13, <1>16
  <2>2. IF turned \/ N = 0 THEN p = 0 /\ q = 0 ELSE p = c.bull /\ q = c.bear
    BY <1>15
  <2>8. /\ turned <=> \/ type \in BullTypes /\ c.bear > 0
                      \/ type \in BearTypes /\ c.bull > 0
        /\ d.bull = IF type \in BullTypes THEN c.bull + 1 ELSE IF turned THEN 0 ELSE c.bull
        /\ d.bear = IF type \in BearTypes THEN c.bear + 1 ELSE IF turned THEN 0 ELSE c.bear
    BY <1>5
  <2>9. N = 0 => ~ turned /\ c.bull = 0 /\ c.bear = 0
    BY <1>7
  <2> HIDE DEF p, q, up, uq, U
  <2>3. d.bull = up /\ d.bear = uq /\ d.bull \in Nat /\ d.bear \in Nat
        /\ (d.bull = 0 \/ d.bear = 0)
    <3>1. CASE turned
      BY <1>3, <1>4, <2>1, <2>2, <2>8, <3>1
    <3>2. CASE ~ turned
      <4>1. p = c.bull /\ q = c.bear
        BY <2>2, <2>9, <3>2
      <4> QED BY <1>3, <1>4, <2>1, <2>8, <3>2, <4>1
    <3> QED BY <3>1, <3>2
  <2> QED BY <2>3 DEF up, uq
<1>18. /\ \A i \in U \union {N + 1} : g[i].high <= d.high /\ g[i].low >= d.low
       /\ \E i \in U \union {N + 1} : g[i].high = d.high
       /\ \E i \in U \union {N + 1} : g[i].low = d.low
  <2>1. CASE turned \/ N = 0
    BY <1>1, <1>2, <1>11, <2>1
  <2>2. CASE ~ (turned \/ N = 0)
    <3>1. \A i \in U : /\ g[i].high \in Int /\ g[i].low \in Int
                       /\ g[i].high <= c.high /\ g[i].low >= c.low
      <4> SUFFICES ASSUME NEW i \in U
                   PROVE  /\ g[i].high \in Int /\ g[i].low \in Int
                          /\ g[i].high <= c.high /\ g[i].low >= c.low
        OBVIOUS
      <4>1. g[i] = h[i] /\ h[i] \in Shapes
        BY <1>1, <1>9
      <4>2. h[i].high <= c.high /\ h[i].low >= c.low
        BY <1>8, <2>2 DEF Measures
      <4> QED BY <4>1, <4>2, BarFacts
    <3>2. (\E i \in U : g[i].high = c.high) /\ (\E i \in U : g[i].low = c.low)
      <4>1. (\E i \in U : h[i].high = c.high) /\ (\E i \in U : h[i].low = c.low)
        BY <1>8, <2>2 DEF Measures
      <4> QED BY <1>1, <1>9, <4>1
    <3>3. d.high = Larger(c.high, b.high) /\ d.low = Smaller(c.low, b.low)
      BY <1>11, <2>2
    <3> HIDE DEF U
    <3>4. /\ d.high = IF c.high > b.high THEN c.high ELSE b.high
          /\ d.low = IF c.low < b.low THEN c.low ELSE b.low
      BY <3>3 DEF Larger, Smaller
    <3>5. d.high >= c.high /\ d.high >= b.high /\ d.low <= c.low /\ d.low <= b.low
          /\ d.high \in {c.high, b.high} /\ d.low \in {c.low, b.low}
      BY <1>2, <1>3, <3>4
    <3>6. ASSUME NEW i \in U \union {N + 1} PROVE g[i].high <= d.high /\ g[i].low >= d.low
      <4>1. CASE i \in U
        BY <1>2, <1>3, <1>12, <3>1, <3>5, <4>1, SMTT(30)
      <4>2. CASE i = N + 1
        BY <1>1, <1>2, <1>12, <3>5, <4>2
      <4> QED BY <4>1, <4>2
    <3>7. \E i \in U \union {N + 1} : g[i].high = d.high
      BY <1>1, <3>2, <3>5
    <3>8. \E i \in U \union {N + 1} : g[i].low = d.low
      BY <1>1, <3>2, <3>5
    <3> QED BY <3>6, <3>7, <3>8
  <2> QED BY <2>1, <2>2
<1>19. d \in Counters /\ d.total = Len(g)
  <2>1. d.total = N + 1 /\ N \in Nat /\ Len(g) = N + 1
    BY <1>1, <1>3, <1>5
  <2>2. d.length \in Nat
    BY <1>1, <1>10
  <2>3. d.total \in Nat
    BY <2>1
  <2>4. d = [bull |-> d.bull, bear |-> d.bear, length |-> d.length, high |-> d.high,
             low |-> d.low, total |-> d.total]
    BY <1>5
  <2>5. d \in Counters
    BY <1>12, <1>17, <2>2, <2>3, <2>4, Zenon DEF Counters
  <2> QED BY <2>1, <2>5
<1>20. Measures(d, g, Run(d, N + 1))
  BY <1>10, <1>17, <1>18 DEF Measures, bulls, bears
<1>21. g # <<>>
  BY <1>1
<1>22. CounterFits(d, g)
  BY <1>1, <1>10, <1>17, <1>19, <1>20, <1>21 DEF CounterFits
<1> QED BY <1>22 DEF d, g, type

-----------------------------------------------------------------------------
(* One bar, detector by detector.                                          *)

HasFields(e) ==
  e = [bodies |-> e.bodies, counter |-> e.counter, trend |-> e.trend, levels |-> e.levels,
       breakouts |-> e.breakouts, ranges |-> e.ranges, channel |-> e.channel,
       context |-> e.context, previous |-> e.previous]

TrendAfter(e, b) == UpdateTrend(e.trend, b, Config.lookback, Config.emaPeriod)

LevelsAfter(e, b) ==
  UpdateLevels(e.levels, b, e.trend.index, TrendAfter(e, b).highs, TrendAfter(e, b).lows,
               Config.tolerance)

LEMMA ProcessFields ==
  ASSUME NEW e, HasFields(e), NEW b
  PROVE  LET f == ProcessBar(e, b, Config)
         IN  /\ HasFields(f)
             /\ f.bodies = RememberBody(e.bodies, b)
             /\ f.counter = CountBar(e.counter, b, TypeOfBar(b, Config.dojiPct))
             /\ f.trend = TrendAfter(e, b)
             /\ f.levels = LevelsAfter(e, b)
             /\ f.breakouts = UpdateBreakouts(e.breakouts, b, f.levels)
             /\ f.ranges = UpdateRanges(e.ranges, b, f.trend.state, Config.minRangeBars)
             /\ f.previous = {b}
             /\ \E context :
                  f.context.recent =
                    Remember(e.context.recent,
                             Marked(Classify(e.bodies, b, e.previous, Config.dojiPct),
                                    e, b, context),
                             Config.maxRecent)
<1> DEFINE type == TypeOfBar(b, Config.dojiPct)
           trend == TrendAfter(e, b)
           levels == LevelsAfter(e, b)
           bodies == RememberBody(e.bodies, b)
           counter == CountBar(e.counter, b, type)
           breakouts == UpdateBreakouts(e.breakouts, b, levels)
           ranges == UpdateRanges(e.ranges, b, trend.state, Config.minRangeBars)
           channel == UpdateChannel(e.channel, trend.highs, trend.lows)
           d == Detect(e, b, Config)
           c == BuildContext(d, b, Config)
           class == Marked(Classify(e.bodies, b, e.previous, Config.dojiPct), e, b, c)
           view == [c EXCEPT !.recent = Remember(@, class, Config.maxRecent)]
           f == ProcessBar(e, b, Config)
<1>1. d = [e EXCEPT !.bodies = bodies, !.counter = counter, !.trend = trend, !.levels = levels,
                    !.breakouts = breakouts, !.ranges = ranges, !.channel = channel]
  BY DEF Detect, TrendAfter, LevelsAfter
<1> HIDE DEF type, trend, levels, bodies, counter, breakouts, ranges, channel, d
<1>2. d = [bodies |-> bodies, counter |-> counter, trend |-> trend, levels |-> levels,
           breakouts |-> breakouts, ranges |-> ranges, channel |-> channel,
           context |-> e.context, previous |-> e.previous]
  BY <1>1 DEF HasFields
<1>3. f = [d EXCEPT !.context = view, !.previous = {b}]
  BY DEF ProcessBar, d
<1>4. view.recent = Remember(e.context.recent, class, Config.maxRecent)
  <2>1. c.recent = e.context.recent
    BY <1>2 DEF BuildContext
  <2> DEFINE r == Remember(e.context.recent, class, Config.maxRecent)
  <2>2. view = [c EXCEPT !.recent = r]
    BY <2>1
  <2> HIDE DEF r, class
  <2>3. [c EXCEPT !.recent = r].recent = r
    BY DEF BuildContext
  <2> HIDE DEF view, c
  <2> QED BY <2>2, <2>3 DEF r
<1> HIDE DEF view, f
<1>5. f = [bodies |-> bodies, counter |-> counter, trend |-> trend, levels |-> levels,
           breakouts |-> breakouts, ranges |-> ranges, channel |-> channel,
           context |-> view, previous |-> {b}]
  BY <1>2, <1>3
<1>6. HasFields(f)
  BY <1>5 DEF HasFields
<1>7. /\ f.bodies = bodies /\ f.counter = counter /\ f.trend = trend /\ f.levels = levels
      /\ f.breakouts = breakouts /\ f.ranges = ranges /\ f.context = view /\ f.previous = {b}
  BY <1>5
<1>8. \E context :
         f.context.recent =
           Remember(e.context.recent,
                    Marked(Classify(e.bodies, b, e.previous, Config.dojiPct), e, b, context),
                    Config.maxRecent)
  BY <1>4, <1>7
<1> QED
  BY <1>6, <1>7, <1>8
  DEF bodies, counter, trend, levels, breakouts, ranges, type, f

-----------------------------------------------------------------------------
(* Classifications.                                                        *)

(* The classification of the bar at a place of the history, entry bars     *)
(* after signal bars only.                                                 *)
ClassifiesAll(recent, h) ==
  LET At(i) == Len(h) - Len(recent) + i
  IN  /\ recent \in Seq(Classifications)
      /\ Len(recent) = Smaller(Len(h), Config.maxRecent)
      /\ \A i \in 1 .. Len(recent) : recent[i].type = TypeOfBar(h[At(i)], Config.dojiPct)
      /\ \A i \in 2 .. Len(recent) : recent[i].entry =>
           /\ recent[i - 1].signal
           /\ \/ h[At(i)].high > h[At(i - 1)].high
              \/ h[At(i)].low < h[At(i - 1)].low

PreviousOf(h) == IF h = <<>> THEN {} ELSE {h[Len(h)]}

LEMMA AtLeastType ==
  \A b \in BarRecords : \A part, pct \in Int : AtLeast(part, b, pct) \in BOOLEAN
<1> SUFFICES ASSUME NEW b \in BarRecords, NEW part \in Int, NEW pct \in Int
             PROVE  AtLeast(part, b, pct) \in BOOLEAN
  OBVIOUS
<1> DEFINE s == Span(b)
<1>1. s \in Int
  BY DEF BarRecords, Span
<1> HIDE DEF s
<1>2. (s = 0) \in BOOLEAN /\ (pct <= 0) \in BOOLEAN /\ (100 * part >= pct * s) \in BOOLEAN
  BY <1>1
<1> QED BY <1>2 DEF AtLeast, s

LEMMA MarkedFacts ==
  ASSUME NEW e, NEW b \in Shapes, NEW context, e.previous \subseteq BarRecords
  PROVE  LET class == Marked(Classify(e.bodies, b, e.previous, Config.dojiPct), e, b, context)
         IN  /\ class \in Classifications
             /\ class.type = TypeOfBar(b, Config.dojiPct)
             /\ class.entry => /\ FollowsSignal(e)
                               /\ \E p \in e.previous : b.high > p.high \/ b.low < p.low
<1> DEFINE plain == Classify(e.bodies, b, e.previous, Config.dojiPct)
           signal == IsSignalBar(b, context)
           entry == FollowsSignal(e) /\ \E p \in e.previous : IsEntryBar(b, p)
           class == Marked(plain, e, b, context)
           T == TypeOfBar(b, Config.dojiPct)
           Z == RelativeSize(e.bodies, b, Config.dojiPct)
           G == IF e.previous = {} THEN "None" ELSE GapTo(b, CHOOSE p \in e.previous : TRUE)
<1>1. T \in BarTypes
  BY DEF TypeOfBar, BarTypes, BullTypes, BearTypes
<1>2. Z \in {"Large", "Medium", "Small", "Doji"}
  BY DEF RelativeSize, SizeByRatio
<1>3. G \in {"None", "Up", "Down"}
  BY DEF GapTo
<1>4. HasUpperTail(b) \in BOOLEAN /\ HasLowerTail(b) \in BOOLEAN
  <2>1. b \in BarRecords
    BY BarsAreRecords
  <2>2. UpperTail(b) \in Int /\ LowerTail(b) \in Int
    BY <2>1 DEF BarRecords, UpperTail, LowerTail, Larger, Smaller
  <2> QED BY <2>1, <2>2, AtLeastType DEF HasUpperTail, HasLowerTail, ProminentPct
<1>5. signal \in BOOLEAN /\ entry \in BOOLEAN
  BY DEF IsSignalBar
<1> DEFINE R == \E p \in e.previous : IsReversal(b, p)
           I == \E p \in e.previous : IsInside(b, p)
           O == \E p \in e.previous : IsOutside(b, p)
<1>6. R \in BOOLEAN /\ I \in BOOLEAN /\ O \in BOOLEAN
  OBVIOUS
<1>7. plain = [type |-> T, size |-> Z, upperTail |-> HasUpperTail(b),
               lowerTail |-> HasLowerTail(b), signal |-> FALSE, entry |-> FALSE,
               reversal |-> R, inside |-> I, outside |-> O, gap |-> G]
  BY Zenon DEF Classify
<1>8. class = [plain EXCEPT !.signal = signal, !.entry = entry]
  BY Zenon DEF Marked
<1>9. entry => FollowsSignal(e) /\ \E p \in e.previous : b.high > p.high \/ b.low < p.low
  BY DEF IsEntryBar, BullEntry, BearEntry
<1> DEFINE up == HasUpperTail(b)
           low == HasLowerTail(b)
<1> HIDE DEF plain, signal, entry, class, T, Z, G, R, I, O, up, low
<1>10. class = [type |-> T, size |-> Z, upperTail |-> up, lowerTail |-> low,
                signal |-> signal, entry |-> entry,
                reversal |-> R, inside |-> I, outside |-> O, gap |-> G]
  BY <1>7, <1>8 DEF up, low
<1>11. class \in Classifications
  BY <1>1, <1>2, <1>3, <1>4, <1>5, <1>6, <1>10, Zenon DEF Classifications, up, low
<1>12. class.type = T /\ class.entry = entry
  BY <1>10
<1> QED BY <1>9, <1>11, <1>12 DEF class, plain, T

LEMMA ClassificationsKeepUp ==
  ASSUME NEW h \in Seq(Shapes), NEW b \in Shapes, NEW e, NEW class \in Classifications,
         ClassifiesAll(e.context.recent, h), e.previous = PreviousOf(h),
         class.type = TypeOfBar(b, Config.dojiPct),
         class.entry => /\ FollowsSignal(e)
                        /\ \E p \in e.previous : b.high > p.high \/ b.low < p.low
  PROVE  ClassifiesAll(Remember(e.context.recent, class, Config.maxRecent), Append(h, b))
<1> DEFINE r == e.context.recent
           m == Len(r)
           N == Len(h)
           g == Append(h, b)
           s == Remember(r, class, Config.maxRecent)
           k == Len(s)
<1>1. Config.maxRecent \in Nat \ {0}
  BY AnalyzerAssumption DEF AnalyzerAssumption, PAConfigs
<1>2. /\ Len(g) = N + 1 /\ N \in Nat /\ g[N + 1] = b
      /\ \A i \in 1 .. N : g[i] = h[i]
  BY HistoryGrows
<1>3. r \in Seq(Classifications) /\ m = Smaller(N, Config.maxRecent) /\ m \in Nat
  BY DEF ClassifiesAll
<1>4. /\ s \in Seq(Classifications) /\ k = Smaller(m + 1, Config.maxRecent) /\ k \in Nat
      /\ \A i \in 1 .. k : s[i] = IF i = k THEN class ELSE r[m + 1 - k + i]
  <2> HIDE DEF r
  <2>1. /\ s \in Seq(Classifications) /\ Len(s) = Smaller(Len(r) + 1, Config.maxRecent)
        /\ \A i \in 1 .. Len(s) : s[i] = IF i = Len(s) THEN class ELSE r[Len(r) + 1 - Len(s) + i]
    <3> HIDE DEF g, N, k, m
    <3>1. class \in Classifications
      OBVIOUS
    <3> DEFINE C == Classifications
               limit == Config.maxRecent
    <3>2. r \in Seq(C) /\ class \in C /\ limit \in Nat \ {0}
      BY <1>1, <1>3, <3>1
    <3> HIDE DEF C, limit
    <3>3. LET q == Remember(r, class, limit)
          IN  /\ q \in Seq(C) /\ Len(q) = Smaller(Len(r) + 1, limit)
              /\ \A i \in 1 .. Len(q) :
                   q[i] = IF i = Len(q) THEN class ELSE r[Len(r) + 1 - Len(q) + i]
      BY <3>2, RememberFacts, SMTT(30)
    <3> QED BY <3>3 DEF C, limit
  <2> HIDE DEF s
  <2> QED BY <2>1
<1>5. /\ \A i \in 1 .. m : r[i].type = TypeOfBar(h[N - m + i], Config.dojiPct)
      /\ \A i \in 2 .. m : r[i].entry =>
           /\ r[i - 1].signal
           /\ \/ h[N - m + i].high > h[N - m + (i - 1)].high
              \/ h[N - m + i].low < h[N - m + (i - 1)].low
  BY DEF ClassifiesAll
<1>6. class.entry => /\ m > 0 /\ r[m].signal
                     /\ N > 0 /\ (b.high > h[N].high \/ b.low < h[N].low)
  <2> SUFFICES ASSUME class.entry
               PROVE  /\ m > 0 /\ r[m].signal
                      /\ N > 0 /\ (b.high > h[N].high \/ b.low < h[N].low)
    OBVIOUS
  <2>1. r # <<>> /\ Last(r).signal
    BY DEF FollowsSignal
  <2>2. m > 0 /\ r[m].signal
    BY <1>3, <2>1 DEF Last
  <2>3. h # <<>> /\ PreviousOf(h) = {h[N]}
    BY DEF PreviousOf
  <2>4. N > 0
    BY <1>2, <2>3
  <2> QED BY <2>2, <2>3, <2>4
<1> HIDE DEF r, m, N, g, s, k
<1>7. k = Smaller(N + 1, Config.maxRecent) /\ k >= 1 /\ k <= m + 1 /\ m <= N
      /\ (m < N => k = m)
  BY <1>1, <1>2, <1>3, <1>4 DEF Smaller
<1>12. /\ k \in Nat /\ m \in Nat /\ N \in Nat
       /\ k <= m + 1 /\ m <= N
  BY <1>2, <1>3, <1>4, <1>7
<1>8. \A i \in 1 .. k : i # k => /\ m + 1 - k + i \in 1 .. m
                                 /\ N + 1 - k + i \in 1 .. N
                                 /\ N - m + (m + 1 - k + i) = N + 1 - k + i
  BY <1>12
<1>9. ASSUME NEW i \in 1 .. k
      PROVE  s[i].type = TypeOfBar(g[N + 1 - k + i], Config.dojiPct)
  <2>1. CASE i = k
    <3>1. N + 1 - k + i = N + 1
      BY <1>2, <1>4, <2>1
    <3> QED BY <1>2, <1>4, <2>1, <3>1
  <2>2. CASE i # k
    <3> DEFINE j == m + 1 - k + i
    <3>1. j \in 1 .. m /\ N - m + j = N + 1 - k + i /\ N + 1 - k + i \in 1 .. N
      BY <1>8, <2>2
    <3>2. s[i] = r[j]
      BY <1>4, <2>2
    <3> HIDE DEF j
    <3> QED BY <1>2, <1>5, <3>1, <3>2
  <2> QED BY <2>1, <2>2
<1>10. ASSUME NEW i \in 2 .. k, s[i].entry
       PROVE  /\ s[i - 1].signal
              /\ \/ g[N + 1 - k + i].high > g[N + 1 - k + (i - 1)].high
                 \/ g[N + 1 - k + i].low < g[N + 1 - k + (i - 1)].low
  <2>1. i \in 1 .. k /\ i - 1 \in 1 .. k /\ i - 1 # k /\ i \in Int
    BY <1>4
  <2>2. s[i - 1] = r[m + 1 - k + (i - 1)] /\ g[N + 1 - k + (i - 1)] = h[N + 1 - k + (i - 1)]
    BY <1>2, <1>4, <1>8, <2>1
  <2>3. CASE i = k
    <3>1. m + 1 - k + (i - 1) = m /\ N + 1 - k + i = N + 1 /\ N + 1 - k + (i - 1) = N
      BY <1>2, <1>3, <1>4, <2>3
    <3>2. s[i] = class /\ g[N + 1 - k + i] = b
      BY <1>2, <1>4, <2>1, <2>3, <3>1
    <3> QED BY <1>6, <1>10, <2>2, <3>1, <3>2
  <2>4. CASE i # k
    <3> DEFINE j == m + 1 - k + i
    <3>1. j \in 2 .. m /\ j - 1 = m + 1 - k + (i - 1)
      BY <1>12, <2>4
    <3>2. N - m + j = N + 1 - k + i /\ N - m + (j - 1) = N + 1 - k + (i - 1)
      BY <1>8, <2>1, <2>4, <3>1
    <3>3. s[i] = r[j] /\ g[N + 1 - k + i] = h[N + 1 - k + i]
      BY <1>2, <1>4, <1>8, <2>1, <2>4
    <3> HIDE DEF j
    <3> QED BY <1>5, <1>10, <2>2, <3>1, <3>2, <3>3
  <2> QED BY <2>3, <2>4
<1>11. Len(g) = N + 1
  BY <1>2
<1> QED
  <2>0. Len(s) = k
    BY DEF k
  <2>1. /\ \A i \in 1 .. Len(s) :
             s[i].type = TypeOfBar(g[Len(g) - Len(s) + i], Config.dojiPct)
        /\ \A i \in 2 .. Len(s) : s[i].entry =>
             /\ s[i - 1].signal
             /\ \/ g[Len(g) - Len(s) + i].high > g[Len(g) - Len(s) + (i - 1)].high
                \/ g[Len(g) - Len(s) + i].low < g[Len(g) - Len(s) + (i - 1)].low
    <3>1. ASSUME NEW i \in 1 .. Len(s)
          PROVE  s[i].type = TypeOfBar(g[Len(g) - Len(s) + i], Config.dojiPct)
      BY <1>2, <1>4, <1>9, <1>11, <2>0, SMTT(30)
    <3>2. ASSUME NEW i \in 2 .. Len(s), s[i].entry
          PROVE  /\ s[i - 1].signal
                 /\ \/ g[Len(g) - Len(s) + i].high > g[Len(g) - Len(s) + (i - 1)].high
                    \/ g[Len(g) - Len(s) + i].low < g[Len(g) - Len(s) + (i - 1)].low
      <4>1. i \in 2 .. k
        BY <2>0
      <4>2. /\ Len(g) - Len(s) + i = N + 1 - k + i
            /\ Len(g) - Len(s) + (i - 1) = N + 1 - k + (i - 1)
        <5> DEFINE bars == Len(g)
                   kinds == Len(s)
        <5>1. /\ bars = N + 1 /\ kinds = k /\ N \in Nat /\ k \in Nat /\ i \in Nat
          BY <1>2, <1>4, <1>11, <2>0, <4>1
        <5> HIDE DEF bars, kinds
        <5>2. bars - kinds + i = N + 1 - k + i /\ bars - kinds + (i - 1) = N + 1 - k + (i - 1)
          BY <5>1
        <5> QED BY <5>2 DEF bars, kinds
      <4>3. /\ s[i - 1].signal
            /\ \/ g[N + 1 - k + i].high > g[N + 1 - k + (i - 1)].high
               \/ g[N + 1 - k + i].low < g[N + 1 - k + (i - 1)].low
        BY <1>10, <3>2, <4>1
      <4> QED BY <4>2, <4>3, Zenon
    <3> QED BY <3>1, <3>2
  <2>2. ClassifiesAll(s, g)
    BY <1>4, <1>7, <1>11, <2>0, <2>1 DEF ClassifiesAll
  <2> QED BY <2>2 DEF s, g, r

-----------------------------------------------------------------------------
(* Ranges.                                                                 *)

(* The range has edges the bars touched, and the last bar closed within a  *)
(* tenth of its width.                                                     *)
Holds(r, h) ==
  /\ \E i, j \in 1 .. Len(h) : h[i].high = r.high /\ h[j].low = r.low
  /\ 10 * h[Len(h)].close <= 10 * r.high + Width(r)
  /\ 10 * h[Len(h)].close >= 10 * r.low - Width(r)

RangesFit(d, h) ==
  /\ d.seen = h /\ d.index = Len(h)
  /\ d.active \in Seq(Ranges)
  /\ \A i \in DOMAIN d.active : Holds(d.active[i], h)

(* The edges of a window of bars are edges of bars in it.                  *)
LEMMA EdgesFacts ==
  ASSUME NEW w \in Seq(Shapes), w # <<>>
  PROVE  /\ Highest(w) \in Int /\ Lowest(w) \in Int
         /\ \A i \in 1 .. Len(w) : w[i].high <= Highest(w) /\ w[i].low >= Lowest(w)
         /\ \E i \in 1 .. Len(w) : w[i].high = Highest(w)
         /\ \E i \in 1 .. Len(w) : w[i].low = Lowest(w)
<1> DEFINE D == 1 .. Len(w)
           H == {w[i].high : i \in D}
           L == {w[i].low : i \in D}
<1>1. DOMAIN w = D /\ Len(w) \in Nat /\ 1 \in D
  OBVIOUS
<1>2. \A i \in D : w[i].high \in Int /\ w[i].low \in Int
  BY BarFacts
<1>3. IsFiniteSet(D)
  BY <1>1, FS_Interval
<1>4. IsFiniteSet(H) /\ IsFiniteSet(L)
  <2>1. [i \in D |-> w[i].high] \in Surjection(D, H) /\ [i \in D |-> w[i].low] \in Surjection(D, L)
    BY DEF Surjection
  <2> HIDE DEF D, H, L
  <2> QED BY <1>3, <2>1, FS_Surjection
<1>5. H \in SUBSET Int /\ H # {} /\ L \in SUBSET Int /\ L # {}
  BY <1>1, <1>2
<1>6. Highest(w) = Max(H) /\ Lowest(w) = Min(L)
  BY <1>1, Zenon DEF Highest, Lowest
<1>7. Max(H) \in H /\ \A x \in H : x <= Max(H)
  <2> HIDE DEF H, L
  <2>1. PICK m \in H : \A x \in H : x <= m
    BY <1>4, <1>5, BoundsExist
  <2>2. Max(H) = m
    BY <1>5, <2>1, MaxIs
  <2> QED BY <2>1, <2>2
<1>8. Min(L) \in L /\ \A x \in L : x >= Min(L)
  <2> HIDE DEF H, L
  <2>1. PICK m \in L : \A x \in L : x >= m
    BY <1>4, <1>5, BoundsExist
  <2>2. Min(L) = m
    BY <1>5, <2>1, MinIs
  <2> QED BY <2>1, <2>2
<1> HIDE DEF Highest, Lowest
<1> QED BY <1>2, <1>6, <1>7, <1>8


(* A range that is kept still holds, and so does a new one. *)
LEMMA KeptRangeHolds ==
  ASSUME NEW h \in Seq(Shapes), NEW b \in Shapes, NEW r \in Ranges,
         Holds(r, h), ~ BrokenBy(r, b)
  PROVE  Holds(r, Append(h, b))
<1> DEFINE g == Append(h, b)
<1>1. /\ Len(g) = Len(h) + 1 /\ Len(h) \in Nat /\ g[Len(h) + 1] = b
      /\ \A i \in 1 .. Len(h) : g[i] = h[i]
  BY HistoryGrows
<1>2. b.close \in Int /\ r.high \in Int /\ r.low \in Int
  BY BarFacts DEF Ranges
<1>3. PICK i, j \in 1 .. Len(h) : h[i].high = r.high /\ h[j].low = r.low
  BY DEF Holds
<1> HIDE DEF g
<1>4. \E k, l \in 1 .. Len(g) : g[k].high = r.high /\ g[l].low = r.low
  <2>1. i \in 1 .. Len(g) /\ j \in 1 .. Len(g) /\ g[i].high = r.high /\ g[j].low = r.low
    BY <1>1, <1>3
  <2> QED BY <2>1
<1>5. g[Len(g)] = b
  BY <1>1
<1>6. 10 * b.close <= 10 * r.high + Width(r) /\ 10 * b.close >= 10 * r.low - Width(r)
  <2> DEFINE x == b.close
             y == r.high
             z == r.low
  <2>1. ~ (10 * (x - y) > y - z) /\ ~ (10 * (z - x) > y - z)
    BY DEF BrokenBy, Width
  <2>2. x \in Int /\ y \in Int /\ z \in Int
    BY <1>2
  <2> HIDE DEF x, y, z
  <2>3. 10 * x <= 10 * y + (y - z) /\ 10 * x >= 10 * z - (y - z)
    BY <2>1, <2>2
  <2> QED BY <2>3 DEF Width, x, y, z
<1> QED BY <1>4, <1>5, <1>6 DEF Holds, g

LEMMA NewRangeHolds ==
  ASSUME NEW h \in Seq(Shapes), NEW b \in Shapes, NEW n \in Nat \ {0},
         n <= Len(h) + 1, NEW index \in Nat
  PROVE  LET g == Append(h, b)
             w == SubSeq(g, Larger(1, Len(g) - n + 1), Len(g))
             r == RangeOf(w, index)
         IN  Highest(w) > Lowest(w) =>
               /\ r \in Ranges /\ Holds(r, g)
               /\ \A s \in Nat : [r EXCEPT !.start = s] \in Ranges
                                 /\ Holds([r EXCEPT !.start = s], g)
<1> DEFINE g == Append(h, b)
           first == Larger(1, Len(g) - n + 1)
           w == SubSeq(g, first, Len(g))
           r == RangeOf(w, index)
<1> SUFFICES ASSUME Highest(w) > Lowest(w)
             PROVE  /\ r \in Ranges /\ Holds(r, g)
                    /\ \A s \in Nat : [r EXCEPT !.start = s] \in Ranges
                                      /\ Holds([r EXCEPT !.start = s], g)
  OBVIOUS
<1>1. g \in Seq(Shapes) /\ Len(g) = Len(h) + 1 /\ Len(h) \in Nat /\ g[Len(h) + 1] = b
  BY HistoryGrows
<1> DEFINE N == Len(g)
<1>2. N \in Nat /\ N >= 1 /\ n <= N /\ g[N] = b
  <2> HIDE DEF g
  <2> QED BY <1>1
<1>3. first \in 1 .. N
  <2>1. first = IF 1 > N - n + 1 THEN 1 ELSE N - n + 1
    BY DEF Larger
  <2> HIDE DEF first, N, g
  <2> QED BY <1>2, <2>1
<1> HIDE DEF first, g
<1>4. /\ w \in Seq(Shapes) /\ Len(w) = N - first + 1
      /\ \A i \in 1 .. Len(w) : w[i] = g[first + i - 1] /\ first + i - 1 \in 1 .. N
  BY <1>1, <1>2, <1>3
<1> HIDE DEF w, N
<1>5. Len(w) \in 1 .. N /\ w # <<>> /\ w[Len(w)] = b
  <2>1. Len(w) \in 1 .. N
    BY <1>2, <1>3, <1>4
  <2>2. first + Len(w) - 1 = N
    BY <1>2, <1>3, <1>4
  <2>3. w[Len(w)] = g[N]
    BY <1>2, <1>4, <2>1, <2>2
  <2> QED BY <1>2, <2>1, <2>3
<1> DEFINE hi == Highest(w)
           lo == Lowest(w)
<1>6. /\ hi \in Int /\ lo \in Int
      /\ b.high <= hi /\ b.low >= lo
      /\ \E i \in 1 .. Len(w) : w[i].high = hi
      /\ \E i \in 1 .. Len(w) : w[i].low = lo
  <2>1. /\ hi \in Int /\ lo \in Int
        /\ \A i \in 1 .. Len(w) : w[i].high <= hi /\ w[i].low >= lo
        /\ \E i \in 1 .. Len(w) : w[i].high = hi
        /\ \E i \in 1 .. Len(w) : w[i].low = lo
    BY <1>4, <1>5, EdgesFacts
  <2> HIDE DEF hi, lo
  <2>2. Len(w) \in 1 .. Len(w)
    BY <1>2, <1>5
  <2> QED BY <1>5, <2>1, <2>2
<1>7. /\ \E i \in 1 .. N : g[i].high = hi
      /\ \E i \in 1 .. N : g[i].low = lo
  BY <1>4, <1>6
<1>8. 10 * b.close <= 10 * hi + (hi - lo) /\ 10 * b.close >= 10 * lo - (hi - lo)
  <2>1. /\ b.close \in Int /\ b.low \in Int /\ b.high \in Int
        /\ b.low <= b.close /\ b.close <= b.high
    BY BarFacts
  <2>2. hi > lo
    OBVIOUS
  <2> HIDE DEF hi, lo
  <2> QED BY <1>6, <2>1, <2>2, SMTT(30)
<1> DEFINE start == Larger(0, index - Len(w))
           tight == IsTight(w)
<1>9. start \in Nat /\ Len(w) \in Nat
  <2>1. Len(w) \in Nat
    BY <1>2, <1>5
  <2> QED BY <2>1 DEF Larger
<1>10. tight \in BOOLEAN
  BY DEF IsTight
<1>11. r = [high |-> hi, low |-> lo, start |-> start, bars |-> Len(w), tight |-> tight]
  BY DEF RangeOf
<1> HIDE DEF hi, lo, start, tight, r
<1>12. ASSUME NEW s \in Nat
       PROVE  [high |-> hi, low |-> lo, start |-> s, bars |-> Len(w), tight |-> tight]
                \in {q \in Ranges : Holds(q, g)}
  <2> DEFINE q == [high |-> hi, low |-> lo, start |-> s, bars |-> Len(w), tight |-> tight]
  <2>1. q \in Ranges
    BY <1>6, <1>9, <1>10, Zenon DEF Ranges
  <2>2. q.high = hi /\ q.low = lo
    OBVIOUS
  <2> HIDE DEF q
  <2>3. Holds(q, g)
    BY <1>2, <1>7, <1>8, <2>2 DEF Holds, Width, N
  <2> QED BY <2>1, <2>3 DEF q
<1>13. r \in Ranges /\ Holds(r, g)
  BY <1>9, <1>11, <1>12
<1>14. ASSUME NEW s \in Nat
       PROVE  [r EXCEPT !.start = s] \in Ranges /\ Holds([r EXCEPT !.start = s], g)
  <2>1. [r EXCEPT !.start = s]
          = [high |-> hi, low |-> lo, start |-> s, bars |-> Len(w), tight |-> tight]
    BY <1>11
  <2> QED BY <1>12, <2>1
<1> QED BY <1>13, <1>14

LEMMA RangesKeepFitting ==
  ASSUME NEW h \in Seq(Shapes), NEW b \in Shapes, NEW d, RangesFit(d, h), NEW state
  PROVE  RangesFit(UpdateRanges(d, b, state, Config.minRangeBars), Append(h, b))
<1> DEFINE g == Append(h, b)
           n == Config.minRangeBars
           places == {i \in DOMAIN d.active : ~ BrokenBy(d.active[i], b)}
           kept == Selected(d.active, places)
           w == SubSeq(g, Larger(1, Len(g) - n + 1), Len(g))
           new == RangeOf(w, d.index)
           looked == state = "TradingRange" /\ Len(g) >= n /\ Highest(w) > Lowest(w)
           u == UpdateRanges(d, b, state, n)
           Good == {r \in Ranges : Holds(r, g)}
<1>1. /\ g \in Seq(Shapes) /\ Len(g) = Len(h) + 1 /\ Len(h) \in Nat
  BY HistoryGrows
<1>2. n \in Nat \ {0}
  BY AnalyzerAssumption DEF AnalyzerAssumption, PAConfigs
<1>3. d.seen = h /\ d.index = Len(h) /\ d.active \in Seq(Ranges)
      /\ \A i \in DOMAIN d.active : Holds(d.active[i], h)
  BY DEF RangesFit
<1>4. u.seen = g /\ u.index = Len(g) /\ u.active = IF looked THEN AddRange(kept, new) ELSE kept
  <2>1. u.seen = Append(d.seen, b) /\ u.index = d.index + 1
    BY DEF UpdateRanges
  <2>2. u.active = IF looked THEN AddRange(kept, new) ELSE kept
    BY <1>3, Zenon DEF UpdateRanges
  <2> QED BY <1>1, <1>3, <2>1, <2>2
<1>5. kept \in Seq(Good)
  <2>1. kept \in Seq(Ranges) /\ \A k \in DOMAIN kept : \E i \in places : kept[k] = d.active[i]
    <3>1. places \in SUBSET (DOMAIN d.active)
      OBVIOUS
    <3> HIDE DEF places
    <3> QED BY <1>3, <3>1, SelectedFacts
  <2> HIDE DEF kept
  <2>2. ASSUME NEW k \in DOMAIN kept PROVE kept[k] \in Good
    <3>1. PICK i \in places : kept[k] = d.active[i]
      BY <2>1
    <3>2. d.active[i] \in Ranges /\ Holds(d.active[i], h) /\ ~ BrokenBy(d.active[i], b)
      BY <1>3
    <3> QED BY <3>1, <3>2, KeptRangeHolds
  <2> HIDE DEF Good
  <2> QED BY <2>1, <2>2
<1>6. looked => /\ new \in Good /\ \A s \in Nat : [new EXCEPT !.start = s] \in Good
  <2>1. Len(g) >= n => n <= Len(h) + 1
    BY <1>1, <1>2
  <2>2. d.index \in Nat
    BY <1>1, <1>3
  <2> HIDE DEF n
  <2> QED BY <1>2, <2>1, <2>2, NewRangeHolds
<1> HIDE DEF kept, new, looked, u
<1>7. u.active \in Seq(Good)
  <2>1. CASE looked
    <3>1. CASE kept # <<>> /\ SameRange(Last(kept), new)
      <4>1. u.active = Append(Front(kept), [new EXCEPT !.start = Last(kept).start])
        BY <1>4, <2>1, <3>1 DEF AddRange
      <4>2. Last(kept) \in Ranges
        BY <1>5, <3>1 DEF Last
      <4>3. Last(kept).start \in Nat
        BY <4>2 DEF Ranges
      <4> HIDE DEF Good
      <4>4. Front(kept) \in Seq(Good)
        <5>1. Len(kept) \in Nat /\ Len(kept) > 0
          BY <1>5, <3>1
        <5> QED BY <1>5, <5>1 DEF Front
      <4> QED BY <1>6, <2>1, <4>1, <4>3, <4>4
    <3>2. CASE ~ (kept # <<>> /\ SameRange(Last(kept), new))
      <4>1. u.active = Append(kept, new)
        BY <1>4, <2>1, <3>2 DEF AddRange
      <4> HIDE DEF Good
      <4> QED BY <1>5, <1>6, <2>1, <4>1
    <3> QED BY <3>1, <3>2
  <2>2. CASE ~ looked
    BY <1>4, <1>5, <2>2
  <2> QED BY <2>1, <2>2
<1>8. u.active \in Seq(Ranges) /\ \A i \in DOMAIN u.active : Holds(u.active[i], g)
  BY <1>7
<1> QED BY <1>4, <1>8 DEF RangesFit, u, g, n


-----------------------------------------------------------------------------
(* Levels.                                                                 *)

LEMMA ExceptType ==
  ASSUME NEW S, NEW s \in Seq(S), NEW i \in 1 .. Len(s), NEW x \in S
  PROVE  [s EXCEPT ![i] = x] \in Seq(S)
<1>1. s \in [1 .. Len(s) -> S] /\ Len(s) \in Nat
  OBVIOUS
<1>2. [s EXCEPT ![i] = x] \in [1 .. Len(s) -> S]
  BY <1>1
<1> QED BY <1>1, <1>2

LEMMA LevelFields ==
  ASSUME NEW l \in Levels
  PROVE  /\ l.price \in Int /\ l.strength \in Nat /\ l.first \in Nat /\ l.last \in Nat
         /\ l = [price |-> l.price, type |-> l.type, strength |-> l.strength,
                 first |-> l.first, last |-> l.last]
BY DEF Levels

LEMMA StrengthenedType ==
  ASSUME NEW l \in Levels, NEW price \in Int, NEW time \in Nat
  PROVE  Strengthened(l, price, time) \in Levels
<1> DEFINE halfway == (l.price + price) \div 2
<1>1. /\ l.price \in Int /\ l.strength \in Nat /\ l.first \in Nat
      /\ l = [price |-> l.price, type |-> l.type, strength |-> l.strength,
              first |-> l.first, last |-> l.last]
  BY LevelFields
<1>2. l.type \in {"SwingHigh", "SwingLow"}
  BY Zenon DEF Levels
<1>3. halfway \in Int /\ l.strength + 1 \in Nat
  BY <1>1
<1>4. Strengthened(l, price, time)
        = [l EXCEPT !.strength = l.strength + 1, !.last = time, !.price = halfway]
  BY DEF Strengthened
<1> HIDE DEF halfway
<1>5. Strengthened(l, price, time)
        = [price |-> halfway, type |-> l.type, strength |-> l.strength + 1,
           first |-> l.first, last |-> time]
  BY <1>1, <1>4
<1> QED BY <1>1, <1>2, <1>3, <1>5 DEF Levels

LEMMA AddOrStrengthenType ==
  ASSUME NEW levels \in Seq(Levels), NEW price \in Int,
         NEW type \in {"SwingHigh", "SwingLow"}, NEW time \in Nat, NEW tolerance
  PROVE  AddOrStrengthen(levels, price, type, time, tolerance) \in Seq(Levels)
<1> DEFINE I == {i \in 1 .. Len(levels) : Magnitude(levels[i].price - price) <= tolerance}
           near == SelectInSeq(levels, LAMBDA l : Magnitude(l.price - price) <= tolerance)
<1>1. near = IF I # {} THEN Min(I) ELSE 0
  BY DEF SelectInSeq
<1>2. CASE I = {}
  <2>1. near = 0
    BY <1>1, <1>2
  <2>2. [price |-> price, type |-> type, strength |-> 1, first |-> time, last |-> time]
          \in Levels
    BY DEF Levels
  <2> HIDE DEF near
  <2> QED BY <2>1, <2>2 DEF AddOrStrengthen, near
<1>3. CASE I # {}
  <2>1. Min(I) \in I
    <3>1. I \in SUBSET Nat
      OBVIOUS
    <3> HIDE DEF I
    <3>2. \E m \in I : \A n \in I : m <= n
      BY <1>3, <3>1, LeastNatural
    <3> QED BY <3>2, Zenon DEF Min
  <2>2. near \in 1 .. Len(levels) /\ near > 0
    <3>1. near \in I
      BY <1>1, <1>3, <2>1
    <3> HIDE DEF near
    <3> QED BY <3>1
  <2> HIDE DEF near, I
  <2>3. Strengthened(levels[near], price, time) \in Levels
    BY <2>2, StrengthenedType
  <2>4. AddOrStrengthen(levels, price, type, time, tolerance)
          = [levels EXCEPT ![near] = Strengthened(levels[near], price, time)]
    BY <2>2 DEF AddOrStrengthen, near
  <2> DEFINE k == Strengthened(levels[near], price, time)
  <2>5. near \in 1 .. Len(levels) /\ k \in Levels
    BY <2>2, <2>3
  <2>6. [levels EXCEPT ![near] = k] \in Seq(Levels)
    <3> HIDE DEF k
    <3> QED BY <2>5, ExceptType
  <2> QED BY <2>4, <2>6
<1> QED BY <1>2, <1>3

LEMMA CheckTouchesType ==
  ASSUME NEW levels \in Seq(Levels), NEW b, NEW time \in Nat
  PROVE  CheckTouches(levels, b, time) \in Seq(Levels)
<1> DEFINE touched(l) == [l EXCEPT !.strength = @ + 1, !.last = time]
<1>1. ASSUME NEW l \in Levels PROVE touched(l) \in Levels
  <2>1. /\ l.price \in Int /\ l.strength \in Nat /\ l.first \in Nat
        /\ l = [price |-> l.price, type |-> l.type, strength |-> l.strength,
                first |-> l.first, last |-> l.last]
    BY LevelFields
  <2>2. l.type \in {"SwingHigh", "SwingLow"}
    BY Zenon DEF Levels
  <2>3. touched(l) = [l EXCEPT !.strength = l.strength + 1, !.last = time]
    OBVIOUS
  <2> HIDE DEF touched
  <2>4. touched(l) = [price |-> l.price, type |-> l.type, strength |-> l.strength + 1,
                      first |-> l.first, last |-> time]
    BY <2>1, <2>3
  <2> QED BY <2>1, <2>2, <2>4 DEF Levels
<1>2. levels \in [1 .. Len(levels) -> Levels] /\ Len(levels) \in Nat
  OBVIOUS
<1>3. CheckTouches(levels, b, time)
        = [i \in 1 .. Len(levels) |->
             IF Touches(b, levels[i].price) THEN touched(levels[i]) ELSE levels[i]]
  BY <1>2 DEF CheckTouches
<1> HIDE DEF touched
<1>4. \A i \in 1 .. Len(levels) :
        (IF Touches(b, levels[i].price) THEN touched(levels[i]) ELSE levels[i]) \in Levels
  BY <1>1, <1>2
<1>5. CheckTouches(levels, b, time) \in [1 .. Len(levels) -> Levels]
  BY <1>3, <1>4
<1> QED BY <1>2, <1>5

(* The pruned list takes the strongest of the levels, one for each rank.   *)
LEMMA PrunedType ==
  ASSUME NEW levels \in Seq(Levels)
  PROVE  Pruned(levels) \in Seq(Levels) /\ Len(Pruned(levels)) <= MaxLevels
<1>1. CASE Len(levels) <= MaxLevels
  BY <1>1 DEF Pruned
<1>2. CASE ~ (Len(levels) <= MaxLevels)
  <2> DEFINE D == DOMAIN levels
             R == {p \in D \X D : StrongerThan(levels, p[1], p[2])}
             Rank(i) == Cardinality({j \in D : StrongerThan(levels, j, i)}) + 1
             Chosen_(k) == CHOOSE i \in D : Rank(i) = k
  <2>0. D = 1 .. Len(levels) /\ Len(levels) \in Nat
    OBVIOUS
  <2>1. IsFiniteSet(D) /\ Cardinality(D) = Len(levels)
    <3> HIDE DEF D
    <3>1. IsFiniteSet(1 .. Len(levels)) /\ Cardinality(1 .. Len(levels)) = Len(levels)
      BY <2>0, FS_Interval, SMTT(30)
    <3> QED BY <2>0, <3>1
  <2>2. OrdersStrictly(R, D)
    <3>1. \A i \in D : levels[i].strength \in Int /\ levels[i].last \in Nat /\ i \in Int
      BY LevelFields
    <3>2. \A i, j \in D : i # j => StrongerThan(levels, i, j) \/ StrongerThan(levels, j, i)
      BY <3>1 DEF StrongerThan
    <3>3. \A i, j, k \in D : StrongerThan(levels, i, j) /\ StrongerThan(levels, j, k)
                               => StrongerThan(levels, i, k)
      BY <3>1 DEF StrongerThan
    <3>4. \A i \in D : ~ StrongerThan(levels, i, i)
      BY <3>1 DEF StrongerThan
    <3>5. \A i, j \in D : <<i, j>> \in R <=> StrongerThan(levels, i, j)
      OBVIOUS
    <3> HIDE DEF R, D
    <3> QED BY <3>2, <3>3, <3>4, <3>5 DEF OrdersStrictly
  <2>3. ASSUME NEW k \in 1 .. MaxLevels PROVE levels[Chosen_(k)] \in Levels
    <3>1. k - 1 \in Nat /\ k - 1 < Cardinality(D)
      BY <1>2, <2>0, <2>1, LevelsAssumption DEF LevelsAssumption
    <3>2. \E i \in D : Cardinality(BelowIn(i, R, D)) = k - 1
      <4> HIDE DEF D, R
      <4> QED BY <2>1, <2>2, <3>1, RanksAreTaken
    <3>3. \A i \in D : BelowIn(i, R, D) = {j \in D : StrongerThan(levels, j, i)}
      BY DEF BelowIn
    <3>4. \E i \in D : Rank(i) = k
      <4> HIDE DEF D, R
      <4>1. PICK i \in D : Cardinality(BelowIn(i, R, D)) = k - 1
        BY <3>2
      <4>2. Rank(i) = (k - 1) + 1
        BY <3>3, <4>1
      <4>3. k \in Int
        OBVIOUS
      <4>4. Rank(i) = k
        <5> HIDE DEF Rank
        <5> QED BY <4>2, <4>3
      <4> QED BY <4>1, <4>4
    <3>5. Chosen_(k) \in D
      <4> HIDE DEF D, Rank
      <4> QED BY <3>4
    <3> HIDE DEF Chosen_
    <3> QED BY <3>5
  <2>4. Pruned(levels) = [k \in 1 .. MaxLevels |-> levels[Chosen_(k)]]
    BY <1>2 DEF Pruned
  <2>5. MaxLevels \in Nat
    BY LevelsAssumption DEF LevelsAssumption
  <2> HIDE DEF Chosen_
  <2>6. [k \in 1 .. MaxLevels |-> levels[Chosen_(k)]] \in [1 .. MaxLevels -> Levels]
    BY <2>3
  <2> DEFINE list == [k \in 1 .. MaxLevels |-> levels[Chosen_(k)]]
  <2>7. list \in Seq(Levels) /\ Len(list) = MaxLevels
    <3>1. DOMAIN list = 1 .. MaxLevels
      OBVIOUS
    <3> HIDE DEF list
    <3> QED BY <2>5, <2>6, <3>1 DEF list
  <2> HIDE DEF list
  <2> QED BY <2>4, <2>5, <2>7 DEF list
<1> QED BY <1>1, <1>2

LEMMA UpdateLevelsType ==
  ASSUME NEW levels \in Seq(Levels), NEW b, NEW time \in Nat,
         NEW highs \in Seq(SwingPoints), NEW lows \in Seq(SwingPoints), NEW tolerance
  PROVE  LET updated == UpdateLevels(levels, b, time, highs, lows, tolerance)
         IN  updated \in Seq(Levels) /\ Len(updated) <= MaxLevels
<1>1. ASSUME NEW points \in Seq(SwingPoints), points # <<>>
      PROVE  Last(points).price \in Int /\ Last(points).index \in Nat
  <2>1. Last(points) \in SwingPoints
    BY <1>1 DEF Last
  <2> QED BY <2>1, Zenon DEF SwingPoints
<1> DEFINE afterHigh ==
             IF highs = <<>> THEN levels
             ELSE AddOrStrengthen(levels, Last(highs).price, "SwingHigh", Last(highs).index,
                                  tolerance)
           afterLow ==
             IF lows = <<>> THEN afterHigh
             ELSE AddOrStrengthen(afterHigh, Last(lows).price, "SwingLow", Last(lows).index,
                                  tolerance)
<1>2. afterHigh \in Seq(Levels)
  BY <1>1, AddOrStrengthenType
<1>3. afterLow \in Seq(Levels)
  <2> HIDE DEF afterHigh
  <2> QED BY <1>1, <1>2, AddOrStrengthenType
<1>4. UpdateLevels(levels, b, time, highs, lows, tolerance)
        = Pruned(CheckTouches(afterLow, b, time))
  BY DEF UpdateLevels
<1> HIDE DEF afterLow
<1> QED BY <1>3, <1>4, CheckTouchesType, PrunedType

-----------------------------------------------------------------------------
(* The engine.                                                             *)

-----------------------------------------------------------------------------
(* Swing points.                                                           *)

(* The window of bars the trend keeps. *)
WindowFits(t, h) ==
  /\ t.recent \in Seq(Shapes) /\ t.index = Len(h)
  /\ Len(t.recent) = Smaller(Len(h), MaxBars)
  /\ \A i \in 1 .. Len(t.recent) : t.recent[i] = h[Len(h) - Len(t.recent) + i]

HighsOf(h) == [i \in 1 .. Len(h) |-> h[i].high]
LowsOf(h) == [i \in 1 .. Len(h) |-> h[i].low]

(* Lows that fall are heights that rise, so that one account does for both. *)
DepthsOf(h) == [i \in 1 .. Len(h) |-> - h[i].low]

TurningIn(heights) ==
  {i \in Config.lookback .. Len(heights) - 1 - Config.lookback :
     \A j \in Around(i) : heights[j + 1] < heights[i + 1]}

(* The points are the latest of the turning places, in their order, each   *)
(* with its price.                                                         *)
PointsFit(points, places, prices) ==
  /\ points \in Seq(SwingPoints) /\ Len(points) <= MaxSwings
  /\ \A k \in 1 .. Len(points) :
       /\ points[k].index \in places
       /\ points[k].price = prices[points[k].index + 1]
       /\ Cardinality({j \in places : j > points[k].index}) = Len(points) - k
  /\ \A i \in Latest(places, MaxSwings) : \E k \in 1 .. Len(points) : points[k].index = i

SwingsFit(t, h) ==
  /\ PointsFit(t.highs, TurningIn(HighsOf(h)), HighsOf(h))
  /\ PointsFit(t.lows, TurningIn(DepthsOf(h)), LowsOf(h))

LEMMA TurningPlaces ==
  ASSUME NEW v \in Seq(Int)
  PROVE  /\ TurningIn(v) \in SUBSET (0 .. Len(v) - 1 - Config.lookback)
         /\ IsFiniteSet(TurningIn(v))
<1>1. Config.lookback \in Nat /\ Len(v) \in Nat
  BY AnalyzerAssumption DEF AnalyzerAssumption, PAConfigs
<1> DEFINE L == Config.lookback
<1>2. TurningIn(v) \in SUBSET (L .. Len(v) - 1 - L)
  BY DEF TurningIn
<1> HIDE DEF L
<1>3. IsFiniteSet(L .. Len(v) - 1 - L) /\ L \in Nat
  BY <1>1, FS_Interval, SMTT(30) DEF L
<1>4. IsFiniteSet(TurningIn(v))
  BY <1>2, <1>3, FS_Subset, Zenon
<1>5. TurningIn(v) \in SUBSET (0 .. Len(v) - 1 - L)
  BY <1>1, <1>2, <1>3
<1> QED BY <1>4, <1>5 DEF L

(* With one bar more, one place more may prove a turning point. *)
LEMMA TurningGrows ==
  ASSUME NEW v \in Seq(Int), NEW x \in Int
  PROVE  LET n == Len(v) - Config.lookback
             w == Append(v, x)
             turns == /\ n >= Config.lookback
                      /\ \A j \in Around(n) : w[j + 1] < w[n + 1]
         IN  TurningIn(w) = TurningIn(v) \union IF turns THEN {n} ELSE {}
<1> DEFINE L == Config.lookback
           N == Len(v)
           n == N - L
           w == Append(v, x)
           turns == n >= L /\ \A j \in Around(n) : w[j + 1] < w[n + 1]
<1>1. L \in Nat /\ N \in Nat /\ Len(w) = N + 1 /\ \A i \in 1 .. N : w[i] = v[i]
  BY AnalyzerAssumption DEF AnalyzerAssumption, PAConfigs
<1>2. /\ TurningIn(w) = {i \in L .. Len(w) - 1 - L : \A j \in Around(i) : w[j + 1] < w[i + 1]}
      /\ TurningIn(v) = {i \in L .. N - 1 - L : \A j \in Around(i) : v[j + 1] < v[i + 1]}
  BY DEF TurningIn
<1>3. \A i : Around(i) = (i - L .. i + L) \ {i}
  BY DEF Around
<1> HIDE DEF L, N, w, n
<1>4. L .. Len(w) - 1 - L = (L .. N - 1 - L) \union IF n >= L THEN {n} ELSE {}
  BY <1>1 DEF n
<1>5. ASSUME NEW i \in L .. N - 1 - L
      PROVE  w[i + 1] = v[i + 1] /\ \A j \in Around(i) : w[j + 1] = v[j + 1]
  <2>1. i + 1 \in 1 .. N /\ \A j \in (i - L .. i + L) \ {i} : j + 1 \in 1 .. N
    BY <1>1
  <2> QED BY <1>1, <1>3, <2>1
<1>6. n \in Int /\ n \notin L .. N - 1 - L
  BY <1>1 DEF n
<1>7. TurningIn(w) = TurningIn(v) \union IF turns THEN {n} ELSE {}
  BY <1>2, <1>4, <1>5, <1>6
<1> QED BY <1>7 DEF w, n, N, L

(* The latest points stay the latest when a later one joins them. *)
LEMMA PointsKeepUp ==
  ASSUME NEW points, NEW places \in SUBSET Nat, IsFiniteSet(places), NEW prices,
         PointsFit(points, places, prices),
         NEW n \in Nat, \A i \in places : i < n,
         NEW g, \A i \in places : g[i + 1] = prices[i + 1], g[n + 1] \in Int
  PROVE  PointsFit(Remember(points, [price |-> g[n + 1], index |-> n], MaxSwings),
                   places \union {n}, g)
<1> DEFINE new == [price |-> g[n + 1], index |-> n]
           r == Remember(points, new, MaxSwings)
           all == places \union {n}
           m == Len(points)
           k == Len(r)
           After(i) == {j \in places : j > i}
           AfterAll(i) == {j \in all : j > i}
<1>1. points \in Seq(SwingPoints) /\ m \in Nat /\ m <= MaxSwings /\ MaxSwings \in Nat \ {0}
  BY TrendAssumption DEF TrendAssumption, PointsFit
<1>2. new \in SwingPoints
  BY DEF SwingPoints
<1>3. \A q \in 1 .. m : /\ points[q].index \in places
                        /\ points[q].price = prices[points[q].index + 1]
                        /\ Cardinality(After(points[q].index)) = m - q
  BY DEF PointsFit
<1>4. /\ r \in Seq(SwingPoints) /\ k = Smaller(m + 1, MaxSwings) /\ k \in Nat
      /\ \A i \in 1 .. k : r[i] = IF i = k THEN new ELSE points[m + 1 - k + i]
  <2> HIDE DEF new
  <2> QED BY <1>1, <1>2, RememberFacts, SMTT(30)
<1>5. new.index = n /\ new.price = g[n + 1]
  OBVIOUS
<1>6. ASSUME NEW i \in places
      PROVE  /\ Cardinality(After(i)) \in Nat
             /\ Cardinality(AfterAll(i)) = Cardinality(After(i)) + 1
  <2>1. IsFiniteSet(After(i)) /\ n \notin After(i)
    BY FS_Subset
  <2>2. AfterAll(i) = After(i) \union {n}
    OBVIOUS
  <2> QED BY <2>1, <2>2, FS_AddElement, FS_CardinalityType
<1>7. Cardinality(AfterAll(n)) = 0
  <2>1. AfterAll(n) = {}
    <3>1. ASSUME NEW j \in all PROVE ~ (j > n)
      <4>1. j \in Nat /\ (j < n \/ j = n)
        OBVIOUS
      <4> HIDE DEF all
      <4> QED BY <4>1
    <3> HIDE DEF all
    <3> QED BY <3>1
  <2> QED BY <2>1, FS_EmptySet
<1> HIDE DEF new, r, m, k, After, AfterAll
<1>8. k >= 1 /\ k <= m + 1 /\ k <= MaxSwings /\ (k = m + 1 \/ k = MaxSwings)
  BY <1>1, <1>4 DEF Smaller
<1>9. ASSUME NEW i \in 1 .. k
      PROVE  /\ r[i].index \in all
             /\ r[i].price = g[r[i].index + 1]
             /\ Cardinality(AfterAll(r[i].index)) = k - i
  <2>1. CASE i = k
    <3>1. r[i] = new
      BY <1>4, <2>1
    <3>2. k - i = 0
      BY <1>4, <2>1
    <3> QED BY <1>5, <1>7, <3>1, <3>2
  <2>2. CASE i # k
    <3> DEFINE q == m + 1 - k + i
    <3>1. q \in 1 .. m /\ m - q + 1 = k - i
      BY <1>1, <1>4, <1>8, <2>2, SMTT(30)
    <3>2. r[i] = points[q]
      BY <1>4, <2>2
    <3> HIDE DEF q
    <3>3. r[i].index \in places /\ r[i].price = g[r[i].index + 1]
      BY <1>3, <3>1, <3>2
    <3>4. Cardinality(AfterAll(r[i].index)) = (m - q) + 1
      BY <1>3, <1>6, <3>1, <3>2
    <3> QED BY <3>1, <3>3, <3>4
  <2> QED BY <2>1, <2>2
<1>10. ASSUME NEW i \in Latest(all, MaxSwings)
       PROVE  \E q \in 1 .. k : r[q].index = i
  <2>1. i \in all /\ Cardinality(AfterAll(i)) < MaxSwings
    BY DEF Latest, AfterAll
  <2>2. CASE i = n
    <3>1. k \in 1 .. k /\ r[k].index = n
      BY <1>4, <1>5, <1>8
    <3> QED BY <2>2, <3>1
  <2>3. CASE i # n
    <3>1. i \in places
      BY <2>1, <2>3
    <3>2. Cardinality(After(i)) + 1 < MaxSwings /\ Cardinality(After(i)) \in Nat
      BY <1>6, <2>1, <3>1
    <3>3. i \in Latest(places, MaxSwings)
      <4>1. Cardinality(After(i)) < MaxSwings
        BY <1>1, <3>2
      <4> QED BY <3>1, <4>1 DEF Latest, After
    <3>4. PICK q \in 1 .. m : points[q].index = i
      BY <3>3 DEF PointsFit, m
    <3>5. Cardinality(After(i)) = m - q
      BY <1>3, <3>4
    <3> DEFINE p == q - (m + 1 - k)
    <3>6. p \in 1 .. k /\ p # k /\ m + 1 - k + p = q
      BY <1>1, <1>4, <1>8, <3>2, <3>5, SMTT(30)
    <3>7. r[p] = points[q]
      BY <1>4, <3>6
    <3> QED BY <3>4, <3>6, <3>7
  <2> QED BY <2>2, <2>3
<1> QED
  <2>1. Len(r) = k
    BY DEF k
  <2>2. PointsFit(r, all, g)
    BY <1>4, <1>8, <1>9, <1>10, <2>1 DEF PointsFit, AfterAll
  <2> QED BY <2>2 DEF r, new

(* Prices that are added later do not matter. *)
LEMMA PointsStayAsTheyAre ==
  ASSUME NEW points, NEW places, NEW prices, PointsFit(points, places, prices),
         NEW g, \A i \in places : g[i + 1] = prices[i + 1]
  PROVE  PointsFit(points, places, g)
BY DEF PointsFit

LEMMA WindowKeepsUp ==
  ASSUME NEW h \in Seq(Shapes), NEW b \in Shapes, NEW e, WindowFits(e.trend, h)
  PROVE  WindowFits(TrendAfter(e, b), Append(h, b))
<1> DEFINE t == e.trend
           u == TrendAfter(e, b)
           old == t.recent
           r == Remember(old, b, MaxBars)
           g == Append(h, b)
           N == Len(h)
           m == Len(old)
           k == Len(r)
<1>1. u.recent = r /\ u.index = t.index + 1
  BY DEF TrendAfter, UpdateTrend
<1>2. MaxBars \in Nat \ {0}
  BY TrendAssumption DEF TrendAssumption
<1>3. /\ N \in Nat /\ Len(g) = N + 1 /\ g[N + 1] = b /\ \A i \in 1 .. N : g[i] = h[i]
  BY HistoryGrows
<1>4. /\ old \in Seq(Shapes) /\ t.index = N /\ m = Smaller(N, MaxBars) /\ m \in Nat
      /\ \A i \in 1 .. m : old[i] = h[N - m + i]
  BY DEF WindowFits
<1>5. /\ r \in Seq(Shapes) /\ k = Smaller(m + 1, MaxBars) /\ k \in Nat
      /\ \A i \in 1 .. k : r[i] = IF i = k THEN b ELSE old[m + 1 - k + i]
  <2> DEFINE limit == MaxBars
  <2>1. old \in Seq(Shapes) /\ b \in Shapes /\ limit \in Nat \ {0}
    BY <1>2, <1>4
  <2> HIDE DEF old, limit, t, g, N
  <2>2. LET q == Remember(old, b, limit)
        IN  /\ q \in Seq(Shapes) /\ Len(q) = Smaller(Len(old) + 1, limit) /\ Len(q) \in Nat
            /\ \A i \in 1 .. Len(q) : q[i] = IF i = Len(q) THEN b ELSE old[Len(old) + 1 - Len(q) + i]
    BY <2>1, RememberFacts, SMTT(30)
  <2> QED BY <2>2 DEF limit
<1> HIDE DEF t, u, old, r, g, N, m, k
<1>6. k = Smaller(N + 1, MaxBars) /\ k >= 1 /\ k <= m + 1 /\ m <= N
  BY <1>2, <1>3, <1>4, <1>5 DEF Smaller
<1>7. ASSUME NEW i \in 1 .. k PROVE r[i] = g[N + 1 - k + i]
  <2>1. CASE i = k
    <3>1. N + 1 - k + i = N + 1
      BY <1>3, <1>5, <2>1
    <3> QED BY <1>3, <1>5, <2>1, <3>1
  <2>2. CASE i # k
    <3> DEFINE j == m + 1 - k + i
    <3>1. j \in 1 .. m /\ N - m + j = N + 1 - k + i /\ N + 1 - k + i \in 1 .. N
      BY <1>3, <1>4, <1>5, <1>6, <2>2, SMTT(30)
    <3>2. r[i] = old[j]
      BY <1>5, <2>2
    <3> HIDE DEF j
    <3>3. r[i] = h[N + 1 - k + i]
      BY <1>4, <3>1, <3>2
    <3> QED BY <1>3, <3>1, <3>3
  <2> QED BY <2>1, <2>2
<1>8. Len(r) = k /\ Len(g) = N + 1 /\ u.index = N + 1
  BY <1>1, <1>3, <1>4 DEF k
<1>9. WindowFits(u, g)
  <2>1. \A i \in 1 .. Len(r) : r[i] = g[Len(g) - Len(r) + i]
    BY <1>3, <1>5, <1>7, <1>8
  <2>2. Len(r) = Smaller(Len(g), MaxBars)
    BY <1>6, <1>8
  <2> QED BY <1>1, <1>5, <1>8, <2>1, <2>2 DEF WindowFits
<1> QED BY <1>9 DEF u, g

(* The window is wide enough: its candidate is a swing point just when the *)
(* same bar of the history turns there.                                    *)
LEMMA CandidateTurns ==
  ASSUME NEW g \in Seq(Shapes), NEW t, WindowFits(t, g)
  PROVE  LET L == Config.lookback
             n == Len(g) - 1 - L
         IN  /\ HasCandidate(t.recent, L) <=> n >= L
             /\ n >= L => t.recent[Candidate(t.recent, L)] = g[n + 1]
             /\ IsSwingHigh(t.recent, L)
                  <=> n >= L /\ \A j \in Around(n) : g[j + 1].high < g[n + 1].high
             /\ IsSwingLow(t.recent, L)
                  <=> n >= L /\ \A j \in Around(n) : g[j + 1].low > g[n + 1].low
<1> DEFINE L == Config.lookback
           N == Len(g)
           n == N - 1 - L
           r == t.recent
           K == Len(r)
<1>1. /\ L \in Nat /\ MaxBars \in Nat /\ MaxBars >= 2 * L + 1 /\ N \in Nat
      /\ K \in Nat /\ K = Smaller(N, MaxBars) /\ \A i \in 1 .. K : r[i] = g[N - K + i]
  BY AnalyzerAssumption, TrendAssumption DEF AnalyzerAssumption, TrendAssumption, PAConfigs, WindowFits
<1>2. /\ HasCandidate(r, L) <=> K >= 2 * L + 1
      /\ Candidate(r, L) = K - L
      /\ Neighbours(r, L) = (K - 2 * L .. K) \ {K - L}
      /\ Around(n) = (n - L .. n + L) \ {n}
  BY DEF HasCandidate, Candidate, Neighbours, Around
<1>3. /\ IsSwingHigh(r, L) <=> /\ HasCandidate(r, L)
                               /\ \A i \in Neighbours(r, L) : r[i].high < r[Candidate(r, L)].high
      /\ IsSwingLow(r, L) <=> /\ HasCandidate(r, L)
                              /\ \A i \in Neighbours(r, L) : r[i].low > r[Candidate(r, L)].low
  BY DEF IsSwingHigh, IsSwingLow
<1> HIDE DEF L, N, r, K
<1>4. HasCandidate(r, L) <=> n >= L
  BY <1>1, <1>2 DEF Smaller
<1>5. SUFFICES ASSUME n >= L
               PROVE  /\ r[K - L] = g[n + 1]
                      /\ (\A i \in Neighbours(r, L) : r[i].high < r[K - L].high)
                           <=> \A j \in Around(n) : g[j + 1].high < g[n + 1].high
                      /\ (\A i \in Neighbours(r, L) : r[i].low > r[K - L].low)
                           <=> \A j \in Around(n) : g[j + 1].low > g[n + 1].low
  BY <1>2, <1>3, <1>4 DEF L, N, r
<1>6. K >= 2 * L + 1
  BY <1>2, <1>4, <1>5
<1>7. r[K - L] = g[n + 1]
  <2>1. K - L \in 1 .. K /\ N - K + (K - L) = n + 1
    BY <1>1, <1>6
  <2> HIDE DEF n
  <2>2. r[K - L] = g[N - K + (K - L)]
    BY <1>1, <2>1
  <2> QED BY <2>1, <2>2
<1>8. ASSUME NEW i \in Neighbours(r, L)
      PROVE  N - 1 - K + i \in Around(n) /\ r[i] = g[(N - 1 - K + i) + 1]
  <2>0. i \in (K - 2 * L .. K) \ {K - L} /\ L \in Nat /\ N \in Nat /\ K \in Nat
    BY <1>1, <1>2
  <2>1. i \in 1 .. K /\ N - 1 - K + i \in (n - L .. n + L) \ {n} /\ N - K + i = (N - 1 - K + i) + 1
    BY <1>6, <2>0
  <2> QED BY <1>1, <1>2, <2>1
<1>9. ASSUME NEW j \in Around(n)
      PROVE  j + 1 - N + K \in Neighbours(r, L) /\ r[j + 1 - N + K] = g[j + 1]
  <2>0. j \in (n - L .. n + L) \ {n} /\ L \in Nat /\ N \in Nat /\ K \in Nat
    BY <1>1, <1>2
  <2>1. /\ j + 1 - N + K \in (K - 2 * L .. K) \ {K - L} /\ j + 1 - N + K \in 1 .. K
        /\ N - K + (j + 1 - N + K) = j + 1
    BY <1>6, <2>0
  <2> QED BY <1>1, <1>2, <2>1
<1> HIDE DEF n
<1> QED BY <1>7, <1>8, <1>9

LEMMA SwingKeepsUp ==
  ASSUME NEW v \in Seq(Int), NEW x \in Int, NEW p \in Seq(Int), NEW y \in Int,
         Len(p) = Len(v), NEW points, PointsFit(points, TurningIn(v), p),
         NEW isSwing, NEW price, NEW n, n = Len(v) - Config.lookback,
         isSwing <=> /\ n >= Config.lookback
                     /\ \A j \in Around(n) : Append(v, x)[j + 1] < Append(v, x)[n + 1],
         isSwing => price = Append(p, y)[n + 1]
  PROVE  PointsFit(WithSwing(points, isSwing, price, n), TurningIn(Append(v, x)), Append(p, y))
<1> DEFINE L == Config.lookback
           N == Len(v)
           T == TurningIn(v)
           g == Append(p, y)
           U == TurningIn(Append(v, x))
<1>1. L \in Nat /\ N \in Nat /\ n = N - L
  BY AnalyzerAssumption DEF AnalyzerAssumption, PAConfigs
<1>2. T \in SUBSET (0 .. N - 1 - L) /\ IsFiniteSet(T)
  BY TurningPlaces
<1>3. U = T \union IF isSwing THEN {n} ELSE {}
  BY TurningGrows
<1>4. Len(p) = N /\ \A i \in 1 .. N : g[i] = p[i]
  OBVIOUS
<1>5. \A i \in 1 .. N + 1 : g[i] \in Int
  <2>1. g \in Seq(Int) /\ Len(g) = N + 1
    OBVIOUS
  <2> HIDE DEF g
  <2> QED BY <2>1
<1>6. isSwing => n >= L /\ price = g[n + 1]
  OBVIOUS
<1>7. PointsFit(points, T, p)
  OBVIOUS
<1> HIDE DEF L, N, T, g, U
<1>8. \A i \in T : g[i + 1] = p[i + 1] /\ i < n /\ i \in Nat
  <2> SUFFICES ASSUME NEW i \in T PROVE g[i + 1] = p[i + 1] /\ i < n /\ i \in Nat
    OBVIOUS
  <2>1. i \in 0 .. N - 1 - L
    BY <1>2
  <2>2. i + 1 \in 1 .. N /\ i < n /\ i \in Nat
    BY <1>1, <2>1
  <2> QED BY <1>4, <2>2
<1>9. CASE isSwing
  <2>1. WithSwing(points, isSwing, price, n) = Remember(points, [price |-> g[n + 1], index |-> n], MaxSwings)
    BY <1>6, <1>9 DEF WithSwing
  <2>2. n \in Nat /\ n + 1 \in 1 .. N + 1
    BY <1>1, <1>6, <1>9
  <2>3. T \in SUBSET Nat /\ g[n + 1] \in Int
    BY <1>5, <1>8, <2>2
  <2>4. PointsFit(Remember(points, [price |-> g[n + 1], index |-> n], MaxSwings), T \union {n}, g)
    BY <1>2, <1>7, <1>8, <2>2, <2>3, PointsKeepUp
  <2> QED BY <1>3, <1>9, <2>1, <2>4 DEF U, g
<1>10. CASE ~ isSwing
  <2>1. WithSwing(points, isSwing, price, n) = points
    BY <1>10 DEF WithSwing
  <2>2. PointsFit(points, T, g)
    BY <1>7, <1>8, PointsStayAsTheyAre
  <2> QED BY <1>3, <1>10, <2>1, <2>2 DEF U, g
<1> QED BY <1>9, <1>10

LEMMA PricesGrow ==
  ASSUME NEW h \in Seq(Shapes), NEW b \in Shapes
  PROVE  /\ HighsOf(h) \in Seq(Int) /\ LowsOf(h) \in Seq(Int) /\ DepthsOf(h) \in Seq(Int)
         /\ Len(HighsOf(h)) = Len(h) /\ Len(LowsOf(h)) = Len(h) /\ Len(DepthsOf(h)) = Len(h)
         /\ HighsOf(Append(h, b)) = Append(HighsOf(h), b.high)
         /\ LowsOf(Append(h, b)) = Append(LowsOf(h), b.low)
         /\ DepthsOf(Append(h, b)) = Append(DepthsOf(h), - b.low)
<1> DEFINE g == Append(h, b)
           N == Len(h)
<1>1. /\ Len(g) = N + 1 /\ N \in Nat /\ g[N + 1] = b
      /\ \A i \in 1 .. N : g[i] = h[i] /\ h[i] \in Shapes
  BY HistoryGrows
<1>2. /\ b.high \in Int /\ b.low \in Int
      /\ \A i \in 1 .. N : h[i].high \in Int /\ h[i].low \in Int
  BY <1>1, BarFacts
<1> DEFINE A == HighsOf(h)
           B == LowsOf(h)
           C == DepthsOf(h)
<1>3. A = [i \in 1 .. N |-> h[i].high] /\ B = [i \in 1 .. N |-> h[i].low]
      /\ C = [i \in 1 .. N |-> - h[i].low]
  BY DEF HighsOf, LowsOf, DepthsOf
<1>4. /\ HighsOf(g) = [i \in 1 .. N + 1 |-> g[i].high]
      /\ LowsOf(g) = [i \in 1 .. N + 1 |-> g[i].low]
      /\ DepthsOf(g) = [i \in 1 .. N + 1 |-> - g[i].low]
  BY <1>1 DEF HighsOf, LowsOf, DepthsOf
<1> HIDE DEF A, B, C, g, N
<1>5. A \in Seq(Int) /\ B \in Seq(Int) /\ C \in Seq(Int) /\ Len(A) = N /\ Len(B) = N /\ Len(C) = N
  BY <1>1, <1>2, <1>3
<1>6. Append(A, b.high) = [i \in 1 .. N + 1 |-> g[i].high]
  BY <1>1, <1>2, <1>3, <1>5
<1>7. Append(B, b.low) = [i \in 1 .. N + 1 |-> g[i].low]
  BY <1>1, <1>2, <1>3, <1>5
<1>8. Append(C, - b.low) = [i \in 1 .. N + 1 |-> - g[i].low]
  BY <1>1, <1>2, <1>3, <1>5
<1> QED BY <1>4, <1>5, <1>6, <1>7, <1>8 DEF A, B, C, g, N

LEMMA SwingsKeepUp ==
  ASSUME NEW h \in Seq(Shapes), NEW b \in Shapes, NEW e,
         WindowFits(e.trend, h), SwingsFit(e.trend, h)
  PROVE  SwingsFit(TrendAfter(e, b), Append(h, b))
<1> DEFINE t == e.trend
           u == TrendAfter(e, b)
           r == Remember(t.recent, b, MaxBars)
           g == Append(h, b)
           N == Len(h)
           L == Config.lookback
           n == N - L
           up == IsSwingHigh(r, L)
           down == IsSwingLow(r, L)
           middle == r[Candidate(r, L)]
<1>1. g \in Seq(Shapes) /\ Len(g) = N + 1 /\ N \in Nat
  BY HistoryGrows
<1>2. L \in Nat
  BY AnalyzerAssumption DEF AnalyzerAssumption, PAConfigs
<1>3. t.index = N
  BY DEF WindowFits
<1>4. /\ u.recent = r
      /\ u.highs = WithSwing(t.highs, up, middle.high, t.index - L)
      /\ u.lows = WithSwing(t.lows, down, middle.low, t.index - L)
  BY DEF TrendAfter, UpdateTrend
<1>5. WindowFits(u, g)
  BY WindowKeepsUp
<1> HIDE DEF u, r, g, N, L, t
<1>6. n = Len(g) - 1 - L
  BY <1>1, <1>2
<1>7. /\ n >= L => middle = g[n + 1]
      /\ up <=> n >= L /\ \A j \in Around(n) : g[j + 1].high < g[n + 1].high
      /\ down <=> n >= L /\ \A j \in Around(n) : g[j + 1].low > g[n + 1].low
  <2> HIDE DEF n
  <2> QED BY <1>1, <1>4, <1>5, <1>6, CandidateTurns DEF L
<1> DEFINE H == HighsOf(h)
           W == LowsOf(h)
           D == DepthsOf(h)
<1>8. /\ H \in Seq(Int) /\ W \in Seq(Int) /\ D \in Seq(Int)
      /\ Len(H) = N /\ Len(W) = N /\ Len(D) = N
      /\ HighsOf(g) = Append(H, b.high) /\ LowsOf(g) = Append(W, b.low)
      /\ DepthsOf(g) = Append(D, - b.low)
  BY PricesGrow DEF g, N
<1>9. /\ \A i \in 1 .. N + 1 : /\ HighsOf(g)[i] = g[i].high /\ LowsOf(g)[i] = g[i].low
                               /\ DepthsOf(g)[i] = - g[i].low
      /\ \A i \in 1 .. N + 1 : g[i].high \in Int /\ g[i].low \in Int
  <2>1. \A i \in 1 .. N + 1 : g[i] \in Shapes
    BY <1>1
  <2> QED BY <1>1, <2>1, BarFacts DEF HighsOf, LowsOf, DepthsOf
<1>10. b.high \in Int /\ b.low \in Int /\ - b.low \in Int
  BY BarFacts
<1>11. n >= L => n + 1 \in 1 .. N + 1 /\ \A j \in Around(n) : j + 1 \in 1 .. N + 1
  BY <1>1, <1>2 DEF Around, L
<1> HIDE DEF up, down, middle, H, W, D, n
<1>12. PointsFit(u.highs, TurningIn(HighsOf(g)), HighsOf(g))
  <2>1. PointsFit(t.highs, TurningIn(H), H)
    BY DEF SwingsFit, t, H
  <2>2. up <=> n >= L /\ \A j \in Around(n) : Append(H, b.high)[j + 1] < Append(H, b.high)[n + 1]
    BY <1>7, <1>8, <1>9, <1>11
  <2>3. up => middle.high = Append(H, b.high)[n + 1]
    BY <1>7, <1>8, <1>9, <1>11
  <2>4. n = Len(H) - L
    BY <1>8 DEF n
  <2>5. PointsFit(WithSwing(t.highs, up, middle.high, n), TurningIn(Append(H, b.high)), Append(H, b.high))
    BY <1>8, <1>10, <2>1, <2>2, <2>3, <2>4, SwingKeepsUp DEF L
  <2> QED BY <1>3, <1>4, <1>8, <2>5 DEF n
<1>13. PointsFit(u.lows, TurningIn(DepthsOf(g)), LowsOf(g))
  <2>1. PointsFit(t.lows, TurningIn(D), W)
    BY DEF SwingsFit, t, D, W
  <2>2. down <=> n >= L /\ \A j \in Around(n) : Append(D, - b.low)[j + 1] < Append(D, - b.low)[n + 1]
    <3>1. n >= L => \A j \in Around(n) :
                       DepthsOf(g)[j + 1] < DepthsOf(g)[n + 1] <=> g[j + 1].low > g[n + 1].low
      BY <1>9, <1>11
    <3> QED BY <1>7, <1>8, <3>1
  <2>3. down => middle.low = Append(W, b.low)[n + 1]
    BY <1>7, <1>8, <1>9, <1>11
  <2>4. n = Len(D) - L
    BY <1>8 DEF n
  <2>5. PointsFit(WithSwing(t.lows, down, middle.low, n), TurningIn(Append(D, - b.low)), Append(W, b.low))
    BY <1>8, <1>10, <2>1, <2>2, <2>3, <2>4, SwingKeepsUp DEF L
  <2> QED BY <1>3, <1>4, <1>8, <2>5 DEF n
<1>14. SwingsFit(u, g)
  BY <1>12, <1>13 DEF SwingsFit
<1> QED BY <1>14 DEF u, g

LEMMA LevelsKeepTheirType ==
  ASSUME NEW h \in Seq(Shapes), NEW b \in Shapes, NEW e,
         WindowFits(e.trend, h), SwingsFit(e.trend, h), e.levels \in Seq(Levels)
  PROVE  LevelsAfter(e, b) \in Seq(Levels) /\ Len(LevelsAfter(e, b)) <= MaxLevels
<1> DEFINE highs == TrendAfter(e, b).highs
           lows == TrendAfter(e, b).lows
<1>1. highs \in Seq(SwingPoints) /\ lows \in Seq(SwingPoints)
  BY SwingsKeepUp DEF SwingsFit, PointsFit
<1>2. e.trend.index \in Nat
  BY DEF WindowFits
<1>3. LevelsAfter(e, b) = UpdateLevels(e.levels, b, e.trend.index, highs, lows, Config.tolerance)
  BY DEF LevelsAfter
<1> HIDE DEF highs, lows
<1> QED BY <1>1, <1>2, <1>3, UpdateLevelsType

-----------------------------------------------------------------------------
(* Breakouts.                                                              *)

DecidingIn(k, h) == k.index + 2 .. Smaller(Len(h), k.index + 1 + ConfirmationBars)

(* The breakout is still active, rightly pending or rightly confirmed. *)
Runs(k, h) ==
  /\ k.status \in {"Pending", "Confirmed"} /\ k.index + 1 <= Len(h)
  /\ \A i \in DecidingIn(k, h) : ~ FellBack(k, h[i])
  /\ k.status = "Confirmed" <=> Len(h) >= k.index + 1 + ConfirmationBars

(* The breakout ended at the first close back through its level. *)
Ended(k, h) ==
  /\ k.settled + 1 \in DecidingIn(k, h)
  /\ FellBack(k, h[k.settled + 1])
  /\ \A i \in DecidingIn(k, h) : i <= k.settled => ~ FellBack(k, h[i])

BreakoutsFit(d, h) ==
  /\ d.index = Len(h)
  /\ d.active \in Seq(Breakouts) /\ \A i \in DOMAIN d.active : Runs(d.active[i], h)
  /\ d.failed \in Seq(Breakouts) /\ \A i \in DOMAIN d.failed : Ended(d.failed[i], h)
  /\ Len(d.failed) <= MaxFailed

LEMMA BreakoutFields ==
  ASSUME NEW k \in Breakouts
  PROVE  /\ k.level \in Int /\ k.index \in Nat /\ k.settled \in Nat
         /\ k.direction \in {"Long", "Short"}
         /\ k.strength \in {"Strong", "Moderate", "Weak"}
         /\ k.status \in {"Pending", "Confirmed", "Failed"}
         /\ k = [direction |-> k.direction, level |-> k.level, index |-> k.index,
                 strength |-> k.strength, status |-> k.status, settled |-> k.settled]
BY Zenon DEF Breakouts

Settled(k, status, settled) == [k EXCEPT !.status = status, !.settled = settled]

LEMMA SettledFields ==
  ASSUME NEW k \in Breakouts, NEW status \in {"Pending", "Confirmed", "Failed"},
         NEW settled \in Nat
  PROVE  LET f == Settled(k, status, settled)
         IN  /\ f \in Breakouts
             /\ f.status = status /\ f.settled = settled
             /\ f.direction = k.direction /\ f.level = k.level /\ f.index = k.index
<1> DEFINE d == k.direction
           l == k.level
           i == k.index
           p == k.strength
           t == k.status
           m == k.settled
           f == Settled(k, status, settled)
<1>1. /\ d \in {"Long", "Short"} /\ l \in Int /\ i \in Nat
      /\ p \in {"Strong", "Moderate", "Weak"}
      /\ k = [direction |-> d, level |-> l, index |-> i, strength |-> p,
              status |-> t, settled |-> m]
  BY BreakoutFields
<1>2. f = [k EXCEPT !.status = status, !.settled = settled]
  BY DEF Settled
<1> HIDE DEF d, l, i, p, t, m, f
<1>3. f = [direction |-> d, level |-> l, index |-> i, strength |-> p,
           status |-> status, settled |-> settled]
  BY <1>1, <1>2
<1>4. f \in Breakouts
  BY <1>1, <1>3, Zenon DEF Breakouts
<1> QED BY <1>3, <1>4 DEF f, d, l, i

(* What one bar more does to an active breakout. *)
LEMMA FollowFacts ==
  ASSUME NEW h \in Seq(Shapes), NEW b \in Shapes, NEW k \in Breakouts, Runs(k, h)
  PROVE  LET f == FollowThrough(k, b, Len(h))
         IN  /\ f \in Breakouts
             /\ IF f.status = "Failed" THEN Ended(f, Append(h, b)) ELSE Runs(f, Append(h, b))
<1> DEFINE N == Len(h)
           g == Append(h, b)
           f == FollowThrough(k, b, N)
           C == ConfirmationBars
<1>1. /\ N \in Nat /\ Len(g) = N + 1 /\ g[N + 1] = b /\ \A i \in 1 .. N : g[i] = h[i]
  BY HistoryGrows
<1>2. C \in Nat /\ C > 0 /\ k.index \in Nat
  BY BreakoutAssumption, BreakoutFields DEF BreakoutAssumption
<1>3. /\ k.status \in {"Pending", "Confirmed"} /\ k.index + 1 <= N
      /\ \A i \in DecidingIn(k, h) : ~ FellBack(k, h[i])
      /\ k.status = "Confirmed" <=> N >= k.index + 1 + C
  BY DEF Runs
<1>4. /\ DecidingIn(k, h) = k.index + 2 .. Smaller(N, k.index + 1 + C)
      /\ DecidingIn(k, g) = k.index + 2 .. Smaller(N + 1, k.index + 1 + C)
  BY <1>1 DEF DecidingIn
<1> HIDE DEF N, g, f, C
<1>5. \A i \in DecidingIn(k, h) : i \in 1 .. N /\ ~ FellBack(k, g[i])
  <2>1. \A i \in DecidingIn(k, h) : i \in 1 .. N
    BY <1>1, <1>2, <1>4 DEF Smaller
  <2> QED BY <1>1, <1>3, <2>1
<1>6. CASE k.status = "Confirmed"
  <2>1. f = k
    BY <1>6 DEF FollowThrough, f
  <2>2. DecidingIn(k, g) = DecidingIn(k, h) /\ N + 1 >= k.index + 1 + C /\ k.index + 1 <= N + 1
    BY <1>1, <1>2, <1>3, <1>4, <1>6 DEF Smaller
  <2>3. Runs(k, g)
    BY <1>1, <1>5, <1>6, <2>2 DEF Runs, C
  <2>4. f \in Breakouts /\ f.status # "Failed" /\ Runs(f, g)
    BY <1>6, <2>1, <2>3
  <2> QED BY <2>4 DEF f, g, N
<1>7. CASE k.status = "Pending"
  <2>1. /\ N + 1 \in DecidingIn(k, g)
        /\ \A i \in DecidingIn(k, g) : i # N + 1 => i \in DecidingIn(k, h)
        /\ k.index + 1 <= N + 1
    <3>1. N < k.index + 1 + C
      BY <1>1, <1>2, <1>3, <1>7
    <3>2. DecidingIn(k, h) = k.index + 2 .. N /\ DecidingIn(k, g) = k.index + 2 .. N + 1
      BY <1>1, <1>2, <1>4, <3>1, SMTT(30) DEF Smaller
    <3> QED BY <1>1, <1>2, <1>3, <3>2
  <2>2. CASE FellBack(k, b)
    <3>1. f = [k EXCEPT !.status = "Failed", !.settled = N]
      BY <1>7, <2>2 DEF FollowThrough, f
    <3>2. /\ f \in Breakouts /\ f.status = "Failed" /\ f.settled = N
          /\ f.direction = k.direction /\ f.level = k.level /\ f.index = k.index
      <4>1. "Failed" \in {"Pending", "Confirmed", "Failed"}
        OBVIOUS
      <4>2. f = Settled(k, "Failed", N)
        BY <3>1 DEF Settled
      <4>3. LET q == Settled(k, "Failed", N)
            IN  /\ q \in Breakouts
                /\ q.status = "Failed" /\ q.settled = N
                /\ q.direction = k.direction /\ q.level = k.level /\ q.index = k.index
        BY <1>1, <4>1, SettledFields, ZenonT(60)
      <4> QED BY <4>2, <4>3
    <3>3. DecidingIn(f, g) = DecidingIn(k, g) /\ \A x : FellBack(f, x) <=> FellBack(k, x)
      BY <3>2 DEF DecidingIn, FellBack
    <3>4. FellBack(f, g[f.settled + 1]) /\ f.settled + 1 \in DecidingIn(f, g)
      BY <1>1, <2>1, <2>2, <3>2, <3>3
    <3>5. \A i \in DecidingIn(f, g) : i <= f.settled => ~ FellBack(f, g[i])
      <4>1. ASSUME NEW i \in DecidingIn(k, g), i <= N PROVE i # N + 1
        BY <1>1, <4>1
      <4> QED BY <1>5, <2>1, <3>2, <3>3, <4>1
    <3>6. Ended(f, g)
      BY <3>4, <3>5 DEF Ended
    <3> QED BY <3>2, <3>6 DEF f, g, N
  <2>3. CASE ~ FellBack(k, b)
    <3>1. \A i \in DecidingIn(k, g) : ~ FellBack(k, g[i])
      BY <1>1, <1>5, <2>1, <2>3
    <3>2. CASE HeldLongEnough(k, N)
      <4>1. f = [k EXCEPT !.status = "Confirmed", !.settled = N - k.index]
        BY <1>7, <2>3, <3>2 DEF FollowThrough, f
      <4>2. N - k.index \in Nat
        BY <1>1, <1>2, <1>3
      <4>3. /\ f \in Breakouts /\ f.status = "Confirmed"
            /\ f.direction = k.direction /\ f.level = k.level /\ f.index = k.index
        <5> DEFINE held == N - k.index
        <5>1. "Confirmed" \in {"Pending", "Confirmed", "Failed"} /\ held \in Nat
          BY <4>2
        <5> HIDE DEF held
        <5>2. f = Settled(k, "Confirmed", held)
          BY <4>1 DEF Settled, held
        <5>3. LET q == Settled(k, "Confirmed", held)
              IN  /\ q \in Breakouts
                  /\ q.status = "Confirmed" /\ q.settled = held
                  /\ q.direction = k.direction /\ q.level = k.level /\ q.index = k.index
          BY <5>1, SettledFields, ZenonT(60)
        <5> QED BY <5>2, <5>3
      <4>4. DecidingIn(f, g) = DecidingIn(k, g) /\ \A x : FellBack(f, x) <=> FellBack(k, x)
        BY <4>3 DEF DecidingIn, FellBack
      <4>5. N + 1 >= k.index + 1 + C
        BY <1>1, <1>2, <3>2 DEF HeldLongEnough, C
      <4>6. Runs(f, g)
        BY <1>1, <2>1, <3>1, <4>3, <4>4, <4>5 DEF Runs, C
      <4>7. f.status # "Failed"
        BY <4>3
      <4> QED BY <4>3, <4>6, <4>7 DEF f, g, N
    <3>3. CASE ~ HeldLongEnough(k, N)
      <4>1. f = k
        BY <1>7, <2>3, <3>3 DEF FollowThrough, f
      <4>2. ~ (N + 1 >= k.index + 1 + C)
        BY <1>1, <1>2, <3>3 DEF HeldLongEnough, C
      <4>3. Runs(k, g)
        BY <1>1, <1>7, <2>1, <3>1, <4>2 DEF Runs, C
      <4>4. f \in Breakouts /\ f.status # "Failed" /\ Runs(f, g)
        BY <1>7, <4>1, <4>3
      <4> QED BY <4>4 DEF f, g, N
    <3> QED BY <3>2, <3>3
  <2> QED BY <2>2, <2>3
<1> QED BY <1>3, <1>6, <1>7

(* An ended breakout stays ended as it was. *)
LEMMA EndedStays ==
  ASSUME NEW h \in Seq(Shapes), NEW b \in Shapes, NEW k \in Breakouts, Ended(k, h)
  PROVE  Ended(k, Append(h, b))
<1> DEFINE N == Len(h)
           g == Append(h, b)
           C == ConfirmationBars
           s == k.settled
<1>1. /\ N \in Nat /\ Len(g) = N + 1 /\ \A i \in 1 .. N : g[i] = h[i]
  BY HistoryGrows
<1>2. C \in Nat /\ k.index \in Nat /\ s \in Nat
  BY BreakoutAssumption, BreakoutFields DEF BreakoutAssumption
<1>3. /\ DecidingIn(k, h) = k.index + 2 .. Smaller(N, k.index + 1 + C)
      /\ DecidingIn(k, g) = k.index + 2 .. Smaller(N + 1, k.index + 1 + C)
  BY <1>1 DEF DecidingIn
<1>4. /\ s + 1 \in DecidingIn(k, h) /\ FellBack(k, h[s + 1])
      /\ \A i \in DecidingIn(k, h) : i <= s => ~ FellBack(k, h[i])
  BY DEF Ended
<1> HIDE DEF N, g, C, s
<1>5. s + 1 \in 1 .. N /\ s + 1 \in DecidingIn(k, g)
  BY <1>1, <1>2, <1>3, <1>4, SMTT(30) DEF Smaller
<1>6. \A i \in DecidingIn(k, g) : i <= s => i \in DecidingIn(k, h) /\ i \in 1 .. N
  BY <1>1, <1>2, <1>3, <1>5 DEF Smaller
<1>7. Ended(k, g)
  BY <1>1, <1>4, <1>5, <1>6 DEF Ended, s
<1> QED BY <1>7 DEF g

LEMMA NewBreakoutRuns ==
  ASSUME NEW h \in Seq(Shapes), NEW b \in Shapes, NEW price \in Int
  PROVE  /\ BreakoutOf(b, price, Len(h)) \in Breakouts
         /\ Runs(BreakoutOf(b, price, Len(h)), Append(h, b))
<1> DEFINE N == Len(h)
           g == Append(h, b)
           k == BreakoutOf(b, price, N)
           side == IF b.close > price THEN "Long" ELSE "Short"
           strength == StrengthBeyond(b, Magnitude(b.close - price))
<1>1. N \in Nat /\ Len(g) = N + 1
  BY HistoryGrows
<1>2. strength \in {"Strong", "Moderate", "Weak"} /\ side \in {"Long", "Short"}
  BY DEF StrengthBeyond
<1>3. k = [direction |-> side, level |-> price, index |-> N, strength |-> strength,
           status |-> "Pending", settled |-> 0]
  BY DEF BreakoutOf
<1> HIDE DEF N, g, k, side, strength
<1>4. k \in Breakouts
  <2>1. 0 \in Nat /\ "Pending" \in {"Pending", "Confirmed", "Failed"}
    OBVIOUS
  <2> QED BY <1>1, <1>2, <1>3, <2>1, Zenon DEF Breakouts
<1>5. k.index = N /\ k.status = "Pending"
  BY <1>3
<1>6. ConfirmationBars \in Nat /\ ConfirmationBars > 0
  BY BreakoutAssumption DEF BreakoutAssumption
<1>7. DecidingIn(k, g) = {}
  BY <1>1, <1>5, <1>6 DEF DecidingIn, Smaller
<1>8. Runs(k, g)
  BY <1>1, <1>5, <1>6, <1>7 DEF Runs
<1> QED BY <1>4, <1>8 DEF k, g, N

LEMMA BreakoutsKeepFitting ==
  ASSUME NEW h \in Seq(Shapes), NEW b \in Shapes, NEW d, BreakoutsFit(d, h),
         NEW levels \in Seq(Levels)
  PROVE  BreakoutsFit(UpdateBreakouts(d, b, levels), Append(h, b))
<1> DEFINE g == Append(h, b)
           N == Len(h)
           u == UpdateBreakouts(d, b, levels)
           followed == [i \in DOMAIN d.active |-> FollowThrough(d.active[i], b, d.index)]
           failed == {i \in DOMAIN followed : followed[i].status = "Failed"}
           kept == Selected(followed, DOMAIN followed \ failed)
           gone == Selected(followed, failed)
           places == {i \in DOMAIN levels :
                        BreaksUp(b, levels[i].price) \/ BreaksDown(b, levels[i].price)}
           broken == BrokenLevels(levels, b)
           fresh == [i \in DOMAIN broken |-> BreakoutOf(b, broken[i].price, d.index)]
           Active == {k \in Breakouts : Runs(k, g)}
           Failed == {k \in Breakouts : Ended(k, g)}
<1>1. Len(g) = N + 1 /\ N \in Nat
  BY HistoryGrows
<1>2. /\ d.index = N /\ d.active \in Seq(Breakouts) /\ d.failed \in Seq(Breakouts)
      /\ \A i \in DOMAIN d.active : Runs(d.active[i], h)
      /\ \A i \in DOMAIN d.failed : Ended(d.failed[i], h)
  BY DEF BreakoutsFit
<1>3. u.active = kept \o fresh /\ u.failed = RememberAll(d.failed, gone, MaxFailed) /\ u.index = N + 1
  BY <1>2 DEF UpdateBreakouts
<1>4. followed \in Seq(Breakouts) /\ DOMAIN followed = DOMAIN d.active
  <2> DEFINE active == d.active
             m == Len(active)
             after == [i \in 1 .. m |-> FollowThrough(active[i], b, N)]
  <2>1. active \in Seq(Breakouts) /\ DOMAIN active = 1 .. m /\ m \in Nat
    BY <1>2
  <2>2. \A i \in 1 .. m : FollowThrough(active[i], b, N) \in Breakouts
    <3> SUFFICES ASSUME NEW i \in 1 .. m PROVE FollowThrough(active[i], b, N) \in Breakouts
      OBVIOUS
    <3>1. Runs(active[i], h)
      BY <1>2, <2>1, Zenon
    <3> HIDE DEF active
    <3>2. active[i] \in Breakouts
      BY <2>1
    <3> QED BY <3>1, <3>2, FollowFacts
  <2>3. followed = after
    BY <1>2, <2>1
  <2> HIDE DEF active, m, followed
  <2>4. after \in Seq(Breakouts) /\ DOMAIN after = 1 .. m
    BY <2>1, <2>2
  <2> HIDE DEF after
  <2>5. DOMAIN followed = 1 .. m
    BY <2>3, <2>4
  <2> QED BY <2>1, <2>3, <2>4, <2>5 DEF active
<1>5. \A i \in DOMAIN followed :
        IF followed[i].status = "Failed" THEN Ended(followed[i], g) ELSE Runs(followed[i], g)
  <2> SUFFICES ASSUME NEW i \in DOMAIN d.active
               PROVE  LET f == FollowThrough(d.active[i], b, N)
                      IN  IF f.status = "Failed" THEN Ended(f, g) ELSE Runs(f, g)
    BY <1>2
  <2>1. d.active[i] \in Breakouts /\ Runs(d.active[i], h)
    BY <1>2
  <2> QED BY <2>1, FollowFacts
<1>6. failed \in SUBSET (DOMAIN followed) /\ (DOMAIN followed \ failed) \in SUBSET (DOMAIN followed)
  OBVIOUS
<1> HIDE DEF followed
<1>7. \A i \in failed : followed[i] \in Failed
  BY <1>4, <1>5
<1>8. \A i \in DOMAIN followed \ failed : followed[i] \in Active
  BY <1>4, <1>5
<1> HIDE DEF failed
<1>9. kept \in Seq(Active)
  <2>1. /\ kept \in Seq(Breakouts)
        /\ \A k \in DOMAIN kept : \E i \in DOMAIN followed \ failed : kept[k] = followed[i]
    <3> DEFINE others == DOMAIN followed \ failed
    <3>1. others \in SUBSET (DOMAIN followed)
      BY <1>6
    <3> HIDE DEF others
    <3>2. LET q == Selected(followed, others)
          IN  q \in Seq(Breakouts) /\ \A k \in DOMAIN q : \E i \in others : q[k] = followed[i]
      BY <1>4, <3>1, SelectedFacts
    <3> QED BY <3>2 DEF others
  <2> HIDE DEF kept, Active
  <2> QED BY <1>8, <2>1
<1>10. gone \in Seq(Failed)
  <2>1. /\ gone \in Seq(Breakouts)
        /\ \A k \in DOMAIN gone : \E i \in failed : gone[k] = followed[i]
    BY <1>4, <1>6, SelectedFacts
  <2> HIDE DEF gone, Failed
  <2> QED BY <1>7, <2>1
<1>11. fresh \in Seq(Active)
  <2>1. broken \in Seq(Levels)
    <3>1. places \in SUBSET (DOMAIN levels)
      OBVIOUS
    <3> HIDE DEF places
    <3>2. Selected(levels, places) \in Seq(Levels)
      BY <3>1, SelectedFacts
    <3> QED BY <3>2 DEF BrokenLevels, places
  <2> HIDE DEF broken
  <2>2. \A i \in DOMAIN broken : broken[i].price \in Int
    BY <2>1, LevelFields
  <2>3. \A i \in DOMAIN broken : BreakoutOf(b, broken[i].price, d.index) \in Active
    BY <1>2, <2>2, NewBreakoutRuns
  <2>4. DOMAIN broken = 1 .. Len(broken) /\ Len(broken) \in Nat
    BY <2>1
  <2> HIDE DEF Active
  <2> QED BY <2>3, <2>4
<1>12. d.failed \in Seq(Failed)
  <2>1. \A i \in DOMAIN d.failed : d.failed[i] \in Failed
    BY <1>2, EndedStays
  <2> HIDE DEF Failed
  <2> QED BY <1>2, <2>1
<1> HIDE DEF kept, gone, fresh, Active, Failed, u
<1>13. u.active \in Seq(Active)
  BY <1>3, <1>9, <1>11
<1>14. u.failed \in Seq(Failed) /\ Len(u.failed) <= MaxFailed
  <2> DEFINE all == d.failed \o gone
             limit == MaxFailed
  <2>1. all \in Seq(Failed) /\ Len(all) \in Nat /\ limit \in Nat \ {0}
    BY <1>10, <1>12, BreakoutAssumption DEF BreakoutAssumption
  <2>2. u.failed = LastOnes(all, limit)
    BY <1>3 DEF RememberAll, LastOnes
  <2> HIDE DEF all, limit
  <2>3. u.failed \in Seq(Failed) /\ Len(u.failed) = Smaller(Len(all), limit)
    BY <2>1, <2>2, LastOnesFacts
  <2>4. Len(u.failed) <= limit
    BY <2>1, <2>3 DEF Smaller
  <2> QED BY <2>3, <2>4 DEF limit
<1>15. u.active \in Seq(Breakouts) /\ \A i \in DOMAIN u.active : Runs(u.active[i], g)
  BY <1>13 DEF Active
<1>16. u.failed \in Seq(Breakouts) /\ \A i \in DOMAIN u.failed : Ended(u.failed[i], g)
  BY <1>14 DEF Failed
<1>17. BreakoutsFit(u, g)
  BY <1>1, <1>3, <1>14, <1>15, <1>16 DEF BreakoutsFit
<1> QED BY <1>17 DEF u, g

-----------------------------------------------------------------------------
(* The invariant.                                                          *)

EngineFits(e, h) ==
  /\ HasFields(e)
  /\ e.bodies \in Seq(Int) /\ Len(e.bodies) <= BodyLookback
  /\ CounterFits(e.counter, h)
  /\ e.trend.state \in TrendStates /\ WindowFits(e.trend, h) /\ SwingsFit(e.trend, h)
  /\ e.levels \in Seq(Levels) /\ Len(e.levels) <= MaxLevels
  /\ BreakoutsFit(e.breakouts, h)
  /\ RangesFit(e.ranges, h)
  /\ ClassifiesAll(e.context.recent, h)
  /\ e.previous = PreviousOf(h)

(* Every part of the engine fits the whole history. *)
IInv == history \in Seq(Shapes) /\ EngineFits(engine, history)

LEMMA NewEngineFits == EngineFits(NewEngine, <<>>)
<1> DEFINE e == NewEngine
           h == <<>>
<1>1. /\ HasFields(e) /\ e.bodies = <<>> /\ e.counter = NewCounter /\ e.trend = NewTrend
      /\ e.levels = <<>> /\ e.breakouts = NewBreakouts /\ e.ranges = NewRanges
      /\ e.context = EmptyContext /\ e.previous = {}
  BY DEF NewEngine, HasFields
<1>2. /\ MaxBars \in Nat /\ MaxSwings \in Nat /\ MaxLevels \in Nat /\ MaxFailed \in Nat
      /\ BodyLookback \in Nat /\ Config.maxRecent \in Nat /\ Config.lookback \in Nat
  BY TrendAssumption, LevelsAssumption, BreakoutAssumption, BodyLookbackAssumption,
     AnalyzerAssumption
  DEF TrendAssumption, LevelsAssumption, BreakoutAssumption, BodyLookbackAssumption,
      AnalyzerAssumption, PAConfigs
<1>3. h \in Seq(Shapes) /\ Len(h) = 0 /\ PreviousOf(h) = {}
  BY DEF PreviousOf
<1>4. e.bodies \in Seq(Int) /\ Len(e.bodies) <= BodyLookback
  BY <1>1, <1>2
<1>5. CounterFits(e.counter, h)
  BY <1>1, NewCounterFits
<1>6. /\ e.trend.state = "TradingRange" /\ e.trend.highs = <<>> /\ e.trend.lows = <<>>
      /\ e.trend.recent = <<>> /\ e.trend.index = 0
  BY <1>1 DEF NewTrend
<1>7. e.trend.state \in TrendStates
  BY <1>6 DEF TrendStates
<1>8. WindowFits(e.trend, h)
  BY <1>2, <1>3, <1>6 DEF WindowFits, Smaller
<1>9. SwingsFit(e.trend, h)
  <2>1. \A v : v \in Seq(Int) /\ Len(v) = 0 => TurningIn(v) = {}
    BY <1>2 DEF TurningIn
  <2>2. TurningIn(HighsOf(h)) = {} /\ TurningIn(DepthsOf(h)) = {}
    <3>1. HighsOf(h) = <<>> /\ DepthsOf(h) = <<>>
      BY <1>3 DEF HighsOf, DepthsOf
    <3>2. <<>> \in Seq(Int) /\ Len(<<>>) = 0
      OBVIOUS
    <3>3. TurningIn(<<>>) = {}
      BY <2>1, <3>2
    <3> QED BY <3>1, <3>3
  <2>3. \A prices : PointsFit(<<>>, {}, prices)
    BY <1>2 DEF PointsFit, Latest
  <2> QED BY <1>6, <2>2, <2>3 DEF SwingsFit
<1>10. e.levels \in Seq(Levels) /\ Len(e.levels) <= MaxLevels
  BY <1>1, <1>2
<1>11. BreakoutsFit(e.breakouts, h)
  BY <1>1, <1>2, <1>3 DEF NewBreakouts, BreakoutsFit
<1>12. RangesFit(e.ranges, h)
  BY <1>1, <1>3 DEF NewRanges, RangesFit
<1>13. ClassifiesAll(e.context.recent, h)
  <2>1. e.context.recent = <<>>
    BY <1>1 DEF EmptyContext
  <2> QED BY <1>2, <1>3, <2>1 DEF ClassifiesAll, Smaller
<1> HIDE DEF e, h
<1>14. EngineFits(e, h)
  BY <1>1, <1>3, <1>4, <1>5, <1>7, <1>8, <1>9, <1>10, <1>11, <1>12, <1>13 DEF EngineFits
<1> QED BY <1>14 DEF e, h

(* The window of bodies holds integers, one more until it is full. *)
LEMMA RememberBodyFacts ==
  ASSUME NEW bodies \in Seq(Int), NEW b, Body(b) \in Int, BodyLookback \in Nat \ {0}
  PROVE  /\ RememberBody(bodies, b) \in Seq(Int)
         /\ Len(RememberBody(bodies, b)) = Smaller(Len(bodies) + 1, BodyLookback)
<1> DEFINE S == Int
           x == Body(b)
           limit == BodyLookback
<1>1. bodies \in Seq(S) /\ x \in S /\ limit \in Nat \ {0}
  OBVIOUS
<1> HIDE DEF S, x, limit
<1>2. LET r == Remember(bodies, x, limit)
      IN  r \in Seq(S) /\ Len(r) = Smaller(Len(bodies) + 1, limit)
  BY <1>1, RememberFacts
<1> QED BY <1>2 DEF RememberBody, S, x, limit

LEMMA EngineKeepsFitting ==
  ASSUME NEW h \in Seq(Shapes), NEW b \in Shapes, NEW e, EngineFits(e, h)
  PROVE  EngineFits(ProcessBar(e, b, Config), Append(h, b))
<1> DEFINE f == ProcessBar(e, b, Config)
           g == Append(h, b)
<1>1. /\ HasFields(e)
      /\ e.bodies \in Seq(Int) /\ Len(e.bodies) <= BodyLookback
      /\ CounterFits(e.counter, h)
      /\ WindowFits(e.trend, h) /\ SwingsFit(e.trend, h)
      /\ e.levels \in Seq(Levels)
      /\ BreakoutsFit(e.breakouts, h)
      /\ RangesFit(e.ranges, h)
      /\ ClassifiesAll(e.context.recent, h)
      /\ e.previous = PreviousOf(h)
  BY DEF EngineFits
<1>2. /\ HasFields(f)
      /\ f.bodies = RememberBody(e.bodies, b)
      /\ f.counter = CountBar(e.counter, b, TypeOfBar(b, Config.dojiPct))
      /\ f.trend = TrendAfter(e, b)
      /\ f.levels = LevelsAfter(e, b)
      /\ f.breakouts = UpdateBreakouts(e.breakouts, b, f.levels)
      /\ f.ranges = UpdateRanges(e.ranges, b, f.trend.state, Config.minRangeBars)
      /\ f.previous = {b}
      /\ \E context :
           f.context.recent =
             Remember(e.context.recent,
                      Marked(Classify(e.bodies, b, e.previous, Config.dojiPct), e, b, context),
                      Config.maxRecent)
  BY <1>1, ProcessFields
<1> HIDE DEF f
<1>3. f.bodies \in Seq(Int) /\ Len(f.bodies) <= BodyLookback
  <2>1. Body(b) \in Int /\ BodyLookback \in Nat \ {0}
    BY BarFacts, BodyLookbackAssumption DEF Body, Magnitude, BodyLookbackAssumption
  <2>2. /\ RememberBody(e.bodies, b) \in Seq(Int)
        /\ Len(RememberBody(e.bodies, b)) = Smaller(Len(e.bodies) + 1, BodyLookback)
    BY <1>1, <2>1, RememberBodyFacts
  <2>3. Smaller(Len(e.bodies) + 1, BodyLookback) <= BodyLookback
    BY <1>1, <2>1 DEF Smaller
  <2> QED BY <1>2, <2>2, <2>3
<1>4. CounterFits(f.counter, g)
  BY <1>1, <1>2, CounterKeepsFitting
<1>5. WindowFits(f.trend, g) /\ SwingsFit(f.trend, g)
  BY <1>1, <1>2, WindowKeepsUp, SwingsKeepUp
<1>6. f.trend.state \in TrendStates
  BY <1>2, SMTT(30) DEF TrendAfter, UpdateTrend, TrendState, TrendStates, BullStates, BearStates
<1>7. f.levels \in Seq(Levels) /\ Len(f.levels) <= MaxLevels
  BY <1>1, <1>2, LevelsKeepTheirType
<1>8. BreakoutsFit(f.breakouts, g)
  BY <1>1, <1>2, <1>7, BreakoutsKeepFitting
<1>9. RangesFit(f.ranges, g)
  BY <1>1, <1>2, RangesKeepFitting
<1>10. ClassifiesAll(f.context.recent, g)
  <2>1. PICK context :
          f.context.recent =
            Remember(e.context.recent,
                     Marked(Classify(e.bodies, b, e.previous, Config.dojiPct), e, b, context),
                     Config.maxRecent)
    BY <1>2
  <2> DEFINE class == Marked(Classify(e.bodies, b, e.previous, Config.dojiPct), e, b, context)
  <2>2. e.previous \subseteq BarRecords
    <3>1. h # <<>> => h[Len(h)] \in Shapes
      OBVIOUS
    <3> QED BY <1>1, <3>1, BarsAreRecords DEF PreviousOf
  <2>3. /\ class \in Classifications
        /\ class.type = TypeOfBar(b, Config.dojiPct)
        /\ class.entry => /\ FollowsSignal(e)
                          /\ \E p \in e.previous : b.high > p.high \/ b.low < p.low
    BY <2>2, MarkedFacts
  <2> HIDE DEF class
  <2>4. ClassifiesAll(Remember(e.context.recent, class, Config.maxRecent), g)
    BY <1>1, <2>3, ClassificationsKeepUp
  <2> QED BY <2>1, <2>4 DEF class
<1>11. f.previous = PreviousOf(g)
  <2>1. Len(g) = Len(h) + 1 /\ g[Len(h) + 1] = b /\ g # <<>>
    OBVIOUS
  <2> QED BY <1>2, <2>1 DEF PreviousOf
<1> HIDE DEF g
<1>12. EngineFits(f, g)
  BY <1>2, <1>3, <1>4, <1>5, <1>6, <1>7, <1>8, <1>9, <1>10, <1>11 DEF EngineFits
<1> QED BY <1>12 DEF f, g

LEMMA InitFits == Init => IInv
<1>1. ASSUME Init PROVE IInv
  <2>1. engine = NewEngine /\ history = <<>>
    BY <1>1 DEF Init
  <2> QED BY <2>1, NewEngineFits DEF IInv
<1> QED BY <1>1

LEMMA NextFits == IInv /\ [Next]_vars => IInv'
<1> SUFFICES ASSUME IInv, [Next]_vars PROVE IInv'
  OBVIOUS
<1>1. CASE Next
  <2>1. PICK b \in Shapes : NewBar(b)
    BY <1>1 DEF Next
  <2>2. engine' = ProcessBar(engine, b, Config) /\ history' = Append(history, b)
    BY <2>1 DEF NewBar
  <2>3. history \in Seq(Shapes) /\ EngineFits(engine, history)
    BY DEF IInv
  <2>4. EngineFits(ProcessBar(engine, b, Config), Append(history, b))
    BY <2>3, EngineKeepsFitting
  <2>5. Append(history, b) \in Seq(Shapes)
    BY <2>3
  <2>6. history' \in Seq(Shapes) /\ EngineFits(engine', history')
    BY <2>2, <2>4, <2>5
  <2> QED BY <2>6 DEF IInv
<1>2. CASE UNCHANGED vars
  <2>1. engine' = engine /\ history' = history
    BY <1>2 DEF vars
  <2>2. EngineFits(engine', history') /\ history' \in Seq(Shapes)
    BY <2>1 DEF IInv
  <2> QED BY <2>2 DEF IInv
<1> QED BY <1>1, <1>2

(* What every detector remembers fits the whole history of bars, of which  *)
(* the engine keeps only a part: process_bar and the detectors it calls.   *)
THEOREM AnalyzerInvariant == Spec => []IInv
BY InitFits, NextFits, PTL DEF Spec

-----------------------------------------------------------------------------
(* What follows from it.                                                   *)

LEMMA ToSetType == ASSUME NEW S, NEW s \in Seq(S) PROVE ToSet(s) \subseteq S
BY DEF ToSet

LEMMA Types == IInv => TypeOK
<1> SUFFICES ASSUME IInv PROVE TypeOK
  OBVIOUS
<1>1. EngineFits(engine, history)
  BY DEF IInv
<1>2. engine.counter \in [bull : Nat, bear : Nat, length : Nat, high : Nat, low : Nat, total : Nat]
  BY <1>1, Zenon DEF EngineFits, CounterFits, Counters
<1>3. /\ engine.trend.highs \in Seq(SwingPoints) /\ Len(engine.trend.highs) <= MaxSwings
      /\ engine.trend.lows \in Seq(SwingPoints) /\ Len(engine.trend.lows) <= MaxSwings
  BY <1>1 DEF EngineFits, SwingsFit, PointsFit
<1>4. Len(engine.trend.recent) <= MaxBars
  <2>1. MaxBars \in Nat /\ Len(history) \in Nat /\ Len(engine.trend.recent) = Smaller(Len(history), MaxBars)
    BY <1>1, TrendAssumption DEF EngineFits, WindowFits, IInv, TrendAssumption
  <2> QED BY <2>1 DEF Smaller
<1>5. /\ engine.breakouts.active \in Seq(Breakouts) /\ engine.breakouts.failed \in Seq(Breakouts)
      /\ Len(engine.breakouts.failed) <= MaxFailed
  BY <1>1 DEF EngineFits, BreakoutsFit
<1>6. engine.ranges.active \in Seq(Ranges)
  BY <1>1 DEF EngineFits, RangesFit
<1>7. engine.context.recent \in Seq(Classifications) /\ Len(engine.context.recent) <= Config.maxRecent
  <2>1. /\ engine.context.recent \in Seq(Classifications)
        /\ Len(engine.context.recent) = Smaller(Len(history), Config.maxRecent)
    BY <1>1 DEF EngineFits, ClassifiesAll
  <2>2. Config.maxRecent \in Nat /\ Len(history) \in Nat
    BY AnalyzerAssumption DEF AnalyzerAssumption, PAConfigs, IInv
  <2>3. Smaller(Len(history), Config.maxRecent) <= Config.maxRecent
    BY <2>2 DEF Smaller
  <2> QED BY <2>1, <2>3
<1>8. /\ engine.trend.state \in TrendStates
      /\ engine.levels \in Seq(Levels) /\ Len(engine.levels) <= MaxLevels
      /\ Len(engine.bodies) <= BodyLookback
  BY <1>1 DEF EngineFits
<1>9. /\ ToSet(engine.trend.highs) \subseteq SwingPoints /\ ToSet(engine.trend.lows) \subseteq SwingPoints
      /\ ToSet(engine.levels) \subseteq Levels
      /\ ToSet(engine.breakouts.active) \subseteq Breakouts
      /\ ToSet(engine.breakouts.failed) \subseteq Breakouts
      /\ ToSet(engine.ranges.active) \subseteq Ranges
      /\ ToSet(engine.context.recent) \subseteq Classifications
  BY <1>3, <1>5, <1>6, <1>7, <1>8, ToSetType
<1> QED
  BY <1>2, <1>3, <1>4, <1>5, <1>7, <1>8, <1>9 DEF TypeOK

LEMMA Watermarks == IInv => WatermarksOfSequence
<1> SUFFICES ASSUME IInv, Now > 0 PROVE WatermarksOfSequence
  BY DEF WatermarksOfSequence
<1> DEFINE c == engine.counter
           h == history
           N == Len(h)
           U == Run(c, N)
           H == {h[i].high : i \in U}
           W == {h[i].low : i \in U}
<1>1. h \in Seq(Shapes) /\ CounterFits(c, h) /\ N \in Nat
  BY DEF IInv, EngineFits
<1>2. c.length \in 1 .. N /\ Measures(c, h, U) /\ (c.bull = 0 \/ c.bear = 0)
  <2>1. h # <<>>
    BY DEF Now
  <2> QED BY <1>1, <2>1 DEF CounterFits
<1>3. Sequence = U /\ U \subseteq 1 .. N
  BY <1>1, <1>2 DEF Sequence, Run, Now
<1>4. \A i \in U : h[i].high \in Int /\ h[i].low \in Int
  BY <1>1, <1>3, BarFacts
<1> HIDE DEF U, N
<1>5. c.high = Max(H)
  <2>1. H \in SUBSET Int /\ c.high \in H /\ \A x \in H : c.high >= x
    BY <1>2, <1>4 DEF Measures
  <2> HIDE DEF H
  <2> QED BY <2>1, MaxIs
<1>6. c.low = Min(W)
  <2>1. W \in SUBSET Int /\ c.low \in W /\ \A x \in W : c.low <= x
    BY <1>2, <1>4 DEF Measures
  <2> HIDE DEF W
  <2> QED BY <2>1, MinIs
<1>7. /\ {i \in U : TypeAt(i) \in BullTypes} = U \intersect OfType(h, BullTypes)
      /\ {i \in U : TypeAt(i) \in BearTypes} = U \intersect OfType(h, BearTypes)
  BY <1>3 DEF TypeAt, OfType, N
<1>8. /\ c.bull = Cardinality({i \in U : TypeAt(i) \in BullTypes})
      /\ c.bear = Cardinality({i \in U : TypeAt(i) \in BearTypes})
  BY <1>2, <1>7 DEF Measures
<1> QED
  BY <1>2, <1>3, <1>5, <1>6, <1>8 DEF WatermarksOfSequence

LEMMA Decided == IInv => BreakoutsAreDecidedInTime
<1> SUFFICES ASSUME IInv PROVE BreakoutsAreDecidedInTime
  OBVIOUS
<1>1. BreakoutsFit(engine.breakouts, history)
  BY DEF IInv, EngineFits
<1>2. \A k : Deciding(k) = DecidingIn(k, history)
  BY DEF Deciding, DecidingIn, Now
<1>3. \A k \in ToSet(engine.breakouts.active) : Runs(k, history)
  BY <1>1 DEF BreakoutsFit, ToSet
<1>4. \A k \in ToSet(engine.breakouts.failed) : Ended(k, history)
  BY <1>1 DEF BreakoutsFit, ToSet
<1> QED BY <1>2, <1>3, <1>4 DEF BreakoutsAreDecidedInTime, Runs, Ended, Now

LEMMA Ranging == IInv => RangesHold
<1> SUFFICES ASSUME IInv PROVE RangesHold
  OBVIOUS
<1>1. RangesFit(engine.ranges, history)
  BY DEF IInv, EngineFits
<1>2. \A r \in ToSet(engine.ranges.active) : Holds(r, history)
  BY <1>1 DEF RangesFit, ToSet
<1>3. CurrentRange(engine.ranges) \subseteq ToSet(engine.ranges.active)
  <2> DEFINE active == engine.ranges.active
  <2>1. active \in Seq(Ranges)
    BY <1>1 DEF RangesFit
  <2>2. active # <<>> => Last(active) \in ToSet(active)
    <3> HIDE DEF active
    <3> QED BY <2>1 DEF Last, ToSet
  <2> QED BY <2>2 DEF CurrentRange
<1> QED BY <1>2, <1>3 DEF RangesHold, Holds, Now

LEMMA Entries == IInv => EntryBarsFollowSignals
<1> SUFFICES ASSUME IInv PROVE EntryBarsFollowSignals
  OBVIOUS
<1>1. ClassifiesAll(engine.context.recent, history)
  BY DEF IInv, EngineFits
<1>2. DOMAIN engine.context.recent = 1 .. Len(engine.context.recent)
  BY <1>1 DEF ClassifiesAll
<1> QED BY <1>1, <1>2, Zenon DEF EntryBarsFollowSignals, ClassifiesAll, Now

(* Points that fit are the latest of the turning places. *)
LEMMA FittingPoints ==
  ASSUME NEW points, NEW places \in SUBSET Nat, NEW prices, PointsFit(points, places, prices)
  PROVE  ToSet(points) =
           {[price |-> prices[i + 1], index |-> i] : i \in Latest(places, MaxSwings)}
<1> DEFINE P(i) == [price |-> prices[i + 1], index |-> i]
           m == Len(points)
<1>1. /\ points \in Seq(SwingPoints) /\ m \in Nat /\ m <= MaxSwings /\ MaxSwings \in Nat
      /\ DOMAIN points = 1 .. m
  BY TrendAssumption DEF PointsFit, TrendAssumption
<1>2. \A k \in 1 .. m : /\ points[k].index \in places
                        /\ points[k].price = prices[points[k].index + 1]
                        /\ Cardinality({j \in places : j > points[k].index}) = m - k
  BY DEF PointsFit
<1>3. \A k \in 1 .. m : points[k] = P(points[k].index)
  <2> SUFFICES ASSUME NEW k \in 1 .. m PROVE points[k] = P(points[k].index)
    OBVIOUS
  <2> DEFINE p == points[k]
  <2>1. p \in SwingPoints /\ p.price = prices[p.index + 1]
    <3>1. p \in SwingPoints
      BY <1>1
    <3>2. p.price = prices[p.index + 1]
      BY <1>2, Zenon
    <3> QED BY <3>1, <3>2
  <2> HIDE DEF p
  <2>2. p = [price |-> p.price, index |-> p.index]
    BY <2>1 DEF SwingPoints
  <2> QED BY <2>1, <2>2 DEF p
<1>4. \A k \in 1 .. m : points[k].index \in Latest(places, MaxSwings)
  <2> SUFFICES ASSUME NEW k \in 1 .. m PROVE points[k].index \in Latest(places, MaxSwings)
    OBVIOUS
  <2>1. m - k < MaxSwings
    BY <1>1
  <2> QED BY <1>2, <2>1 DEF Latest
<1>5. \A i \in Latest(places, MaxSwings) : \E k \in 1 .. m : points[k] = P(i)
  <2> SUFFICES ASSUME NEW i \in Latest(places, MaxSwings)
               PROVE  \E k \in 1 .. m : points[k] = P(i)
    OBVIOUS
  <2>1. PICK k \in 1 .. m : points[k].index = i
    BY DEF PointsFit
  <2> QED BY <1>3, <2>1
<1>6. ToSet(points) = {points[k] : k \in 1 .. m}
  BY <1>1 DEF ToSet
<1> HIDE DEF P, m
<1>7. ToSet(points) = {P(i) : i \in Latest(places, MaxSwings)}
  BY <1>3, <1>4, <1>5, <1>6
<1> QED BY <1>7 DEF P

LEMMA Turning == IInv => SwingsAreTurningPoints
<1> SUFFICES ASSUME IInv PROVE SwingsAreTurningPoints
  OBVIOUS
<1> DEFINE h == history
           N == Len(h)
           L == Config.lookback
           highs == engine.trend.highs
           lows == engine.trend.lows
<1>1. h \in Seq(Shapes) /\ SwingsFit(engine.trend, h) /\ N \in Nat
  BY DEF IInv, EngineFits
<1>2. L \in Nat
  BY AnalyzerAssumption DEF AnalyzerAssumption, PAConfigs
<1>3. /\ \A i \in 1 .. N : /\ HighsOf(h)[i] = h[i].high /\ LowsOf(h)[i] = h[i].low
                           /\ DepthsOf(h)[i] = - h[i].low
                           /\ h[i].high \in Int /\ h[i].low \in Int
      /\ DOMAIN HighsOf(h) = 1 .. N /\ DOMAIN DepthsOf(h) = 1 .. N
  BY <1>1, BarFacts DEF HighsOf, LowsOf, DepthsOf
<1>4. Len(HighsOf(h)) = N /\ Len(DepthsOf(h)) = N
  BY <1>1, <1>3
<1>5. \A i \in Confirmed : i + 1 \in 1 .. N /\ i \in Nat /\ \A j \in Around(i) : j + 1 \in 1 .. N
  BY <1>1, <1>2 DEF Confirmed, Around, Now
<1>6. TurningHighs = TurningIn(HighsOf(h))
  <2>1. Confirmed = L .. Len(HighsOf(h)) - 1 - L
    BY <1>4 DEF Confirmed, Now
  <2> QED BY <1>3, <1>5, <2>1 DEF TurningHighs, TurningIn
<1>7. TurningLows = TurningIn(DepthsOf(h))
  <2>1. Confirmed = L .. Len(DepthsOf(h)) - 1 - L
    BY <1>4 DEF Confirmed, Now
  <2>2. \A i \in Confirmed : \A j \in Around(i) :
          h[j + 1].low > h[i + 1].low <=> DepthsOf(h)[j + 1] < DepthsOf(h)[i + 1]
    BY <1>3, <1>5
  <2> QED BY <2>1, <2>2 DEF TurningLows, TurningIn
<1>8. \A i \in TurningHighs : i \in Nat /\ HighsOf(h)[i + 1] = h[i + 1].high
  BY <1>3, <1>5 DEF TurningHighs
<1>9. \A i \in TurningLows : i \in Nat /\ LowsOf(h)[i + 1] = h[i + 1].low
  BY <1>3, <1>5 DEF TurningLows
<1>10. PointsFit(highs, TurningHighs, HighsOf(h)) /\ PointsFit(lows, TurningLows, LowsOf(h))
  BY <1>1, <1>6, <1>7 DEF SwingsFit
<1> HIDE DEF h, N, highs, lows
<1>12. ToSet(highs) =
         {[price |-> h[i + 1].high, index |-> i] : i \in Latest(TurningHighs, MaxSwings)}
  <2>1. ToSet(highs) =
          {[price |-> HighsOf(h)[i + 1], index |-> i] : i \in Latest(TurningHighs, MaxSwings)}
    BY <1>8, <1>10, FittingPoints
  <2>2. \A i \in Latest(TurningHighs, MaxSwings) : HighsOf(h)[i + 1] = h[i + 1].high
    BY <1>8 DEF Latest
  <2> QED BY <2>1, <2>2
<1>13. ToSet(lows) =
         {[price |-> h[i + 1].low, index |-> i] : i \in Latest(TurningLows, MaxSwings)}
  <2>1. ToSet(lows) =
          {[price |-> LowsOf(h)[i + 1], index |-> i] : i \in Latest(TurningLows, MaxSwings)}
    BY <1>9, <1>10, FittingPoints
  <2>2. \A i \in Latest(TurningLows, MaxSwings) : LowsOf(h)[i + 1] = h[i + 1].low
    BY <1>9 DEF Latest
  <2> QED BY <2>1, <2>2
<1> QED BY <1>12, <1>13 DEF SwingsAreTurningPoints, h, highs, lows

(* The engine's parts keep their types and its memories their bounds: the  *)
(* pop_front and truncate calls of the detectors.                          *)
THEOREM TypesAlwaysOK == Spec => []TypeOK
BY AnalyzerInvariant, Types, PTL

(* The swing points are always the latest turning points of the whole      *)
(* history: TrendAnalyzer::detect_swing_points, whose window slides and    *)
(* whose own count numbers the bars, misses none and invents none.         *)
THEOREM SwingsAlwaysTurningPoints == Spec => []SwingsAreTurningPoints
BY AnalyzerInvariant, Turning, PTL

(* The watermarks and counts are always those of the current run of bars:  *)
(* BarCounter::process_bar.                                                *)
THEOREM WatermarksAlwaysOfSequence == Spec => []WatermarksOfSequence
BY AnalyzerInvariant, Watermarks, PTL

(* A breakout always fails at the first close back through its level, and  *)
(* is confirmed at its last deciding bar otherwise:                        *)
(* BreakoutDetector::update_pending_breakouts.                             *)
THEOREM BreakoutsAlwaysDecidedInTime == Spec => []BreakoutsAreDecidedInTime
BY AnalyzerInvariant, Decided, PTL

(* Every active range always holds the last close, and the current one has *)
(* edges that bars touched: TradingRangeDetector::process_bar.             *)
THEOREM RangesAlwaysHold == Spec => []RangesHold
BY AnalyzerInvariant, Ranging, PTL

(* The classifications always belong to the latest bars, and an entry bar  *)
(* always follows a signal bar and trades beyond it:                       *)
(* PriceActionAnalyzer::process_bar.                                       *)
THEOREM EntryBarsAlwaysFollowSignals == Spec => []EntryBarsFollowSignals
BY AnalyzerInvariant, Entries, PTL


-----------------------------------------------------------------------------
(* The market upside down.                                                 *)

(* A price and its mirror image add up to TopPrice. *)
LEMMA MirroredBar ==
  ASSUME NEW b \in Shapes
  PROVE  LET m == Mirrored(b)
         IN  /\ m \in BarRecords /\ b \in BarRecords
             /\ m.open = TopPrice - b.open /\ m.close = TopPrice - b.close
             /\ m.high = TopPrice - b.low /\ m.low = TopPrice - b.high
             /\ b.open \in Int /\ b.close \in Int /\ b.high \in Int /\ b.low \in Int /\ TopPrice \in Int
             /\ IsBull(m) <=> IsBear(b)
             /\ IsBear(m) <=> IsBull(b)
<1>1. b.open \in Int /\ b.close \in Int /\ b.high \in Int /\ b.low \in Int /\ TopPrice \in Int
  BY BarFacts, AnalyzerAssumption DEF AnalyzerAssumption
<1>2. Mirrored(b) \in BarRecords /\ b \in BarRecords
  BY <1>1, BarsAreRecords DEF Mirrored, BarRecords
<1> QED BY <1>1, <1>2 DEF Mirrored, IsBull, IsBear

(* Bull bars become bear bars of the same kind, and dojis stay dojis. *)
LEMMA MirroredType ==
  ASSUME NEW b \in Shapes
  PROVE  LET type == TypeOfBar(b, Config.dojiPct)
             image == TypeOfBar(Mirrored(b), Config.dojiPct)
         IN  /\ image \in BullTypes <=> type \in BearTypes
             /\ image \in BearTypes <=> type \in BullTypes
<1> DEFINE m == Mirrored(b)
           pct == Config.dojiPct
<1>1. /\ m.open = TopPrice - b.open /\ m.close = TopPrice - b.close
      /\ m.high = TopPrice - b.low /\ m.low = TopPrice - b.high
      /\ b.open \in Int /\ b.close \in Int /\ b.high \in Int /\ b.low \in Int /\ TopPrice \in Int
      /\ IsBull(m) <=> IsBear(b)
      /\ IsBear(m) <=> IsBull(b)
  BY MirroredBar
<1>2. b.high >= b.low
  BY BarFacts
<1>3. pct \in Nat
  BY AnalyzerAssumption DEF AnalyzerAssumption, PAConfigs
<1> HIDE DEF m, pct
<1>4. Span(m) = Span(b) /\ Span(b) \in Nat
  BY <1>1, <1>2 DEF Span
<1>5. Body(m) = Body(b) /\ Body(b) \in Nat
  BY <1>1 DEF Body, Magnitude
<1>6. UpperTail(m) = LowerTail(b) /\ LowerTail(m) = UpperTail(b)
  BY <1>1 DEF UpperTail, LowerTail, Larger, Smaller
<1>7. /\ HasUpperTail(m) <=> HasLowerTail(b)
      /\ HasLowerTail(m) <=> HasUpperTail(b)
      /\ AtLeast(Body(m), m, StrongBodyPct) <=> AtLeast(Body(b), b, StrongBodyPct)
      /\ AtMost(Body(m), m, pct) <=> AtMost(Body(b), b, pct)
  BY <1>4, <1>5, <1>6 DEF HasUpperTail, HasLowerTail, AtLeast, AtMost
<1>8. ~ AtMost(Body(b), b, pct) => (IsBull(m) <=> ~ IsBull(b))
  <2> SUFFICES ASSUME Body(b) = 0 PROVE AtMost(Body(b), b, pct)
    BY <1>1 DEF Body, Magnitude, IsBull, IsBear
  <2>1. pct * Span(b) >= 0
    BY <1>3, <1>4
  <2> QED BY <1>3, <2>1 DEF AtMost
<1>9. TypeOfBar(m, pct) \in BullTypes <=> ~ AtMost(Body(m), m, pct) /\ IsBull(m)
  BY DEF TypeOfBar, BullTypes
<1>10. TypeOfBar(m, pct) \in BearTypes <=> ~ AtMost(Body(m), m, pct) /\ ~ IsBull(m)
  BY DEF TypeOfBar, BearTypes
<1>11. TypeOfBar(b, pct) \in BullTypes <=> ~ AtMost(Body(b), b, pct) /\ IsBull(b)
  BY DEF TypeOfBar, BullTypes
<1>12. TypeOfBar(b, pct) \in BearTypes <=> ~ AtMost(Body(b), b, pct) /\ ~ IsBull(b)
  BY DEF TypeOfBar, BearTypes
<1> QED BY <1>7, <1>8, <1>9, <1>10, <1>11, <1>12 DEF m, pct

CountsMirror(c, e) ==
  c.bull = e.bear /\ c.bear = e.bull

LEMMA CountsKeepMirroring ==
  ASSUME NEW b \in Shapes, NEW c, NEW e, CountsMirror(c, e)
  PROVE  CountsMirror(CountBar(c, Mirrored(b), TypeOfBar(Mirrored(b), Config.dojiPct)),
                      CountBar(e, b, TypeOfBar(b, Config.dojiPct)))
<1> DEFINE type == TypeOfBar(b, Config.dojiPct)
           image == TypeOfBar(Mirrored(b), Config.dojiPct)
           d == CountBar(c, Mirrored(b), image)
           f == CountBar(e, b, type)
<1>1. /\ image \in BullTypes <=> type \in BearTypes
      /\ image \in BearTypes <=> type \in BullTypes
  BY MirroredType
<1> HIDE DEF type, image
<1>2. Turned(c, image) <=> Turned(e, type)
  BY <1>1 DEF Turned, CountsMirror
<1>3. /\ d.bull = IF image \in BullTypes THEN c.bull + 1 ELSE IF Turned(c, image) THEN 0 ELSE c.bull
      /\ d.bear = IF image \in BearTypes THEN c.bear + 1 ELSE IF Turned(c, image) THEN 0 ELSE c.bear
      /\ f.bull = IF type \in BullTypes THEN e.bull + 1 ELSE IF Turned(e, type) THEN 0 ELSE e.bull
      /\ f.bear = IF type \in BearTypes THEN e.bear + 1 ELSE IF Turned(e, type) THEN 0 ELSE e.bear
  BY DEF CountBar
<1> HIDE DEF d, f
<1>4. CountsMirror(d, f)
  BY <1>1, <1>2, <1>3 DEF CountsMirror
<1> QED BY <1>4 DEF d, f, type, image

(* Windows of bars and lists of swing points, entry by entry. *)
WindowsMirror(r, s) ==
  /\ r \in Seq(BarRecords) /\ s \in Seq(Shapes) /\ Len(r) = Len(s)
  /\ \A i \in 1 .. Len(s) : r[i] = Mirrored(s[i])

PointsMirror(p, q) ==
  /\ p \in Seq([price : Int, index : Int]) /\ q \in Seq([price : Int, index : Int]) /\ Len(p) = Len(q)
  /\ \A i \in 1 .. Len(q) : p[i].price = TopPrice - q[i].price /\ p[i].index = q[i].index

LEMMA WindowsKeepMirroring ==
  ASSUME NEW b \in Shapes, NEW r, NEW s, WindowsMirror(r, s)
  PROVE  WindowsMirror(Remember(r, Mirrored(b), MaxBars), Remember(s, b, MaxBars))
<1> DEFINE u == Remember(r, Mirrored(b), MaxBars)
           v == Remember(s, b, MaxBars)
           n == Len(s) + 1
<1>1. r \in Seq(BarRecords) /\ s \in Seq(Shapes) /\ Len(r) = Len(s) /\ Len(s) \in Nat
  BY DEF WindowsMirror
<1>2. Mirrored(b) \in BarRecords /\ MaxBars \in Nat \ {0}
  BY MirroredBar, TrendAssumption DEF TrendAssumption
<1>3. /\ u \in Seq(BarRecords) /\ Len(u) = Smaller(n, MaxBars)
      /\ \A i \in 1 .. Len(u) : /\ n - Len(u) + i \in 1 .. n
                                /\ u[i] = IF i = Len(u) THEN Mirrored(b) ELSE r[n - Len(u) + i]
  BY <1>1, <1>2, RememberFacts
<1>4. /\ v \in Seq(Shapes) /\ Len(v) = Smaller(n, MaxBars)
      /\ \A i \in 1 .. Len(v) : /\ n - Len(v) + i \in 1 .. n
                                /\ v[i] = IF i = Len(v) THEN b ELSE s[n - Len(v) + i]
  BY <1>1, <1>2, RememberFacts
<1> HIDE DEF u, v
<1>5. ASSUME NEW i \in 1 .. Len(v) PROVE u[i] = Mirrored(v[i])
  <2>1. CASE i = Len(v)
    BY <1>3, <1>4, <2>1
  <2>2. CASE i # Len(v)
    <3>1. n - Len(v) + i \in 1 .. Len(s)
      <4>1. Len(v) \in Nat
        BY <1>4
      <4> QED BY <1>1, <2>2, <4>1, <1>4
    <3>2. u[i] = r[n - Len(v) + i] /\ v[i] = s[n - Len(v) + i]
      BY <1>3, <1>4, <2>2
    <3> QED BY <3>1, <3>2 DEF WindowsMirror
  <2> QED BY <2>1, <2>2
<1>6. WindowsMirror(u, v)
  BY <1>3, <1>4, <1>5 DEF WindowsMirror
<1> QED BY <1>6 DEF u, v

LEMMA PointsKeepMirroring ==
  ASSUME NEW p, NEW q, PointsMirror(p, q), NEW x \in Int, NEW y \in Int, y = TopPrice - x,
         NEW index \in Int
  PROVE  PointsMirror(Remember(p, [price |-> y, index |-> index], MaxSwings),
                      Remember(q, [price |-> x, index |-> index], MaxSwings))
<1> DEFINE P == [price : Int, index : Int]
           left == [price |-> y, index |-> index]
           right == [price |-> x, index |-> index]
           u == Remember(p, left, MaxSwings)
           v == Remember(q, right, MaxSwings)
           n == Len(q) + 1
<1>1. p \in Seq(P) /\ q \in Seq(P) /\ Len(p) = Len(q) /\ Len(q) \in Nat
  BY DEF PointsMirror
<1>2. left \in P /\ right \in P /\ MaxSwings \in Nat \ {0}
  BY TrendAssumption DEF TrendAssumption
<1>0. left.price = TopPrice - right.price /\ left.index = right.index
  OBVIOUS
<1> HIDE DEF P, left, right
<1>3. /\ u \in Seq(P) /\ Len(u) = Smaller(n, MaxSwings)
      /\ \A i \in 1 .. Len(u) : /\ n - Len(u) + i \in 1 .. n
                                /\ u[i] = IF i = Len(u) THEN left ELSE p[n - Len(u) + i]
  BY <1>1, <1>2, RememberFacts
<1>4. /\ v \in Seq(P) /\ Len(v) = Smaller(n, MaxSwings)
      /\ \A i \in 1 .. Len(v) : /\ n - Len(v) + i \in 1 .. n
                                /\ v[i] = IF i = Len(v) THEN right ELSE q[n - Len(v) + i]
  BY <1>1, <1>2, RememberFacts
<1> HIDE DEF u, v
<1>5. ASSUME NEW i \in 1 .. Len(v)
      PROVE  u[i].price = TopPrice - v[i].price /\ u[i].index = v[i].index
  <2>1. CASE i = Len(v)
    BY <1>0, <1>3, <1>4, <2>1
  <2>2. CASE i # Len(v)
    <3>1. n - Len(v) + i \in 1 .. Len(q)
      <4>1. Len(v) \in Nat
        BY <1>4
      <4> QED BY <1>1, <2>2, <4>1, <1>4
    <3>2. u[i] = p[n - Len(v) + i] /\ v[i] = q[n - Len(v) + i]
      BY <1>3, <1>4, <2>2
    <3> QED BY <3>1, <3>2 DEF PointsMirror
  <2> QED BY <2>1, <2>2
<1>6. PointsMirror(u, v)
  BY <1>3, <1>4, <1>5 DEF PointsMirror, P
<1> QED BY <1>6 DEF u, v, left, right

LEMMA TurnsMirror ==
  ASSUME NEW r, NEW s, WindowsMirror(r, s), HasCandidate(s, Config.lookback)
  PROVE  LET L == Config.lookback
             here == r[Candidate(r, L)]
             there == s[Candidate(s, L)]
         IN  /\ here = Mirrored(there) /\ there \in Shapes
             /\ HasCandidate(r, L)
             /\ IsSwingHigh(r, L) <=> IsSwingLow(s, L)
             /\ IsSwingLow(r, L) <=> IsSwingHigh(s, L)
<1> DEFINE L == Config.lookback
           c == Candidate(s, L)
           K == Len(s)
<1>1. L \in Nat /\ K \in Nat /\ Len(r) = K /\ s \in Seq(Shapes)
  BY AnalyzerAssumption DEF AnalyzerAssumption, PAConfigs, WindowsMirror
<1>2. K >= 2 * L + 1 /\ c = K - L /\ Candidate(r, L) = c /\ HasCandidate(r, L)
      /\ Neighbours(r, L) = Neighbours(s, L) /\ Neighbours(s, L) = (K - 2 * L .. K) \ {c}
  BY <1>1 DEF HasCandidate, Candidate, Neighbours
<1> HIDE DEF L, c, K
<1>3. c \in 1 .. K /\ Neighbours(s, L) \subseteq 1 .. K
  BY <1>1, <1>2
<1>4. \A i \in 1 .. K : s[i] \in Shapes /\ r[i] = Mirrored(s[i])
  BY <1>1 DEF WindowsMirror, K
<1>5. \A i \in 1 .. K : /\ r[i].high = TopPrice - s[i].low /\ r[i].low = TopPrice - s[i].high
                        /\ s[i].high \in Int /\ s[i].low \in Int
  BY <1>4, MirroredBar
<1>6. TopPrice \in Int
  BY AnalyzerAssumption DEF AnalyzerAssumption
<1>7. \A i \in Neighbours(s, L) : /\ r[i].high < r[c].high <=> s[i].low > s[c].low
                                  /\ r[i].low > r[c].low <=> s[i].high < s[c].high
  BY <1>3, <1>5, <1>6
<1>8. /\ IsSwingHigh(r, L) <=> \A i \in Neighbours(s, L) : r[i].high < r[c].high
      /\ IsSwingLow(r, L) <=> \A i \in Neighbours(s, L) : r[i].low > r[c].low
      /\ IsSwingHigh(s, L) <=> \A i \in Neighbours(s, L) : s[i].high < s[c].high
      /\ IsSwingLow(s, L) <=> \A i \in Neighbours(s, L) : s[i].low > s[c].low
  <2>1. HasCandidate(s, L)
    BY DEF L
  <2> QED BY <1>2, <2>1 DEF IsSwingHigh, IsSwingLow, c
<1>9. r[c] = Mirrored(s[c]) /\ s[c] \in Shapes
  BY <1>3, <1>4
<1> QED BY <1>2, <1>7, <1>8, <1>9 DEF L, c

(* What WithSwing adds to one list mirrors what it adds to the other. *)
LEMMA SwingsKeepMirroring ==
  ASSUME NEW p, NEW q, PointsMirror(p, q), NEW index \in Int,
         NEW isLeft, NEW isRight, isLeft <=> isRight, NEW x, NEW y,
         isRight => x \in Int /\ y \in Int /\ y = TopPrice - x
  PROVE  PointsMirror(WithSwing(p, isLeft, y, index), WithSwing(q, isRight, x, index))
<1>1. CASE isRight
  BY <1>1, PointsKeepMirroring DEF WithSwing
<1>2. CASE ~ isRight
  BY <1>2 DEF WithSwing
<1> QED BY <1>1, <1>2

LEMMA SlopesMirror ==
  ASSUME NEW p, NEW q, PointsMirror(p, q), Len(q) >= 2
  PROVE  /\ Rising(p) <=> Falling(q)
         /\ Falling(p) <=> Rising(q)
         /\ ~ (Rising(q) /\ Falling(q))
<1>1. Len(q) \in Nat /\ Len(p) = Len(q) /\ Len(q) - 0 \in 1 .. Len(q) /\ Len(q) - 1 \in 1 .. Len(q)
  BY DEF PointsMirror
<1> DEFINE m == Len(q)
           i == Len(q) - 0
           j == Len(q) - 1
<1>2. /\ p[i].price = TopPrice - q[i].price /\ p[j].price = TopPrice - q[j].price
      /\ q[i] \in [price : Int, index : Int] /\ q[j] \in [price : Int, index : Int]
  <2>1. i \in 1 .. Len(q) /\ j \in 1 .. Len(q)
    BY <1>1
  <2> DEFINE P == [price : Int, index : Int]
  <2>2. q \in Seq(P)
    BY DEF PointsMirror
  <2>3. \A k \in 1 .. Len(q) : p[k].price = TopPrice - q[k].price
    BY DEF PointsMirror
  <2> HIDE DEF i, j, P
  <2>4. q[i] \in P /\ q[j] \in P
    BY <2>1, <2>2
  <2>5. p[i].price = TopPrice - q[i].price /\ p[j].price = TopPrice - q[j].price
    BY <2>1, <2>3, Zenon
  <2> QED BY <2>4, <2>5 DEF P
<1>3. q[i].price \in Int /\ q[j].price \in Int /\ TopPrice \in Int
  BY <1>2, AnalyzerAssumption DEF AnalyzerAssumption
<1>4. /\ Rising(p) <=> p[i].price > p[j].price
      /\ Falling(p) <=> p[i].price < p[j].price
      /\ Rising(q) <=> q[i].price > q[j].price
      /\ Falling(q) <=> q[i].price < q[j].price
  BY <1>1 DEF Rising, Falling, FromEnd
<1> HIDE DEF i, j
<1> QED BY <1>2, <1>3, <1>4, SMTT(30)

LEMMA BalancesMirror ==
  ASSUME NEW r, NEW s, WindowsMirror(r, s)
  PROVE  /\ DirectionBalance(s) \in Int
         /\ DirectionBalance(r) = - DirectionBalance(s)
         /\ ScoredBars(r) = ScoredBars(s) /\ ScoredBars(s) \in Nat
<1> DEFINE last == Len(s) - ScoredBars(s) + 1 .. Len(s)
           up == {i \in last : IsBull(s[i])}
           down == {i \in last : IsBear(s[i])}
<1>1. Len(s) \in Nat /\ Len(r) = Len(s) /\ s \in Seq(Shapes)
  BY DEF WindowsMirror
<1>2. ScoredBars(r) = ScoredBars(s) /\ ScoredBars(s) \in Nat /\ ScoredBars(s) <= Len(s)
  BY <1>1 DEF ScoredBars, Smaller
<1>3. last \subseteq 1 .. Len(s) /\ IsFiniteSet(last)
  <2>1. Len(s) - ScoredBars(s) + 1 \in Int /\ Len(s) \in Int
    BY <1>1, <1>2
  <2>2. IsFiniteSet(last)
    BY <2>1, FS_Interval
  <2> QED BY <1>1, <1>2, <2>2
<1>4. \A i \in last : /\ IsBull(r[i]) <=> IsBear(s[i])
                      /\ IsBear(r[i]) <=> IsBull(s[i])
  <2> SUFFICES ASSUME NEW i \in 1 .. Len(s)
               PROVE  /\ IsBull(r[i]) <=> IsBear(s[i])
                      /\ IsBear(r[i]) <=> IsBull(s[i])
    BY <1>3
  <2>1. s[i] \in Shapes /\ r[i] = Mirrored(s[i])
    BY <1>1 DEF WindowsMirror
  <2> QED BY <2>1, MirroredBar
<1>5. {i \in last : IsBull(r[i])} = down /\ {i \in last : IsBear(r[i])} = up
  <2> HIDE DEF last
  <2> QED BY <1>4
<1>6. Cardinality(up) \in Nat /\ Cardinality(down) \in Nat
  <2>1. up \in SUBSET last /\ down \in SUBSET last
    OBVIOUS
  <2> HIDE DEF last, up, down
  <2> QED BY <1>3, <2>1, FS_Subset, FS_CardinalityType
<1>7. DirectionBalance(s) = Cardinality(up) - Cardinality(down)
  BY DEF DirectionBalance
<1>8. DirectionBalance(r) = Cardinality(down) - Cardinality(up)
  BY <1>1, <1>2, <1>5 DEF DirectionBalance
<1> HIDE DEF up, down
<1> QED BY <1>2, <1>6, <1>7, <1>8

AveragesMirror(d, e) ==
  \/ d = {} /\ e = {}
  \/ \E x \in Int : e = {x} /\ d = {TopPrice - x}

LEMMA StatesMirror ==
  ASSUME NEW th, NEW tl, NEW eh, NEW el, PointsMirror(th, el), PointsMirror(tl, eh),
         NEW d, NEW e, AveragesMirror(d, e), NEW r, NEW s, WindowsMirror(r, s), NEW b \in Shapes
  PROVE  TrendState(th, tl, d, r, Mirrored(b)) = MirroredState(TrendState(eh, el, e, s, b))
<1> DEFINE m == Mirrored(b)
           above == \E x \in e : b.close > x
           below == \E x \in e : b.close < x
           rising == HigherHighsAndLows(eh, el)
           falling == LowerHighsAndLows(eh, el)
<1>1. /\ HigherHighsAndLows(th, tl) <=> falling
      /\ LowerHighsAndLows(th, tl) <=> rising
      /\ ~ (rising /\ falling)
  <2>1. Len(th) = Len(el) /\ Len(tl) = Len(eh)
    BY DEF PointsMirror
  <2>2. CASE HasTwoEach(eh, el)
    <3>1. Len(eh) >= 2 /\ Len(el) >= 2 /\ HasTwoEach(th, tl)
      BY <2>1, <2>2 DEF HasTwoEach
    <3>2. /\ Rising(th) <=> Falling(el)
          /\ Falling(th) <=> Rising(el)
          /\ Rising(tl) <=> Falling(eh)
          /\ Falling(tl) <=> Rising(eh)
          /\ ~ (Rising(eh) /\ Falling(eh))
      BY <3>1, SlopesMirror
    <3> QED BY <2>2, <3>1, <3>2 DEF HigherHighsAndLows, LowerHighsAndLows
  <2>3. CASE ~ HasTwoEach(eh, el)
    <3>1. ~ HasTwoEach(th, tl)
      BY <2>1, <2>3 DEF HasTwoEach
    <3> QED BY <2>3, <3>1 DEF HigherHighsAndLows, LowerHighsAndLows
  <2> QED BY <2>2, <2>3
<1>2. /\ (\E x \in d : m.close > x) <=> below
      /\ (\E x \in d : m.close < x) <=> above
      /\ ~ (above /\ below)
  <2>1. m.close = TopPrice - b.close /\ b.close \in Int /\ TopPrice \in Int
    BY MirroredBar
  <2> HIDE DEF m
  <2> QED BY <2>1 DEF AveragesMirror
<1>3. /\ ScoreAbove(r, 6) <=> ScoreBelow(s, -6)
      /\ ScoreAbove(r, 4) <=> ScoreBelow(s, -4)
      /\ ScoreBelow(r, -6) <=> ScoreAbove(s, 6)
      /\ ScoreBelow(r, -4) <=> ScoreAbove(s, 4)
  BY BalancesMirror DEF ScoreAbove, ScoreBelow
<1> HIDE DEF m, above, below, rising, falling
<1>4. TrendState(eh, el, e, s, b) =
        IF rising THEN IF above /\ ScoreAbove(s, 6) THEN "StrongBullTrend" ELSE "BullTrend"
        ELSE IF falling THEN IF below /\ ScoreBelow(s, -6) THEN "StrongBearTrend" ELSE "BearTrend"
        ELSE IF above /\ ScoreAbove(s, 4) THEN "WeakBullTrend"
        ELSE IF below /\ ScoreBelow(s, -4) THEN "WeakBearTrend"
        ELSE "TradingRange"
  BY DEF TrendState, above, below, rising, falling
<1>5. TrendState(th, tl, d, r, m) =
        IF falling THEN IF below /\ ScoreBelow(s, -6) THEN "StrongBullTrend" ELSE "BullTrend"
        ELSE IF rising THEN IF above /\ ScoreAbove(s, 6) THEN "StrongBearTrend" ELSE "BearTrend"
        ELSE IF below /\ ScoreBelow(s, -4) THEN "WeakBullTrend"
        ELSE IF above /\ ScoreAbove(s, 4) THEN "WeakBearTrend"
        ELSE "TradingRange"
  BY <1>1, <1>2, <1>3 DEF TrendState
<1> QED BY <1>1, <1>2, <1>4, <1>5 DEF MirroredState, m

(***************************************************************************)
(* The average.  It mirrors when it is exact: the code computes it in      *)
(* decimals, the model in whole units, so units must be small enough for   *)
(* the divisions of a behaviour to leave no remainder.  units[n] divides   *)
(* the average of n bars.  With an average of three bars, seven bars and   *)
(* prices in steps of 4096, the powers of 4 from 4096 down to 1 are such   *)
(* units.                                                                  *)
(***************************************************************************)
Multiple(x, unit) == \E k \in Int : x = k * unit

AverageIsExact(units) ==
  /\ units \in [1 .. Horizon -> Nat \ {0}]
  /\ \A n \in 1 .. Horizon : n + 1 \in 1 .. Horizon =>
       units[n] = (Config.emaPeriod + 1) * units[n + 1]
  /\ \A n \in 1 .. Horizon : n = 1 =>
       /\ Multiple(TopPrice, units[n])
       /\ \A b \in Shapes : Multiple(b.close, units[n])

LEMMA MultipleOfPart ==
  ASSUME NEW x \in Int, NEW u \in Nat, NEW v \in Nat, NEW k \in Nat, u = k * v, Multiple(x, u)
  PROVE  Multiple(x, v)
<1>1. PICK i \in Int : x = i * u
  BY DEF Multiple
<1>2. i * (k * v) = (i * k) * v /\ i * k \in Int
  OBVIOUS
<1>3. x = (i * k) * v
  BY <1>1, <1>2
<1> QED BY <1>2, <1>3 DEF Multiple

LEMMA ClosesStayMultiples ==
  ASSUME NEW units, AverageIsExact(units), NEW n \in 1 .. Horizon, NEW b \in Shapes
  PROVE  Multiple(b.close, units[n]) /\ Multiple(TopPrice, units[n])
<1> DEFINE Good(i) == Multiple(b.close, units[i]) /\ Multiple(TopPrice, units[i])
           T == {i \in 1 .. Horizon : ~ Good(i)}
<1>1. SUFFICES ASSUME T # {} PROVE FALSE
  OBVIOUS
<1>0. Horizon \in Nat
  BY AnalyzerAssumption DEF AnalyzerAssumption
<1>2. PICK i \in T : \A j \in T : i <= j
  <2>1. T \in SUBSET Nat
    BY <1>0
  <2> HIDE DEF T
  <2> QED BY <1>1, <2>1, LeastNatural
<1>3. i # 1
  BY DEF AverageIsExact
<1> DEFINE j == i - 1
<1>4. j \in 1 .. Horizon /\ j + 1 = i /\ j + 1 \in 1 .. Horizon /\ j < i
  BY <1>0, <1>3
<1>5. Good(j)
  <2>1. j \notin T
    BY <1>2, <1>4
  <2> QED BY <1>4, <2>1
<1>6. units[j] = (Config.emaPeriod + 1) * units[i]
  BY <1>4 DEF AverageIsExact
<1>7. units[j] \in Nat /\ units[i] \in Nat
  BY <1>4 DEF AverageIsExact
<1>8. Config.emaPeriod + 1 \in Nat
  BY AnalyzerAssumption DEF AnalyzerAssumption, PAConfigs
<1>9. b.close \in Int /\ TopPrice \in Int
  BY MirroredBar
<1> HIDE DEF j
<1>10. Good(i)
  BY <1>5, <1>6, <1>7, <1>8, <1>9, MultipleOfPart
<1> QED BY <1>10

LEMMA Quotient ==
  ASSUME NEW n \in Nat \ {0}, NEW z \in Int
  PROVE  (n * z) \div n = z
OBVIOUS

LEMMA AveragesKeepMirroring ==
  ASSUME NEW b \in Shapes, NEW x \in Int,
         NEW u \in Nat, NEW v \in Nat, u = (Config.emaPeriod + 1) * v,
         Multiple(b.close, u), Multiple(TopPrice, u), Multiple(x, u)
  PROVE  \E y \in Int : /\ NextEma({x}, b, Config.emaPeriod) = {y}
                        /\ NextEma({TopPrice - x}, Mirrored(b), Config.emaPeriod) = {TopPrice - y}
                        /\ Multiple(y, v)
<1> DEFINE p == Config.emaPeriod
           c == b.close
           m == Mirrored(b).close
           here == (2 * c + (p - 1) * x) \div (p + 1)
           there == (2 * m + (p - 1) * (TopPrice - x)) \div (p + 1)
<1>1. p \in Nat \ {0} /\ c \in Int /\ TopPrice \in Int /\ m = TopPrice - c
  BY MirroredBar, AnalyzerAssumption DEF AnalyzerAssumption, PAConfigs
<1>2. PICK i \in Int, j \in Int, k \in Int : c = i * u /\ TopPrice = j * u /\ x = k * u
  BY DEF Multiple
<1>3. NextEma({x}, b, p) = {here} /\ NextEma({TopPrice - x}, Mirrored(b), p) = {there}
  <2>1. {x} # {} /\ {TopPrice - x} # {}
    OBVIOUS
  <2> QED BY <2>1 DEF NextEma
<1> HIDE DEF p, c, m, here, there
<1> DEFINE y == (2 * i + (p - 1) * k) * v
           t == 2 * j * v + (p - 1) * (j * v)
<1>4. y \in Int
  BY <1>1
<1>5. 2 * c + (p - 1) * x = (p + 1) * y
  <2>1. u = (p + 1) * v
    BY DEF p
  <2>2. 2 * c + (p - 1) * x = (2 * i + (p - 1) * k) * u
    <3>1. 2 * (i * u) + (p - 1) * (k * u) = (2 * i + (p - 1) * k) * u
      BY <1>1
    <3> QED BY <1>2, <3>1
  <2>3. (2 * i + (p - 1) * k) * ((p + 1) * v) = (p + 1) * ((2 * i + (p - 1) * k) * v)
    BY <1>1
  <2> QED BY <2>1, <2>2, <2>3
<1> HIDE DEF y
<1>6. 2 * m + (p - 1) * (TopPrice - x) = (p + 1) * (TopPrice - y)
  <2>1. 2 * m + (p - 1) * (TopPrice - x) = (p + 1) * TopPrice - (2 * c + (p - 1) * x)
    <3>1. (p - 1) * (TopPrice - x) = (p - 1) * TopPrice - (p - 1) * x
      BY <1>1
    <3>2. (p + 1) * TopPrice = (p - 1) * TopPrice + 2 * TopPrice
      BY <1>1
    <3>3. (p - 1) * x \in Int /\ (p - 1) * TopPrice \in Int
      BY <1>1
    <3> QED BY <1>1, <3>1, <3>2, <3>3
  <2>2. (p + 1) * (TopPrice - y) = (p + 1) * TopPrice - (p + 1) * y
    BY <1>1, <1>4
  <2> QED BY <1>5, <2>1, <2>2
<1>7. \A z \in Int : ((p + 1) * z) \div (p + 1) = z
  <2> SUFFICES ASSUME NEW z \in Int PROVE ((p + 1) * z) \div (p + 1) = z
    OBVIOUS
  <2>1. p + 1 \in Nat \ {0}
    BY <1>1
  <2> QED BY <2>1, Quotient
<1>8. here = y /\ there = TopPrice - y
  <2>1. TopPrice - y \in Int
    BY <1>1, <1>4
  <2> QED BY <1>4, <1>5, <1>6, <1>7, <2>1 DEF here, there
<1>9. Multiple(y, v)
  <2>1. 2 * i + (p - 1) * k \in Int
    BY <1>1
  <2> QED BY <2>1 DEF Multiple, y
<1> QED BY <1>3, <1>4, <1>8, <1>9 DEF p

-----------------------------------------------------------------------------
(* What the twin has in common with the engine's counter and trend.        *)

TrendsMirror(t, e) ==
  /\ t.state = MirroredState(e.state)
  /\ PointsMirror(t.highs, e.lows)
  /\ PointsMirror(t.lows, e.highs)
  /\ AveragesMirror(t.ema, e.ema)
  /\ WindowsMirror(t.recent, e.recent)
  /\ t.index = e.index

(* After n bars the average is a multiple of the nth unit. *)
AverageFits(e, n, units) ==
  IF n = 0 THEN e.ema = {}
  ELSE n \in 1 .. Horizon /\ \E x \in Int : e.ema = {x} /\ Multiple(x, units[n])

LEMMA AverageGoesOn ==
  ASSUME NEW units, AverageIsExact(units), NEW b \in Shapes, NEW n \in Nat, n < Horizon,
         NEW t, NEW e, AveragesMirror(t.ema, e.ema), AverageFits(e, n, units)
  PROVE  \E y \in Int :
           /\ NextEma(e.ema, b, Config.emaPeriod) = {y}
           /\ NextEma(t.ema, Mirrored(b), Config.emaPeriod) = {TopPrice - y}
           /\ Multiple(y, units[n + 1]) /\ n + 1 \in 1 .. Horizon
<1>0. Horizon \in Nat /\ n + 1 \in 1 .. Horizon
  BY AnalyzerAssumption DEF AnalyzerAssumption
<1>1. CASE n = 0
  <2>1. e.ema = {} /\ t.ema = {}
    BY <1>1 DEF AverageFits, AveragesMirror
  <2>2. /\ NextEma(e.ema, b, Config.emaPeriod) = {b.close}
        /\ NextEma(t.ema, Mirrored(b), Config.emaPeriod) = {Mirrored(b).close}
    BY <2>1 DEF NextEma
  <2>3. b.close \in Int /\ Mirrored(b).close = TopPrice - b.close
    BY MirroredBar
  <2>4. Multiple(b.close, units[n + 1])
    BY <1>0, ClosesStayMultiples
  <2> QED BY <1>0, <2>2, <2>3, <2>4
<1>2. CASE n # 0
  <2>1. PICK x \in Int : e.ema = {x} /\ Multiple(x, units[n])
    BY <1>2 DEF AverageFits
  <2>2. t.ema = {TopPrice - x}
    <3>1. PICK z \in Int : e.ema = {z} /\ t.ema = {TopPrice - z}
      BY <2>1 DEF AveragesMirror
    <3>2. z = x
      BY <2>1, <3>1
    <3> QED BY <3>1, <3>2
  <2>3. n \in 1 .. Horizon
    BY <1>2 DEF AverageFits
  <2>4. units[n] = (Config.emaPeriod + 1) * units[n + 1] /\ units[n] \in Nat /\ units[n + 1] \in Nat
    BY <1>0, <2>3 DEF AverageIsExact
  <2>5. Multiple(b.close, units[n]) /\ Multiple(TopPrice, units[n])
    BY <2>3, ClosesStayMultiples
  <2>6. \E y \in Int : /\ NextEma({x}, b, Config.emaPeriod) = {y}
                       /\ NextEma({TopPrice - x}, Mirrored(b), Config.emaPeriod) = {TopPrice - y}
                       /\ Multiple(y, units[n + 1])
    BY <2>1, <2>4, <2>5, AveragesKeepMirroring
  <2> QED BY <1>0, <2>1, <2>2, <2>6
<1> QED BY <1>1, <1>2

LEMMA TrendsKeepMirroring ==
  ASSUME NEW units, AverageIsExact(units), NEW b \in Shapes, NEW n \in Nat, n < Horizon,
         NEW t, NEW e, TrendsMirror(t, e), AverageFits(e, n, units), e.index \in Int
  PROVE  LET L == Config.lookback
             p == Config.emaPeriod
         IN  /\ TrendsMirror(UpdateTrend(t, Mirrored(b), L, p), UpdateTrend(e, b, L, p))
             /\ AverageFits(UpdateTrend(e, b, L, p), n + 1, units)
<1> DEFINE L == Config.lookback
           p == Config.emaPeriod
           tr == Remember(t.recent, Mirrored(b), MaxBars)
           er == Remember(e.recent, b, MaxBars)
           tm == tr[Candidate(tr, L)]
           em == er[Candidate(er, L)]
           index == e.index - L
           th == WithSwing(t.highs, IsSwingHigh(tr, L), tm.high, index)
           tl == WithSwing(t.lows, IsSwingLow(tr, L), tm.low, index)
           eh == WithSwing(e.highs, IsSwingHigh(er, L), em.high, index)
           el == WithSwing(e.lows, IsSwingLow(er, L), em.low, index)
           ta == NextEma(t.ema, Mirrored(b), p)
           ea == NextEma(e.ema, b, p)
           tn == UpdateTrend(t, Mirrored(b), L, p)
           en == UpdateTrend(e, b, L, p)
<1>1. t.index = e.index /\ L \in Nat /\ index \in Int
  BY AnalyzerAssumption DEF AnalyzerAssumption, PAConfigs, TrendsMirror
<1>2. /\ tn.state = TrendState(th, tl, ta, tr, Mirrored(b))
      /\ tn.highs = th /\ tn.lows = tl /\ tn.ema = ta /\ tn.recent = tr /\ tn.index = t.index + 1
  BY <1>1 DEF UpdateTrend
<1>3. /\ en.state = TrendState(eh, el, ea, er, b)
      /\ en.highs = eh /\ en.lows = el /\ en.ema = ea /\ en.recent = er /\ en.index = e.index + 1
  BY DEF UpdateTrend
<1> HIDE DEF L, p, tr, er, tn, en
<1>4. WindowsMirror(tr, er)
  BY WindowsKeepMirroring DEF TrendsMirror, tr, er
<1>5. /\ IsSwingHigh(tr, L) <=> IsSwingLow(er, L)
      /\ IsSwingLow(tr, L) <=> IsSwingHigh(er, L)
      /\ IsSwingLow(er, L) \/ IsSwingHigh(er, L) =>
           /\ tm.high = TopPrice - em.low /\ tm.low = TopPrice - em.high
           /\ em.high \in Int /\ em.low \in Int /\ tm.high \in Int /\ tm.low \in Int
  <2>1. CASE HasCandidate(er, L)
    <3>1. /\ tm = Mirrored(em) /\ em \in Shapes
          /\ IsSwingHigh(tr, L) <=> IsSwingLow(er, L)
          /\ IsSwingLow(tr, L) <=> IsSwingHigh(er, L)
      BY <1>4, <2>1, TurnsMirror DEF L
    <3> HIDE DEF tm, em
    <3>2. /\ tm.high = TopPrice - em.low /\ tm.low = TopPrice - em.high
          /\ em.high \in Int /\ em.low \in Int /\ TopPrice \in Int
      BY <3>1, MirroredBar
    <3> QED BY <3>1, <3>2
  <2>2. CASE ~ HasCandidate(er, L)
    <3>1. ~ HasCandidate(tr, L)
      BY <1>4, <2>2 DEF WindowsMirror, HasCandidate
    <3> QED BY <2>2, <3>1 DEF IsSwingHigh, IsSwingLow
  <2> QED BY <2>1, <2>2
<1> HIDE DEF tm, em, index
<1>6. PointsMirror(th, el)
  <2>1. PointsMirror(t.highs, e.lows)
    BY DEF TrendsMirror
  <2> QED BY <1>1, <1>5, <2>1, SwingsKeepMirroring
<1>7. PointsMirror(tl, eh)
  <2>1. PointsMirror(t.lows, e.highs)
    BY DEF TrendsMirror
  <2> QED BY <1>1, <1>5, <2>1, SwingsKeepMirroring
<1> HIDE DEF th, tl, eh, el, ta, ea
<1>8. PICK y \in Int : ea = {y} /\ ta = {TopPrice - y} /\ Multiple(y, units[n + 1]) /\ n + 1 \in 1 .. Horizon
  <2>1. AveragesMirror(t.ema, e.ema)
    BY DEF TrendsMirror
  <2>2. \E y \in Int :
          /\ NextEma(e.ema, b, Config.emaPeriod) = {y}
          /\ NextEma(t.ema, Mirrored(b), Config.emaPeriod) = {TopPrice - y}
          /\ Multiple(y, units[n + 1]) /\ n + 1 \in 1 .. Horizon
    BY <2>1, AverageGoesOn
  <2>3. ea = NextEma(e.ema, b, Config.emaPeriod) /\ ta = NextEma(t.ema, Mirrored(b), Config.emaPeriod)
    BY DEF ea, ta, p
  <2> QED BY <2>2, <2>3
<1>9. AveragesMirror(ta, ea)
  BY <1>8 DEF AveragesMirror
<1>10. tn.state = MirroredState(en.state)
  BY <1>2, <1>3, <1>4, <1>6, <1>7, <1>9, StatesMirror
<1>11. TrendsMirror(tn, en)
  BY <1>1, <1>2, <1>3, <1>4, <1>6, <1>7, <1>9, <1>10 DEF TrendsMirror
<1>12. AverageFits(en, n + 1, units)
  BY <1>3, <1>8 DEF AverageFits
<1> QED BY <1>11, <1>12 DEF tn, en, L, p

MirrorInv(units) ==
  /\ Len(history) \in 0 .. Horizon
  /\ CountsMirror(twin.counter, engine.counter)
  /\ TrendsMirror(twin.trend, engine.trend)
  /\ AverageFits(engine.trend, Len(history), units)

LEMMA InitMirrors ==
  ASSUME NEW units
  PROVE  Init => MirrorInv(units)
<1> SUFFICES ASSUME Init PROVE MirrorInv(units)
  OBVIOUS
<1>1. /\ history = <<>> /\ twin.counter = NewCounter /\ twin.trend = NewTrend
      /\ engine.counter = NewCounter /\ engine.trend = NewTrend
  BY DEF Init, NewEngine
<1>2. Len(history) = 0 /\ Horizon \in Nat
  BY <1>1, AnalyzerAssumption DEF AnalyzerAssumption
<1>3. CountsMirror(NewCounter, NewCounter)
  BY DEF CountsMirror, NewCounter
<1>4. TrendsMirror(NewTrend, NewTrend)
  BY DEF TrendsMirror, NewTrend, MirroredState, PointsMirror, WindowsMirror, AveragesMirror
<1>5. AverageFits(NewTrend, 0, units)
  BY DEF AverageFits, NewTrend
<1> QED BY <1>1, <1>2, <1>3, <1>4, <1>5 DEF MirrorInv

LEMMA NextMirrors ==
  ASSUME NEW units, AverageIsExact(units)
  PROVE  IInv /\ MirrorInv(units) /\ [Next]_vars => MirrorInv(units)'
<1> SUFFICES ASSUME IInv, MirrorInv(units), [Next]_vars PROVE MirrorInv(units)'
  OBVIOUS
<1>1. CASE Next
  <2>1. PICK b \in Shapes : NewBar(b)
    BY <1>1 DEF Next
  <2>2. PICK e, t, c, d, n :
          /\ e = engine.trend /\ t = twin.trend /\ c = engine.counter /\ d = twin.counter
          /\ n = Len(history)
    OBVIOUS
  <2>3. n \in Nat /\ n < Horizon /\ Len(history') = n + 1 /\ n + 1 \in 0 .. Horizon
    <3>1. history \in Seq(Shapes) /\ Horizon \in Nat
      BY AnalyzerAssumption DEF IInv, AnalyzerAssumption
    <3> QED BY <2>1, <2>2, <3>1 DEF NewBar
  <2>4. CountsMirror(d, c) /\ TrendsMirror(t, e) /\ AverageFits(e, n, units)
    BY <2>2 DEF MirrorInv
  <2>5. e.index \in Int
    BY <2>2, <2>3 DEF IInv, EngineFits, WindowFits
  <2>6. /\ twin'.counter = CountBar(d, Mirrored(b), TypeOfBar(Mirrored(b), Config.dojiPct))
        /\ twin'.trend = UpdateTrend(t, Mirrored(b), Config.lookback, Config.emaPeriod)
    BY <2>1, <2>2 DEF NewBar
  <2>7. /\ engine'.counter = CountBar(c, b, TypeOfBar(b, Config.dojiPct))
        /\ engine'.trend = UpdateTrend(e, b, Config.lookback, Config.emaPeriod)
    <3>1. HasFields(engine)
      BY DEF IInv, EngineFits
    <3>2. PICK g : g = engine
      OBVIOUS
    <3>3. engine' = ProcessBar(g, b, Config) /\ HasFields(g)
      BY <2>1, <3>1, <3>2 DEF NewBar
    <3>4. /\ ProcessBar(g, b, Config).counter = CountBar(g.counter, b, TypeOfBar(b, Config.dojiPct))
          /\ ProcessBar(g, b, Config).trend = TrendAfter(g, b)
      BY <3>3, ProcessFields
    <3> QED BY <2>2, <3>2, <3>3, <3>4 DEF TrendAfter
  <2>8. CountsMirror(twin'.counter, engine'.counter)
    BY <2>4, <2>6, <2>7, CountsKeepMirroring
  <2>9. TrendsMirror(twin'.trend, engine'.trend) /\ AverageFits(engine'.trend, n + 1, units)
    BY <2>3, <2>4, <2>5, <2>6, <2>7, TrendsKeepMirroring
  <2> QED BY <2>3, <2>8, <2>9 DEF MirrorInv
<1>2. CASE UNCHANGED vars
  BY <1>2 DEF vars, MirrorInv
<1> QED BY <1>1, <1>2

LEMMA MirroredPlaces ==
  ASSUME NEW p, NEW q, PointsMirror(p, q)
  PROVE  {x.index : x \in ToSet(p)} = {x.index : x \in ToSet(q)}
<1>1. DOMAIN p = 1 .. Len(q) /\ DOMAIN q = 1 .. Len(q) /\ \A i \in 1 .. Len(q) : p[i].index = q[i].index
  BY DEF PointsMirror
<1>2. {x.index : x \in ToSet(p)} = {p[i].index : i \in 1 .. Len(q)}
  BY <1>1 DEF ToSet
<1>3. {x.index : x \in ToSet(q)} = {q[i].index : i \in 1 .. Len(q)}
  BY <1>1 DEF ToSet
<1> QED BY <1>1, <1>2, <1>3

(* Bulls and bears are treated alike: fed the same market upside down, the *)
(* counter and the trend analyser (bar_counting.rs, trend.rs) count bears  *)
(* for bulls, turn at the same bars and find the mirrored trend, as long   *)
(* as the moving average is exact.                                         *)
THEOREM TrendAlwaysMirrors ==
  ASSUME NEW units, AverageIsExact(units)
  PROVE  Spec => []TrendMirrors
<1>1. Init => MirrorInv(units)
  BY InitMirrors
<1>2. IInv /\ MirrorInv(units) /\ [Next]_vars => MirrorInv(units)'
  BY NextMirrors
<1>3. MirrorInv(units) => TrendMirrors
  <2> SUFFICES ASSUME MirrorInv(units) PROVE TrendMirrors
    OBVIOUS
  <2>1. /\ twin.trend.state = MirroredState(engine.trend.state)
        /\ twin.counter.bull = engine.counter.bear
        /\ twin.counter.bear = engine.counter.bull
    BY DEF MirrorInv, TrendsMirror, CountsMirror
  <2>2. /\ PointsMirror(twin.trend.highs, engine.trend.lows)
        /\ PointsMirror(twin.trend.lows, engine.trend.highs)
    BY DEF MirrorInv, TrendsMirror
  <2>3. PICK th, tl, eh, el : /\ th = twin.trend.highs /\ tl = twin.trend.lows
                              /\ eh = engine.trend.highs /\ el = engine.trend.lows
    OBVIOUS
  <2>4. /\ {x.index : x \in ToSet(th)} = {x.index : x \in ToSet(el)}
        /\ {x.index : x \in ToSet(tl)} = {x.index : x \in ToSet(eh)}
    BY <2>2, <2>3, MirroredPlaces
  <2> QED BY <2>1, <2>3, <2>4 DEF TrendMirrors
<1> QED BY <1>1, <1>2, <1>3, AnalyzerInvariant, PTL DEF Spec

=============================================================================
