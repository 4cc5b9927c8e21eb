---------------------------- MODULE StrategyProofs ----------------------------
(***************************************************************************)
(* What is proved of the strategy: that its entries are timely, follow the *)
(* warm-up and stay within their budget, and that the risk manager's slots *)
(* are those of its open and its lost positions.                           *)
(***************************************************************************)
EXTENDS Strategy, FiniteInduction

(* What the proofs need of an engine: the fields it has, and the types of  *)
(* those that the strategy's prices come from.                             *)
EnginePoints == [price : Int, index : Int]

PricedLevels ==
  [price : Int, type : {"SwingHigh", "SwingLow"}, strength : Nat, first : Int, last : Int]

HasFields(e) ==
  e = [bodies |-> e.bodies, counter |-> e.counter, trend |-> e.trend, levels |-> e.levels,
       breakouts |-> e.breakouts, ranges |-> e.ranges, channel |-> e.channel,
       context |-> e.context, previous |-> e.previous]

TrendOK(t) ==
  /\ t.recent \in Seq(BarRecords)
  /\ t.highs \in Seq(EnginePoints) /\ t.lows \in Seq(EnginePoints)
  /\ t.index \in Nat

EngineOK(e) ==
  /\ HasFields(e) /\ TrendOK(e.trend)
  /\ e.levels \in Seq(PricedLevels)

-----------------------------------------------------------------------------
(* The engine's data.                                                      *)

LEMMA RememberType ==
  ASSUME NEW S, NEW history \in Seq(S), NEW x \in S, NEW limit \in Nat \ {0}
  PROVE  Remember(history, x, limit) \in Seq(S)
<1> DEFINE all == Append(history, x)
           first == Larger(1, Len(all) - limit + 1)
<1>1. all \in Seq(S) /\ Len(all) = Len(history) + 1 /\ Len(all) \in Nat
  OBVIOUS
<1>2. first \in 1 .. Len(all)
  BY <1>1 DEF Larger
<1>3. SubSeq(all, first, Len(all)) \in Seq(S)
  <2> HIDE DEF all, first
  <2> QED BY <1>1, <1>2
<1> QED BY <1>3 DEF Remember

LEMMA ExceptType ==
  ASSUME NEW S, NEW s \in Seq(S), NEW i \in 1 .. Len(s), NEW x \in S
  PROVE  [s EXCEPT ![i] = x] \in Seq(S)
<1>1. s \in [1 .. Len(s) -> S] /\ Len(s) \in Nat
  OBVIOUS
<1>2. [s EXCEPT ![i] = x] \in [1 .. Len(s) -> S]
  BY <1>1
<1> QED BY <1>1, <1>2

LEMMA TrendMoves ==
  ASSUME NEW t, TrendOK(t), NEW b \in BarRecords, NEW lookback \in Nat, NEW period
  PROVE  LET u == UpdateTrend(t, b, lookback, period)
         IN  TrendOK(u) /\ u.index = t.index + 1
<1> DEFINE u == UpdateTrend(t, b, lookback, period)
           recent == Remember(t.recent, b, MaxBars)
           middle == recent[Candidate(recent, lookback)]
           index == t.index - lookback
<1>1. recent \in Seq(BarRecords)
  BY TrendAssumption, RememberType DEF TrendAssumption, TrendOK
<1>2. index \in Int
  BY DEF TrendOK
<1>3. HasCandidate(recent, lookback) => middle.high \in Int /\ middle.low \in Int
  <2> SUFFICES ASSUME HasCandidate(recent, lookback)
               PROVE  middle.high \in Int /\ middle.low \in Int
    OBVIOUS
  <2>1. Candidate(recent, lookback) \in 1 .. Len(recent)
    <3> HIDE DEF recent
    <3> QED BY <1>1 DEF HasCandidate, Candidate
  <2>2. middle \in BarRecords
    <3> HIDE DEF recent
    <3> QED BY <1>1, <2>1
  <2> HIDE DEF middle
  <2> QED BY <2>2, Zenon DEF BarRecords
<1>4. WithSwing(t.highs, IsSwingHigh(recent, lookback), middle.high, index) \in Seq(EnginePoints)
  <2>1. CASE IsSwingHigh(recent, lookback)
    <3>1. [price |-> middle.high, index |-> index] \in EnginePoints
      BY <1>2, <1>3, <2>1 DEF IsSwingHigh, EnginePoints
    <3> HIDE DEF middle, index, recent
    <3> QED BY <2>1, <3>1, TrendAssumption, RememberType
            DEF TrendAssumption, TrendOK, WithSwing
  <2>2. CASE ~ IsSwingHigh(recent, lookback)
    BY <2>2 DEF WithSwing, TrendOK
  <2> QED BY <2>1, <2>2
<1>5. WithSwing(t.lows, IsSwingLow(recent, lookback), middle.low, index) \in Seq(EnginePoints)
  <2>1. CASE IsSwingLow(recent, lookback)
    <3>1. [price |-> middle.low, index |-> index] \in EnginePoints
      BY <1>2, <1>3, <2>1 DEF IsSwingLow, EnginePoints
    <3> HIDE DEF middle, index, recent
    <3> QED BY <2>1, <3>1, TrendAssumption, RememberType
            DEF TrendAssumption, TrendOK, WithSwing
  <2>2. CASE ~ IsSwingLow(recent, lookback)
    BY <2>2 DEF WithSwing, TrendOK
  <2> QED BY <2>1, <2>2
<1>6. /\ u.recent = recent /\ u.index = t.index + 1
      /\ u.highs = WithSwing(t.highs, IsSwingHigh(recent, lookback), middle.high, index)
      /\ u.lows = WithSwing(t.lows, IsSwingLow(recent, lookback), middle.low, index)
  BY DEF UpdateTrend
<1> HIDE DEF u, recent, middle, index
<1>7. t.index + 1 \in Nat
  BY DEF TrendOK
<1> QED BY <1>1, <1>4, <1>5, <1>6, <1>7 DEF TrendOK, u

LEMMA LevelFields ==
  ASSUME NEW l \in PricedLevels
  PROVE  /\ l.price \in Int /\ l.strength \in Nat /\ l.first \in Int /\ l.last \in Int
         /\ l = [price |-> l.price, type |-> l.type, strength |-> l.strength,
                 first |-> l.first, last |-> l.last]
BY DEF PricedLevels

LEMMA StrengthenedType ==
  ASSUME NEW l \in PricedLevels, NEW price \in Int, NEW time \in Int
  PROVE  Strengthened(l, price, time) \in PricedLevels
<1> DEFINE halfway == (l.price + price) \div 2
<1>1. /\ l.price \in Int /\ l.strength \in Nat /\ l.first \in Int
      /\ l = [price |-> l.price, type |-> l.type, strength |-> l.strength,
              first |-> l.first, last |-> l.last]
  BY LevelFields
<1>2. l.type \in {"SwingHigh", "SwingLow"}
  BY Zenon DEF PricedLevels
<1>3. halfway \in Int /\ l.strength + 1 \in Nat
  BY <1>1
<1>4. Strengthened(l, price, time)
        = [l EXCEPT !.strength = l.strength + 1, !.last = time, !.price = halfway]
  BY DEF Strengthened
<1> HIDE DEF halfway
<1>5. Strengthened(l, price, time)
        = [price |-> halfway, type |-> l.type, strength |-> l.strength + 1,
           first |-> l.first, last |-> time]
  BY <1>1, <1>4
<1> QED BY <1>1, <1>2, <1>3, <1>5 DEF PricedLevels

LEMMA AddOrStrengthenType ==
  ASSUME NEW levels \in Seq(PricedLevels), NEW price \in Int,
         NEW type \in {"SwingHigh", "SwingLow"}, NEW time \in Int, NEW tolerance
  PROVE  AddOrStrengthen(levels, price, type, time, tolerance) \in Seq(PricedLevels)
<1> DEFINE I == {i \in 1 .. Len(levels) : Magnitude(levels[i].price - price) <= tolerance}
           near == SelectInSeq(levels, LAMBDA l : Magnitude(l.price - price) <= tolerance)
<1>1. near = IF I # {} THEN Min(I) ELSE 0
  BY DEF SelectInSeq
<1>2. CASE I = {}
  <2>1. near = 0
    BY <1>1, <1>2
  <2>2. [price |-> price, type |-> type, strength |-> 1, first |-> time, last |-> time]
          \in PricedLevels
    BY DEF PricedLevels
  <2> HIDE DEF near
  <2> QED BY <2>1, <2>2 DEF AddOrStrengthen, near
<1>3. CASE I # {}
  <2>1. Min(I) \in I
    <3>1. I \in SUBSET Nat
      OBVIOUS
    <3> HIDE DEF I
    <3>2. \E m \in I : \A n \in I : m <= n
      BY <1>3, <3>1, LeastNatural
    <3> QED BY <3>2, Zenon DEF Min
  <2>2. near \in 1 .. Len(levels) /\ near > 0
    <3>1. near \in I
      BY <1>1, <1>3, <2>1
    <3> HIDE DEF near
    <3> QED BY <3>1
  <2> HIDE DEF near, I
  <2>3. Strengthened(levels[near], price, time) \in PricedLevels
    BY <2>2, StrengthenedType
  <2>4. AddOrStrengthen(levels, price, type, time, tolerance)
          = [levels EXCEPT ![near] = Strengthened(levels[near], price, time)]
    BY <2>2 DEF AddOrStrengthen, near
  <2> DEFINE k == Strengthened(levels[near], price, time)
  <2>5. near \in 1 .. Len(levels) /\ k \in PricedLevels
    BY <2>2, <2>3
  <2>6. [levels EXCEPT ![near] = k] \in Seq(PricedLevels)
    <3> HIDE DEF k
    <3> QED BY <2>5, ExceptType
  <2> QED BY <2>4, <2>6
<1> QED BY <1>2, <1>3

LEMMA CheckTouchesType ==
  ASSUME NEW levels \in Seq(PricedLevels), NEW b, NEW time \in Int
  PROVE  CheckTouches(levels, b, time) \in Seq(PricedLevels)
<1> DEFINE touched(l) == [l EXCEPT !.strength = @ + 1, !.last = time]
<1>1. ASSUME NEW l \in PricedLevels PROVE touched(l) \in PricedLevels
  <2>1. /\ l.price \in Int /\ l.strength \in Nat /\ l.first \in Int
        /\ l = [price |-> l.price, type |-> l.type, strength |-> l.strength,
                first |-> l.first, last |-> l.last]
    BY LevelFields
  <2>2. l.type \in {"SwingHigh", "SwingLow"}
    BY Zenon DEF PricedLevels
  <2>3. touched(l) = [l EXCEPT !.strength = l.strength + 1, !.last = time]
    OBVIOUS
  <2> HIDE DEF touched
  <2>4. touched(l) = [price |-> l.price, type |-> l.type, strength |-> l.strength + 1,
                      first |-> l.first, last |-> time]
    BY <2>1, <2>3
  <2> QED BY <2>1, <2>2, <2>4 DEF PricedLevels
<1>2. levels \in [1 .. Len(levels) -> PricedLevels] /\ Len(levels) \in Nat
  OBVIOUS
<1>3. CheckTouches(levels, b, time)
        = [i \in 1 .. Len(levels) |->
             IF Touches(b, levels[i].price) THEN touched(levels[i]) ELSE levels[i]]
  BY <1>2 DEF CheckTouches
<1> HIDE DEF touched
<1>4. \A i \in 1 .. Len(levels) :
        (IF Touches(b, levels[i].price) THEN touched(levels[i]) ELSE levels[i]) \in PricedLevels
  BY <1>1, <1>2
<1>5. CheckTouches(levels, b, time) \in [1 .. Len(levels) -> PricedLevels]
  BY <1>3, <1>4
<1> QED BY <1>2, <1>5

(* The pruned list takes the strongest of the levels, one for each rank.   *)
LEMMA PrunedType ==
  ASSUME NEW levels \in Seq(PricedLevels)
  PROVE  Pruned(levels) \in Seq(PricedLevels)
<1>1. CASE Len(levels) <= MaxLevels
  BY <1>1 DEF Pruned
<1>2. CASE ~ (Len(levels) <= MaxLevels)
  <2> DEFINE D == DOMAIN levels
             R == {p \in D \X D : StrongerThan(levels, p[1], p[2])}
             Rank(i) == Cardinality({j \in D : StrongerThan(levels, j, i)}) + 1
             Chosen_(k) == CHOOSE i \in D : Rank(i) = k
  <2>0. D = 1 .. Len(levels) /\ Len(levels) \in Nat
    OBVIOUS
  <2>1. IsFiniteSet(D) /\ Cardinality(D) = Len(levels)
    <3> HIDE DEF D
    <3>1. IsFiniteSet(1 .. Len(levels)) /\ Cardinality(1 .. Len(levels)) = Len(levels)
      BY <2>0, FS_Interval, SMTT(30)
    <3> QED BY <2>0, <3>1
  <2>2. OrdersStrictly(R, D)
    <3>1. \A i \in D : levels[i].strength \in Int /\ levels[i].last \in Int /\ i \in Int
      BY LevelFields
    <3>2. \A i, j \in D : i # j => StrongerThan(levels, i, j) \/ StrongerThan(levels, j, i)
      BY <3>1 DEF StrongerThan
    <3>3. \A i, j, k \in D : StrongerThan(levels, i, j) /\ StrongerThan(levels, j, k)
                               => StrongerThan(levels, i, k)
      BY <3>1 DEF StrongerThan
    <3>4. \A i \in D : ~ StrongerThan(levels, i, i)
      BY <3>1 DEF StrongerThan
    <3>5. \A i, j \in D : <<i, j>> \in R <=> StrongerThan(levels, i, j)
      OBVIOUS
    <3> HIDE DEF R, D
    <3> QED BY <3>2, <3>3, <3>4, <3>5 DEF OrdersStrictly
  <2>3. ASSUME NEW k \in 1 .. MaxLevels PROVE levels[Chosen_(k)] \in PricedLevels
    <3>1. k - 1 \in Nat /\ k - 1 < Cardinality(D)
      BY <1>2, <2>0, <2>1, LevelsAssumption DEF LevelsAssumption
    <3>2. \E i \in D : Cardinality(BelowIn(i, R, D)) = k - 1
      <4> HIDE DEF D, R
      <4> QED BY <2>1, <2>2, <3>1, RanksAreTaken
    <3>3. \A i \in D : BelowIn(i, R, D) = {j \in D : StrongerThan(levels, j, i)}
      BY DEF BelowIn
    <3>4. \E i \in D : Rank(i) = k
      <4> HIDE DEF D, R
      <4>1. PICK i \in D : Cardinality(BelowIn(i, R, D)) = k - 1
        BY <3>2
      <4>2. Rank(i) = (k - 1) + 1
        BY <3>3, <4>1
      <4>3. k \in Int
        OBVIOUS
      <4>4. Rank(i) = k
        <5> HIDE DEF Rank
        <5> QED BY <4>2, <4>3
      <4> QED BY <4>1, <4>4
    <3>5. Chosen_(k) \in D
      <4> HIDE DEF D, Rank
      <4> QED BY <3>4
    <3> HIDE DEF Chosen_
    <3> QED BY <3>5
  <2>4. Pruned(levels) = [k \in 1 .. MaxLevels |-> levels[Chosen_(k)]]
    BY <1>2 DEF Pruned
  <2>5. MaxLevels \in Nat
    BY LevelsAssumption DEF LevelsAssumption
  <2> HIDE DEF Chosen_
  <2>6. [k \in 1 .. MaxLevels |-> levels[Chosen_(k)]] \in [1 .. MaxLevels -> PricedLevels]
    BY <2>3
  <2> QED BY <2>4, <2>5, <2>6
<1> QED BY <1>1, <1>2

LEMMA UpdateLevelsType ==
  ASSUME NEW levels \in Seq(PricedLevels), NEW b, NEW time \in Int,
         NEW highs \in Seq(EnginePoints), NEW lows \in Seq(EnginePoints), NEW tolerance
  PROVE  UpdateLevels(levels, b, time, highs, lows, tolerance) \in Seq(PricedLevels)
<1>1. ASSUME NEW points \in Seq(EnginePoints), points # <<>>
      PROVE  Last(points).price \in Int /\ Last(points).index \in Int
  <2>1. Last(points) \in EnginePoints
    BY <1>1 DEF Last
  <2> QED BY <2>1, Zenon DEF EnginePoints
<1> DEFINE afterHigh ==
             IF highs = <<>> THEN levels
             ELSE AddOrStrengthen(levels, Last(highs).price, "SwingHigh", Last(highs).index,
                                  tolerance)
           afterLow ==
             IF lows = <<>> THEN afterHigh
             ELSE AddOrStrengthen(afterHigh, Last(lows).price, "SwingLow", Last(lows).index,
                                  tolerance)
<1>2. afterHigh \in Seq(PricedLevels)
  BY <1>1, AddOrStrengthenType
<1>3. afterLow \in Seq(PricedLevels)
  <2> HIDE DEF afterHigh
  <2> QED BY <1>1, <1>2, AddOrStrengthenType
<1>4. UpdateLevels(levels, b, time, highs, lows, tolerance)
        = Pruned(CheckTouches(afterLow, b, time))
  BY DEF UpdateLevels
<1> HIDE DEF afterLow
<1> QED BY <1>3, <1>4, CheckTouchesType, PrunedType

-----------------------------------------------------------------------------
(* The engine.                                                             *)

LEMMA NewEngineOK == EngineOK(NewEngine)
<1> DEFINE e == NewEngine
<1>1. HasFields(e)
  BY DEF NewEngine, HasFields
<1>2. e.trend = NewTrend /\ e.levels = <<>>
  BY DEF NewEngine
<1>3. TrendOK(NewTrend)
  BY DEF NewTrend, TrendOK
<1> HIDE DEF e
<1> QED BY <1>1, <1>2, <1>3 DEF EngineOK, e

(* A bar keeps the engine's types, and the context takes its levels from   *)
(* those of the engine.                                                    *)
LEMMA EngineMoves ==
  ASSUME NEW e, EngineOK(e), NEW b \in BarRecords, NEW cfg \in PAConfigs
  PROVE  LET f == ProcessBar(e, b, cfg)
         IN  /\ EngineOK(f)
             /\ f.context.support \subseteq PricedLevels
             /\ f.context.resistance \subseteq PricedLevels
<1> DEFINE type == TypeOfBar(b, cfg.dojiPct)
           trend == UpdateTrend(e.trend, b, cfg.lookback, cfg.emaPeriod)
           levels == UpdateLevels(e.levels, b, e.trend.index, trend.highs, trend.lows,
                                  cfg.tolerance)
           bodies == RememberBody(e.bodies, b)
           counter == CountBar(e.counter, b, type)
           breakouts == UpdateBreakouts(e.breakouts, b, levels)
           ranges == UpdateRanges(e.ranges, b, trend.state, cfg.minRangeBars)
           channel == UpdateChannel(e.channel, trend.highs, trend.lows)
           d == Detect(e, b, cfg)
           c == BuildContext(d, b, cfg)
           class == Marked(Classify(e.bodies, b, e.previous, cfg.dojiPct), e, b, c)
           view == [c EXCEPT !.recent = Remember(@, class, cfg.maxRecent)]
           f == ProcessBar(e, b, cfg)
<1>1. /\ cfg.lookback \in Nat /\ e.levels \in Seq(PricedLevels)
      /\ HasFields(e) /\ TrendOK(e.trend) /\ e.trend.index \in Nat
  BY DEF EngineOK, PAConfigs, TrendOK
<1>2. TrendOK(trend)
  BY <1>1, TrendMoves
<1>3. levels \in Seq(PricedLevels)
  <2>1. trend.highs \in Seq(EnginePoints) /\ trend.lows \in Seq(EnginePoints)
        /\ e.trend.index \in Int
    BY <1>1, <1>2 DEF TrendOK
  <2> HIDE DEF trend
  <2> QED BY <1>1, <2>1, UpdateLevelsType
<1>5. d = [e EXCEPT !.bodies = bodies, !.counter = counter, !.trend = trend, !.levels = levels,
                    !.breakouts = breakouts, !.ranges = ranges, !.channel = channel]
  BY DEF Detect
<1> HIDE DEF type, trend, levels, bodies, counter, breakouts, ranges, channel, d
<1>6. d = [bodies |-> bodies, counter |-> counter, trend |-> trend, levels |-> levels,
           breakouts |-> breakouts, ranges |-> ranges, channel |-> channel,
           context |-> e.context, previous |-> e.previous]
  BY <1>1, <1>5 DEF HasFields
<1>7. f = [d EXCEPT !.context = view, !.previous = {b}]
  BY DEF ProcessBar, d
<1>8. view.support = c.support /\ view.resistance = c.resistance
  BY DEF BuildContext
<1>9. c.support = NearestSupport(levels, b.close) /\ c.resistance = NearestResistance(levels, b.close)
  BY <1>6 DEF BuildContext
<1> HIDE DEF c, view, f
<1>10. /\ f = [bodies |-> bodies, counter |-> counter, trend |-> trend, levels |-> levels,
               breakouts |-> breakouts, ranges |-> ranges, channel |-> channel,
               context |-> view, previous |-> {b}]
  BY <1>6, <1>7
<1>11. EngineOK(f)
  <2>1. HasFields(f)
    BY <1>10 DEF HasFields
  <2>2. f.trend = trend /\ f.levels = levels
    BY <1>10
  <2> QED BY <1>2, <1>3, <2>1, <2>2 DEF EngineOK
<1>13. f.context.support \subseteq PricedLevels /\ f.context.resistance \subseteq PricedLevels
  <2>1. f.context = view
    BY <1>10
  <2>2. NearestSupport(levels, b.close) \subseteq PricedLevels
        /\ NearestResistance(levels, b.close) \subseteq PricedLevels
    BY <1>3 DEF NearestSupport, NearestResistance
  <2> QED BY <1>8, <1>9, <2>1, <2>2
<1> QED BY <1>11, <1>13 DEF f

(* An engine that saw a past has an engine's types: the recursive function *)
(* of Engine exists, since it does up to each bar.                         *)
LEMMA EngineOfPast ==
  ASSUME NEW cfg \in PAConfigs, NEW past \in Seq(BarRecords)
  PROVE  EngineOK(Engine(cfg, past))
<1> DEFINE L == Len(past)
           Fed(m, g) == g = [n \in 0 .. m |->
                              IF n = 0 THEN NewEngine ELSE ProcessBar(g[n - 1], past[n], cfg)]
<1>1. L \in Nat /\ \A n \in 1 .. L : past[n] \in BarRecords
  OBVIOUS
<1>2. \E g : Fed(L, g)
  <2> DEFINE T == {m \in 0 .. L : ~ \E g : Fed(m, g)}
  <2> HIDE DEF Fed
  <2> SUFFICES ASSUME T # {} PROVE FALSE
    BY <1>1
  <2>1. PICK m \in T : \A n \in T : m <= n
    <3>1. T \in SUBSET Nat
      OBVIOUS
    <3> HIDE DEF T
    <3> QED BY <3>1, LeastNatural
  <2>2. m \in Nat /\ m <= L /\ ~ \E g : Fed(m, g)
    BY <1>1
  <2>3. CASE m = 0
    <3> DEFINE g == [n \in 0 .. 0 |-> NewEngine]
    <3>1. g = [n \in 0 .. 0 |->
                 IF n = 0 THEN NewEngine ELSE ProcessBar(g[n - 1], past[n], cfg)]
      <4>1. \A n \in 0 .. 0 : n = 0
        OBVIOUS
      <4> QED BY <4>1
    <3>2. Fed(0, g)
      BY <3>1 DEF Fed
    <3> HIDE DEF g
    <3> QED BY <2>2, <2>3, <3>2
  <2>4. CASE m # 0
    <3>1. m - 1 \in 0 .. L /\ m - 1 \notin T
      <4>1. m - 1 \in 0 .. L /\ ~ (m <= m - 1)
        BY <1>1, <2>2, <2>4
      <4> HIDE DEF T
      <4> QED BY <2>1, <4>1
    <3>2. PICK g : Fed(m - 1, g)
      BY <3>1
    <3> DEFINE h == [n \in 0 .. m |-> IF n = m THEN ProcessBar(g[m - 1], past[m], cfg) ELSE g[n]]
    <3>3. \A n \in 0 .. m - 1 : h[n] = g[n]
      BY <2>2
    <3>4. ASSUME NEW n \in 0 .. m
          PROVE  h[n] = IF n = 0 THEN NewEngine ELSE ProcessBar(h[n - 1], past[n], cfg)
      <4>1. CASE n = m
        <5>1. h[m] = ProcessBar(g[m - 1], past[m], cfg) /\ h[m - 1] = g[m - 1]
          BY <2>2, <2>4, <3>3
        <5> HIDE DEF h
        <5> QED BY <2>4, <4>1, <5>1
      <4>2. CASE n # m
        <5>1. n \in 0 .. m - 1 /\ (n # 0 => n - 1 \in 0 .. m - 1)
          BY <2>2, <4>2
        <5>2. g[n] = IF n = 0 THEN NewEngine ELSE ProcessBar(g[n - 1], past[n], cfg)
          BY <3>2, <5>1 DEF Fed
        <5> HIDE DEF h
        <5> QED BY <3>3, <5>1, <5>2
      <4> QED BY <4>1, <4>2
    <3>5. Fed(m, h)
      BY <3>4 DEF Fed
    <3> QED BY <2>2, <3>5
  <2> QED BY <2>3, <2>4
<1> DEFINE after == CHOOSE g : Fed(L, g)
<1>3. Engine(cfg, past) = after[L]
  BY DEF Engine
<1>4. Fed(L, after)
  <2> HIDE DEF Fed
  <2> QED BY <1>2
<1> HIDE DEF after
<1>5. /\ after[0] = NewEngine
      /\ \A n \in 1 .. L : after[n] = ProcessBar(after[n - 1], past[n], cfg)
  <2>1. \A n \in 0 .. L :
          after[n] = IF n = 0 THEN NewEngine ELSE ProcessBar(after[n - 1], past[n], cfg)
    BY <1>4
  <2>2. 0 \in 0 .. L /\ \A n \in 1 .. L : n \in 0 .. L /\ n # 0
    BY <1>1
  <2> HIDE DEF L
  <2> QED BY <2>1, <2>2
<1>6. \A n \in 0 .. L : EngineOK(after[n])
  <2> DEFINE Good(n) == EngineOK(after[n])
             T == {n \in 0 .. L : ~ Good(n)}
  <2> HIDE DEF Good
  <2> SUFFICES ASSUME T # {} PROVE FALSE
    BY DEF Good
  <2>1. PICK m \in T : \A n \in T : m <= n
    <3>1. T \in SUBSET Nat
      OBVIOUS
    <3> HIDE DEF T
    <3> QED BY <3>1, LeastNatural
  <2>2. m # 0
    BY <1>5, NewEngineOK DEF Good
  <2>3. m \in 1 .. L /\ m - 1 \in 0 .. L /\ m - 1 \in Nat
    BY <1>1, <2>2
  <2>4. Good(m - 1)
    <3>1. ~ (m <= m - 1)
      BY <2>3
    <3> QED BY <2>1, <2>3, <3>1
  <2>5. Good(m)
    <3>1. after[m] = ProcessBar(after[m - 1], past[m], cfg) /\ past[m] \in BarRecords
      BY <1>1, <1>5, <2>3
    <3> QED BY <2>3, <2>4, <3>1, EngineMoves DEF Good
  <2> QED BY <2>1, <2>5
<1>7. L \in 0 .. L
  BY <1>1
<1> QED BY <1>3, <1>6, <1>7

-----------------------------------------------------------------------------
(* Ticks, lots and the size of an order.                                   *)

LEMMA ScalingKeepsOrder ==
  ASSUME NEW x \in Int, NEW y \in Int, NEW k \in Nat, x <= y
  PROVE  k * x <= k * y
OBVIOUS

LEMMA DivisionFacts ==
  ASSUME NEW x \in Int, NEW t \in Nat \ {0}
  PROVE  x \div t \in Int /\ (x \div t) * t <= x /\ x < (x \div t) * t + t
OBVIOUS

LEMMA MultiplesDivide ==
  ASSUME NEW k \in Int, NEW t \in Nat \ {0}
  PROVE  (k * t) % t = 0
OBVIOUS

(* A price is rounded down, by less than a tick, and in order. *)
LEMMA RoundingFacts ==
  ASSUME NEW x \in Int
  PROVE  /\ RoundToTick(x) \in Int /\ RoundToTick(x) <= x /\ x < RoundToTick(x) + TickSize
         /\ \A y \in Int : x <= y => RoundToTick(x) <= RoundToTick(y)
<1>0. TickSize \in Nat \ {0}
  BY StrategyAssumption DEF StrategyAssumption
<1>1. ASSUME NEW y \in Int
      PROVE  /\ y \div TickSize \in Int /\ RoundToTick(y) = TickSize * (y \div TickSize)
             /\ RoundToTick(y) \in Int /\ RoundToTick(y) <= y /\ y < RoundToTick(y) + TickSize
  BY <1>0, DivisionFacts DEF RoundToTick
<1>2. ASSUME NEW y \in Int, x <= y PROVE RoundToTick(x) <= RoundToTick(y)
  <2> DEFINE a == x \div TickSize
             b == y \div TickSize
  <2>1. /\ a \in Int /\ RoundToTick(x) = TickSize * a /\ RoundToTick(x) <= x
        /\ b \in Int /\ RoundToTick(y) = TickSize * b /\ y < RoundToTick(y) + TickSize
    BY <1>1
  <2> HIDE DEF a, b
  <2>2. a <= b
    <3>1. ASSUME b + 1 <= a PROVE FALSE
      <4>1. TickSize * (b + 1) <= TickSize * a
        BY <1>0, <2>1, <3>1, ScalingKeepsOrder
      <4>2. TickSize * (b + 1) = TickSize * b + TickSize
        BY <1>0, <2>1
      <4> QED BY <1>0, <1>2, <2>1, <4>1, <4>2
    <3> QED BY <2>1, <3>1
  <2> QED BY <1>0, <2>1, <2>2, ScalingKeepsOrder
<1> QED BY <1>1, <1>2

(* The size is of whole lots, and its risk within the budget.              *)
LEMMA SizeFacts ==
  ASSUME NEW r \in RiskStates, NEW perUnit \in Nat \ {0}
  PROVE  LET q == PositionSize(r, perUnit, LotSize)
         IN  /\ q \in Nat /\ q % LotSize = 0
             /\ q > 0 => 100 * q * perUnit <= r.capital * MaxRiskPct
<1> DEFINE budget == r.capital * MaxRiskPct
           perLot == 100 * perUnit * LotSize
           q == PositionSize(r, perUnit, LotSize)
           k == budget \div perLot
<1>0. LotSize \in Nat \ {0} /\ MaxRiskPct \in Nat
  BY StrategyAssumption, RiskAssumption DEF StrategyAssumption, RiskAssumption
<1>1. budget \in Int
  <2>1. r.capital \in Int
    BY Zenon DEF RiskStates
  <2> QED BY <1>0, <2>1
<1>2. perLot \in Nat \ {0}
  <2>1. 100 * perUnit \in Nat \ {0}
    OBVIOUS
  <2> DEFINE u == 100 * perUnit
  <2> HIDE DEF u
  <2>2. \A v, w \in Nat \ {0} : v * w \in Nat \ {0}
    OBVIOUS
  <2> QED BY <1>0, <2>1, <2>2
<1>3. q = IF budget < perLot THEN 0 ELSE k * LotSize
  BY DEF PositionSize
<1>4. CASE budget < perLot
  BY <1>0, <1>3, <1>4
<1>5. CASE ~ (budget < perLot)
  <2>1. q = k * LotSize
    BY <1>3, <1>5
  <2>2. k \in Int /\ k * perLot <= budget /\ budget < k * perLot + perLot
    <3> HIDE DEF budget, perLot
    <3> QED BY <1>1, <1>2, DivisionFacts
  <2>3. k \in Nat
    <3>1. ASSUME k <= -1 PROVE FALSE
      <4> HIDE DEF k, budget, perLot
      <4>1. perLot * k <= perLot * (-1)
        BY <1>2, <2>2, <3>1, ScalingKeepsOrder
      <4>2. perLot * k = k * perLot /\ perLot * (-1) = - perLot
        BY <1>2, <2>2
      <4> QED BY <1>1, <1>2, <1>5, <2>2, <4>1, <4>2
    <3> HIDE DEF k
    <3> QED BY <2>2, <3>1
  <2>4. q \in Nat
    <3> HIDE DEF k, q
    <3> QED BY <1>0, <2>1, <2>3
  <2>5. q % LotSize = 0
    <3> HIDE DEF k, q
    <3> QED BY <1>0, <2>1, <2>3, MultiplesDivide
  <2>6. 100 * q * perUnit = k * perLot
    <3> HIDE DEF k, q
    <3> QED BY <1>0, <2>1, <2>3
  <2>7. 100 * q * perUnit <= budget
    <3> HIDE DEF k, q, perLot, budget
    <3> QED BY <2>2, <2>6
  <2> HIDE DEF k, perLot
  <2> QED BY <2>4, <2>5, <2>7
<1> QED BY <1>4, <1>5

-----------------------------------------------------------------------------
(* What the signal generator promises of a candidate.                      *)

SessionBars == [open : Int, high : Int, low : Int, close : Int, day : Int, nth : Int]

CandidateOK(c) ==
  /\ c.direction \in Directions
  /\ c.entry \in Int /\ c.stop \in Int
  /\ c.risk = Gain(c.direction, c.stop, c.entry) /\ c.risk \in Nat \ {0}
  /\ c.confidence \in MinConfidence .. 100
  /\ \A t \in c.target : t \in Int /\ Gain(c.direction, 100 * c.entry, t) >= 0

LEMMA TargetsAreAhead ==
  ASSUME NEW direction \in Directions, NEW entry \in Int, NEW risk_ \in Nat, NEW context_,
         context_.support \subseteq PricedLevels, context_.resistance \subseteq PricedLevels,
         NEW t \in TargetOf(direction, entry, risk_, context_)
  PROVE  t \in Int /\ Gain(direction, 100 * entry, t) >= 0
<1> DEFINE level == LevelTarget(direction, entry, context_)
<1>1. \A l \in context_.support \cup context_.resistance : l.price \in Int
  BY LevelFields
<1>2. CASE level # {}
  <2>1. PICK p \in level : t = 100 * p
    BY <1>2 DEF TargetOf
  <2>2. p \in Int /\ (IF direction = "Long" THEN p > entry ELSE p < entry)
    BY <1>1, <2>1 DEF LevelTarget
  <2> HIDE DEF level
  <2> QED BY <2>1, <2>2 DEF Gain
<1>3. CASE level = {}
  <2> DEFINE reward == risk_ * MinRewardRisk
  <2>1. reward \in Nat
    BY RewardAssumption DEF RewardAssumption
  <2>2. t = 100 * entry + (IF direction = "Long" THEN 1 ELSE -1) * reward
    <3>1. risk_ # 0
      BY <1>3 DEF TargetOf
    <3>2. t = 100 * entry + (IF direction = "Long" THEN 1 ELSE -1) * risk_ * MinRewardRisk
      BY <1>3, <3>1 DEF TargetOf
    <3> QED BY <3>2, RewardAssumption DEF RewardAssumption
  <2> HIDE DEF reward
  <2> QED BY <2>1, <2>2 DEF Gain
<1> QED BY <1>2, <1>3

LEMMA ConfidenceType ==
  ASSUME NEW quality, NEW type, NEW context_, NEW htf
  PROVE  Confidence(quality, type, context_, htf) \in 0 .. 100
<1> DEFINE p1 == Bonus(quality = "Strong", 15)
           p2 == Bonus(quality = "Moderate", 5)
           p3 == Bonus((context_.trend \in BullStates) <=> (htf.trend \in BullStates), 10)
           p4 == Bonus(context_.support # {} \/ context_.resistance # {}, 5)
           p5 == Bonus(10 * context_.strength.num > 7 * context_.strength.den, 10)
           p6 == Bonus(context_.climax, 10)
           p7 == Bonus(type \in CounterTrend, 15)
           points == 50 + p1 + p2 + p3 + p4 + p5 - p6 - p7
<1>1. p1 \in Int /\ p2 \in Int /\ p3 \in Int /\ p4 \in Int /\ p5 \in Int /\ p6 \in Int /\ p7 \in Int
  BY DEF Bonus
<1>2. points \in Int
  <2> HIDE DEF p1, p2, p3, p4, p5, p6, p7
  <2> QED BY <1>1
<1>3. Confidence(quality, type, context_, htf) = Smaller(100, Larger(0, points))
  BY DEF Confidence
<1> HIDE DEF points
<1> QED BY <1>2, <1>3 DEF Smaller, Larger

LEMMA CandidatesOK ==
  ASSUME NEW previous \in SUBSET SessionBars, NEW b, NEW context_, NEW htf,
         context_.support \subseteq PricedLevels, context_.resistance \subseteq PricedLevels,
         NEW c \in Evaluate(previous, b, context_, htf)
  PROVE  CandidateOK(c)
<1>1. PICK p \in previous :
        c \in BullCandidates(b, p, context_, htf) \cup BearCandidates(b, p, context_, htf)
  BY DEF Evaluate
<1>2. Acceptable(c)
  BY DEF Evaluate
<1>3. p.high \in Int /\ p.low \in Int
  BY Zenon DEF SessionBars
<1>4. PICK direction, trigger, quality :
        /\ direction \in Directions
        /\ c = CandidateOf(direction, trigger, quality, context_, htf)
        /\ trigger.price \in Int /\ trigger.stop \in Int
  <2>1. CASE c \in BullCandidates(b, p, context_, htf)
    <3>1. PICK t \in BullEntry(b, p) :
            c = CandidateOf("Long", t, BullSignalQuality(p, context_), context_, htf)
      BY <2>1 DEF BullCandidates
    <3>2. t.price \in Int /\ t.stop \in Int
      BY <1>3 DEF BullEntry
    <3> QED BY <3>1, <3>2 DEF Directions
  <2>2. CASE c \in BearCandidates(b, p, context_, htf)
    <3>1. PICK t \in BearEntry(b, p) :
            c = CandidateOf("Short", t, BearSignalQuality(p, context_), context_, htf)
      BY <2>2 DEF BearCandidates
    <3>2. t.price \in Int /\ t.stop \in Int
      BY <1>3 DEF BearEntry
    <3> QED BY <3>1, <3>2 DEF Directions
  <2> QED BY <1>1, <2>1, <2>2
<1> DEFINE gain == Gain(direction, trigger.stop, trigger.price)
           type == ClassifySignalType(direction, context_)
<1>5. /\ c.direction = direction /\ c.entry = trigger.price /\ c.stop = trigger.stop
      /\ c.risk = gain /\ c.target = TargetOf(direction, trigger.price, gain, context_)
      /\ c.confidence = Confidence(quality, type, context_, htf)
  BY <1>4 DEF CandidateOf
<1>6. gain \in Int
  BY <1>4 DEF Gain
<1> HIDE DEF gain, type
<1>7. c.risk > 0 /\ c.confidence >= MinConfidence
  BY <1>2 DEF Acceptable, MeetsMinRewardRisk
<1>8. c.confidence \in MinConfidence .. 100
  <2>1. c.confidence \in 0 .. 100
    BY <1>5, ConfidenceType
  <2> QED BY <1>7, <2>1 DEF MinConfidence
<1>9. \A t \in c.target : t \in Int /\ Gain(c.direction, 100 * c.entry, t) >= 0
  <2>1. gain \in Nat
    BY <1>5, <1>6, <1>7
  <2>2. trigger.price \in Int
    BY <1>4
  <2> DEFINE price == trigger.price
  <2> HIDE DEF price
  <2>3. \A t \in TargetOf(direction, price, gain, context_) :
          t \in Int /\ Gain(direction, 100 * price, t) >= 0
    BY <1>4, <2>1, <2>2, TargetsAreAhead DEF price
  <2> QED BY <1>5, <2>3, Zenon DEF price
<1> QED BY <1>4, <1>5, <1>6, <1>7, <1>8, <1>9 DEF CandidateOK, gain

-----------------------------------------------------------------------------
(* Positions under management.                                             *)

LEMMA LevelsOfPoints ==
  ASSUME NEW points \in Seq(EnginePoints)
  PROVE  PricesOf(points) \in SUBSET Int /\ IsFiniteSet(PricesOf(points))
<1> DEFINE f == [i \in 1 .. Len(points) |-> points[i].price]
           T == PricesOf(points)
<1>1. \A i \in 1 .. Len(points) : points[i] \in EnginePoints
  OBVIOUS
<1>2. \A p \in EnginePoints : p.price \in Int
  BY Zenon DEF EnginePoints
<1>3. T = {f[i] : i \in 1 .. Len(points)}
  BY DEF PricesOf, ToSet
<1>4. T \in SUBSET Int
  BY <1>1, <1>2, <1>3
<1>5. f \in Surjection(1 .. Len(points), T)
  <2>1. f \in [1 .. Len(points) -> T] /\ \A t \in T : \E i \in 1 .. Len(points) : f[i] = t
    BY <1>3
  <2> HIDE DEF f, T
  <2> QED BY <2>1 DEF Surjection
<1>6. IsFiniteSet(1 .. Len(points))
  <2>1. Len(points) \in Nat
    OBVIOUS
  <2> QED BY <2>1, FS_Interval
<1>7. IsFiniteSet(T)
  <2> HIDE DEF f, T
  <2> QED BY <1>5, <1>6, FS_Surjection DEF ExistsSurjection
<1> QED BY <1>4, <1>7

(* The trailing stop is a price. *)
LEMMA TrailingStopType ==
  ASSUME NEW p \in Positions, NEW lows \in SUBSET Int, NEW highs \in SUBSET Int,
         IsFiniteSet(lows), IsFiniteSet(highs)
  PROVE  TrailingStop(p, lows, highs) \in Int
<1> DEFINE levels == TrailCandidates(p, lows, highs)
           Best(s) == \A t \in levels : IF p.direction = "Long" THEN t <= s ELSE t >= s
<1>1. p.stop \in Int
  BY Zenon DEF Positions
<1>2. levels \in SUBSET Int /\ IsFiniteSet(levels)
  <2>1. levels \in SUBSET lows \/ levels \in SUBSET highs
    BY DEF TrailCandidates
  <2> QED BY <2>1, FS_Subset
<1>3. CASE levels = {}
  BY <1>1, <1>3 DEF TrailingStop
<1>4. CASE levels # {}
  <2>1. \E s \in levels : Best(s)
    <3>1. /\ \E m \in levels : \A x \in levels : x <= m
          /\ \E m \in levels : \A x \in levels : x >= m
      <4> HIDE DEF levels
      <4> QED BY <1>2, <1>4, BoundsExist
    <3> HIDE DEF levels
    <3> QED BY <3>1
  <2>2. TrailingStop(p, lows, highs) = CHOOSE s \in levels : Best(s)
    BY <1>4 DEF TrailingStop
  <2>3. TrailingStop(p, lows, highs) \in levels
    <3> HIDE DEF levels, Best
    <3> QED BY <2>1, <2>2
  <2> HIDE DEF levels
  <2> QED BY <1>2, <2>3
<1> QED BY <1>3, <1>4

(* A managed position stays one. *)
LEMMA ManagedType ==
  ASSUME NEW m \in ManagedPositions, NEW price \in Int,
         NEW lows \in SUBSET Int, NEW highs \in SUBSET Int,
         IsFiniteSet(lows), IsFiniteSet(highs)
  PROVE  Managed(m, price, lows, highs) \in ManagedPositions
<1> DEFINE p == UpdatePrice(m.position, price)
           on == TrailActive(m, price)
           stop == TrailingStop(p, lows, highs)
<1>1. m.position \in Positions /\ m.risk \in Int /\ m.trailing \in BOOLEAN
  BY DEF ManagedPositions
<1>2. p \in Positions
  BY <1>1 DEF UpdatePrice, Positions
<1>3. on \in BOOLEAN
  BY <1>1 DEF TrailActive
<1>4. stop \in Int
  <2> HIDE DEF p
  <2> QED BY <1>2, TrailingStopType
<1>5. [p EXCEPT !.stop = stop] \in Positions
  <2> HIDE DEF p, stop
  <2> QED BY <1>2, <1>4 DEF Positions
<1>6. CASE ExitLevelHit(m.position, price)
  <2>1. Managed(m, price, lows, highs) = [m EXCEPT !.position = p]
    BY <1>6 DEF Managed
  <2> HIDE DEF p
  <2> QED BY <1>1, <1>2, <2>1 DEF ManagedPositions
<1>7. CASE ~ ExitLevelHit(m.position, price)
  <2> DEFINE q == IF on THEN [p EXCEPT !.stop = stop] ELSE p
  <2>1. Managed(m, price, lows, highs) = [m EXCEPT !.trailing = on, !.position = q]
    BY <1>7 DEF Managed
  <2>2. q \in Positions
    BY <1>2, <1>5
  <2> HIDE DEF q, on
  <2> QED BY <1>1, <1>3, <2>1, <2>2 DEF ManagedPositions
<1> QED BY <1>6, <1>7

(* An update changes a held position, and takes none nor gives one. *)
LEMMA UpdatedFacts ==
  ASSUME managed \in [Securities -> ManagedPositions \cup {NoPosition}],
         NEW s \in Securities, NEW price \in Int, NEW e, EngineOK(e)
  PROVE  LET n == Updated(s, price, e)
         IN  /\ n \in [Securities -> ManagedPositions \cup {NoPosition}]
             /\ {t \in Securities : n[t] # NoPosition} = Held
<1> DEFINE lows == PricesOf(e.trend.lows)
           highs == PricesOf(e.trend.highs)
           x == Managed(managed[s], price, lows, highs)
<1>1. CASE managed[s] = NoPosition
  BY <1>1 DEF Updated, Held
<1>2. CASE managed[s] # NoPosition
  <2>1. /\ lows \in SUBSET Int /\ IsFiniteSet(lows)
        /\ highs \in SUBSET Int /\ IsFiniteSet(highs)
    BY LevelsOfPoints DEF EngineOK, TrendOK
  <2>2. managed[s] \in ManagedPositions
    BY <1>2
  <2>3. x \in ManagedPositions
    <3> HIDE DEF lows, highs
    <3> QED BY <2>1, <2>2, ManagedType
  <2>4. x # NoPosition
    BY <2>3, StrategyAssumption DEF StrategyAssumption
  <2>5. Updated(s, price, e) = [managed EXCEPT ![s] = x]
    BY <1>2 DEF Updated
  <2> HIDE DEF x
  <2> QED BY <1>2, <2>3, <2>4, <2>5 DEF Held
<1> QED BY <1>1, <1>2

-----------------------------------------------------------------------------
(* The inductive invariant: the properties, the types they rest on, that   *)
(* the session filter counts exactly the session's bars, and that the      *)
(* previous bar is one of those, no earlier than the warm-up's last.       *)

TypeOK ==
  /\ config \in PAConfigs
  /\ EngineOK(primary) /\ EngineOK(context)
  /\ prevBar \in SUBSET SessionBars
  /\ risk \in RiskStates
  /\ managed \in [Securities -> ManagedPositions \cup {NoPosition}]
  /\ day \in Nat /\ slot \in Nat
  /\ lost \in Nat

CountInv == barsSeen = slot

PreviousInv == \A b \in prevBar : b.day = day /\ WarmUpBars <= b.nth /\ b.nth <= slot

(* What is said of one order, which carries all of it.                     *)
OrderTyped(o) ==
  /\ o.security \in Securities /\ o.direction \in Directions
  /\ o.quantity \in Nat /\ o.price \in Int

OrderTimely(o) ==
  /\ Schedule[o.nth] \in EntryMinutes
  /\ o.nth >= WarmUpBars
  /\ o.from # {}
  /\ \A b \in o.from : b.day = o.day /\ WarmUpBars <= b.nth /\ b.nth < o.nth

OrderInBudget(o) ==
  /\ 100 * o.quantity * (Magnitude(o.price - o.stop) - TickSize) <= o.capital * MaxRiskPct
  /\ Gain(o.direction, o.stop, o.price) >= 0
  /\ \A t \in o.target :
        LET gain == Gain(o.direction, 100 * o.price, t)
        IN  IF o.direction = "Long" THEN gain >= 0 ELSE gain > -100 * TickSize
  /\ o.quantity > 0 /\ o.quantity % LotSize = 0
  /\ o.confidence \in MinConfidence .. 100

OrderOK(o) == OrderTyped(o) /\ OrderTimely(o) /\ OrderInBudget(o)

IInv ==
  /\ TypeOK
  /\ CountInv
  /\ PreviousInv
  /\ \A o \in orders : OrderOK(o)
  /\ SlotsAccounted

-----------------------------------------------------------------------------
(* Orders.                                                                 *)

(* An entry is allowed in the entry minutes only. *)
LEMMA EntriesInMinutes ==
  ASSUME NEW seen \in Nat, NEW minute \in Nat, AllowsNewEntry(ChinaAShare, seen, minute)
  PROVE  minute \in EntryMinutes /\ seen >= WarmUpBars
<1> DEFINE d == ChinaAShare
<1>1. d.morningOpen = 570 /\ d.morningClose = 690 /\ d.afternoonOpen = 780 /\ d.afternoonClose = 900
  BY DEF ChinaAShare
<1>2. (570 <= minute /\ minute <= 690) \/ (780 <= minute /\ minute <= 900)
  BY <1>1 DEF AllowsNewEntry, IsMarketOpen
<1>3. ~ (570 <= minute /\ minute < 575) /\ ~ (780 <= minute /\ minute < 785)
  <2>1. ~ IsNearOpen(d, minute)
    BY DEF AllowsNewEntry
  <2> QED BY <1>1, <2>1 DEF IsNearOpen, NoEntryAfterOpen
<1>4. ~ (675 <= minute /\ minute <= 690) /\ ~ (885 <= minute /\ minute <= 900)
  <2>1. ~ IsNearClose(d, minute)
    BY DEF AllowsNewEntry
  <2> QED BY <1>1, <2>1 DEF IsNearClose, NoEntryBeforeClose
<1>5. minute \in EntryMinutes
  BY <1>2, <1>3, <1>4 DEF EntryMinutes
<1> QED BY <1>5 DEF AllowsNewEntry, IsWarmedUp

(* Rounding moves the stop and the entry of a candidate by less than a     *)
(* tick, and the same way, so that it widens the risk by less than a tick. *)
LEMMA OrdersKeepTheirBudget ==
  ASSUME NEW s \in Securities, NEW c, CandidateOK(c), risk \in RiskStates,
         Sized(StopOrder(s, c))
  PROVE  OrderTyped(StopOrder(s, c)) /\ OrderInBudget(StopOrder(s, c))
<1> DEFINE o == StopOrder(s, c)
           price == RoundToTick(c.entry)
           stop == RoundToTick(c.stop)
           q == PositionSize(risk, c.risk, LotSize)
<1>0. TickSize \in Nat \ {0} /\ MaxRiskPct \in Nat /\ risk.capital \in Int
  <2>1. risk.capital \in Int
    BY Zenon DEF RiskStates
  <2> QED BY <2>1, StrategyAssumption, RiskAssumption DEF StrategyAssumption, RiskAssumption
<1>1. /\ o.security = s /\ o.direction = c.direction /\ o.confidence = c.confidence
      /\ o.quantity = q /\ o.price = price /\ o.stop = stop /\ o.target = c.target
      /\ o.capital = risk.capital
  BY DEF StopOrder
<1>2. /\ c.direction \in Directions /\ c.entry \in Int /\ c.stop \in Int
      /\ c.risk = Gain(c.direction, c.stop, c.entry) /\ c.risk \in Nat \ {0}
  BY DEF CandidateOK
<1>3. /\ price \in Int /\ price <= c.entry /\ c.entry < price + TickSize
      /\ stop \in Int /\ stop <= c.stop /\ c.stop < stop + TickSize
      /\ c.entry <= c.stop => price <= stop
      /\ c.stop <= c.entry => stop <= price
  BY <1>2, RoundingFacts
<1>4. q \in Nat /\ q % LotSize = 0 /\ q > 0
      /\ 100 * q * c.risk <= risk.capital * MaxRiskPct
  <2>1. o.quantity > 0
    BY DEF Sized
  <2> HIDE DEF o
  <2> QED BY <1>1, <1>2, <2>1, SizeFacts
<1> HIDE DEF o, price, stop, q
<1>5. Gain(c.direction, stop, price) >= 0 /\ Magnitude(price - stop) - TickSize <= c.risk
  <2>1. CASE c.direction = "Long"
    BY <1>0, <1>2, <1>3, <2>1 DEF Gain, Magnitude
  <2>2. CASE c.direction # "Long"
    BY <1>0, <1>2, <1>3, <2>2 DEF Gain, Magnitude
  <2> QED BY <2>1, <2>2
<1>6. 100 * q * (Magnitude(price - stop) - TickSize) <= risk.capital * MaxRiskPct
  <2> DEFINE x == Magnitude(price - stop) - TickSize
             k == 100 * q
             budget == risk.capital * MaxRiskPct
  <2>1. x \in Int
    BY <1>0, <1>3 DEF Magnitude
  <2>2. k \in Nat /\ budget \in Int
    BY <1>0, <1>4
  <2>3. x <= c.risk /\ k * c.risk <= budget
    BY <1>4, <1>5
  <2> HIDE DEF x, k, budget
  <2>4. k * x <= k * c.risk
    BY <1>2, <2>1, <2>2, <2>3, ScalingKeepsOrder
  <2>5. k * x \in Int /\ k * c.risk \in Int
    BY <1>2, <2>1, <2>2
  <2>6. k * x <= budget
    BY <2>2, <2>3, <2>4, <2>5
  <2> QED BY <2>6 DEF x, k, budget
<1>7. ASSUME NEW t \in c.target
      PROVE  LET gain == Gain(c.direction, 100 * price, t)
             IN  IF c.direction = "Long" THEN gain >= 0 ELSE gain > -100 * TickSize
  <2>1. t \in Int /\ Gain(c.direction, 100 * c.entry, t) >= 0
    BY DEF CandidateOK
  <2> QED BY <1>0, <1>2, <1>3, <2>1 DEF Gain
<1>8. OrderTyped(o)
  BY <1>1, <1>2, <1>3, <1>4 DEF OrderTyped
<1>9. c.confidence \in MinConfidence .. 100
  BY DEF CandidateOK
<1>10. OrderInBudget(o)
  BY <1>1, <1>4, <1>5, <1>6, <1>7, <1>9 DEF OrderInBudget
<1> QED BY <1>8, <1>10 DEF o

-----------------------------------------------------------------------------
(* Steps.                                                                  *)

LEMMA ConfigType == Config \in PAConfigs
  BY StrategyAssumption DEF StrategyAssumption, Config, PAConfigs

LEMMA HeldFinite == IsFiniteSet(Held) /\ Cardinality(Held) \in Nat
<1>1. Held \in SUBSET Securities
  BY DEF Held
<1>2. IsFiniteSet(Held)
  BY <1>1, StrategyAssumption, FS_Subset DEF StrategyAssumption
<1> QED BY <1>2, FS_CardinalityType

LEMMA RiskMoves ==
  ASSUME NEW r \in RiskStates
  PROVE  /\ ResetDaily(r) \in RiskStates /\ ResetDaily(r).openCount = r.openCount
         /\ RecordOpen(r) \in RiskStates /\ RecordOpen(r).openCount = r.openCount + 1
         /\ \A pnl \in Int :
              /\ RecordClose(r, pnl) \in RiskStates
              /\ r.openCount > 0 => RecordClose(r, pnl).openCount = r.openCount - 1
<1>1. /\ r.capital \in Int /\ r.dayStart \in Int /\ r.dayPnl \in Int /\ r.openCount \in Nat
      /\ r = [capital |-> r.capital, dayStart |-> r.dayStart, dayPnl |-> r.dayPnl,
              openCount |-> r.openCount]
  BY DEF RiskStates
<1>2. ResetDaily(r) \in RiskStates /\ ResetDaily(r).openCount = r.openCount
  BY <1>1 DEF ResetDaily, RiskStates
<1>3. RecordOpen(r) \in RiskStates /\ RecordOpen(r).openCount = r.openCount + 1
  BY <1>1 DEF RecordOpen, RiskStates
<1>4. ASSUME NEW pnl \in Int
      PROVE  /\ RecordClose(r, pnl) \in RiskStates
             /\ r.openCount > 0 => RecordClose(r, pnl).openCount = r.openCount - 1
  <2> DEFINE left == IF r.openCount > 0 THEN r.openCount - 1 ELSE 0
  <2>1. RecordClose(r, pnl) = [capital |-> r.capital + pnl, dayStart |-> r.dayStart,
                               dayPnl |-> r.dayPnl + pnl, openCount |-> left]
    <3> DEFINE c == r.capital + pnl
               d == r.dayPnl + pnl
    <3>1. RecordClose(r, pnl) = [r EXCEPT !.dayPnl = d, !.capital = c, !.openCount = left]
      BY DEF RecordClose
    <3> HIDE DEF c, d, left
    <3>2. RecordClose(r, pnl) = [capital |-> c, dayStart |-> r.dayStart,
                                 dayPnl |-> d, openCount |-> left]
      BY <1>1, <3>1
    <3> QED BY <3>2 DEF c, d
  <2>2. left \in Nat /\ r.capital + pnl \in Int /\ r.dayPnl + pnl \in Int
        /\ (r.openCount > 0 => left = r.openCount - 1)
    BY <1>1
  <2> HIDE DEF left
  <2> QED BY <1>1, <2>1, <2>2 DEF RiskStates
<1> QED BY <1>2, <1>3, <1>4

LEMMA InitEstablishes == Init => IInv
<1> SUFFICES ASSUME Init PROVE IInv
  OBVIOUS
<1>1. PICK past \in Pasts : primary = Engine(Config, past)
  BY DEF Init
<1>2. past \in Seq(BarRecords)
  BY StrategyAssumption DEF StrategyAssumption
<1>3. EngineOK(primary)
  BY <1>1, <1>2, ConfigType, EngineOfPast
<1>4. EngineOK(context)
  BY NewEngineOK DEF Init
<1>5. /\ prevBar = {} /\ barsSeen = 0 /\ slot = 0 /\ day = 1 /\ orders = {} /\ closing = {}
      /\ config = Config /\ risk = NewRiskState /\ managed = [s \in Securities |-> NoPosition]
      /\ lost = 0
  BY DEF Init
<1>6. risk \in RiskStates /\ risk.openCount = 0
  BY <1>5, RiskAssumption DEF RiskAssumption, NewRiskState, RiskStates
<1>7. TypeOK
  BY <1>3, <1>4, <1>5, <1>6, ConfigType DEF TypeOK
<1>8. CountInv /\ PreviousInv
  BY <1>5 DEF CountInv, PreviousInv
<1>9. SlotsAccounted
  <2>1. Held = {}
    BY <1>5 DEF Held
  <2> QED BY <1>5, <1>6, <2>1, FS_EmptySet DEF SlotsAccounted
<1> QED BY <1>5, <1>7, <1>8, <1>9 DEF IInv

(* A bar of the primary timeframe: the orders it adds are in the entry     *)
(* minutes and against the previous bar of the session, which is an        *)
(* earlier one, since the count of the session's bars has just grown.      *)
LEMMA PrimaryBarKeeps ==
  ASSUME IInv, NEW s \in Securities, NEW shape \in Shapes, PrimaryBar(s, shape)
  PROVE  IInv'
<1> DEFINE b    == BarOf(shape)
           pa   == ProcessBar(primary, shape, config)
           seen == barsSeen + 1
           minute == Schedule[slot + 1]
           entry == EntryAllowed(s, seen, minute)
           candidates == IF entry THEN Evaluate(prevBar, b, pa.context, context.context) ELSE {}
           sized == {o \in {StopOrder(s, c) : c \in candidates} : Sized(o)}
<1>0. /\ closing = {} /\ slot < Len(Schedule)
      /\ primary' = pa /\ barsSeen' = seen
      /\ managed' = Updated(s, b.close, pa)
      /\ closing' = CloseRequests(s, b.close) \union DayEndCloses(minute)
      /\ prevBar' = (IF entry THEN {b} ELSE prevBar)
      /\ orders' = orders \union sized
      /\ slot' = slot + 1
      /\ UNCHANGED <<context, config, risk, day, lost>>
  BY DEF PrimaryBar, Idle
<1>1. /\ config \in PAConfigs /\ EngineOK(primary) /\ EngineOK(context)
      /\ prevBar \in SUBSET SessionBars /\ risk \in RiskStates
      /\ managed \in [Securities -> ManagedPositions \cup {NoPosition}]
      /\ day \in Nat /\ slot \in Nat /\ lost \in Nat /\ barsSeen = slot
  BY DEF IInv, TypeOK, CountInv
<1>2. shape \in BarRecords
  BY StrategyAssumption DEF StrategyAssumption
<1>3. /\ EngineOK(pa)
      /\ pa.context.support \subseteq PricedLevels /\ pa.context.resistance \subseteq PricedLevels
  BY <1>1, <1>2, EngineMoves
<1>4. b \in SessionBars /\ b.day = day /\ b.nth = slot + 1 /\ b.close \in Int
  <2>1. shape.open \in Int /\ shape.high \in Int /\ shape.low \in Int /\ shape.close \in Int
    BY <1>2, Zenon DEF BarRecords
  <2> QED BY <1>1, <2>1 DEF BarOf, SessionBars
<1> HIDE DEF b, pa, sized, entry
<1>5. ASSUME entry PROVE minute \in EntryMinutes /\ slot + 1 >= WarmUpBars
  <2>1. AllowsNewEntry(ChinaAShare, slot + 1, minute)
    BY <1>1, <1>5 DEF EntryAllowed, entry
  <2>2. minute \in Nat
    <3>1. Schedule \in Seq(MinutesOfDay) /\ Len(Schedule) \in Nat
      BY StrategyAssumption DEF StrategyAssumption
    <3>2. slot + 1 \in 1 .. Len(Schedule)
      BY <1>0, <1>1, <3>1
    <3>3. minute \in MinutesOfDay
      BY <3>1, <3>2
    <3>4. MinutesOfDay \subseteq Nat
      BY DEF MinutesOfDay
    <3> HIDE DEF minute
    <3> QED BY <3>3, <3>4, Zenon
  <2> HIDE DEF minute
  <2> QED BY <1>1, <2>1, <2>2, EntriesInMinutes, SMTT(30)
<1>6. ASSUME NEW o \in sized PROVE OrderOK(o)
  <2>1. PICK c \in candidates : o = StopOrder(s, c) /\ Sized(o)
    BY DEF sized
  <2>2. entry /\ c \in Evaluate(prevBar, b, pa.context, context.context)
    BY <2>1
  <2>3. CandidateOK(c)
    <3> DEFINE pc == pa.context
               hc == context.context
    <3> HIDE DEF pc, hc
    <3>1. pc.support \subseteq PricedLevels /\ pc.resistance \subseteq PricedLevels
      BY <1>3 DEF pc
    <3>2. c \in Evaluate(prevBar, b, pc, hc)
      BY <2>2 DEF pc, hc
    <3> QED BY <1>1, <3>1, <3>2, CandidatesOK
  <2>4. OrderTyped(o) /\ OrderInBudget(o)
    BY <1>1, <2>1, <2>3, OrdersKeepTheirBudget
  <2>5. o.nth = slot + 1 /\ o.day = day /\ o.from = prevBar
    BY <2>1 DEF StopOrder
  <2>6. \A p \in prevBar : p.day = day /\ WarmUpBars <= p.nth /\ p.nth < slot + 1
    <3>1. \A p \in prevBar : p.nth \in Int
      BY <1>1, Zenon DEF SessionBars
    <3> QED BY <1>1, <3>1 DEF IInv, PreviousInv
  <2>7. prevBar # {}
    BY <2>2 DEF Evaluate
  <2> QED BY <1>5, <2>2, <2>4, <2>5, <2>6, <2>7 DEF OrderOK, OrderTimely
<1>7. \A o \in orders' : OrderOK(o)
  BY <1>0, <1>6 DEF IInv
<1>8. managed' \in [Securities -> ManagedPositions \cup {NoPosition}] /\ Held' = Held
  BY <1>0, <1>1, <1>3, <1>4, UpdatedFacts DEF Held
<1>9. TypeOK'
  <2>1. prevBar' \in SUBSET SessionBars
    BY <1>0, <1>1, <1>4
  <2> QED BY <1>0, <1>1, <1>3, <1>8, <2>1 DEF TypeOK
<1>10. CountInv'
  BY <1>0, <1>1 DEF CountInv
<1>11. PreviousInv'
  <2>1. \A p \in prevBar : p.nth \in Int
    BY <1>1, Zenon DEF SessionBars
  <2>2. CASE entry
    BY <1>0, <1>1, <1>4, <1>5, <2>2 DEF PreviousInv
  <2>3. CASE ~ entry
    BY <1>0, <1>1, <2>1, <2>3 DEF IInv, PreviousInv
  <2> QED BY <2>2, <2>3
<1>12. SlotsAccounted'
  <2>1. closing' \subseteq Held
    BY <1>0 DEF CloseRequests, DayEndCloses, ShouldForceClose, Held
  <2> QED BY <1>0, <1>8, <2>1 DEF IInv, SlotsAccounted
<1> QED BY <1>7, <1>9, <1>10, <1>11, <1>12 DEF IInv

LEMMA ContextBarKeeps ==
  ASSUME IInv, NEW shape \in ContextShapes, ContextBar(shape)
  PROVE  IInv'
<1>1. /\ context' = ProcessBar(context, shape, config)
      /\ UNCHANGED <<primary, config, prevBar, barsSeen, risk, managed, orders, closing, day, slot,
                     lost>>
  BY DEF ContextBar, driverVars
<1>2. shape \in BarRecords
  BY StrategyAssumption DEF StrategyAssumption
<1>3. config \in PAConfigs /\ EngineOK(context)
  BY DEF IInv, TypeOK
<1>4. EngineOK(context')
  BY <1>1, <1>2, <1>3, EngineMoves
<1>5. TypeOK'
  BY <1>1, <1>4 DEF IInv, TypeOK
<1>6. CountInv'
  BY <1>1 DEF IInv, CountInv
<1>7. PreviousInv' /\ SlotsAccounted'
  BY <1>1 DEF IInv, PreviousInv, SlotsAccounted, Held
<1> QED BY <1>1, <1>5, <1>6, <1>7 DEF IInv

LEMMA TickKeeps ==
  ASSUME IInv, NEW s \in Securities, NEW price \in TickPrices, Tick(s, price)
  PROVE  IInv'
<1>1. /\ managed' = Updated(s, price, primary)
      /\ closing' = CloseRequests(s, price)
      /\ UNCHANGED <<primary, context, config, prevBar, barsSeen, risk, orders, day, slot, lost>>
  BY DEF Tick
<1>2. price \in Int
  BY StrategyAssumption DEF StrategyAssumption
<1>3. managed' \in [Securities -> ManagedPositions \cup {NoPosition}] /\ Held' = Held
  <2>1. managed \in [Securities -> ManagedPositions \cup {NoPosition}] /\ EngineOK(primary)
    BY DEF IInv, TypeOK
  <2> QED BY <1>1, <1>2, <2>1, UpdatedFacts DEF Held
<1>4. closing' \subseteq Held
  BY <1>1 DEF CloseRequests, Held
<1>5. TypeOK'
  BY <1>1, <1>3 DEF IInv, TypeOK
<1>6. CountInv' /\ PreviousInv'
  BY <1>1 DEF IInv, CountInv, PreviousInv
<1>7. SlotsAccounted'
  BY <1>1, <1>3, <1>4 DEF IInv, SlotsAccounted
<1> QED BY <1>1, <1>5, <1>6, <1>7 DEF IInv

LEMMA SessionOpenKeeps ==
  ASSUME IInv, SessionOpen
  PROVE  IInv'
<1>1. /\ risk' = ResetDaily(risk) /\ barsSeen' = 0 /\ prevBar' = {}
      /\ day' = day + 1 /\ slot' = 0 /\ orders' = {}
      /\ UNCHANGED <<primary, context, config, managed, closing, lost>>
  BY DEF SessionOpen
<1>2. risk' \in RiskStates /\ risk'.openCount = risk.openCount
  BY <1>1, RiskMoves DEF IInv, TypeOK
<1>3. TypeOK'
  BY <1>1, <1>2 DEF IInv, TypeOK
<1>4. CountInv' /\ PreviousInv'
  BY <1>1 DEF IInv, CountInv, PreviousInv
<1>5. SlotsAccounted'
  BY <1>1, <1>2 DEF IInv, SlotsAccounted, Held
<1> QED BY <1>1, <1>3, <1>4, <1>5 DEF IInv

(* A fill takes a slot, whether or not its security had a position. *)
LEMMA FillKeeps ==
  ASSUME IInv, NEW o \in orders, Fill(o)
  PROVE  IInv'
<1> DEFINE s == o.security
           m == Manage(FilledPosition(o), 0)
<1>1. /\ closing = {} /\ orders' = orders \ {o}
      /\ managed' = [managed EXCEPT ![s] = m]
      /\ risk' = RecordOpen(risk)
      /\ lost' = lost + Cardinality(Held \cap {s})
      /\ UNCHANGED <<primary, context, config, prevBar, barsSeen, closing, day, slot>>
  BY DEF Fill, Idle
<1>2. /\ s \in Securities /\ o.direction \in Directions /\ o.quantity \in Nat /\ o.price \in Int
      /\ day \in Nat
  BY DEF IInv, OrderOK, OrderTyped, TypeOK
<1>3. m \in ManagedPositions
  <2>1. FilledPosition(o) \in Positions
    BY <1>2 DEF FilledPosition, Positions
  <2> QED BY <2>1 DEF Manage, ManagedPositions
<1>4. risk' \in RiskStates /\ risk'.openCount = risk.openCount + 1 /\ risk.openCount \in Nat
  <2>1. risk \in RiskStates
    BY DEF IInv, TypeOK
  <2>2. risk.openCount \in Nat
    BY <2>1, Zenon DEF RiskStates
  <2> QED BY <1>1, <2>1, <2>2, RiskMoves
<1>5. managed \in [Securities -> ManagedPositions \cup {NoPosition}]
  BY DEF IInv, TypeOK
<1> HIDE DEF s, m
<1>6. managed' \in [Securities -> ManagedPositions \cup {NoPosition}]
  BY <1>1, <1>2, <1>3, <1>5
<1>7. Held' = Held \cup {s}
  <2>1. m # NoPosition
    BY <1>3, StrategyAssumption DEF StrategyAssumption
  <2> QED BY <1>1, <1>2, <1>5, <2>1 DEF Held
<1>8. /\ Cardinality(Held') + lost' = (Cardinality(Held) + lost) + 1
      /\ lost' \in Nat
  <2> DEFINE H == Held
             c == Cardinality(H)
  <2>1. IsFiniteSet(H) /\ c \in Nat /\ lost \in Nat
    BY HeldFinite DEF IInv, TypeOK
  <2> HIDE DEF H
  <2>2. Cardinality(H \cup {s}) = IF s \in H THEN c ELSE c + 1
    BY <2>1, FS_AddElement
  <2>3. Cardinality(H \cap {s}) = IF s \in H THEN 1 ELSE 0
    <3>1. H \cap {s} = IF s \in H THEN {s} ELSE {}
      OBVIOUS
    <3> QED BY <3>1, FS_EmptySet, FS_Singleton
  <2>4. Held' = H \cup {s} /\ lost' = lost + Cardinality(H \cap {s})
    BY <1>1, <1>7 DEF H
  <2> HIDE DEF c
  <2>5. Cardinality(Held') + lost' = (c + lost) + 1 /\ lost' \in Nat
    BY <2>1, <2>2, <2>3, <2>4
  <2> QED BY <2>5 DEF c, H
<1>9. SlotsAccounted'
  <2>1. risk.openCount = Cardinality(Held) + lost
    BY DEF IInv, SlotsAccounted
  <2>2. risk'.openCount = Cardinality(Held') + lost'
    BY <1>4, <1>8, <2>1
  <2> QED BY <1>1, <2>2 DEF SlotsAccounted
<1>10. TypeOK'
  BY <1>1, <1>4, <1>6, <1>8 DEF IInv, TypeOK
<1>11. CountInv' /\ PreviousInv'
  BY <1>1 DEF IInv, CountInv, PreviousInv
<1> QED BY <1>1, <1>9, <1>10, <1>11 DEF IInv

(* A close gives back the slot of a position that was held. *)
LEMMA PositionClosedKeeps ==
  ASSUME IInv, NEW s \in Securities, PositionClosed(s)
  PROVE  IInv'
<1> DEFINE pnl == UnrealizedPnl(managed[s].position)
<1>1. /\ s \in closing /\ closing' = closing \ {s}
      /\ managed' = [managed EXCEPT ![s] = NoPosition]
      /\ risk' = RecordClose(risk, pnl)
      /\ orders' = {o \in orders : o.security # s}
      /\ UNCHANGED <<primary, context, config, prevBar, barsSeen, day, slot, lost>>
  BY DEF PositionClosed
<1>2. /\ managed \in [Securities -> ManagedPositions \cup {NoPosition}] /\ risk \in RiskStates
      /\ closing \subseteq Held /\ risk.openCount = Cardinality(Held) + lost /\ lost \in Nat
  BY DEF IInv, TypeOK, SlotsAccounted
<1>3. s \in Held
  BY <1>1, <1>2
<1>4. pnl \in Int
  <2> DEFINE p == managed[s].position
  <2>1. managed[s] \in ManagedPositions
    BY <1>2, <1>3 DEF Held
  <2>2. p \in Positions
    BY <2>1 DEF ManagedPositions
  <2> HIDE DEF p
  <2>3. p.entry \in Int /\ p.current \in Int /\ p.quantity \in Nat
    BY <2>2, Zenon DEF Positions
  <2>4. \A x \in Int, n \in Nat : x * n \in Int
    OBVIOUS
  <2>5. Gain(p.direction, p.entry, p.current) \in Int
    BY <2>3 DEF Gain
  <2> QED BY <2>3, <2>4, <2>5 DEF UnrealizedPnl, p
<1>5. risk.openCount \in Nat
  BY <1>2, Zenon DEF RiskStates
<1> HIDE DEF pnl
<1>6. Held' = Held \ {s}
  BY <1>1, <1>2 DEF Held
<1>7. /\ Cardinality(Held') = Cardinality(Held) - 1 /\ Cardinality(Held') \in Nat
      /\ Cardinality(Held) \in Nat
  <2>1. IsFiniteSet(Held) /\ Cardinality(Held) \in Nat
    BY HeldFinite
  <2>2. Cardinality(Held') = Cardinality(Held) - 1
    BY <1>3, <1>6, <2>1, FS_RemoveElement
  <2>3. IsFiniteSet(Held')
    BY <1>6, <2>1, FS_RemoveElement
  <2> QED BY <2>1, <2>2, <2>3, FS_CardinalityType
<1>8. risk' \in RiskStates /\ risk'.openCount = risk.openCount - 1
  <2>1. risk.openCount > 0
    BY <1>2, <1>7
  <2> QED BY <1>1, <1>2, <1>4, <2>1, RiskMoves
<1>9. SlotsAccounted'
  <2>1. risk'.openCount = Cardinality(Held') + lost'
    BY <1>1, <1>2, <1>7, <1>8
  <2>2. closing' \subseteq Held'
    BY <1>1, <1>2, <1>6
  <2> QED BY <2>1, <2>2 DEF SlotsAccounted
<1>10. TypeOK'
  <2>1. managed' \in [Securities -> ManagedPositions \cup {NoPosition}]
    BY <1>1, <1>2
  <2> QED BY <1>1, <1>8, <2>1 DEF IInv, TypeOK
<1>11. CountInv' /\ PreviousInv'
  BY <1>1 DEF IInv, CountInv, PreviousInv
<1> QED BY <1>1, <1>9, <1>10, <1>11 DEF IInv

LEMMA ResetKeeps ==
  ASSUME IInv, Reset
  PROVE  IInv'
<1>1. /\ closing = {} /\ config' = DefaultConfig
      /\ primary' = NewEngine /\ context' = NewEngine
      /\ prevBar' = {} /\ barsSeen' = 0 /\ slot' = 0 /\ orders' = {}
      /\ risk' = ResetDaily(risk)
      /\ managed' = [s \in Securities |-> NoPosition]
      /\ lost' = lost + Cardinality(Held)
      /\ UNCHANGED <<closing, day>>
  BY DEF Reset, Idle
<1>2. risk' \in RiskStates /\ risk'.openCount = risk.openCount /\ risk.openCount \in Nat
  <2>1. risk \in RiskStates
    BY DEF IInv, TypeOK
  <2>2. risk.openCount \in Nat
    BY <2>1, Zenon DEF RiskStates
  <2> QED BY <1>1, <2>1, <2>2, RiskMoves
<1>3. DefaultConfig \in PAConfigs
  BY StrategyAssumption DEF StrategyAssumption
<1>4. lost' \in Nat /\ lost \in Nat /\ Cardinality(Held) \in Nat
  BY <1>1, HeldFinite DEF IInv, TypeOK
<1>5. TypeOK'
  BY <1>1, <1>2, <1>3, <1>4, NewEngineOK DEF IInv, TypeOK
<1>6. CountInv' /\ PreviousInv'
  BY <1>1 DEF CountInv, PreviousInv
<1>7. SlotsAccounted'
  <2>1. Held' = {} /\ Cardinality({}) = 0
    BY <1>1, FS_EmptySet DEF Held
  <2>2. risk.openCount = Cardinality(Held) + lost
    BY DEF IInv, SlotsAccounted
  <2>3. risk'.openCount = Cardinality(Held') + lost'
    BY <1>1, <1>2, <1>4, <2>1, <2>2
  <2> QED BY <1>1, <2>3 DEF SlotsAccounted
<1> QED BY <1>1, <1>5, <1>6, <1>7 DEF IInv

LEMMA NextKeeps == IInv /\ [Next]_vars => IInv'
<1> SUFFICES ASSUME IInv, [Next]_vars PROVE IInv'
  OBVIOUS
<1>1. ASSUME NEW s \in Securities, NEW shape \in Shapes, PrimaryBar(s, shape) PROVE IInv'
  BY <1>1, PrimaryBarKeeps
<1>2. ASSUME NEW shape \in ContextShapes, ContextBar(shape) PROVE IInv'
  BY <1>2, ContextBarKeeps
<1>3. ASSUME NEW s \in Securities, NEW price \in TickPrices, Tick(s, price) PROVE IInv'
  BY <1>3, TickKeeps
<1>4. CASE SessionOpen
  BY <1>4, SessionOpenKeeps
<1>5. ASSUME NEW o \in orders, Fill(o) PROVE IInv'
  BY <1>5, FillKeeps
<1>6. ASSUME NEW s \in Securities, PositionClosed(s) PROVE IInv'
  BY <1>6, PositionClosedKeeps
<1>7. CASE Reset
  BY <1>7, ResetKeeps
<1>8. CASE UNCHANGED vars
  <2>1. UNCHANGED <<primary, context, config, prevBar, barsSeen, risk, managed, orders, closing,
                    day, slot, lost>>
    BY <1>8 DEF vars, strategyVars, driverVars
  <2>2. TypeOK' /\ CountInv' /\ PreviousInv'
    BY <2>1 DEF IInv, TypeOK, CountInv, PreviousInv
  <2>3. SlotsAccounted'
    BY <2>1 DEF IInv, SlotsAccounted, Held
  <2> QED BY <2>1, <2>2, <2>3 DEF IInv
<1> QED BY <1>1, <1>2, <1>3, <1>4, <1>5, <1>6, <1>7, <1>8 DEF Next

(* The inductive invariant holds: IInv with its types, orders and slots.   *)
THEOREM StrategyInvariant == Spec => []IInv
<1>1. Init => IInv
  BY InitEstablishes
<1>2. IInv /\ [Next]_vars => IInv'
  BY NextKeeps
<1> QED BY <1>1, <1>2, PTL DEF Spec

-----------------------------------------------------------------------------
(* What it means for the reader.                                           *)

(* An order is submitted only in the entry minutes, after the session's    *)
(* warm-up and against an earlier bar of the same session (brooks.rs       *)
(* handle_bar and handle_session_open, session_filter.rs).                 *)
THEOREM EntriesAlwaysTimely == Spec => []EntriesAreTimely
<1>1. IInv => EntriesAreTimely
  BY DEF IInv, OrderOK, OrderTimely, PreviousInv, EntriesAreTimely
<1> QED BY <1>1, StrategyInvariant, PTL

(* The bar whose levels an order trades had its own session's warm-up      *)
(* before it; no bar of the other timeframe, of another day or of an       *)
(* earlier run counted for it, wherever handle_bar returned early          *)
(* (brooks.rs handle_bar and reset, session_filter.rs, signal_generator.rs *)
(* prev_bar).                                                              *)
THEOREM SignalsAlwaysFollowWarmUp == Spec => []SignalsFollowWarmUp
<1>1. IInv => SignalsFollowWarmUp
  <2> SUFFICES ASSUME IInv PROVE SignalsFollowWarmUp
    OBVIOUS
  <2>1. \A o \in orders : o.from # {} /\ \A b \in o.from : WarmUpBars <= b.nth
    BY DEF IInv, OrderOK, OrderTimely
  <2>2. \A b \in prevBar : WarmUpBars <= b.nth
    BY DEF IInv, PreviousInv
  <2> QED BY <2>1, <2>2 DEF SignalsFollowWarmUp
<1> QED BY <1>1, StrategyInvariant, PTL

(* Rounding to ticks and lots never takes the loss of a stopped order      *)
(* beyond the share of capital that one trade may risk, but for a tick a   *)
(* unit (brooks.rs handle_bar, risk.rs calculate_position_size).           *)
THEOREM OrdersAlwaysWithinBudget == Spec => []OrdersWithinBudget
<1>1. IInv => OrdersWithinBudget
  BY DEF IInv, OrderOK, OrderInBudget, OrdersWithinBudget
<1> QED BY <1>1, StrategyInvariant, PTL

(* The risk manager counts the positions that are open and those that an   *)
(* overwriting fill or reset() lost, no fewer and no more, and closes are  *)
(* asked for only of positions that are held (brooks.rs on_fill,           *)
(* on_position_closed and reset; risk.rs record_open, record_close).       *)
THEOREM SlotsAlwaysAccounted == Spec => []SlotsAccounted
<1>1. IInv => SlotsAccounted
  BY DEF IInv
<1> QED BY <1>1, StrategyInvariant, PTL

=============================================================================
