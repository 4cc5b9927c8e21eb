------------------------------- MODULE Trend --------------------------------
(***************************************************************************)
(* Swing points, the moving average and the trend state                    *)
(* (pa-engine/src/trend.rs).  The analyser is a record; its index counts   *)
(* the bars it has seen, and a swing point carries the index of its bar,   *)
(* which also stands for its timestamp.  An average that does not exist    *)
(* yet is the empty set.                                                   *)
(***************************************************************************)
EXTENDS Bars

CONSTANTS
  MaxBars,     \* bars kept (200)
  MaxSwings    \* swing points kept on each side (50)

ASSUME TrendAssumption == MaxBars \in Nat \ {0} /\ MaxSwings \in Nat \ {0}

BullStates == {"StrongBullTrend", "BullTrend", "WeakBullTrend"}
BearStates == {"StrongBearTrend", "BearTrend", "WeakBearTrend"}
TrendStates == BullStates \union BearStates \union {"TradingRange"}

SwingPoints == [price : Int, index : Nat]

NewTrend ==
  [state |-> "TradingRange", highs |-> <<>>, lows |-> <<>>,
   ema |-> {}, recent |-> <<>>, index |-> 0]

(* Weight 2/(period + 1) for the close; the first close starts it. *)
NextEma(ema, b, period) ==
  IF ema = {} THEN {b.close}
  ELSE {(2 * b.close + (period - 1) * e) \div (period + 1) : e \in ema}

(* The bar that lookback later bars can confirm as a turning point. *)
Candidate(recent, lookback) == Len(recent) - lookback

(* A mistaken Neighbours: only what came before the candidate. *)
EarlierBars(recent, lookback) ==
  Len(recent) - 2 * lookback .. Candidate(recent, lookback) - 1

(* Its neighbours on both sides; too short a history has no candidate. *)
Neighbours(recent, lookback) ==
  (Len(recent) - 2 * lookback .. Len(recent)) \ {Candidate(recent, lookback)}

HasCandidate(recent, lookback) == Len(recent) >= 2 * lookback + 1

IsSwingHigh(recent, lookback) ==
  /\ HasCandidate(recent, lookback)
  /\ \A i \in Neighbours(recent, lookback) :
        recent[i].high < recent[Candidate(recent, lookback)].high

IsSwingLow(recent, lookback) ==
  /\ HasCandidate(recent, lookback)
  /\ \A i \in Neighbours(recent, lookback) :
        recent[i].low > recent[Candidate(recent, lookback)].low

WithSwing(points, isSwing, price, index) ==
  IF isSwing
  THEN Remember(points, [price |-> price, index |-> index], MaxSwings)
  ELSE points

(* The nth swing point from the end: 0 is the last. *)
FromEnd(points, n) == points[Len(points) - n]

(* A mistaken Rising: level swing points rise as well. *)
NotFalling(points) == FromEnd(points, 0).price >= FromEnd(points, 1).price

Rising(points) == FromEnd(points, 0).price > FromEnd(points, 1).price
Falling(points) == FromEnd(points, 0).price < FromEnd(points, 1).price

HasTwoEach(highs, lows) == Len(highs) >= 2 /\ Len(lows) >= 2

HigherHighsAndLows(highs, lows) == HasTwoEach(highs, lows) /\ Rising(highs) /\ Rising(lows)
LowerHighsAndLows(highs, lows) == HasTwoEach(highs, lows) /\ Falling(highs) /\ Falling(lows)

(* Of the last ten bars, how many more rise than fall. *)
ScoredBars(recent) == Smaller(10, Len(recent))

DirectionBalance(recent) ==
  LET last == Len(recent) - ScoredBars(recent) + 1 .. Len(recent)
  IN  Cardinality({i \in last : IsBull(recent[i])})
        - Cardinality({i \in last : IsBear(recent[i])})

(* The balance as a share of those bars, against a number of tenths. *)
ScoreAbove(recent, tenths) == 10 * DirectionBalance(recent) > tenths * ScoredBars(recent)
ScoreBelow(recent, tenths) == 10 * DirectionBalance(recent) < tenths * ScoredBars(recent)

TrendState(highs, lows, ema, recent, b) ==
  LET rising  == HigherHighsAndLows(highs, lows)
      falling == LowerHighsAndLows(highs, lows)
      above   == \E e \in ema : b.close > e
      below   == \E e \in ema : b.close < e
  IN  IF rising THEN IF above /\ ScoreAbove(recent, 6) THEN "StrongBullTrend" ELSE "BullTrend"
      ELSE IF falling THEN IF below /\ ScoreBelow(recent, -6) THEN "StrongBearTrend" ELSE "BearTrend"
      ELSE IF above /\ ScoreAbove(recent, 4) THEN "WeakBullTrend"
      ELSE IF below /\ ScoreBelow(recent, -4) THEN "WeakBearTrend"
      ELSE "TradingRange"

(* One bar: the average, the history, the swing points, then the state. *)
UpdateTrend(t, b, lookback, period) ==
  LET ema    == NextEma(t.ema, b, period)
      recent == Remember(t.recent, b, MaxBars)
      middle == recent[Candidate(recent, lookback)]
      index  == t.index - lookback
      highs  == WithSwing(t.highs, IsSwingHigh(recent, lookback), middle.high, index)
      lows   == WithSwing(t.lows, IsSwingLow(recent, lookback), middle.low, index)
  IN  [state  |-> TrendState(highs, lows, ema, recent, b),
       highs  |-> highs,
       lows   |-> lows,
       ema    |-> ema,
       recent |-> recent,
       index  |-> t.index + 1]

(* Three swing points in the trend's direction on its own side. *)
ConsistentSwings(t) ==
  \/ /\ t.state \in BullStates
     /\ Len(t.lows) >= 3
     /\ FromEnd(t.lows, 0).price > FromEnd(t.lows, 1).price
     /\ FromEnd(t.lows, 1).price > FromEnd(t.lows, 2).price
  \/ /\ t.state \in BearStates
     /\ Len(t.highs) >= 3
     /\ FromEnd(t.highs, 0).price < FromEnd(t.highs, 1).price
     /\ FromEnd(t.highs, 1).price < FromEnd(t.highs, 2).price

AlignedWithEma(t) ==
  /\ t.recent # <<>>
  /\ LET close == Last(t.recent).close
     IN  \E e \in t.ema : \/ t.state \in BullStates /\ close > e
                          \/ t.state \in BearStates /\ close < e

(* The strength as a fraction: three tenths for the average, four for the  *)
(* swings and three times the direction balance, which is signed.          *)
TrendStrength(t) ==
  LET bars == Larger(1, ScoredBars(t.recent))
  IN  [num |-> (IF AlignedWithEma(t) THEN 3 * bars ELSE 0)
                 + (IF ConsistentSwings(t) THEN 4 * bars ELSE 0)
                 + 3 * DirectionBalance(t.recent),
       den |-> 10 * bars]

=============================================================================
