----------------------------- MODULE BarAnalysis ----------------------------
(***************************************************************************)
(* The classification of a bar (pa-engine/src/bar_analysis.rs) and the     *)
(* count of bars in one direction (pa-engine/src/bar_counting.rs).  The    *)
(* previous bar, absent for the first, is a set of at most one bar.  The   *)
(* tails are kept as the two flags that anything reads, not as ratios.     *)
(***************************************************************************)
EXTENDS Bars

CONSTANT BodyLookback    \* bodies averaged for the relative size (20)

ASSUME BodyLookbackAssumption == BodyLookback \in Nat \ {0}

BullTypes == {"StrongBullTrend", "BullTrend", "WeakBull"}
BearTypes == {"StrongBearTrend", "BearTrend", "WeakBear"}
BarTypes == BullTypes \union BearTypes \union {"Doji"}

Classifications ==
  [type : BarTypes, size : {"Large", "Medium", "Small", "Doji"},
   upperTail : BOOLEAN, lowerTail : BOOLEAN,
   signal : BOOLEAN, entry : BOOLEAN, reversal : BOOLEAN,
   inside : BOOLEAN, outside : BOOLEAN, gap : {"None", "Up", "Down"}]

ProminentPct == 33
StrongBodyPct == 65
SmallBodyPct == 35

HasUpperTail(b) == AtLeast(UpperTail(b), b, ProminentPct)
HasLowerTail(b) == AtLeast(LowerTail(b), b, ProminentPct)

SizeByRatio(b) ==
  IF AtLeast(Body(b), b, StrongBodyPct) THEN "Large"
  ELSE IF AtMost(Body(b), b, SmallBodyPct) THEN "Small"
  ELSE "Medium"

(* The body against the average of those remembered, half and one and a    *)
(* half times; against the bar's own range when there is no such average.  *)
RelativeSize(bodies, b, dojiPct) ==
  LET total == SumSeq(bodies)
  IN  IF AtMost(Body(b), b, dojiPct) THEN "Doji"
      ELSE IF total = 0 THEN SizeByRatio(b)
      ELSE IF 2 * Body(b) * Len(bodies) >= 3 * total THEN "Large"
      ELSE IF 2 * Body(b) * Len(bodies) <= total THEN "Small"
      ELSE "Medium"

TypeOfBar(b, dojiPct) ==
  LET tailed == HasUpperTail(b) \/ HasLowerTail(b)
      strong == AtLeast(Body(b), b, StrongBodyPct)
  IN  IF AtMost(Body(b), b, dojiPct) THEN "Doji"
      ELSE IF tailed THEN IF IsBull(b) THEN "WeakBull" ELSE "WeakBear"
      ELSE IF strong THEN IF IsBull(b) THEN "StrongBullTrend" ELSE "StrongBearTrend"
      ELSE IF IsBull(b) THEN "BullTrend" ELSE "BearTrend"

IsReversal(b, before) ==
  \/ IsBear(before) /\ HasLowerTail(b) /\ ClosesInUpperHalf(b)
  \/ IsBull(before) /\ HasUpperTail(b) /\ ClosesInLowerHalf(b)

GapTo(b, before) ==
  IF b.low > before.high THEN "Up" ELSE IF b.high < before.low THEN "Down" ELSE "None"

(* The signal and entry flags are decided later. *)
Classify(bodies, b, previous, dojiPct) ==
  [type      |-> TypeOfBar(b, dojiPct),
   size      |-> RelativeSize(bodies, b, dojiPct),
   upperTail |-> HasUpperTail(b),
   lowerTail |-> HasLowerTail(b),
   signal    |-> FALSE,
   entry     |-> FALSE,
   reversal  |-> \E p \in previous : IsReversal(b, p),
   inside    |-> \E p \in previous : IsInside(b, p),
   outside   |-> \E p \in previous : IsOutside(b, p),
   gap       |-> IF previous = {} THEN "None" ELSE GapTo(b, CHOOSE p \in previous : TRUE)]

RememberBody(bodies, b) == Remember(bodies, Body(b), BodyLookback)

-----------------------------------------------------------------------------
(* The counter.  A sequence of bars in one direction is broken by a bar of *)
(* the other; dojis belong to the sequence and are not counted.  The       *)
(* watermarks are the sequence's highest high and lowest low; before the   *)
(* first bar they are zero and the largest decimal.                        *)

CONSTANT MaxPrice        \* stands for Decimal::MAX: no bar is as high

ASSUME MaxPriceAssumption == MaxPrice \in Nat \ {0}

NewCounter ==
  [bull |-> 0, bear |-> 0, length |-> 0, high |-> 0, low |-> MaxPrice, total |-> 0]

(* A mistaken Turned: a bear bar does not end a bull sequence. *)
TurnedUp(c, type) == type \in BullTypes /\ c.bear > 0

Turned(c, type) ==
  \/ type \in BullTypes /\ c.bear > 0
  \/ type \in BearTypes /\ c.bull > 0

CountBar(c, b, type) ==
  LET turned == Turned(c, type)
  IN  [bull   |-> IF type \in BullTypes THEN c.bull + 1 ELSE IF turned THEN 0 ELSE c.bull,
       bear   |-> IF type \in BearTypes THEN c.bear + 1 ELSE IF turned THEN 0 ELSE c.bear,
       length |-> (IF turned THEN 0 ELSE c.length) + 1,
       high   |-> IF turned THEN b.high ELSE Larger(c.high, b.high),
       low    |-> IF turned THEN b.low ELSE Smaller(c.low, b.low),
       total  |-> c.total + 1]

IsClimax(c, threshold) == c.bull >= threshold \/ c.bear >= threshold

=============================================================================
