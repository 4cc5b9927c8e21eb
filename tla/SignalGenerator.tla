---------------------------- MODULE SignalGenerator ---------------------------
(***************************************************************************)
(* From the engine's context to trade candidates                           *)
(* (strategy/src/signal_generator.rs), with the placement of the target    *)
(* and the reward it promises (strategy/src/stop_target.rs, calculate and  *)
(* meets_min_rr; its trailing_stop is in ManagedPosition).  The            *)
(* generator's state is the bar of its last evaluation, a set of at most   *)
(* one.  Confidence is in hundredths, and clamped at 0 and 100 as the code *)
(* clamps it; the minimum reward-to-risk ratio is in hundredths, and so    *)
(* are targets, which makes the code's fallback exact.                     *)
(***************************************************************************)
EXTENDS PriceAction, Position

CONSTANT MinRewardRisk    \* risk.min_reward_risk_ratio, in hundredths

ASSUME RewardAssumption == MinRewardRisk \in Nat

MinConfidence == 30

SignalTypes ==
  {"TrendContinuation", "TrendReversal", "BreakoutEntry", "FailedBreakoutEntry",
   "PullbackEntry", "TradingRangeBreakout", "WithTrendScalp", "CounterTrendSwing"}

CounterTrend == {"CounterTrendSwing", "TrendReversal"}

SignalContexts == [direction : SUBSET Directions, aligned : BOOLEAN, levels : Seq(Int)]

WithTrend(direction, context) ==
  context.trend \in (IF direction = "Long" THEN BullStates ELSE BearStates)

AtLevel(direction, context) ==
  (IF direction = "Long" THEN context.support ELSE context.resistance) # {}

HadPullback(direction, context) ==
  (IF direction = "Long" THEN context.bearBars ELSE context.bullBars) >= 1

EndsInReversal(context) == context.recent # <<>> /\ Last(context.recent).reversal

ClassifySignalType(direction, context) ==
  IF ~ WithTrend(direction, context) /\ context.climax THEN "TrendReversal"
  ELSE IF ~ WithTrend(direction, context) /\ AtLevel(direction, context) THEN "CounterTrendSwing"
  ELSE IF context.inRange /\ context.breakouts # <<>> THEN "TradingRangeBreakout"
  ELSE IF context.breakouts # <<>> /\ EndsInReversal(context) THEN "FailedBreakoutEntry"
  ELSE IF ~ WithTrend(direction, context) THEN "BreakoutEntry"
  ELSE IF context.trend \in {"StrongBullTrend", "StrongBearTrend"} THEN "WithTrendScalp"
  ELSE IF HadPullback(direction, context) THEN "PullbackEntry"
  ELSE "TrendContinuation"

Bonus(condition, points) == IF condition THEN points ELSE 0

(* The higher timeframe agrees when both are bull or neither is. *)
Confidence(quality, type, context, htf) ==
  LET points ==
        50 + Bonus(quality = "Strong", 15) + Bonus(quality = "Moderate", 5)
           + Bonus((context.trend \in BullStates) <=> (htf.trend \in BullStates), 10)
           + Bonus(context.support # {} \/ context.resistance # {}, 5)
           + Bonus(10 * context.strength.num > 7 * context.strength.den, 10)
           - Bonus(context.climax, 10)
           - Bonus(type \in CounterTrend, 15)
  IN  Smaller(100, Larger(0, points))

(* What a signal tells of the higher timeframe, whose trend counts as      *)
(* aligned in whatever direction it runs.                                  *)
HtfSignalContext(htf) ==
  LET direction == {d \in Directions : WithTrend(d, htf)}
  IN  [direction |-> direction,
       aligned   |-> direction # {},
       levels    |-> SetToSeq({l.price : l \in htf.support}) \o SetToSeq({l.price : l \in htf.resistance})]

-----------------------------------------------------------------------------
(* Target placement and the reward it promises.                            *)

(* The nearest level that the trade runs into. *)
LevelTarget(direction, entry, context) ==
  IF direction = "Long"
  THEN {p \in {l.price : l \in context.resistance} : p > entry}
  ELSE {p \in {l.price : l \in context.support} : p < entry}

(* That level, or the entry moved by the minimum reward; a trade without   *)
(* risk has no such target.                                                *)
TargetOf(direction, entry, risk, context) ==
  LET level == LevelTarget(direction, entry, context)
  IN  IF level # {} THEN {100 * p : p \in level}
      ELSE IF risk = 0 THEN {}
      ELSE {100 * entry + (IF direction = "Long" THEN 1 ELSE -1) * risk * MinRewardRisk}

RewardOf(direction, entry, target) == Gain(direction, 100 * entry, target)

MeetsMinRewardRisk(direction, entry, risk, target) ==
  /\ risk > 0
  /\ \E t \in target : RewardOf(direction, entry, t) >= MinRewardRisk * risk

-----------------------------------------------------------------------------
(* Candidates.                                                             *)

(* Long and Short candidates of a trigger of either kind, as they come out *)
(* of stop, target, confidence and the two filters.                        *)
CandidateOf(direction, trigger, quality, context, htf) ==
  LET risk   == Gain(direction, trigger.stop, trigger.price)
      target == TargetOf(direction, trigger.price, risk, context)
      type   == ClassifySignalType(direction, context)
  IN  [direction |-> direction, type |-> type, entry |-> trigger.price, stop |-> trigger.stop,
       risk |-> risk, target |-> target,
       confidence |-> Confidence(quality, type, context, htf),
       htf |-> HtfSignalContext(htf)]

Acceptable(c) ==
  /\ MeetsMinRewardRisk(c.direction, c.entry, c.risk, c.target)
  /\ c.confidence >= MinConfidence

(* The bar before the latest one was a signal bar, of this classification. *)
BeforeLatest(context) == context.recent[Len(context.recent) - 1]
AfterSignalBar(context) == Len(context.recent) >= 2 /\ BeforeLatest(context).signal

BullCandidates(b, signalBar, context, htf) ==
  {CandidateOf("Long", t, BullSignalQuality(signalBar, context), context, htf) :
     t \in {t \in BullEntry(b, signalBar) : BeforeLatest(context).type \in BullTypes}}

BearCandidates(b, signalBar, context, htf) ==
  {CandidateOf("Short", t, BearSignalQuality(signalBar, context), context, htf) :
     t \in {t \in BearEntry(b, signalBar) : BeforeLatest(context).type \in BearTypes}}

(* evaluate: the bar of the last evaluation is taken for the bar before    *)
(* this one.                                                               *)
Evaluate(previous, b, context, htf) ==
  {c \in UNION {BullCandidates(b, p, context, htf) \union BearCandidates(b, p, context, htf) :
                  p \in {p \in previous : AfterSignalBar(context)}} : Acceptable(c)}

=============================================================================
