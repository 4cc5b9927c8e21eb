----------------------------- MODULE PriceAction -----------------------------
(***************************************************************************)
(* The price-action engine (pa-engine/src/analyzer.rs): one record for all *)
(* of its detectors, and ProcessBar, which runs them in the order of       *)
(* process_bar.  A configuration is a record, since the multi-timeframe    *)
(* coordinator makes engines of two.                                       *)
(***************************************************************************)
EXTENDS BarAnalysis, SignalBar, SupportResistance, Breakout, TradingRange, Channel, Pattern

PAConfigs ==
  [emaPeriod : Nat \ {0}, lookback : Nat, dojiPct : Nat, tolerance : Nat,
   maxRecent : Nat \ {0}, climax : Nat, minRangeBars : Nat \ {0}]

EmptyContext ==
  [trend |-> "TradingRange", strength |-> [num |-> 0, den |-> 10],
   inRange |-> FALSE, range |-> {}, channel |-> {}, support |-> {}, resistance |-> {},
   breakouts |-> <<>>, patterns |-> <<>>, bullBars |-> 0, bearBars |-> 0,
   climax |-> FALSE, recent |-> <<>>, ema |-> {}, price |-> 0, bars |-> 0]

NewEngine ==
  [bodies |-> <<>>, counter |-> NewCounter, trend |-> NewTrend, levels |-> <<>>,
   breakouts |-> NewBreakouts, ranges |-> NewRanges, channel |-> {},
   context |-> EmptyContext, previous |-> {}]

(* The context of this bar, with the classifications of the bars before it. *)
BuildContext(e, b, cfg) ==
  [trend      |-> e.trend.state,
   strength   |-> TrendStrength(e.trend),
   inRange    |-> InTradingRange(e.ranges),
   range      |-> CurrentRange(e.ranges),
   channel    |-> e.channel,
   support    |-> NearestSupport(e.levels, b.close),
   resistance |-> NearestResistance(e.levels, b.close),
   breakouts  |-> e.breakouts.active,
   patterns   |-> Patterns(e.trend.highs, e.trend.lows),
   bullBars   |-> e.counter.bull,
   bearBars   |-> e.counter.bear,
   climax     |-> IsClimax(e.counter, cfg.climax),
   recent     |-> e.context.recent,
   ema        |-> e.trend.ema,
   price      |-> b.close,
   bars       |-> e.counter.total]

(* The detectors, each reading what the ones before it made of the bar. *)
Detect(e, b, cfg) ==
  LET type   == TypeOfBar(b, cfg.dojiPct)
      trend  == UpdateTrend(e.trend, b, cfg.lookback, cfg.emaPeriod)
      levels == UpdateLevels(e.levels, b, e.trend.index, trend.highs, trend.lows, cfg.tolerance)
  IN  [e EXCEPT !.bodies    = RememberBody(@, b),
                !.counter   = CountBar(@, b, type),
                !.trend     = trend,
                !.levels    = levels,
                !.breakouts = UpdateBreakouts(@, b, levels),
                !.ranges    = UpdateRanges(@, b, trend.state, cfg.minRangeBars),
                !.channel   = UpdateChannel(@, trend.highs, trend.lows)]

(* A mistaken FollowsSignal: any remembered bar was a signal. *)
FollowsAnySignal(e) == \E i \in DOMAIN e.context.recent : e.context.recent[i].signal

FollowsSignal(e) == e.context.recent # <<>> /\ Last(e.context.recent).signal

Marked(classification, e, b, context) ==
  [classification EXCEPT
     !.signal = IsSignalBar(b, context),
     !.entry  = FollowsSignal(e) /\ \E p \in e.previous : IsEntryBar(b, p)]

ProcessBar(e, b, cfg) ==
  LET detected == Detect(e, b, cfg)
      context  == BuildContext(detected, b, cfg)
      class    == Marked(Classify(e.bodies, b, e.previous, cfg.dojiPct), e, b, context)
  IN  [detected EXCEPT
         !.context  = [context EXCEPT !.recent = Remember(@, class, cfg.maxRecent)],
         !.previous = {b}]

=============================================================================
