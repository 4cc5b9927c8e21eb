------------------------------ MODULE Analyzer ------------------------------
(***************************************************************************)
(* A price-action engine fed one bar after another.  The engine forgets    *)
(* most of what it has seen; the history keeps every bar, so that what the *)
(* engine remembers can be compared with what really happened.  The twin   *)
(* counts and follows the same bars with prices upside down.               *)
(***************************************************************************)
EXTENDS PriceAction

CONSTANTS
  Config,       \* the engine's configuration
  Shapes,       \* bars the market may produce
  Horizon,      \* bound: bars in a behaviour
  TopPrice      \* prices are mirrored at half of it

ASSUME AnalyzerAssumption ==
  /\ Config \in PAConfigs
  /\ MaxBars >= 2 * Config.lookback + 1
  /\ Horizon \in Nat
  /\ TopPrice \in Nat
  /\ Shapes \subseteq [open : 1 .. MaxPrice, high : 1 .. MaxPrice,
                       low : 1 .. MaxPrice, close : 1 .. MaxPrice]
  /\ \A b \in Shapes : {b.open, b.close} \subseteq b.low .. b.high

VARIABLES
  engine,    \* PriceActionAnalyzer
  history,   \* every bar so far
  twin       \* the counter and the trend of the mirrored bars

vars == <<engine, history, twin>>

Mirrored(b) ==
  [open |-> TopPrice - b.open, high |-> TopPrice - b.low,
   low |-> TopPrice - b.high, close |-> TopPrice - b.close]

Init ==
  /\ engine = NewEngine
  /\ history = <<>>
  /\ twin = [counter |-> NewCounter, trend |-> NewTrend]

NewBar(b) ==
  /\ Len(history) < Horizon
  /\ engine' = ProcessBar(engine, b, Config)
  /\ history' = Append(history, b)
  /\ twin' = [counter |-> CountBar(twin.counter, Mirrored(b),
                                   TypeOfBar(Mirrored(b), Config.dojiPct)),
              trend   |-> UpdateTrend(twin.trend, Mirrored(b),
                                      Config.lookback, Config.emaPeriod)]

Next == \E b \in Shapes : NewBar(b)

Spec == Init /\ [][Next]_vars

-----------------------------------------------------------------------------
Now == Len(history)

(* The engine's parts have their types, and every bounded memory its bound. *)
TypeOK ==
  /\ engine.counter \in [bull : Nat, bear : Nat, length : Nat, high : Nat,
                         low : Nat, total : Nat]
  /\ engine.trend.state \in TrendStates
  /\ ToSet(engine.trend.highs) \union ToSet(engine.trend.lows) \subseteq SwingPoints
  /\ Len(engine.trend.highs) <= MaxSwings /\ Len(engine.trend.lows) <= MaxSwings
  /\ Len(engine.trend.recent) <= MaxBars
  /\ ToSet(engine.levels) \subseteq Levels /\ Len(engine.levels) <= MaxLevels
  /\ ToSet(engine.breakouts.active) \union ToSet(engine.breakouts.failed) \subseteq Breakouts
  /\ Len(engine.breakouts.failed) <= MaxFailed
  /\ ToSet(engine.ranges.active) \subseteq Ranges
  /\ ToSet(engine.context.recent) \subseteq Classifications
  /\ Len(engine.context.recent) <= Config.maxRecent
  /\ Len(engine.bodies) <= BodyLookback

(* The bars that lookback bars on either side confirm as turning points,   *)
(* looked up in the whole history; index 0 is its first bar.               *)
Confirmed == Config.lookback .. Now - 1 - Config.lookback

Around(i) == (i - Config.lookback .. i + Config.lookback) \ {i}

TurningHighs ==
  {i \in Confirmed : \A j \in Around(i) : history[j + 1].high < history[i + 1].high}
TurningLows ==
  {i \in Confirmed : \A j \in Around(i) : history[j + 1].low > history[i + 1].low}

Latest(S, n) == {i \in S : Cardinality({j \in S : j > i}) < n}

(* The swing points the engine holds are the latest turning points of the  *)
(* whole history, none missed and none invented, each with the right bar   *)
(* and price, although the engine sees a sliding window of bars and        *)
(* numbers them itself.                                                    *)
SwingsAreTurningPoints ==
  /\ ToSet(engine.trend.highs) =
       {[price |-> history[i + 1].high, index |-> i] : i \in Latest(TurningHighs, MaxSwings)}
  /\ ToSet(engine.trend.lows) =
       {[price |-> history[i + 1].low, index |-> i] : i \in Latest(TurningLows, MaxSwings)}

(* The bars of the current sequence, as the counter counts them. *)
Sequence == Now - engine.counter.length + 1 .. Now

TypeAt(i) == TypeOfBar(history[i], Config.dojiPct)

(* The watermarks are the extremes of the current sequence and of no other *)
(* bar; the sequence has bars of one direction only, all of them counted.  *)
WatermarksOfSequence ==
  Now > 0 =>
    /\ engine.counter.high = Max({history[i].high : i \in Sequence})
    /\ engine.counter.low = Min({history[i].low : i \in Sequence})
    /\ engine.counter.bull = Cardinality({i \in Sequence : TypeAt(i) \in BullTypes})
    /\ engine.counter.bear = Cardinality({i \in Sequence : TypeAt(i) \in BearTypes})
    /\ engine.counter.bull = 0 \/ engine.counter.bear = 0

(* The bars after a breakout that may still decide what becomes of it. *)
Deciding(k) == k.index + 2 .. Smaller(Now, k.index + 1 + ConfirmationBars)

(* A breakout fails at the first close back through its level within       *)
(* ConfirmationBars bars; without one it is confirmed at the last of them, *)
(* and it is pending no longer than that.                                  *)
BreakoutsAreDecidedInTime ==
  /\ \A k \in ToSet(engine.breakouts.active) :
        /\ \A i \in Deciding(k) : ~ FellBack(k, history[i])
        /\ (k.status = "Confirmed") <=> (Now >= k.index + 1 + ConfirmationBars)
  /\ \A k \in ToSet(engine.breakouts.failed) :
        /\ k.settled + 1 \in Deciding(k)
        /\ FellBack(k, history[k.settled + 1])
        /\ \A i \in Deciding(k) : i <= k.settled => ~ FellBack(k, history[i])

(* The market never trades outside a range it is said to be in: the last   *)
(* close is within a tenth of its width of every active range, and the     *)
(* current one spans bars that really touched both of its edges.           *)
RangesHold ==
  /\ \A r \in ToSet(engine.ranges.active) :
        /\ 10 * history[Now].close <= 10 * r.high + Width(r)
        /\ 10 * history[Now].close >= 10 * r.low - Width(r)
  /\ \A r \in CurrentRange(engine.ranges) :
        \E i, j \in 1 .. Now : history[i].high = r.high /\ history[j].low = r.low

(* The classifications kept belong to the latest bars, and an entry bar    *)
(* comes right after a signal bar and trades beyond it.                    *)
EntryBarsFollowSignals ==
  LET recent == engine.context.recent
      BarOf(i) == history[Now - Len(recent) + i]
  IN  /\ \A i \in DOMAIN recent : recent[i].type = TypeOfBar(BarOf(i), Config.dojiPct)
      /\ \A i \in 2 .. Len(recent) : recent[i].entry =>
           /\ recent[i - 1].signal
           /\ \/ BarOf(i).high > BarOf(i - 1).high
              \/ BarOf(i).low < BarOf(i - 1).low

MirroredState(s) ==
  CASE s = "StrongBullTrend" -> "StrongBearTrend"
    [] s = "BullTrend"       -> "BearTrend"
    [] s = "WeakBullTrend"   -> "WeakBearTrend"
    [] s = "WeakBearTrend"   -> "WeakBullTrend"
    [] s = "BearTrend"       -> "BullTrend"
    [] s = "StrongBearTrend" -> "StrongBullTrend"
    [] OTHER                 -> s

(* Bulls and bears are treated alike: the same market upside down has the  *)
(* mirrored swing points, the mirrored counts and the mirrored trend.      *)
TrendMirrors ==
  /\ twin.trend.state = MirroredState(engine.trend.state)
  /\ {p.index : p \in ToSet(twin.trend.highs)} = {p.index : p \in ToSet(engine.trend.lows)}
  /\ {p.index : p \in ToSet(twin.trend.lows)} = {p.index : p \in ToSet(engine.trend.highs)}
  /\ twin.counter.bull = engine.counter.bear
  /\ twin.counter.bear = engine.counter.bull

=============================================================================
