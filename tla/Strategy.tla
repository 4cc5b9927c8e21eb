------------------------------- MODULE Strategy -------------------------------
(***************************************************************************)
(* The Brooks strategy as one object (strategy/src/brooks.rs): the engines *)
(* of both timeframes (mtf.rs), the signal generator, the risk and the     *)
(* position manager and the session filter, driven by bars, ticks, session *)
(* opens, fills and closes.                                                *)
(*                                                                         *)
(* Whoever drives it keeps its orders until they fill or the day ends, and *)
(* carries out a requested close before the next event, as the backtest    *)
(* engine does.  One strategy serves every security: its primary engine    *)
(* sees the bars of all of them in one stream.                             *)
(***************************************************************************)
EXTENDS SignalGenerator, RiskManager, ManagedPosition, SessionFilter

CONSTANTS
  Securities,
  LotSize, TickSize,     \* MarketRules
  Params,                \* config.pa
  DefaultConfig,         \* PAConfig::default()
  Pasts,                 \* bound: bars of earlier days, outside the entry windows
  Shapes,                \* bound: the bars of the primary timeframe
  ContextShapes,         \* bound: the bars of the context timeframe
  Schedule,              \* bound: the minutes at which a day's bars start
  Horizon,               \* bound: bars of the primary timeframe
  MaxContextBars,        \* bound: bars of the context timeframe
  TickPrices,            \* bound: the prices of ticks
  MaxDay, MaxRuns,       \* bounds: days, and runs separated by reset
  NoPosition

ASSUME StrategyAssumption ==
  /\ LotSize \in Nat \ {0} /\ TickSize \in Nat \ {0}
  /\ Params \in [emaPeriod : Nat \ {0}, lookback : Nat, dojiPct : Nat, tolerance : Nat]
  /\ DefaultConfig \in PAConfigs
  /\ IsFiniteSet(Securities)
  /\ Pasts \subseteq Seq(BarRecords)
  /\ Shapes \subseteq BarRecords /\ ContextShapes \subseteq BarRecords
  /\ TickPrices \subseteq Int
  /\ Schedule \in Seq(MinutesOfDay)
  /\ NoPosition \notin ManagedPositions

VARIABLES
  primary, context,   \* the PriceActionAnalyzer of either timeframe
  config,             \* the configuration both were made with
  prevBar,            \* the signal generator's previous bar
  barsSeen,           \* the session filter's count
  risk,               \* the risk manager
  managed,            \* the position manager's map
  orders,             \* driver: orders submitted and not yet filled
  closing,            \* driver: securities whose close was just requested
  day, slot, run,     \* driver: the date, the bars of it so far, the run
  fed,                \* driver: bars fed to either engine since it was made
  lost                \* history: positions that went without their slot being given back

strategyVars == <<primary, context, config, prevBar, barsSeen, risk, managed>>
driverVars == <<orders, closing, day, slot, run>>
vars == <<strategyVars, driverVars, fed, lost>>

(* to_pa_config: what the strategy's configuration does not set keeps its  *)
(* default.                                                                *)
Config ==
  [DefaultConfig EXCEPT !.emaPeriod = Params.emaPeriod, !.lookback = Params.lookback,
                        !.dojiPct = Params.dojiPct, !.tolerance = Params.tolerance]

BarOf(shape) ==
  [open |-> shape.open, high |-> shape.high, low |-> shape.low, close |-> shape.close,
   day |-> day, nth |-> slot + 1]

Engine(cfg, past) ==
  LET after[n \in 0 .. Len(past)] ==
        IF n = 0 THEN NewEngine ELSE ProcessBar(after[n - 1], past[n], cfg)
  IN  after[Len(past)]

(* Made on an earlier day, whose bars it saw without trading. *)
Init ==
  /\ config = Config
  /\ \E past \in Pasts :
       /\ primary = Engine(Config, past)
       /\ fed = [primary |-> Len(past), context |-> 0]
  /\ context = NewEngine
  /\ prevBar = {} /\ barsSeen = 0 /\ risk = NewRiskState
  /\ managed = [s \in Securities |-> NoPosition]
  /\ orders = {} /\ closing = {} /\ day = 1 /\ slot = 0 /\ run = 1 /\ lost = 0

Held == {s \in Securities : managed[s] # NoPosition}

PricesOf(points) == {p.price : p \in ToSet(points)}

-----------------------------------------------------------------------------
(* What the handlers do with a price: the position manager's update.       *)

Updated(s, price, engine) ==
  IF managed[s] = NoPosition THEN managed
  ELSE [managed EXCEPT ![s] =
          Managed(@, price, PricesOf(engine.trend.lows), PricesOf(engine.trend.highs))]

CloseRequests(s, price) ==
  {t \in {s} : managed[t] # NoPosition /\ WantsClose(managed[t], price, day)}

(* close_all, which the session filter never asks for. *)
DayEndCloses(minute) == {s \in Held : ShouldForceClose(minute)}

-----------------------------------------------------------------------------
(* Entries.                                                                *)

RoundToTick(price) == (price \div TickSize) * TickSize

(* A mistaken StopOrder: a started lot counts as a whole one. *)
StopOrderRoundedUp(s, c) ==
  [security |-> s, direction |-> c.direction, type |-> c.type, confidence |-> c.confidence,
   quantity |-> PositionSize(risk, c.risk, LotSize) + LotSize,
   price |-> RoundToTick(c.entry), stop |-> RoundToTick(c.stop), target |-> c.target,
   htf |-> c.htf,
   day |-> day, nth |-> slot + 1, capital |-> risk.capital, from |-> prevBar]

(* The signal's levels are rounded down to a tick, the size comes from the *)
(* risk before rounding, and the target is left as it is.  The last four   *)
(* fields are history for the properties: when the order was submitted,    *)
(* against which bar and capital.                                          *)
StopOrder(s, c) ==
  [security |-> s, direction |-> c.direction, type |-> c.type, confidence |-> c.confidence,
   quantity |-> PositionSize(risk, c.risk, LotSize),
   price |-> RoundToTick(c.entry), stop |-> RoundToTick(c.stop), target |-> c.target,
   htf |-> c.htf,
   day |-> day, nth |-> slot + 1, capital |-> risk.capital, from |-> prevBar]

Sized(o) == o.quantity > 0

EntryAllowed(s, seen, minute) ==
  /\ ~ ShouldForceClose(minute)
  /\ AllowsNewEntry(ChinaAShare, seen, minute)
  /\ CanOpenPosition(risk)
  /\ managed[s] = NoPosition

-----------------------------------------------------------------------------
(* Market events.                                                          *)

Idle == closing = {}

(* A bar of the primary timeframe: analysis and position update always,    *)
(* evaluation only if an entry is allowed, and at most one order.          *)
PrimaryBar(s, shape) ==
  LET b    == BarOf(shape)
      pa   == ProcessBar(primary, shape, config)
      seen == barsSeen + 1
      entry == EntryAllowed(s, seen, Schedule[slot + 1])
      candidates == IF entry THEN Evaluate(prevBar, b, pa.context, context.context) ELSE {}
      sized == {o \in {StopOrder(s, c) : c \in candidates} : Sized(o)}
  IN  /\ Idle /\ slot < Len(Schedule) /\ fed.primary < Horizon
      /\ primary' = pa
      /\ barsSeen' = seen
      /\ managed' = Updated(s, b.close, pa)
      /\ closing' = CloseRequests(s, b.close) \union DayEndCloses(Schedule[slot + 1])
      /\ prevBar' = IF entry THEN {b} ELSE prevBar
      /\ orders' = orders \union sized
      /\ slot' = slot + 1
      /\ fed' = [fed EXCEPT !.primary = @ + 1]
      /\ UNCHANGED <<context, config, risk, day, run, lost>>

(* A mistaken ContextBar: the bar counts for the warm-up. *)
ContextBarCounted(shape) ==
  /\ Idle /\ slot = 0 /\ fed.context < MaxContextBars
  /\ context' = ProcessBar(context, shape, config)
  /\ barsSeen' = barsSeen + 1
  /\ fed' = [fed EXCEPT !.context = @ + 1]
  /\ UNCHANGED <<primary, config, prevBar, risk, managed, driverVars, lost>>

(* A bar of the context timeframe makes no decisions; the one of the day   *)
(* before comes ahead of the session's bars.                               *)
ContextBar(shape) ==
  /\ Idle /\ slot = 0 /\ fed.context < MaxContextBars
  /\ context' = ProcessBar(context, shape, config)
  /\ fed' = [fed EXCEPT !.context = @ + 1]
  /\ UNCHANGED <<primary, config, prevBar, barsSeen, risk, managed, driverVars, lost>>

(* A tick updates the position of its security. *)
Tick(s, price) ==
  /\ Idle /\ managed[s] # NoPosition
  /\ managed' = Updated(s, price, primary)
  /\ closing' = CloseRequests(s, price)
  /\ UNCHANGED <<primary, context, config, prevBar, barsSeen, risk, orders, day, slot, run, fed, lost>>

(* A mistaken SessionOpen: the signal generator is not told. *)
SessionOpenHalf ==
  /\ Idle /\ day < MaxDay
  /\ risk' = ResetDaily(risk)
  /\ barsSeen' = 0
  /\ day' = day + 1 /\ slot' = 0 /\ orders' = {}
  /\ UNCHANGED <<primary, context, config, prevBar, managed, closing, run, fed, lost>>

(* Overnight the driver cancels its orders; the open resets the daily      *)
(* parts.  The engines go on where they were.                              *)
SessionOpen ==
  /\ Idle /\ day < MaxDay
  /\ risk' = ResetDaily(risk)
  /\ barsSeen' = 0
  /\ prevBar' = {}
  /\ day' = day + 1 /\ slot' = 0 /\ orders' = {}
  /\ UNCHANGED <<primary, context, config, managed, closing, run, fed, lost>>

-----------------------------------------------------------------------------
(* What becomes of orders and positions.                                   *)

(* A position as on_fill makes it: the fill price for a stop, no target    *)
(* and no risk.  The program runs live: the wall clock shows today.        *)
FilledPosition(o) ==
  [direction |-> o.direction, quantity |-> o.quantity, entry |-> o.price, current |-> o.price,
   stop |-> o.price, target |-> {}, openedAt |-> day]

(* The fill takes a slot, also when it puts its position in place of one   *)
(* that had a slot already.                                                *)
Fill(o) ==
  /\ Idle
  /\ orders' = orders \ {o}
  /\ managed' = [managed EXCEPT ![o.security] = Manage(FilledPosition(o), 0)]
  /\ risk' = RecordOpen(risk)
  /\ lost' = lost + Cardinality(Held \cap {o.security})
  /\ UNCHANGED <<primary, context, config, prevBar, barsSeen, closing, day, slot, run, fed>>

(* on_position_closed, with the profit at the price of the request; the    *)
(* driver drops the security's other orders.                               *)
PositionClosed(s) ==
  /\ s \in closing
  /\ closing' = closing \ {s}
  /\ managed' = [managed EXCEPT ![s] = NoPosition]
  /\ risk' = RecordClose(risk, UnrealizedPnl(managed[s].position))
  /\ orders' = {o \in orders : o.security # s}
  /\ UNCHANGED <<primary, context, config, prevBar, barsSeen, day, slot, run, fed, lost>>

(* reset, for a re-run: engines of the default configuration, positions    *)
(* and daily counters afresh; capital and position count stay.             *)
Reset ==
  /\ Idle /\ day = MaxDay /\ run < MaxRuns
  /\ config' = DefaultConfig
  /\ primary' = NewEngine /\ context' = NewEngine
  /\ prevBar' = {} /\ barsSeen' = 0
  /\ risk' = ResetDaily(risk)
  /\ managed' = [s \in Securities |-> NoPosition]
  /\ orders' = {} /\ slot' = 0 /\ run' = run + 1
  /\ fed' = [primary |-> 0, context |-> 0]
  /\ lost' = lost + Cardinality(Held)
  /\ UNCHANGED <<closing, day>>

Next ==
  \/ \E s \in Securities, shape \in Shapes : PrimaryBar(s, shape)
  \/ \E shape \in ContextShapes : ContextBar(shape)
  \/ \E s \in Securities, price \in TickPrices : Tick(s, price)
  \/ SessionOpen
  \/ \E o \in orders : Fill(o)
  \/ \E s \in Securities : PositionClosed(s)
  \/ Reset

Spec == Init /\ [][Next]_vars

-----------------------------------------------------------------------------
(* 9:35 to 11:14 and 13:05 to 14:44: the market is open, not just opened   *)
(* and not about to close.                                                 *)
EntryMinutes == (575 .. 674) \union (785 .. 884)

(* Orders are submitted in the entry minutes only, after the session's own *)
(* warm-up, and against a signal bar of the same session: yesterday's      *)
(* levels are never traded today.                                          *)
EntriesAreTimely ==
  /\ \A o \in orders :
        /\ Schedule[o.nth] \in EntryMinutes
        /\ o.nth >= WarmUpBars
        /\ \A b \in o.from : b.day = o.day /\ b.nth < o.nth
  /\ \A b \in prevBar : b.day = day

(* Whatever rounding does to its levels, an order that fills at its price  *)
(* and is stopped at its stop loses no more than the share of capital that *)
(* one trade may risk, but for one tick a unit; and its target is no loss, *)
(* but for the tick by which rounding may move a Short's price beyond it.  *)
OrdersWithinBudget ==
  \A o \in orders :
    /\ 100 * o.quantity * (Magnitude(o.price - o.stop) - TickSize) <= o.capital * MaxRiskPct
    /\ Gain(o.direction, o.stop, o.price) >= 0
    /\ \A t \in o.target :
          LET gain == Gain(o.direction, 100 * o.price, t)
          IN  IF o.direction = "Long" THEN gain >= 0 ELSE gain > -100 * TickSize
    /\ o.quantity > 0 /\ o.quantity % LotSize = 0
    /\ o.confidence \in MinConfidence .. 100

(* An order trades the levels of a bar, and that bar had the whole warm-up *)
(* of its own session before it: bars of the other timeframe, of another   *)
(* day or of an earlier run never count for it, wherever the handler       *)
(* returned early in between.                                              *)
SignalsFollowWarmUp ==
  /\ \A o \in orders : o.from # {} /\ \A b \in o.from : b.nth >= WarmUpBars
  /\ \A b \in prevBar : b.nth >= WarmUpBars

(* The risk manager's count is exact but for what the code is known to     *)
(* lose: it is the number of open positions and of those that a fill       *)
(* overwrote or reset() discarded, no fewer and no more, across fills,     *)
(* closes, days and runs; and closes are asked for only of positions that  *)
(* are held.                                                               *)
SlotsAccounted ==
  /\ risk.openCount = Cardinality(Held) + lost
  /\ closing \subseteq Held

-----------------------------------------------------------------------------
(* What the documentation or a comment says and the code does not do.      *)

(* "Maximum number of simultaneously open positions"                       *)
(* (strategy/src/config.rs:33): entries stop only when that many positions *)
(* are open.                                                               *)
SlotsAreOfOpenPositions ==
  risk.openCount >= MaxOpenPositions => Cardinality(Held) >= MaxOpenPositions

(* "the bar AFTER a bull signal bar goes above the signal bar's high"      *)
(* (pa-engine/src/entry_bar.rs:22): the bar that triggers an order comes   *)
(* right after the bar whose levels it trades.                             *)
EntryFollowsSignalBar ==
  \A o \in orders : \A b \in o.from : b.nth = o.nth - 1

=============================================================================
