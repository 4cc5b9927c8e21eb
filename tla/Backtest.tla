------------------------------ MODULE Backtest ------------------------------
(***************************************************************************)
(* One backtest of one security: the engine's event loop                   *)
(* (backtester/src/engine.rs) with its order book and portfolio, driving   *)
(* the Brooks strategy (strategy/src/brooks.rs) with its risk manager,     *)
(* position manager, session filter and signal generator.                  *)
(*                                                                         *)
(* Each bar of the feed takes one step to deliver (with the end-of-day     *)
(* work when the day changes), one step per order it fills, and one step   *)
(* for the strategy's reaction and the equity snapshot.  What the feed     *)
(* holds, which bars the price-action analyzer calls signal bars, and the  *)
(* order in which the hash map yields triggered orders are left open.      *)
(***************************************************************************)
EXTENDS Sequences, FillModel, RiskManager, ManagedPosition, Functions

CONSTANTS
  InitialCapital,  \* backtest.initial_capital, in money units
  WarmUpBars,      \* strategy.warm_up_bars
  LotSize,         \* MarketRules::min_lot_size
  TickSize,        \* MarketRules::tick_size, in bar price units
  WallDate,        \* the CST date on which the program itself is running
  MonthLength,     \* days in a calendar month
  OrderIds,        \* bound: ids of simultaneously pending orders
  Shapes,          \* bound: the [open, high, low, close] a bar may have
  MaxBars,         \* bound: length of the feed
  MaxDay,          \* bound: dates in the feed are 1..MaxDay
  NoPosition, NoSignal, NoOrder, NoBar   \* absent values (Option::None)

OhlcRecords == [open : Nat, high : Nat, low : Nat, close : Nat]

Bars ==
  [time : Nat, day : Nat, inWindow : BOOLEAN,
   open : Nat, high : Nat, low : Nat, close : Nat]

(* An order of the book with the signal it carries: price is the trigger   *)
(* and the signal's entry, stop the signal's stop, day the signal's date.  *)
PendingOrders ==
  [type : OrderTypes, direction : Directions, quantity : Nat \ {0},
   price : Int, stop : Int, day : Nat]

(* The engine's position_signals entry: the signal and the time of fill. *)
EntrySignals == [direction : Directions, entry : Int, day : Nat]

Trades ==
  [direction : Directions, entry : Int, exit : Int, pnl : Int,
   entryDay : Nat, exitDay : Nat]

ASSUME BacktestAssumption ==
  /\ InitialCapital \in Nat
  /\ WarmUpBars \in Nat
  /\ LotSize \in Nat \ {0}
  /\ TickSize \in Nat \ {0}
  /\ WallDate \in Nat
  /\ MonthLength \in Nat \ {0}
  /\ MaxBars \in Nat
  /\ MaxDay \in Nat
  /\ Shapes \subseteq OhlcRecords
  /\ NoPosition \notin Positions \cup ManagedPositions
  /\ NoSignal \notin EntrySignals
  /\ NoOrder \notin PendingOrders
  /\ NoBar \notin Bars

VARIABLES
  pc,         \* "feed": next bar wanted; "fill": orders, then strategy; end states
  err,        \* the BacktestError of a failed run
  bar,        \* the bar being processed, or the last one processed
  toFill,     \* triggered orders of this bar not yet filled
  book,       \* the order book
  cash, realized, pos,   \* the portfolio
  equity,     \* the last point of the equity curve
  posSignal,  \* signal behind the open position, for the trade log
  trades,     \* the trade log
  risk,       \* the strategy's risk manager
  managed,    \* the strategy's position manager
  barsSeen,   \* the session filter's warm-up counter
  prevBar,    \* the signal generator's previous bar
  replaced    \* history: entry value of positions overwritten while open

engineVars    == <<pc, err, bar, toFill>>
portfolioVars == <<cash, realized, pos>>
reportVars    == <<equity, posSignal, trades>>
strategyVars  == <<risk, managed, barsSeen, prevBar>>
vars == <<engineVars, book, portfolioVars, reportVars, strategyVars, replaced>>

Pending == {id \in OrderIds : book[id] # NoOrder}
EmptyBook == [id \in OrderIds |-> NoOrder]

(* The engine compares days of the month, not dates. *)
DayOfMonth(day) == day % MonthLength

Init ==
  /\ pc = "feed" /\ err = "none" /\ bar = NoBar /\ toFill = {}
  /\ book = EmptyBook
  /\ cash = InitialCapital /\ realized = 0 /\ pos = NoPosition
  /\ equity = InitialCapital /\ posSignal = NoSignal /\ trades = <<>>
  /\ risk = NewRiskState /\ managed = NoPosition /\ barsSeen = 0 /\ prevBar = NoBar
  /\ replaced = 0

-----------------------------------------------------------------------------
(* Delivering a bar.                                                       *)

Clock == IF bar = NoBar THEN 0 ELSE bar.time
Today == IF bar = NoBar THEN 0 ELSE bar.day

(* The next bar: any shape, on the last bar's date or a later one, inside  *)
(* or outside the minutes of the session in which entries are allowed.     *)
NextBars ==
  {[time |-> Clock + 1, day |-> d, inWindow |-> w, open |-> s.open,
    high |-> s.high, low |-> s.low, close |-> s.close] :
      d \in {e \in 1..MaxDay : e >= Today}, w \in BOOLEAN, s \in Shapes}

(* A mistaken OvernightOrders: the boundary forgets the stale orders. *)
UncancelledOrders(b) == b

(* Orders of the previous day that the day boundary leaves in the book. *)
OvernightOrders(b) == EmptyBook

TriggeredBy(b, k) == {id \in OrderIds : b[id] # NoOrder /\ Triggered(b[id], k)}

(* handle_session_open: the daily state of the strategy starts afresh. *)
SessionOpen ==
  /\ risk' = ResetDaily(risk)
  /\ barsSeen' = 0
  /\ prevBar' = NoBar

Deliver(k, b) ==
  /\ bar' = k
  /\ book' = b
  /\ toFill' = TriggeredBy(b, k)
  /\ pc' = "fill"
  /\ UNCHANGED <<err, portfolioVars, reportVars, managed, replaced>>

Wanted == pc = "feed" /\ Clock < MaxBars

FirstBar ==
  /\ Wanted /\ bar = NoBar
  /\ SessionOpen
  /\ \E k \in NextBars : Deliver(k, book)

NextDayBar ==
  /\ Wanted /\ bar # NoBar
  /\ SessionOpen
  /\ \E k \in NextBars :
       /\ DayOfMonth(k.day) # DayOfMonth(bar.day)
       /\ Deliver(k, OvernightOrders(book))

SameDayBar ==
  /\ Wanted /\ bar # NoBar
  /\ \E k \in NextBars :
       /\ DayOfMonth(k.day) = DayOfMonth(bar.day)
       /\ Deliver(k, book)
  /\ UNCHANGED <<risk, barsSeen, prevBar>>

(* An empty feed is refused before anything else happens. *)
NoData ==
  /\ pc = "feed" /\ bar = NoBar
  /\ pc' = "failed" /\ err' = "NoData"
  /\ UNCHANGED <<bar, toFill, book, portfolioVars, reportVars, strategyVars, replaced>>

-----------------------------------------------------------------------------
(* Filling a triggered order.                                              *)

Cost(o) == FillPrice(o, bar) * o.quantity

(* A mistaken Affordable: the portfolio buys on credit. *)
OnCredit(o) == TRUE

Affordable(o) == Cost(o) <= cash

(* open_position: the portfolio's position keeps the signal's stop.        *)
(* take_profit is stored by the code and read by nothing, and is left out. *)
Opened(o) ==
  [direction |-> o.direction, quantity |-> o.quantity,
   entry |-> FillPrice(o, bar), current |-> FillPrice(o, bar),
   stop |-> Money(o.stop), target |-> {}, openedAt |-> bar.day]

(* on_fill: the strategy builds its own position from the fill alone, with *)
(* the fill price for a stop, no target, no risk, and the wall clock for   *)
(* an opening time, and puts it in place of any earlier one.               *)
FilledPosition(o) ==
  [direction |-> o.direction, quantity |-> o.quantity,
   entry |-> FillPrice(o, bar), current |-> FillPrice(o, bar),
   stop |-> FillPrice(o, bar), target |-> {}, openedAt |-> WallDate]

(* A mistaken ManagedFill: a position already under management is kept. *)
FirstFillManaged(o) ==
  IF managed = NoPosition THEN Manage(FilledPosition(o), 0) ELSE managed

ManagedFill(o) == Manage(FilledPosition(o), 0)

HeldValue(p) == IF p = NoPosition THEN 0 ELSE EntryValue(p)

(* A mistaken SignalOfFill: the overwritten position's signal is cleared   *)
(* away after the new one went in under the same key.                      *)
SignalTakenOut(o) ==
  IF posSignal = NoSignal
  THEN [direction |-> o.direction, entry |-> o.price, day |-> bar.day]
  ELSE NoSignal

(* position_signals.insert: the signal of the order and the time of fill.  *)
SignalOfFill(o) == [direction |-> o.direction, entry |-> o.price, day |-> bar.day]

FillOrder(id) ==
  LET o == book[id]
  IN  /\ pc = "fill" /\ id \in toFill
      /\ Affordable(o)
      /\ book' = [book EXCEPT ![id] = NoOrder]
      /\ toFill' = toFill \ {id}
      /\ cash' = cash - Cost(o)
      /\ pos' = Opened(o)
      /\ posSignal' = SignalOfFill(o)
      /\ managed' = ManagedFill(o)
      /\ risk' = RecordOpen(risk)
      /\ replaced' = replaced + HeldValue(pos)
      /\ UNCHANGED <<pc, err, bar, realized, equity, trades, barsSeen, prevBar>>

(* The order has left the book before the portfolio refuses it, and the    *)
(* refusal ends the whole run.                                             *)
RefuseFill(id) ==
  LET o == book[id]
  IN  /\ pc = "fill" /\ id \in toFill
      /\ ~ Affordable(o)
      /\ book' = [book EXCEPT ![id] = NoOrder]
      /\ pc' = "failed" /\ err' = "InsufficientFunds"
      /\ UNCHANGED <<bar, toFill, portfolioVars, reportVars, strategyVars, replaced>>

-----------------------------------------------------------------------------
(* The strategy's reaction to the bar, and the snapshot that follows it.   *)

ClosingPrice == Money(bar.close)

Marked(p, price) == IF p = NoPosition THEN p ELSE UpdatePrice(p, price)

(* A managed position has no risk and no target here, so its trail never   *)
(* starts and the swing points the code passes make no difference.         *)
ManagedAfterBar ==
  IF managed = NoPosition THEN managed ELSE Managed(managed, ClosingPrice, {}, {})

MarkToMarket(p) == IF p = NoPosition THEN 0 ELSE EntryValue(p) + UnrealizedPnl(p)

StrategyTurn == pc = "fill" /\ toFill = {}

StopRequested ==
  managed # NoPosition /\ WantsClose(managed, ClosingPrice, bar.day)

Pnl(p, price) == Gain(p.direction, p.entry, price) * p.quantity

(* A mistaken Proceeds: the exit value, which is wrong for a Short. *)
ExitValue(p, price) == price * p.quantity

(* close_position returns the entry value and the profit to cash. *)
Proceeds(p, price) == EntryValue(p) + Pnl(p, price)

TradeRecord(p, price, exitDay) ==
  [direction |-> posSignal.direction, entry |-> posSignal.entry, exit |-> price,
   pnl |-> Pnl(p, price), entryDay |-> posSignal.day, exitDay |-> exitDay]

(* A close is logged only if there is a signal to log it with. *)
LoggedTrades(price) ==
  IF posSignal = NoSignal THEN trades ELSE Append(trades, TradeRecord(pos, price, bar.day))

(* Closing the position in the portfolio, in the trade log and, through    *)
(* on_position_closed, in the strategy.                                    *)
ClosePosition(price) ==
  /\ cash' = cash + Proceeds(pos, price)
  /\ realized' = realized + Pnl(pos, price)
  /\ pos' = NoPosition
  /\ trades' = LoggedTrades(price)
  /\ posSignal' = NoSignal
  /\ managed' = NoPosition
  /\ risk' = RecordClose(risk, Pnl(pos, price))

(* cancel_all_for_security: every order of a run is for its one security. *)
OrdersAfterClose(b) == EmptyBook

(* The position manager asks for the close and the portfolio allows it.    *)
StopOut ==
  /\ StrategyTurn /\ StopRequested
  /\ pos # NoPosition /\ ~ LockedByT1(pos, bar.day)
  /\ ClosePosition(ClosingPrice)
  /\ book' = OrdersAfterClose(book)
  /\ equity' = cash' + MarkToMarket(pos')
  /\ barsSeen' = barsSeen + 1
  /\ pc' = "feed"
  /\ UNCHANGED <<err, bar, toFill, prevBar, replaced>>

(* The portfolio, which dates the position by the bars, holds it unsettled *)
(* while the strategy, which dates it by the wall clock, wants it closed.  *)
SettlementFailure ==
  /\ StrategyTurn /\ StopRequested
  /\ pos # NoPosition /\ LockedByT1(pos, bar.day)
  /\ pos' = Marked(pos, ClosingPrice)
  /\ managed' = ManagedAfterBar
  /\ barsSeen' = barsSeen + 1
  /\ pc' = "failed" /\ err' = "T1SettlementViolation"
  /\ UNCHANGED <<bar, toFill, book, cash, realized, reportVars, risk, prevBar, replaced>>

(* No close takes effect: mark, manage and count the bar, take a snapshot. *)
QuietBar ==
  /\ StrategyTurn
  /\ ~ StopRequested \/ pos = NoPosition
  /\ pos' = Marked(pos, ClosingPrice)
  /\ managed' = ManagedAfterBar
  /\ equity' = cash + MarkToMarket(pos')
  /\ barsSeen' = barsSeen + 1
  /\ pc' = "feed"
  /\ UNCHANGED <<err, bar, toFill, cash, realized, posSignal, trades, risk, replaced>>

(* Warm-up, session window, risk limits and an open position each stop the *)
(* handler before the signal generator sees the bar.                       *)
SignalsWanted ==
  /\ barsSeen + 1 >= WarmUpBars
  /\ bar.inWindow
  /\ CanOpenPosition(risk)
  /\ managed = NoPosition

WatchBar ==
  /\ QuietBar
  /\ ~ SignalsWanted
  /\ UNCHANGED <<book, prevBar>>

(* The entry triggers of the bar against the generator's previous bar.     *)
Triggers ==
  {t \in {[direction |-> "Long", entry |-> prevBar.high, stop |-> prevBar.low],
          [direction |-> "Short", entry |-> prevBar.low, stop |-> prevBar.high]} :
     /\ prevBar.high > prevBar.low
     /\ IF t.direction = "Long" THEN bar.high > t.entry ELSE bar.low < t.entry}

RiskPerUnit(t) == Gain(t.direction, t.stop, t.entry)

RoundToTick(price) == (price \div TickSize) * TickSize

StopEntry(t) ==
  [type |-> "Stop", direction |-> t.direction,
   quantity |-> PositionSize(risk, Money(RiskPerUnit(t)), LotSize),
   price |-> RoundToTick(t.entry), stop |-> RoundToTick(t.stop), day |-> bar.day]

Sized(t) == StopEntry(t).quantity > 0

(* The generator yields no candidate (the previous bar was no signal bar,  *)
(* or was not confirmed, or the filters rejected it), or one too risky for *)
(* a single lot.                                                           *)
DeclineBar ==
  /\ QuietBar
  /\ SignalsWanted
  /\ prevBar' = bar
  /\ UNCHANGED book

(* The first candidate of positive size becomes a stop order. *)
SubmitEntry(id) ==
  /\ QuietBar
  /\ SignalsWanted
  /\ prevBar # NoBar
  /\ book[id] = NoOrder
  /\ \E t \in Triggers :
       /\ Sized(t)
       /\ book' = [book EXCEPT ![id] = StopEntry(t)]
  /\ prevBar' = bar

-----------------------------------------------------------------------------
(* The end of the feed: the open position is closed at its last mark, at   *)
(* the time of the last snapshot.  Pending orders stay in the book.        *)

ForceClosePrice(p) == p.current

EndOfData == pc = "feed" /\ bar # NoBar

FinishFlat ==
  /\ EndOfData /\ pos = NoPosition
  /\ pc' = "done"
  /\ UNCHANGED <<err, bar, toFill, book, portfolioVars, reportVars, strategyVars, replaced>>

ForceClose ==
  /\ EndOfData /\ pos # NoPosition /\ ~ LockedByT1(pos, bar.day)
  /\ ClosePosition(ForceClosePrice(pos))
  /\ pc' = "done"
  /\ UNCHANGED <<err, bar, toFill, book, equity, barsSeen, prevBar, replaced>>

ForceCloseFailure ==
  /\ EndOfData /\ pos # NoPosition /\ LockedByT1(pos, bar.day)
  /\ pc' = "failed" /\ err' = "T1SettlementViolation"
  /\ UNCHANGED <<bar, toFill, book, portfolioVars, reportVars, strategyVars, replaced>>

(* A run that has returned does nothing more. *)
Returned == pc \in {"done", "failed"} /\ UNCHANGED vars

Next ==
  \/ FirstBar \/ NextDayBar \/ SameDayBar \/ NoData
  \/ \E id \in OrderIds : FillOrder(id) \/ RefuseFill(id)
  \/ StopOut \/ SettlementFailure
  \/ WatchBar \/ DeclineBar \/ \E id \in OrderIds : SubmitEntry(id)
  \/ FinishFlat \/ ForceClose \/ ForceCloseFailure
  \/ Returned

Spec == Init /\ [][Next]_vars

-----------------------------------------------------------------------------
(* Properties.                                                             *)

(* Every variable keeps its type; in particular no order of zero quantity  *)
(* reaches the book.                                                       *)
TypeOK ==
  /\ pc \in {"feed", "fill", "done", "failed"}
  /\ err \in {"none", "NoData", "InsufficientFunds", "T1SettlementViolation"}
  /\ bar \in Bars \cup {NoBar}
  /\ toFill \subseteq OrderIds
  /\ book \in [OrderIds -> PendingOrders \cup {NoOrder}]
  /\ cash \in Int /\ realized \in Int /\ equity \in Int /\ replaced \in Int
  /\ pos \in Positions \cup {NoPosition}
  /\ posSignal \in EntrySignals \cup {NoSignal}
  /\ trades \in Seq(Trades)
  /\ risk \in RiskStates
  /\ managed \in ManagedPositions \cup {NoPosition}
  /\ barsSeen \in Nat
  /\ prevBar \in Bars \cup {NoBar}

(* The engine's portfolio and the strategy's position manager are two      *)
(* books of the same position, updated by separate calls (open_position    *)
(* and on_fill, close_position and on_position_closed, update_price and    *)
(* BarUpdate).  Between steps they agree on whether there is a position,   *)
(* on its side, size, entry and last price, and the trade log's signal     *)
(* belongs to it; also after a fill that overwrote another, and after a    *)
(* run that failed half-way.                                               *)
BooksAgree ==
  /\ (pos = NoPosition) = (managed = NoPosition)
  /\ (pos = NoPosition) = (posSignal = NoSignal)
  /\ pos # NoPosition =>
       /\ managed.position.direction = pos.direction
       /\ managed.position.quantity = pos.quantity
       /\ managed.position.entry = pos.entry
       /\ managed.position.current = pos.current
       /\ posSignal.direction = pos.direction
       /\ posSignal.day = pos.openedAt

(* The risk manager is told of every profit and loss the portfolio         *)
(* realizes, and of nothing else: its capital is its starting capital plus *)
(* the portfolio's realized_pnl.                                           *)
RiskCapitalTracksPnl == risk.capital = RiskCapital + realized

(* The risk manager's count never falls below the number of open           *)
(* positions, so max_open_positions is never exceeded unnoticed.  (It may  *)
(* stay above it: on_fill counts a fill that overwrote a position.)        *)
CountCoversPositions == pos # NoPosition => risk.openCount > 0

(* The two books of the position and the slots of the risk manager agree,  *)
(* between all steps of a run.                                             *)
PositionsAgree == BooksAgree /\ CountCoversPositions

(* Day-boundary cleanup: an order still in the book was submitted on this  *)
(* day of the month.                                                       *)
OrdersAreOfToday ==
  \A id \in Pending : DayOfMonth(book[id].day) = DayOfMonth(bar.day)

(* Once the day's loss reaches max_daily_loss_pct, no order is left in the *)
(* book, because the close that realized the loss also cancelled them.     *)
LossLimitEmptiesBook ==
  LossLimitHit(risk) /\ pc # "done" => Pending = {}

(* What is in the book belongs there: orders of this day, and none once    *)
(* trading has stopped for the day.                                        *)
BookIsCurrent == OrdersAreOfToday /\ LossLimitEmptiesBook

(* "stops trading when hit": from a state in which the daily loss limit is *)
(* hit, no step opens a position or submits an order.                      *)
NoTradeAfterLossLimit ==
  [][LossLimitHit(risk) =>
       /\ risk'.openCount <= risk.openCount
       /\ \A id \in OrderIds : book[id] = NoOrder => book'[id] = NoOrder]_vars

(* T+1 as the report shows it: every Long in the trade log was sold on a   *)
(* later date than it was bought.                                          *)
LoggedLongsSettled ==
  \A i \in 1..Len(trades) :
     trades[i].direction = "Long" => trades[i].exitDay > trades[i].entryDay

(* The trade log accounts for the whole realized profit.  A close is       *)
(* logged only if position_signals holds an entry for it, which the close  *)
(* removes; so no fill, however it overwrote another, and no earlier close *)
(* may leave an open position without one.                                 *)
LoggedPnl ==
  SumFunctionOnSet([i \in DOMAIN trades |-> trades[i].pnl], DOMAIN trades)

TradeLogComplete == LoggedPnl = realized

(* metrics takes the final equity from the last snapshot, which precedes   *)
(* the forced close: the close must not change it.                         *)
FinalEquityIsCash == pc = "done" => equity = cash

(* The account seen as a ledger. *)
LedgerView == INSTANCE Ledger WITH
  Capital    <- InitialCapital,
  Amounts    <- Int,
  Dates      <- Nat,
  cash       <- cash,
  invested   <- HeldValue(pos),
  writtenOff <- replaced,
  earned     <- realized,
  holding    <- IF pos = NoPosition THEN "none" ELSE pos.direction,
  since      <- IF pos = NoPosition THEN 0 ELSE pos.openedAt,
  today      <- Today

(* The backtest implements the ledger: every step of engine, portfolio and *)
(* strategy buys, sells, lets time pass or changes nothing in the account. *)
ImplementsLedger == LedgerView!Spec

(* Conservation of money, in the terms of the portfolio: cash and the open *)
(* position's entry value make up the initial capital and the realized     *)
(* profit, except for what overwritten positions took with them.           *)
MoneyConserved == cash + HeldValue(pos) + replaced = InitialCapital + realized

(* Four accounts of the same money agree: the portfolio's cash and its     *)
(* realized profit, the risk manager's capital, and the final equity of    *)
(* the report.                                                             *)
MoneyAgrees == MoneyConserved /\ RiskCapitalTracksPnl /\ FinalEquityIsCash

-----------------------------------------------------------------------------
(* What the documentation or a comment says and the code does not do.      *)

(* Total portfolio equity is cash and positions: every amount the program  *)
(* started with or earned is in one of the two.                            *)
NothingOverwritten == cash + HeldValue(pos) = InitialCapital + realized

(* A settled Long that closes at or below its stop is closed on that bar.  *)
SettledLongIsStopped ==
  pc = "feed" /\ pos # NoPosition /\ pos.direction = "Long" =>
    ~ (IsT1Settled(pos, bar.day) /\ IsStopHit(pos, pos.current))

(* "uses the signal bar opposite extreme" (strategy/src/stop_target.rs:33) *)
(* and "Will be updated by position manager" (strategy/src/brooks.rs:242): *)
(* a position is closed before the end of the data only at a price beyond  *)
(* its signal's stop, which the portfolio keeps with it.                   *)
StopsAtSignalStop ==
  [][pc = "fill" /\ pos # NoPosition /\ pos' = NoPosition =>
       IsStopHit(pos, ClosingPrice)]_vars

(* "Only cancel unfilled pending orders from previous day." at each "day   *)
(* boundary" (backtester/src/engine.rs:73, 93): no order outlives the date *)
(* on which it was submitted.                                              *)
OrdersEndWithTheirDay == \A id \in Pending : book[id].day = bar.day

(* At the end of the data the remaining positions are closed. *)
EndOfDataClosesPositions ==
  bar # NoBar /\ pc = "failed" => err # "T1SettlementViolation"

=============================================================================
