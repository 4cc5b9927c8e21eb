# A formal model of the Brooks price-action ETF trading system

This directory holds TLA+ modules that model the trading system in `src/`
(a Rust workspace: `core`, `china-market`, `pa-engine`, `strategy`,
`backtester`, `order-manager`, `market-data`, `http-api`, `app`), TLC
configurations that check them on small instances, and theorems checked by
TLAPS. `PROJECT.json` lists components, runs, mutants, hazards, findings and
theorems, and maps every definition to the lines it models.

## 1. Inventory

| Component | State it keeps | Operations | What makes it correct |
|---|---|---|---|
| `core` | `Position`, `Order`, `Signal`, `Bar` values | P&L, stop/target tests, T+1 settlement test, bar geometry | a Long is not sold on the CST date it was bought |
| `backtester` engine | last date, book, portfolio, trade log, signals of open positions | `run`, `try_fill_orders`, `process_single_action`, `force_close_all` | portfolio, strategy and log describe the same position at every step, also across overlapping fills and failures |
| `backtester` portfolio | cash, positions, realized P&L, equity curve | open, close, mark, snapshot | no money appears or disappears; T+1; the final equity is right |
| `backtester` order book, fill model | pending orders | add, remove, cancel; trigger and price | orders fill at most once and do not outlive their day |
| `backtester` trade log, metrics | closed trades, equity points | record, snapshot; the figures of the report | the figures are what the whole log and curve say |
| `strategy` risk manager | capital, day's capital and P&L, position count | size, `can_open_position`, `record_open/close`, `reset_daily` | the daily loss limit stops trading; counts and capital follow the portfolio |
| `strategy` position manager | managed positions with trailing stop | `add_position`, `update`, `remove_position`, `close_all` | exits are requested when due and permitted; a trailing stop only tightens |
| `strategy` session filter | bars processed, session hours | `on_bar_processed`, `allows_new_entry`, `reset_daily` | entries only in the windows, only after warm-up |
| `strategy` signal generator | previous bar | `evaluate`, `reset` | levels come from the bar that was classified |
| `strategy` coordinator and Brooks strategy | two engines, all of the above | bars, ticks, session open, fills, closes, reset | every bar reaches its engine; orders are timely, sized and counted |
| `pa-engine` | bar history, swings, legs, ranges, levels, breakouts | `process_bar`, `reset` of each detector | what is remembered agrees with what happened; states evolve as the comments say |
| `order-manager` | active orders, history; the paper executor's pending orders, fill queue, prices, T+1 dates | submit, cancel, modify, poll, cancel all, price update | every order is active or in the history, ends once, fills once |
| `market-data` aggregator, feed, provider | partial bar; position in the feed; aggregators per subscription | `process_tick`, `flush`, `next_bar`, `subscribe` | each tick is in exactly one bar of its slot and session |
| Futu client | connection, serial numbers, keep-alive task, push receiver | request, push dispatch, keep-alive | frames are whole, events in order, a lost connection is noticed |
| `china-market` | calendar, sessions | phases of the day, next/previous trading day, rounding | boundaries agree with each other, no trading day is skipped |
| `http-api` | maps of sessions, a task per session | start, status, results, stop | a session ends exactly once, and ends when stopped |
| `app` | none of its own | commands | passes configuration on |

Interactions. A backtest is one thread of calls: the engine pulls bars from the
feed, fills orders into the portfolio, tells the strategy (`on_fill`), sends it
the bar (`on_event`), carries out the actions it returns, and tells it of each
close (`on_position_closed`). The hard part is not parallelism but *two books of
the same facts*, kept by separate calls: portfolio and position manager,
realized P&L and risk capital, order book and signals; any of these calls can
fail with `?` between two updates. Which order fills first is decided by a hash
map, and two clocks are in play (the bars' and the machine's).

The strategy hands each bar to one of two engines. An engine passes it through
its detectors in a fixed order, each reading what those before it have just
written; the classification it keeps is read on the *next* bar. Between the
engine and the order stand early returns (session, limits, position held), so
parts of the strategy see different subsequences of the bars.

Paper trading runs the same strategy under a `select!` loop per session,
started, observed and stopped by concurrent HTTP requests. The order manager's
executor fills asynchronously with respect to the calls that cancel and modify.
The Futu client's calls, keep-alive loop and push receiver share one connection
and one lock. The list of hazards, each at its line, is in `PROJECT.json`.

## 2. Modules

| Module | Models | Kind |
|---|---|---|
| `Position`, `FillModel` | `core/src/position.rs`, `backtester/src/fill_model.rs` | operators |
| `RiskManager` | `strategy/src/risk.rs` | operators on the manager's record |
| `Backtest` | `engine.rs`, `portfolio.rs`, `order_book.rs`, `trade_log.rs`, driving `brooks.rs` | state machine |
| `Ledger` | what the account promises | abstract state machine, implemented by `Backtest` |
| `Metrics` | `metrics.rs`, the trade log's statistics | state machine that grows log and curve, with the figures as operators |
| `Executor` | the contract of the `OrderExecutor` trait | abstract state machine, implemented by `PaperExecutor` |
| `OrderManager` | `order-manager/src/manager.rs` over any executor that keeps the contract | state machine composed with `Executor` |
| `PaperExecutor` | `order-manager/src/paper.rs` | state machine |
| `Bars`, `BarAnalysis`, `Trend`, `SupportResistance`, `Breakout`, `TradingRange`, `Channel`, `Pattern`, `SignalBar` | one file of `core` or `pa-engine` each; `SignalBar` also `entry_bar.rs` | operators on a detector's record |
| `PriceAction` | `PriceActionAnalyzer::process_bar`: all detectors in order | operators on the engine's record |
| `Analyzer` | an engine fed any bars | state machine over `PriceAction`, with the whole history beside it |
| `SignalGenerator` | `signal_generator.rs`, target and reward of `stop_target.rs` | operators |
| `TradingSession`, `TradingCalendar`, `SessionFilter` | `session.rs`, `calendar.rs`, `session_filter.rs` | operators on the minute and the date |
| `ManagedPosition` | `ManagedPosition` and `update` of `position_manager.rs`, `trailing_stop` | operators on one position |
| `PositionManager` | `position_manager.rs` under any caller | state machine over `ManagedPosition` |
| `Strategy` | `brooks.rs` and `mtf.rs` | state machine composing the engines, `SignalGenerator`, `RiskManager`, `ManagedPosition`, `SessionFilter` |
| `MarketClock` | `china-market` through minutes and days | state machine over `SessionFilter`, `TradingCalendar` |
| `Aggregator` | `aggregator.rs` | state machine |
| `FutuClient` | `futu/client.rs`, `futu/connection.rs`, the messages' subscriptions | actions of writers, gateway, receiver and consumer |
| `Provider` | `provider.rs` | state machine with fairness over `FutuClient` |
| `Sessions` | the sessions of `http-api`, their tasks, and the Futu client as a task uses it | state machine with fairness |
| `MCAnalyzer`, `MCBacktest`, `MCOrderManager`, `MCPaperExecutor`, `MCPositionManager`, `MCStrategy` | instances for TLC (`Aggregator`, `MarketClock`, `Metrics`, `Provider`, `Sessions` need none) | |
| `AnalyzerProofs`, `OrderManagerProofs`, `PositionManagerProofs`, `StrategyProofs` | theorems of the module they are named after | |
| `BacktestProofs` | theorems of `Backtest`, `Ledger` and `Metrics` | |
| `PaperTradingProofs` | theorems of `Sessions` and `PaperExecutor` | |
| `MarketDataProofs` | theorems of `Aggregator`, `Provider` with `FutuClient`, and `MarketClock` | |
| `FiniteInduction` | lemmas: sums, extremes, last members and ranks in finite sets, folds over sequences | |

A definition whose comment begins "A mistaken ..." is a plausible bug in the
definition after it. Nothing uses it but the mutants of `PROJECT.json`.

### Backtest: state and actions

`bar`, `book`, `cash`, `realized`, `pos`, `trades`, `posSignal`, `risk`,
`managed`, `barsSeen` and `prevBar` are the fields of the Rust structures of
the same meaning; `equity` is the last point of the equity curve. `pc` is the
engine's place in its loop: `feed` before a bar is pulled, `fill` while orders
are tried and the strategy reacts, then `done` or `failed`; `err` is the
`BacktestError` that ended a failed run. `replaced` is a history variable. A
close is logged only if `posSignal`, the engine's `position_signals`, has an
entry for it (`LoggedTrades`).

One bar is a sequence of steps: `FirstBar`, `NextDayBar` or `SameDayBar`
(end-of-day cancellation, session open, triggered orders computed), a
`FillOrder` or `RefuseFill` for each triggered order in any order, then one step
for mark-to-market, strategy and snapshot: `StopOut`, `SettlementFailure`,
`WatchBar` (the handler returned before the generator), `DeclineBar` (no
candidate) or `SubmitEntry`. The feed may end after any bar: `FinishFlat`,
`ForceClose`, `ForceCloseFailure`. `NoData` is the empty feed.

### Order manager and executors: state and actions

`venue` and `fills` are the executor's side: what is left of each resting order
and its price level, and the queue `poll_fills` drains. `active` and `history`
are the manager's two maps. `Executor` says what a venue may do: accept an order
to rest or fill it at once, withdraw or amend a resting order, execute part or
all of it and queue an event, drain the queue. `OrderManager` adds one action
per method. Methods take `&mut self` and await the executor, so one method runs
at a time and the venue executes between awaits: polling is `PollFills`, which
takes the events into `inbox`, and one `RecordPartial`, `RecordFilled` or
`PassOver` per event; a cancel-all is `CancelAll`, which collects ids into
`sweep`, and one `SweepCancel` or `SweepSkip` per id, in any order.

`PaperExecutor` has the fields of the Rust structure (`pending`, `fills`,
`prices`, `longs`) and the date `today`. `UpdatePrice` sets a price and collects
the triggered ids in `toFill`; `FillTriggered` fills them one by one in any
order, and no other method runs meanwhile. Its refinement of `Executor` hides
prices, dates and security, and shows the contract is not an assumption only.

### Sessions: state and actions

Each session has a kind, a `status` (what a request is answered) and a `task`
(where the spawned code is): `connecting`, `handshake`, `subscribing`,
`looping`, `fetching`, `computing`, and `returning` when the work is over but
the session's lock not yet taken to write the status. `cancel` is the watch
channel, `link` and `keepAlive` the connection and its background loop.
`StartPaperTrading`, `FetchData`, `RunBacktest` and stop requests, the gateway
(accept, reject, close) and the task interleave. `Compute` stands for a whole
`Backtest`, which returns a result or an error.

### Price-action engine: state and actions

An engine is a record with one field per detector: bar counter, trend (window
of recent bars, swing points, legs' state, average), bodies, levels, breakouts,
ranges, and the context the last bar left. `ProcessBar` is the whole of
`process_bar`: each detector's `Update...` in the code's order, reading the
parts already updated. `Analyzer` has one action, `NewBar`; `history` keeps
every bar, and `twin` is a second counter and trend fed the same bars with
prices upside down.

### Strategy: state and actions

`primary`, `context`, `config`, `prevBar`, `barsSeen`, `risk` and `managed` are
the strategy's fields; one action per handler: `PrimaryBar`, `ContextBar`,
`Tick`, `SessionOpen`, `Fill` (`on_fill`), `PositionClosed`, `Reset`. `orders`
and `closing` belong to a driver that fills an order whenever it likes, drops
orders overnight, and carries out a requested close before the next event; `fed`
bounds its bars. `lost` is history: positions whose slot nothing gives back,
because a fill overwrote them or `reset` discarded them.
`Backtest` is an abstraction of the same code that leaves open which bars are
signal bars; in `Strategy` the real engines and the real generator decide.

### Position manager, clock, aggregator: state and actions

`PositionManager` has a map of positions and an arbitrary caller: `AddPosition`
(also over a position that is held), `Update` with any price and swing levels,
`UpdateNothing`, `RemovePosition`, `CloseAll`, and `NextDay`. `opening`,
`evaluated`, `settled` and `asked` are history.

`MarketClock` sets up a calendar (`AddHoliday`, `AddMakeupDay`) and lives
through `Minute`s and `NextDay`s. `Aggregator` has one disjunct for each path
of `process_tick` (`CloseSession`, `StartNext`, `Grow`, `StartFirst`) and
`Flush`; `ticks` remembers what went into the partial bar, `started` the parts
of days that have a bar, `owed` the volume that is due.

### Futu client and provider: state and actions

A writer (the caller, or the keep-alive loop) queues for the lock, draws a
serial number, writes a header and then a body (`Begin`, `WriteHeader`,
`WriteBody`, `Fail`, `Return`); `wire` is what the gateway sees. `Serve`, `Push`
and `Close` are the gateway; `ReadFrame`, `SendEvent` and `ReadEnd` the push
receiver with its bounded channel; `Consume`, `HearEnd` and `Depart` the
consumer. `DropClient` aborts both loops. `Provider` adds the calls
(`Subscribe`, `Unsubscribe`, `FetchHistoricalBars`) and, when a call returns,
its change of the aggregator map.

### Metrics

`Record` and `SnapshotEquity` grow the log and the curve in any way; each
figure of the report is an operator on them.

### Abstractions

* `Backtest` has one security, as `BacktestEngine::run` takes one; its maps
  keyed by security become a value or `NoPosition`. `Strategy`,
  `PositionManager`, `OrderManager` and `PaperExecutor` have several.
* Decimals are exact integers: a bar price is a natural number, money is in
  units of `1/SlipUnit` of it, so that slippage is exact. Percentages and ratios
  are compared by cross-multiplication, where the code divides decimals of 28
  digits. Where the engine averages and halves (the exponential average, middles
  of ranges), the instances use prices that are multiples of 4096, which halve
  exactly over the bars of a behaviour. The fractions of `Metrics`, computed in
  floating point by the code, are exact; of the Sharpe and Sortino ratios only
  the signs are modelled.
* A date is the number of a CST calendar day; the backtest engine's day of the
  month is `day % MonthLength`. Bars of the market's hours have the same UTC and
  CST date. The wall clock of `Utc::now()` is the constant `WallDate` in
  `Backtest`: a run is assumed not to cross midnight. In `Strategy` and
  `PositionManager` the wall clock shows the current day.
* In `Backtest`, which bars are signal bars, their direction, the confidence and
  the reward-to-risk filter are left open (`DeclineBar` is always possible); the
  entry and stop levels are the code's, and `inWindow` is the session filter's
  verdict on the bar's time. `Strategy` decides all of them.
* `bars_held`, `partial_exits`, the copies of the original stop and target, ids
  and reasons are never read by the control flow and are left out. `on_fill`
  gives positions no target and no risk, which `BacktestProofs` proves to be an
  invariant (`PlaceholderPosition`); this is why the swing points passed to
  `update` do not matter in `Backtest`.
* In `OrderManager` an order's price and stop are one value of `Levels`: only
  whether manager and venue hold the same one matters. Callers build orders with
  `Order::market`, `limit` or `stop`, which draw a fresh id, so `SubmitOrder`
  does not reuse the id of an order that ended.
* `PaperExecutor` is driven by callers that may do anything the signatures
  allow: `RegisterLong` takes any date up to today, orders may repeat ids.
* `Aggregator`: ticks come in the order of their times, at whole minutes, with
  a security and timeframe of their own for each aggregator; a week's slot is
  seven days counted as the code counts them, from the epoch.
* `FutuClient`: a message is what it asks for or carries. Gateway and consumer
  are external. Serial numbers do not wrap. The client's reading half can be
  taken once; `connect` drops it today, so the receiver that `StartPushReceiver`
  starts is the code's own function under a caller that kept the half. A
  provider is owned by one task and makes one call at a time.
* Dropping a client ends its background loops at once. `JoinHandle::abort`
  (`client.rs:321`) only asks for it, so a loop may live on until its next
  await.
* `Sessions` and `Provider` leave out panics inside tasks and restarts of the
  process (nothing is persisted; a restart is `Init`); `Sessions` also requests
  that only read.

## 3. Runs

| Run | Asks | Bounds |
|---|---|---|
| `backtest` | do the books of a whole backtest agree, and does it implement `Ledger`? | 7 bars, 3 dates, months of 2 days, wall clock inside the data, 6 bar shapes over prices 1..5, 2 order ids, 2 open positions allowed |
| `analyzer` | does what the engine remembers agree with all it saw? | every sequence of 7 bars of 5 shapes, lookback 1, memories of 2 to 4 entries |
| `strategy` | are the whole strategy's orders timely, sized and counted? | 11 primary bars and 1 context bar, 2 securities, 3 shapes and 1 earlier history, bars at 10:00, 10:05, 11:14, 11:20, 13:05, 2 days, 2 runs |
| `stale_signal_bar` | does an entry follow its signal bar? (violated, see 5) | as `strategy`, 1 security |
| `position_manager` | are stops and exits right under any caller? | 2 securities, prices 1, 3, 4, swing levels 2, 3, 3 openings (Long and Short with a risk, a placeholder), 2 dates |
| `order_manager` | do the manager's books mirror a venue that executes at any time? | 2 orders of different securities, quantities 1 and 4, 2 price levels |
| `paper_executor` | does the paper executor keep the contract and fill what a price triggers? | 2 orders, 2 securities, prices 1..2, 6 requests, 2 dates (`MaxDay`), nothing submitted while more than 1 fill is unpolled (`MaxFills`) |
| `sessions` | are statuses true and final, is everything released, does a stop take effect? | 2 sessions of any kinds |
| `provider` | are frames whole, events in order, aggregators and subscriptions in step, and does nobody wait for ever? | 1 security, 3 timeframes of which 2 share a subscription, 3 frames written, 2 pushed, a channel of 1 |
| `aggregator` | does each tick go into one bar of its slot and session? | 5-minute, hourly, daily and weekly bars, 2 dates, 9 minutes of the day, 2 prices, 5 ticks |
| `market_clock` | do phases, countdowns, windows and calendar agree? | every minute of 4 trading days from 2025-01-24, the built-in calendar or an empty one, 2 editable dates |
| `metrics` | are the figures of the report exact? | every log of 4 trades and curve of 4 points over small values |

Why the bounds are enough.

* `backtest`: seven bars are two warm-up bars, an entry, a fill, a second fill
  over the first, a stop-out and a bar on the next date, which is the longest
  chain of causes in the code; two order ids let one order be filled while
  another is pending, the only way two orders interact; three dates cover
  bought-yesterday, bought-today, and a whole month when `MonthLength` is 2; the
  wall clock (date 2) lies before, on and after the date of a bar, so that the
  strategy's T+1 lock is tighter and looser than the portfolio's. The shapes
  include bars that fill buy and sell orders together, stop a Short, lose more
  than the daily limit on one trade, and fall below every Long's stop.
  `OrderIds` is symmetric: ids are only compared.
* `analyzer`: a swing point takes three bars, two of them (a range, a trend)
  five, a breakout two more to be confirmed or to fail; the memories are small
  enough to overflow.
* `strategy`: an earlier history has made swing points and levels, so that a
  breakout needs two bars; two bars of warm-up, a signal, an entry, a fill and a
  close fit twice. One of the five times is too late for an entry; the last is
  after lunch. The second run has the default configuration.
* `position_manager`: prices reach stop, target and activation from both sides,
  and two dates lock and release a Long; securities share nothing but the map.
* `order_manager`: a quantity of 4 can be executed in up to four parts, with
  polls, cancellations and modifications between any two; a quantity of 1 cannot
  be executed in part; two orders are what a sweep needs to be overtaken by a
  fill.
* `paper_executor`: one price can trigger both orders, or pass over one of
  another security; the requests include the two kinds the validation refuses.
* `sessions`: sessions share nothing but the maps, so two show everything an
  interleaving can do. `provider`: three frames are a call, a keep-alive between
  its parts or behind it, and a second call; two pushes fill the channel and
  wait.
* `aggregator`: the minutes are the auction, two slots of the morning, the last
  minute and the close of each session and the first of the afternoon; the
  boundaries compare two ticks at a time.
* `market_clock`: the days begin before a makeup Sunday and end in the holidays
  of the Spring Festival; the editable ones are a Saturday and a Monday.
* `metrics`: a fall, a recovery and a deeper fall take four points.

`CHECK_DEADLOCK FALSE` is said of `order_manager`, `sessions`, `analyzer`,
`strategy`, `stale_signal_bar`, `aggregator`, `market_clock`, `metrics` and
`provider`: ids are used up or the bound on bars, ticks, days or frames is
reached, every order or session has ended, and nothing is left to do.
`backtest`, `paper_executor` and `position_manager` are checked for deadlock.

Fairness is assumed in two modules. `Sessions`: the runtime polls every task
that can go on (`WF` of `TaskStep`); a TCP connection attempt ends, if only by
the timeout of the operating system; an engine run is a loop over a finite feed;
writes to the gateway are a few hundred bytes and do not wait for it to read.
Nothing makes the gateway answer a handshake or a client send a request:
`StopTakesEffect` therefore states its assumption on the gateway. `Provider`:
a writer whose turn it is goes on (the mutex of the runtime is fair, and `queue`
is its order), a call that is over returns, the receiver reads what is there and
sends when there is room, and a consumer that stays receives. Nothing makes
anybody call, the gateway serve or push, or the connection close.

The properties, by module:

* `Backtest`: `PositionsAgree` (portfolio, position manager and trade-log signal
  describe the same position between any two steps, `BooksAgree`, and the risk
  manager's count covers it, `CountCoversPositions`); `MoneyAgrees`
  (`MoneyConserved`, `RiskCapitalTracksPnl`, `FinalEquityIsCash`: the money of
  the account, of the risk manager and of the report agree); `TradeLogComplete`
  (no close goes unlogged for want of its signal); `BookIsCurrent` (orders in
  the book are of this day of the month, `OrdersAreOfToday`, and none is pending
  under a hit limit, `LossLimitEmptiesBook`); `NoTradeAfterLossLimit`;
  `LoggedLongsSettled` (T+1 in the report, although the strategy's own idea of
  the opening date is wrong); `ImplementsLedger`.
* `Analyzer`: `SwingsAreTurningPoints`, `WatermarksOfSequence`,
  `BreakoutsAreDecidedInTime`, `RangesHold`, `EntryBarsFollowSignals` compare
  the engine's memory with the whole history; `TrendMirrors` with the mirrored
  market.
* `Strategy`: `EntriesAreTimely` (window, warm-up, and only this session's
  signal bars), `OrdersWithinBudget` (after truncation to lots and rounding to
  ticks), `SignalsFollowWarmUp` (the bar behind an order had the warm-up before
  it, counted in its session's own bars), `SlotsAccounted` (the count of
  positions is exact but for the `lost` ones).
* `PositionManager`: `StopIsEarned`, `NoMissedExit`.
* `OrderManager`: `KnowsVenue` (an order is active exactly while it rests or its
  completing fill is on the way; levels agree; a sweep never reaches an order
  that has ended), `QuantityAccounted`, `HistoryIsHonest`, `EndsOnce`.
  `PaperExecutor`: `TriggeredOrdersFill`, `ImplementsExecutor`.
* `Sessions`: `StatusTellsTruth` (`HonestStatus`, `StoppedOnlyOnRequest`),
  `NothingLingers`, `StopTakesEffect`.
* `Provider`: `FramesAreWhole`, `EventsKeepOrder`, `BarsHaveAggregators`, and
  `NobodyWaitsForEver` (`CallsReturn`, `EndIsHeard`).
* `Aggregator`: `BarsSummariseTheirTicks`, `BarsKeepToTheirSlot`,
  `DropsComeFirst`.
* `MarketClock`: `CalendarSkipsNoDay`, `BoundariesAgree` (at all times
  `PhasesPartitionTheDay`, and `CountdownReachesBoundary`).
* `Metrics`: `FiguresAreExact` (`DrawdownIsWorstFall`, `StreakIsLongestRun`,
  `ReportIsConsistent`).

No liveness is claimed of a backtest: it is a loop over a finite feed.

## 4. Proofs

All proofs are of the shape: an invariant with the properties among its
conjuncts, shown to hold initially and to be kept by every action. What follows
says for each module what had to be added to the property to make it inductive,
and what the proof assumes. Assumptions on constants are the `ASSUME`s of the
modules, which TLC evaluates on every run; two theorems have a hypothesis of
their own, and say so. Where a proof module extends several state machines,
their initial states, steps and specifications have names of their own
(`ProviderSpec`, `ClockSpec`, `ReportSpec`, `PaperSpec`).

**`FiniteInduction`.** The prover cannot instantiate an induction rule. Every
induction over data is therefore an argument by smallest counterexample: a
non-empty set of naturals has a least member (`LeastNatural`), a property of
finite sets that fails fails for a set of least size (`SmallestSubset`). From it
follow that sums over finite sets and sequences grow by what is added, that
extremes, last members and every rank of a finite set exist, and what a left
fold has computed after each prefix (`FoldExists`), which is how pure functions
of the code that loop over a slice become reasonable about.

**`BacktestProofs`** proves, for all values of the constants allowed by
`BacktestAssumption`, `SlippageAssumption` and `RiskAssumption` (any capital,
lot, tick, limits, month length, wall clock, bar shapes, number of orders and
length of the feed), everything the run `backtest` checks. The induction is
layered, each layer using those before:

1. `TypeInv`: `TypeOK`, `PlaceholderPosition` (a managed position has no risk,
   no target, no trail, and its stop is its entry price) and `BarPresent` (a
   strategy turn has a bar; position and signal exist together; triggered ids
   are in the book). `TypeOK` alone is not inductive: the types of a fill need
   the order to be there, and the types of an update need the trail to be off.
2. `BooksAgree` over `TypeInv`.
3. `AccountInv`: money and risk capital, closed under every step because a close
   returns exactly entry value plus profit (`CloseKeepsMoney`) and marking a
   price leaves the entry value alone (`MarkKeepsValue`).
4. `BookInv`: orders of today and the empty book under a hit limit;
   `NoTradeAfterLossLimit` needs it, since an order in the book could fill.
5. `LoggedLongsSettled`, `EquityInv` (the snapshot equals cash plus marked
   position whenever a bar is wanted), `CountCoversPositions`.
6. `TradeLogComplete`: a close adds its profit to `realized` whatever happens,
   and appends it to the log only if there is a signal to log it with. That
   there is one follows from `BooksAgree`, position and signal coming and going
   together through fills, overwriting fills and closes (`CloseLogsProfit`); a
   sum over a sequence grows by what is appended (`SumAppend`).
7. `LedgerStep`: each step maps to a ledger step or a stutter.

`PositionsAlwaysAgree`, `MoneyAlwaysAgrees` and `BookAlwaysCurrent` put the
layers together to the properties as the run states them. `LedgerConserves`
shows what the abstract specification is worth by itself: whatever moves as the
ledger does conserves money.

`FiguresAlwaysExact` is about `Metrics`, for any log and curve. The invariant
there is only the types, for log and curve grow in any way; the work is in the
figures. `DrawdownKnown` and `StreakKnown` say what the fold knows of each
prefix: the highest point so far and the worst fall from a point to a later one,
compared as fractions; the run of losses that ends here and the longest so far.
That a fall from a higher peak is the deeper one (`HigherPeakFallsDeeper`) is
why one pass is enough. `ReportIsConsistent` follows from sums taken apart by
sign (`SumBySign`).

**`PositionManagerProofs`** proves `StopIsEarned` and `NoMissedExit` for any
securities, prices, swing levels and openings (`ManagerAssumption`: every
non-empty choice of swing levels has a highest and a lowest). The inductive
invariant `IInv` adds the types, that a position still carries what it was
opened with (`Matches`), that its stop is never looser than the first one and
its trail is on just when it earned its risk (`StopKept`), and that no price at
which it might have been sold lay at the first stop or the target (`ExitKept`).
The link between the two is that the current stop is never looser than the
first: a price beyond the first stop then hits the current one, so the update
did ask. `TrailingStopTightens` is the lemma about `trailing_stop` behind it;
`UpdateKeepsStop` and `QuietUpdateIsInside` carry it through an update.

**`StrategyProofs`** proves the four properties of `Strategy` for any schedule,
bars, securities, tick, lot and limits (`StrategyAssumption`, `RiskAssumption`).
`IInv` adds the types, that the session filter's count is the number of the
session's bars (`CountInv`), that the generator's previous bar is one of today
between the warm-up's last and the latest (`PreviousInv`), and that each order
still carries what made it right when it was submitted. The types of an engine
made with an earlier history, which is a recursive function over bars, come
from those of one bar (`EngineMoves`) by smallest counterexample
(`EngineOfPast`). `OrdersWithinBudget` comes down to truncation to lots
and rounding to ticks (`SizeFacts`, `RoundingFacts`,
`OrdersKeepTheirBudget`): rounding a Short's entry may move its price a tick
away from its stop, so the budget is kept but for a tick a unit, and not
exactly. `SlotsAccounted` needs the map of positions to be finite and a close to
be asked for only of a held one; a fill adds one to the count and either to the
positions held or to those lost.

**`AnalyzerProofs`** proves what the run `analyzer` checks for any sound bars
(open and close between low and high), configuration and length of history.
`IInv` relates each detector's memory to the whole history (`EngineFits`): the
window is its latest bars and `index` its length (`WindowFits`), which makes
positions in the window positions in the history and so swing points turning
points (`SwingsFit`, `PointsFit`); the counter's run of bars (`CounterFits`);
each breakout's level, start and the closes since (`BreakoutsFit`); each range's
bars and edges (`RangesFit`); the last two classifications. None of the
properties is inductive by itself, for the code decides on what it remembers and
they speak of what happened. The constants are assumed only to let a window hold
a candidate and its neighbours (`MaxBars >= 2 * lookback + 1`) and the bars that
decide a breakout and make a range to be positive, as the code's defaults,
which nothing overrides, are.

`TrendAlwaysMirrors` runs a second induction beside it (`MirrorInv`): counts,
window, swing points and average of the twin are those of the engine upside
down. The average needs a hypothesis, `AverageIsExact`: the code divides
decimals and the model whole units, and a division that rounds down does not
mirror. It says that prices are coarse enough for the averages of a behaviour
never to leave a remainder; the instance's (4096 units a step, an average of
three bars, seven bars) are, and `units` is there the powers of 4 from 4096 down.

**`OrderManagerProofs`** proves the properties of `OrderManager` for any set of
orders, quantities, levels and securities (`ExecutorAssumption`,
`ManagerAssumption`), and that every step of the manager is a step of the
contract or leaves the venue alone. `KnowsVenue` is not inductive: that a
completing fill finds its order needs that no order has two completing fills on
the way (`FilledAtMostOnce`), and that an order a sweep collected is still
active needs that recording and sweeping never overlap (`OneMethod`: `inbox` and
`sweep` are not both in use). `EndsOnce` needs `KnowsVenue`: a second end would
have to come from an order that is active and in the history. The accounts
(`AccountsInv`) add to it, per order (`Accounted`), that recorded, announced and
resting quantity are the whole; that nothing is announced of an order after the
fill that completes it (`LastCompletes`), so that an order that ends as filled
has everything recorded; and that nothing is announced of an order the manager
never had (`Announced`), so that a new one starts from nothing.

**`PaperTradingProofs`** proves types, `StatusTellsTruth`, `NothingLingers` and
`FinalStatusStable` for any number of sessions. A step changes one session
(`OneMoves`), so the invariant `SessionsInv` is proved for the session that
moves. `StoppedOnlyOnRequest`, a part of `StatusTellsTruth`, is not inductive,
because `Report` derives the status from the result of work that is over; the
invariant follows the cancellation from the request (`cancel` implies `asked`)
through the loop (an error-free paper result implies `asked`) to the status.

For `PaperExecutor` it proves `TriggeredOrdersFill` and the refinement of
`Executor`, for any orders, prices, slippage and dates (`PaperAssumption`).
`PaperInv` is the types and `UpdateKeepsTrack`: while a price update is carried
out, the orders still to be filled are pending and of its security, and its
price triggers no other one. The refinement is a map of pending orders to
resting ones (`RestingOf`) and of the queue to announcements; the step that
needs care is the market order, which the contract accepts and fills at once.

**`MarketDataProofs`** has three parts.

* `Aggregator` (`AggregatorInv`): any prices, volumes, dates and number of
  ticks. `PartialKeeps` and `DeliveredKeeps` say which ticks are behind a bar
  and that they share its slot; `BarsTotal` gives prices, volume and timestamp; `StartedInOrder`,
  that the parts of days with a bar lie at or before the last tick, makes
  `DropsComeFirst` inductive. `AggregatorAssumption` has no tick between
  midnight and 8:00, as the exchange has none: slots are counted on timestamps
  in UTC, whose day begins at 8:00 in China.
* `Provider`: any number of calls, frames and pushes. `FramesInv` adds to
  `FramesAreWhole` who holds the lock between header and body (`LockInv`) and
  the length of the wire with the serial number it comes from (`WireInv`).
  `EventsInv` adds that the receiver's event in hand is that of its last frame
  (`SendsLastFrame`) and which frames were passed on (`NothingMissed`).
  `BarsHaveAggregators` speaks of the moment when the gateway has read
  everything, and is made inductive by looking ahead: what the gateway will
  push once it has read what is under way (`WillHold`) agrees with the
  aggregators there will be when the call returns (`Expected`, `Agree`). Only
  this one uses `ClientAssumption`.
* `MarketClock`: `CalendarNeverSkips` for any editable dates and number of days
  (`DaysInv`: the days lived through are the trading days between the first and
  today). The searches of the calendar look `MaxBreak` days ahead, where the
  code loops until it finds one; the hypothesis `BreaksEnd`, that trading always
  goes on within `MaxBreak` days, is what the code's loops need to end.
  `BreaksEndInTime` discharges it: with finitely many holidays, any `MaxBreak` of
  seven days for each holiday and one week more will do, since each week in
  between has a weekday that is no holiday. `BoundariesAlwaysAgree` needs only
  that the minute is one of a day.

Only model-checked: `StopTakesEffect` and `NobodyWaitsForEver`, since liveness
under fairness is out of the prover's reach. The finding's run and the twelve
properties of section 5 are refuted, and so not proved either.

## 5. Findings

One statement is refuted by a run of its own. `entry_bar.rs:22` says that an
entry bar is the bar *after* the signal bar. The generator keeps the bar of its
last evaluation, and is not evaluated outside the entry windows, while a
position is held, or when the limits are reached; the flag it tests is that of
the bar just before. The first bar evaluated after lunch can therefore trade a
morning bar's levels on the strength of another bar's flag
(`signal_generator.rs:76`, run `stale_signal_bar`).

Twelve more are stated in the modules as properties that no run lists. Added to
the `cfg` of their module's run, TLC refutes each:

* `NothingOverwritten` (`Backtest`): a fill of a second order overwrites the
  position of the first, whose money is lost (`portfolio.rs:68`, against the
  account equity of `portfolio.rs:138`);
* `SettledLongIsStopped` (`Backtest`): on data older than the clock no Long is
  ever stopped out, because its opening date is the wall clock's
  (`brooks.rs:244`, against `position_manager.rs:69`);
* `EndOfDataClosesPositions` (`Backtest`): a Long bought on the last day makes
  the run fail (`engine.rs:365`, against the comment at `engine.rs:160`);
* `StopsAtSignalStop` (`Backtest`): the stop of a filled position is its entry
  price, and the signal's stop, the signal bar's opposite extreme
  (`stop_target.rs:33`), plays no part in any exit: a position is closed as soon
  as it does not gain (`brooks.rs:242`, against the comment on that line, "Will
  be updated by position manager");
* `OrdersEndWithTheirDay` (`Backtest`): day boundaries are seen on the day of
  the month, so an order outlives a gap of exactly a month (`engine.rs:71`,
  against the comments at `engine.rs:73` and `:93`);
* `SlotsAreOfOpenPositions` (`Strategy`): `record_open` counts a fill that
  overwrote a position, and `reset` discards positions and keeps the count, so
  entries stop with fewer positions open than the limit (`brooks.rs:253` and
  `:276`, against `strategy/src/config.rs:33`);
* `TimestampsAligned` (`Aggregator`): a bar is dated by its first tick, not by
  the start of its slot (`aggregator.rs:27`, against `:62`);
  `BarsSummariseTheirTicks` asks only that the date lies in the slot;
* `AfternoonStartsFresh` (`Aggregator`): when no tick came at 11:30, the first
  tick of the afternoon closes the morning's bar and is left out of every bar
  (`aggregator.rs:95`, against `:61` and `:96`);
* `EveryFillRecorded` (`OrderManager`): a partial fill that is polled after its
  order was cancelled is recorded nowhere (`manager.rs:122`, against `:115`);
* `MarketOrdersFillAtMarket` (`PaperExecutor`): a market order without a known
  price fills at price zero (`paper.rs:216`, against `:17`);
* `NoSameDaySale` (`PaperExecutor`): a resting sell order sells a Long on the
  day it was bought (`paper.rs:144`, against `docs/user-guide.md:14`);
* `RequestsTimeOut` (`Sessions`): the request timeout is never applied, so a
  silent gateway keeps a session Running for ever (`connection.rs:121`, against
  `market-data/src/config.rs:12`).

Seen while modelling, and faithful in the model:

* In the strategy and the engine: the warm-up count restarts every day
  (`brooks.rs:198`); `reset` makes engines of the default configuration instead
  of the strategy's and leaves the risk manager's capital (`brooks.rs:276`); the higher timeframe counts as aligned whenever it
  trends, in either direction; confirmed breakouts and the windows of
  `trading_range.rs` are never trimmed, and `min_close_beyond_pct` of
  `breakout.rs:59` is read nowhere.
* In the backtester: the drawdown is a percentage that the command line
  multiplies by 100 again (`commands/backtest.rs:274`).
* In the paper executor: slippage can push a limit fill past its limit and a
  stop-limit order fills at any market (`paper.rs:66`, `:112`); a market order
  submitted twice fills twice (`paper.rs:198`).
* In market data: the event channel of a subscription is closed from the start
  (`provider.rs:163`) and a data fetch returns no bars, as the comments there
  announce; `connect` drops the reading half of its connection (`client.rs:88`);
  the answer to a request for history becomes an event without a kind of kline
  (`client.rs:262`); weekly and daily bars share a subscription, so
  unsubscribing one starves the other (`messages.rs:450`), and the tick
  subscription that comes with every subscription is never undone
  (`provider.rs:130`).
* In the applications: the paper loops only log the strategy's actions, and one
  strategy serves every security; the command line's `paper` ends at once and
  the HTTP session waits for its stop, both because the channel is closed;
  sessions are never removed from their maps (`state.rs:97`); a panic in a
  backtest's task leaves its session Running; the command line's `backtest`
  labels one CSV file with each security in turn, and an error in one ends the
  batch.

## 6. Plan

The core of the system is modelled. What is left, in the order of importance:

1. A refinement of `Strategy` to the choice `Backtest` leaves open: each of its
   orders is one `SubmitEntry` may submit.
2. The command line's batch of securities, and a paper session in which the
   strategy's actions reach the order manager, should the program come to do it.

## 7. Not modelled, and why

* Wire encoding and hashing of Futu messages, CSV parsing, DTO conversion, HTTP
  routing, configuration, logging, command line output: pure data or I/O. The
  command line keeps no state of its own.
* `FutuExecutor` refuses every call and keeps no state.
* Price limits and the table of securities of `china-market` have no caller.
* Panics in tasks, operating-system failures, process restarts (nothing is
  persisted).
* Decimal rounding (28 digits), overflow of `Decimal`, floating-point error in
  the report, the magnitude of the Sharpe and Sortino ratios, wrapping of serial
  numbers after 2^32 frames.
