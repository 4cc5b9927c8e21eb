--------------------------- MODULE BacktestProofs ---------------------------
(***************************************************************************)
(* Proofs about Backtest, for every capital, configuration, bar shape,     *)
(* length of feed and number of pending orders; about the Ledger it        *)
(* implements; and about the figures of the report (Metrics), for every    *)
(* log and curve.                                                          *)
(***************************************************************************)
EXTENDS Backtest, Metrics, FiniteInduction

(***************************************************************************)
(* The operators the model is built from.                                  *)
(***************************************************************************)

(* A delivered bar is a bar. *)
LEMMA NextBarsTyped ==
  ASSUME TypeOK, NEW k \in NextBars
  PROVE  k \in Bars
BY BacktestAssumption DEF NextBars, TypeOK, Bars, OhlcRecords, Clock

(* A position is sized in whole lots, never a negative number of them. *)
LEMMA PositionSizeTyped ==
  ASSUME NEW r \in RiskStates, NEW riskPerUnit \in Int, riskPerUnit > 0,
         NEW lot \in Nat \ {0}
  PROVE  PositionSize(r, riskPerUnit, lot) \in Nat
<1> DEFINE budget == r.capital * MaxRiskPct
           perLot == 100 * riskPerUnit * lot
<1>1. budget \in Int
  BY RiskAssumption DEF RiskStates
<1>2. perLot \in Int /\ perLot > 0
  <2>1. riskPerUnit * lot > 0 /\ riskPerUnit * lot \in Int
    OBVIOUS
  <2>2. perLot = 100 * (riskPerUnit * lot)
    OBVIOUS
  <2> QED BY <2>1, <2>2
<1>3. CASE budget < perLot
  BY <1>3 DEF PositionSize
<1>4. CASE ~ (budget < perLot)
  <2>1. budget >= 0
    BY <1>1, <1>2, <1>4
  <2>2. budget \div perLot \in Nat
    <3> HIDE DEF budget, perLot
    <3> QED BY <1>1, <1>2, <2>1
  <2>3. (budget \div perLot) * lot \in Nat
    <3> HIDE DEF budget, perLot
    <3> QED BY <2>2
  <2> QED BY <1>4, <2>3 DEF PositionSize
<1> QED BY <1>3, <1>4

(* A fill has an integer price. *)
LEMMA FillPriceTyped ==
  ASSUME NEW o \in PendingOrders, bar \in Bars
  PROVE  FillPrice(o, bar) \in Int
BY SlippageAssumption DEF FillPrice, ApplySlippage, Bars

(* What a close of the position yields is an integer. *)
LEMMA CloseTyped ==
  ASSUME NEW p \in Positions, NEW price \in Int
  PROVE  /\ Pnl(p, price) \in Int
         /\ EntryValue(p) \in Int
         /\ UnrealizedPnl(p) \in Int
         /\ Proceeds(p, price) \in Int
         /\ Proceeds(p, price) = EntryValue(p) + Pnl(p, price)
<1>1. p.entry \in Int /\ p.quantity \in Int /\ p.current \in Int
  BY DEF Positions
<1>2. Gain(p.direction, p.entry, price) \in Int /\ Gain(p.direction, p.entry, p.current) \in Int
  BY <1>1 DEF Gain
<1>3. Pnl(p, price) \in Int /\ UnrealizedPnl(p) \in Int
  BY <1>1, <1>2 DEF Pnl, UnrealizedPnl
<1>4. EntryValue(p) \in Int
  BY <1>1 DEF EntryValue
<1> QED BY <1>3, <1>4 DEF Proceeds

(* The risk manager's operations keep its state's type. *)
LEMMA RiskTyped ==
  ASSUME NEW r \in RiskStates, NEW pnl \in Int
  PROVE  /\ RecordOpen(r) \in RiskStates
         /\ RecordClose(r, pnl) \in RiskStates
         /\ ResetDaily(r) \in RiskStates
<1>1. r.capital \in Int /\ r.dayPnl \in Int /\ r.openCount \in Nat
  BY DEF RiskStates
<1>2. RecordOpen(r) \in RiskStates
  BY <1>1 DEF RecordOpen, RiskStates
<1>3. RecordClose(r, pnl) \in RiskStates
  <2>1. (IF r.openCount > 0 THEN r.openCount - 1 ELSE 0) \in Nat
    BY <1>1
  <2>2. r.dayPnl + pnl \in Int /\ r.capital + pnl \in Int
    BY <1>1
  <2> QED BY <2>1, <2>2 DEF RecordClose, RiskStates
<1>4. ResetDaily(r) \in RiskStates
  BY <1>1 DEF ResetDaily, RiskStates
<1> QED BY <1>2, <1>3, <1>4

(* Managing a position for a bar keeps its type; with no risk recorded and *)
(* the trail off, it only moves the position's current price.              *)
LEMMA ManagedKeepsAll ==
  ASSUME NEW m \in ManagedPositions, m.risk = 0, ~ m.trailing, NEW price \in Int
  PROVE  /\ Managed(m, price, {}, {}) = [m EXCEPT !.position = UpdatePrice(m.position, price)]
         /\ Managed(m, price, {}, {}) \in ManagedPositions
<1>1. TrailActive(m, price) = FALSE
  BY DEF TrailActive
<1>2. Managed(m, price, {}, {}) = [m EXCEPT !.position = UpdatePrice(m.position, price)]
  <2>1. CASE ExitLevelHit(m.position, price)
    BY <2>1 DEF Managed
  <2>2. CASE ~ ExitLevelHit(m.position, price)
    <3>1. Managed(m, price, {}, {}) =
            [m EXCEPT !.trailing = FALSE, !.position = UpdatePrice(m.position, price)]
      BY <1>1, <2>2, Zenon DEF Managed
    <3>2. m.trailing = FALSE
      BY DEF ManagedPositions
    <3> QED BY <3>1, <3>2 DEF ManagedPositions
  <2> QED BY <2>1, <2>2
<1>3. UpdatePrice(m.position, price) \in Positions
  BY DEF UpdatePrice, ManagedPositions, Positions
<1> QED BY <1>2, <1>3 DEF ManagedPositions

(***************************************************************************)
(* Type correctness.  The type invariant is not inductive alone: that a    *)
(* managed position keeps its type over a bar needs its trail to be off.   *)
(***************************************************************************)

(* What the strategy knows of a position it was told of by on_fill: no     *)
(* risk, no trail, no target, the entry price for a stop, the wall clock.  *)
PlaceholderPosition ==
  managed # NoPosition =>
    /\ managed.risk = 0
    /\ managed.trailing = FALSE
    /\ managed.position.target = {}
    /\ managed.position.stop = managed.position.entry
    /\ managed.position.openedAt = WallDate

(* After the first bar is delivered there is a bar, and a turn of the      *)
(* strategy or a fill happens only then; before it, nothing has happened.  *)
BarPresent ==
  /\ pc = "fill" => bar # NoBar
  /\ (pos = NoPosition) = (posSignal = NoSignal)
  /\ bar = NoBar =>
       /\ book = EmptyBook /\ toFill = {} /\ pos = NoPosition
       /\ managed = NoPosition /\ posSignal = NoSignal
  /\ pc = "fill" => \A id \in toFill : book[id] # NoOrder

TypeInv == TypeOK /\ PlaceholderPosition /\ BarPresent

(* Each filled order becomes a well-typed position in both books. *)
LEMMA FillTyped ==
  ASSUME TypeOK, NEW o \in PendingOrders, bar \in Bars
  PROVE  /\ Cost(o) \in Int
         /\ Opened(o) \in Positions
         /\ FilledPosition(o) \in Positions
         /\ ManagedFill(o) \in ManagedPositions
<1>1. FillPrice(o, bar) \in Int
  BY FillPriceTyped
<1>2. o.quantity \in Nat /\ o.direction \in Directions /\ Money(o.stop) \in Int
  BY SlippageAssumption DEF PendingOrders, Money
<1>3. Cost(o) \in Int
  BY <1>1, <1>2 DEF Cost
<1>4. Opened(o) \in Positions
  BY <1>1, <1>2 DEF Opened, Positions, Bars
<1>5. FilledPosition(o) \in Positions
  BY <1>1, <1>2, BacktestAssumption DEF FilledPosition, Positions
<1>6. ManagedFill(o) \in ManagedPositions
  BY <1>5 DEF ManagedFill, Manage, ManagedPositions
<1> QED BY <1>3, <1>4, <1>5, <1>6

(* The strategy's and the portfolio's view of a bar without a close. *)
LEMMA QuietTyped ==
  ASSUME TypeInv, QuietBar
  PROVE  /\ bar \in Bars /\ ClosingPrice \in Int
         /\ pos' \in Positions \cup {NoPosition}
         /\ managed' \in ManagedPositions \cup {NoPosition}
         /\ equity' \in Int
         /\ barsSeen' \in Nat
         /\ PlaceholderPosition'
         /\ (pos' = NoPosition) = (pos = NoPosition)
         /\ (managed' = NoPosition) = (managed = NoPosition)
         /\ managed # NoPosition =>
              managed' = [managed EXCEPT
                            !.position = UpdatePrice(managed.position, ClosingPrice)]
<1>1. bar \in Bars
  BY DEF TypeInv, TypeOK, BarPresent, QuietBar, StrategyTurn
<1>2. ClosingPrice \in Int
  BY <1>1, SlippageAssumption DEF ClosingPrice, Money, Bars
<1>3. /\ pos' \in Positions \cup {NoPosition}
      /\ (pos' = NoPosition) = (pos = NoPosition)
  <2>1. CASE pos = NoPosition
    BY <2>1 DEF QuietBar, Marked
  <2>2. CASE pos # NoPosition
    <3>1. pos \in Positions /\ pos' = UpdatePrice(pos, ClosingPrice)
      BY <2>2 DEF QuietBar, Marked, TypeInv, TypeOK
    <3>2. pos' \in Positions
      BY <3>1, <1>2 DEF UpdatePrice, Positions
    <3> QED BY <2>2, <3>2, BacktestAssumption
  <2> QED BY <2>1, <2>2
<1>4. /\ managed' \in ManagedPositions \cup {NoPosition}
      /\ (managed' = NoPosition) = (managed = NoPosition)
      /\ managed # NoPosition =>
           managed' = [managed EXCEPT
                         !.position = UpdatePrice(managed.position, ClosingPrice)]
  <2>1. CASE managed = NoPosition
    BY <2>1 DEF QuietBar, ManagedAfterBar
  <2>2. CASE managed # NoPosition
    <3>1. managed \in ManagedPositions /\ managed.risk = 0 /\ ~ managed.trailing
      BY <2>2 DEF TypeInv, TypeOK, PlaceholderPosition
    <3>2. managed' = Managed(managed, ClosingPrice, {}, {})
      BY <2>2 DEF QuietBar, ManagedAfterBar
    <3>3. /\ managed' = [managed EXCEPT
                           !.position = UpdatePrice(managed.position, ClosingPrice)]
          /\ managed' \in ManagedPositions
      BY <3>1, <3>2, <1>2, ManagedKeepsAll
    <3> QED BY <2>2, <3>3, BacktestAssumption
  <2> QED BY <2>1, <2>2
<1>5. equity' \in Int
  <2>1. MarkToMarket(pos') \in Int
    <3>1. CASE pos' = NoPosition
      BY <3>1 DEF MarkToMarket
    <3>2. CASE pos' # NoPosition
      <4>1. EntryValue(pos') \in Int /\ UnrealizedPnl(pos') \in Int
        BY <3>2, <1>3, <1>2, CloseTyped
      <4> QED BY <3>2, <4>1 DEF MarkToMarket
    <3> QED BY <3>1, <3>2
  <2>2. equity' = cash + MarkToMarket(pos')
    BY DEF QuietBar
  <2> QED BY <2>1, <2>2 DEF TypeInv, TypeOK
<1>6. barsSeen' \in Nat
  BY DEF QuietBar, TypeInv, TypeOK
<1>7. PlaceholderPosition'
  <2>1. CASE managed = NoPosition
    BY <2>1, <1>4 DEF PlaceholderPosition
  <2>2. CASE managed # NoPosition
    <3>1. managed \in ManagedPositions
      BY <2>2 DEF TypeInv, TypeOK
    <3>2. /\ managed'.risk = managed.risk
          /\ managed'.trailing = managed.trailing
          /\ managed'.position = UpdatePrice(managed.position, ClosingPrice)
      BY <2>2, <3>1, <1>4 DEF ManagedPositions
    <3>3. /\ managed'.position.target = managed.position.target
          /\ managed'.position.stop = managed.position.stop
          /\ managed'.position.entry = managed.position.entry
          /\ managed'.position.openedAt = managed.position.openedAt
      BY <3>1, <3>2 DEF UpdatePrice, ManagedPositions, Positions
    <3> QED BY <2>2, <3>2, <3>3 DEF PlaceholderPosition, TypeInv
  <2> QED BY <2>1, <2>2
<1> QED BY <1>1, <1>2, <1>3, <1>4, <1>5, <1>6, <1>7

(* A submitted order is well typed: it has a positive number of units. *)
LEMMA EntryTyped ==
  ASSUME TypeInv, bar \in Bars, prevBar \in Bars, NEW t \in Triggers, Sized(t)
  PROVE  StopEntry(t) \in PendingOrders
<1>1. /\ t.direction \in Directions
      /\ t.entry \in Int /\ t.stop \in Int
      /\ RiskPerUnit(t) \in Int /\ RiskPerUnit(t) > 0
  BY DEF Triggers, Directions, RiskPerUnit, Gain, Bars
<1>2. Money(RiskPerUnit(t)) \in Int /\ Money(RiskPerUnit(t)) > 0
  BY <1>1, SlippageAssumption DEF Money
<1>3. StopEntry(t).quantity \in Nat
  <2>1. risk \in RiskStates /\ LotSize \in Nat \ {0}
    BY BacktestAssumption DEF TypeInv, TypeOK
  <2>2. PositionSize(risk, Money(RiskPerUnit(t)), LotSize) \in Nat
    BY <1>2, <2>1, PositionSizeTyped
  <2> QED BY <2>2 DEF StopEntry
<1>4. RoundToTick(t.entry) \in Int /\ RoundToTick(t.stop) \in Int
  BY <1>1, BacktestAssumption DEF RoundToTick
<1>5. bar.day \in Nat
  BY DEF Bars
<1> QED BY <1>1, <1>3, <1>4, <1>5 DEF StopEntry, Sized, PendingOrders, OrderTypes

(* Closing the open position leaves every part of the account well typed. *)
LEMMA CloseStepTyped ==
  ASSUME TypeInv, bar \in Bars, pos \in Positions, posSignal \in EntrySignals,
         NEW price \in Int, ClosePosition(price)
  PROVE  /\ cash' \in Int /\ realized' \in Int
         /\ pos' = NoPosition /\ posSignal' = NoSignal /\ managed' = NoPosition
         /\ trades' \in Seq(Trades)
         /\ risk' \in RiskStates
<1>1. Pnl(pos, price) \in Int /\ Proceeds(pos, price) \in Int
  BY CloseTyped
<1>2. cash' \in Int /\ realized' \in Int
  BY <1>1 DEF ClosePosition, TypeInv, TypeOK
<1>3. risk' \in RiskStates
  BY <1>1, RiskTyped DEF ClosePosition, TypeInv, TypeOK
<1>4. TradeRecord(pos, price, bar.day) \in Trades
  BY <1>1 DEF TradeRecord, Trades, EntrySignals, Bars
<1>5. trades' \in Seq(Trades)
  BY <1>4 DEF ClosePosition, LoggedTrades, TypeInv, TypeOK
<1> QED BY <1>2, <1>3, <1>5 DEF ClosePosition

LEMMA TypeInvInit == Init => TypeInv
<1> SUFFICES ASSUME Init PROVE TypeInv
  OBVIOUS
<1>1. NewRiskState \in RiskStates
  BY RiskAssumption DEF NewRiskState, RiskStates
<1>2. TypeOK
  <2>1. trades \in Seq(Trades)
    BY DEF Init
  <2>2. book \in [OrderIds -> PendingOrders \cup {NoOrder}]
    BY DEF Init, EmptyBook
  <2> QED BY <1>1, <2>1, <2>2, BacktestAssumption DEF Init, TypeOK
<1>3. PlaceholderPosition /\ BarPresent
  BY DEF Init, PlaceholderPosition, BarPresent
<1> QED BY <1>2, <1>3 DEF TypeInv

(* Delivering a bar, on whatever book the day boundary leaves. *)
LEMMA DeliverTyped ==
  ASSUME TypeInv, NEW k \in NextBars,
         NEW b \in {book, EmptyBook}, Deliver(k, b),
         risk' \in RiskStates, barsSeen' \in Nat, prevBar' \in Bars \cup {NoBar}
  PROVE  TypeInv'
<1>1. k \in Bars
  BY NextBarsTyped DEF TypeInv
<1>2. book' \in [OrderIds -> PendingOrders \cup {NoOrder}]
  BY DEF Deliver, TypeInv, TypeOK, EmptyBook
<1>3. toFill' \subseteq OrderIds
  BY DEF Deliver, TriggeredBy
<1>4. TypeOK'
  BY <1>1, <1>2, <1>3
     DEF TypeInv, TypeOK, Deliver, portfolioVars, reportVars
<1>5. BarPresent'
  BY <1>1, BacktestAssumption
     DEF TypeInv, BarPresent, Deliver, TriggeredBy, portfolioVars, reportVars
<1>6. PlaceholderPosition'
  BY DEF TypeInv, PlaceholderPosition, Deliver
<1> QED BY <1>4, <1>5, <1>6 DEF TypeInv

LEMMA TypeInvStep == TypeInv /\ [Next]_vars => TypeInv'
<1> SUFFICES ASSUME TypeInv, [Next]_vars PROVE TypeInv'
  OBVIOUS
<1> USE DEF engineVars, portfolioVars, reportVars, strategyVars
<1>1. ASSUME FirstBar PROVE TypeInv'
  <2>1. PICK k \in NextBars : Deliver(k, book)
    BY <1>1 DEF FirstBar
  <2>2. risk' \in RiskStates /\ barsSeen' \in Nat /\ prevBar' \in Bars \cup {NoBar}
    <3>1. ResetDaily(risk) \in RiskStates
      BY RiskTyped DEF TypeInv, TypeOK
    <3> QED BY <1>1, <3>1 DEF FirstBar, SessionOpen
  <2> QED BY <2>1, <2>2, DeliverTyped
<1>2. ASSUME NextDayBar PROVE TypeInv'
  <2>1. PICK k \in NextBars : Deliver(k, EmptyBook)
    BY <1>2 DEF NextDayBar, OvernightOrders
  <2>2. risk' \in RiskStates /\ barsSeen' \in Nat /\ prevBar' \in Bars \cup {NoBar}
    <3>1. ResetDaily(risk) \in RiskStates
      BY RiskTyped DEF TypeInv, TypeOK
    <3> QED BY <1>2, <3>1 DEF NextDayBar, SessionOpen
  <2> QED BY <2>1, <2>2, DeliverTyped
<1>3. ASSUME SameDayBar PROVE TypeInv'
  <2>1. PICK k \in NextBars : Deliver(k, book)
    BY <1>3 DEF SameDayBar
  <2>2. risk' \in RiskStates /\ barsSeen' \in Nat /\ prevBar' \in Bars \cup {NoBar}
    BY <1>3 DEF SameDayBar, TypeInv, TypeOK
  <2> QED BY <2>1, <2>2, DeliverTyped
<1>4. ASSUME NoData PROVE TypeInv'
  BY <1>4 DEF NoData, TypeInv, TypeOK, PlaceholderPosition, BarPresent
<1>5. ASSUME NEW id \in OrderIds, FillOrder(id) PROVE TypeInv'
  <2>1. bar \in Bars /\ book[id] \in PendingOrders
    BY <1>5 DEF FillOrder, TypeInv, TypeOK, BarPresent
  <2>2. /\ Cost(book[id]) \in Int
        /\ Opened(book[id]) \in Positions
        /\ FilledPosition(book[id]) \in Positions
        /\ ManagedFill(book[id]) \in ManagedPositions
    BY <2>1, FillTyped DEF TypeInv
  <2>3. RecordOpen(risk) \in RiskStates
    BY RiskTyped DEF TypeInv, TypeOK
  <2>4. SignalOfFill(book[id]) \in EntrySignals
    BY <2>1 DEF SignalOfFill, PendingOrders, EntrySignals, Bars
  <2>5. replaced' \in Int
    <3>1. HeldValue(pos) \in Int
      BY CloseTyped DEF HeldValue, TypeInv, TypeOK
    <3> QED BY <1>5, <3>1 DEF FillOrder, TypeInv, TypeOK
  <2>6. TypeOK'
    BY <1>5, <2>1, <2>2, <2>3, <2>4, <2>5 DEF FillOrder, TypeInv, TypeOK
  <2>7. PlaceholderPosition'
    <3>1. managed' = ManagedFill(book[id])
      BY <1>5 DEF FillOrder
    <3>2. /\ managed'.risk = 0 /\ managed'.trailing = FALSE
          /\ managed'.position = FilledPosition(book[id])
      BY <3>1 DEF ManagedFill, Manage
    <3> QED BY <3>2 DEF FilledPosition, PlaceholderPosition
  <2>8. BarPresent'
    <3>1. pos' # NoPosition /\ posSignal' # NoSignal
      BY <1>5, <2>2, <2>4, BacktestAssumption DEF FillOrder
    <3>2. bar' # NoBar
      BY <1>5, <2>1, BacktestAssumption DEF FillOrder
    <3>3. \A j \in toFill' : book'[j] # NoOrder
      BY <1>5 DEF FillOrder, TypeInv, TypeOK, BarPresent
    <3> QED BY <3>1, <3>2, <3>3 DEF BarPresent
  <2> QED BY <2>6, <2>7, <2>8 DEF TypeInv
<1>6. ASSUME NEW id \in OrderIds, RefuseFill(id) PROVE TypeInv'
  <2>1. bar # NoBar
    BY <1>6 DEF RefuseFill, TypeInv, BarPresent
  <2> QED BY <1>6, <2>1 DEF RefuseFill, TypeInv, TypeOK, PlaceholderPosition, BarPresent
<1>7. ASSUME StopOut PROVE TypeInv'
  <2>1. bar \in Bars /\ bar # NoBar
    BY <1>7 DEF StopOut, StrategyTurn, TypeInv, TypeOK, BarPresent
  <2>2. pos \in Positions /\ posSignal \in EntrySignals
    BY <1>7 DEF StopOut, TypeInv, TypeOK, BarPresent
  <2>3. ClosingPrice \in Int
    BY <2>1, SlippageAssumption DEF ClosingPrice, Money, Bars
  <2>4. /\ cash' \in Int /\ realized' \in Int
        /\ pos' = NoPosition /\ posSignal' = NoSignal /\ managed' = NoPosition
        /\ trades' \in Seq(Trades)
        /\ risk' \in RiskStates
    BY <1>7, <2>1, <2>2, <2>3, CloseStepTyped DEF StopOut
  <2>5. equity' \in Int
    BY <1>7, <2>4 DEF StopOut, MarkToMarket
  <2>6. book' \in [OrderIds -> PendingOrders \cup {NoOrder}]
    BY <1>7 DEF StopOut, OrdersAfterClose, EmptyBook
  <2>7. TypeOK'
    BY <1>7, <2>4, <2>5, <2>6 DEF StopOut, TypeInv, TypeOK
  <2> QED BY <1>7, <2>1, <2>4, <2>7 DEF StopOut, TypeInv, PlaceholderPosition, BarPresent
<1>8. ASSUME SettlementFailure PROVE TypeInv'
  <2>1. bar \in Bars /\ bar # NoBar
    BY <1>8 DEF SettlementFailure, StrategyTurn, TypeInv, TypeOK, BarPresent
  <2>2. ClosingPrice \in Int
    BY <2>1, SlippageAssumption DEF ClosingPrice, Money, Bars
  <2>3. pos \in Positions /\ pos' \in Positions
    BY <1>8, <2>2 DEF SettlementFailure, TypeInv, TypeOK, Marked, UpdatePrice, Positions
  <2>4. managed \in ManagedPositions /\ managed.risk = 0 /\ ~ managed.trailing
    BY <1>8 DEF SettlementFailure, StopRequested, TypeInv, TypeOK, PlaceholderPosition
  <2>5. /\ managed' = [managed EXCEPT
                         !.position = UpdatePrice(managed.position, ClosingPrice)]
        /\ managed' \in ManagedPositions
    <3>1. managed' = Managed(managed, ClosingPrice, {}, {})
      BY <1>8 DEF SettlementFailure, StopRequested, ManagedAfterBar
    <3> QED BY <3>1, <2>2, <2>4, ManagedKeepsAll
  <2>6. TypeOK'
    BY <1>8, <2>3, <2>5 DEF SettlementFailure, TypeInv, TypeOK
  <2>7. PlaceholderPosition'
    <3>1. /\ managed'.risk = managed.risk
          /\ managed'.trailing = managed.trailing
          /\ managed'.position = UpdatePrice(managed.position, ClosingPrice)
      BY <2>4, <2>5 DEF ManagedPositions
    <3>2. /\ managed'.position.target = managed.position.target
          /\ managed'.position.stop = managed.position.stop
          /\ managed'.position.entry = managed.position.entry
          /\ managed'.position.openedAt = managed.position.openedAt
      BY <2>4, <3>1 DEF UpdatePrice, ManagedPositions, Positions
    <3>3. managed # NoPosition
      BY <2>4, BacktestAssumption
    <3> QED BY <3>1, <3>2, <3>3 DEF PlaceholderPosition, TypeInv
  <2>8. BarPresent'
    BY <1>8, <2>1, <2>3, BacktestAssumption
       DEF SettlementFailure, TypeInv, BarPresent
  <2> QED BY <2>6, <2>7, <2>8 DEF TypeInv
<1>9. ASSUME QuietBar,
             book' \in [OrderIds -> PendingOrders \cup {NoOrder}],
             prevBar' \in Bars \cup {NoBar}
      PROVE  TypeInv'
  <2>1. /\ bar \in Bars
        /\ pos' \in Positions \cup {NoPosition}
        /\ managed' \in ManagedPositions \cup {NoPosition}
        /\ equity' \in Int
        /\ barsSeen' \in Nat
        /\ PlaceholderPosition'
        /\ (pos' = NoPosition) = (pos = NoPosition)
    BY <1>9, QuietTyped
  <2>2. TypeOK'
    BY <1>9, <2>1 DEF QuietBar, TypeInv, TypeOK
  <2>3. BarPresent'
    BY <1>9, <2>1, BacktestAssumption DEF QuietBar, TypeInv, BarPresent
  <2> QED BY <2>1, <2>2, <2>3 DEF TypeInv
<1>10. ASSUME WatchBar PROVE TypeInv'
  BY <1>9, <1>10 DEF WatchBar, TypeInv, TypeOK
<1>11. ASSUME DeclineBar PROVE TypeInv'
  <2>1. bar \in Bars
    BY <1>11, QuietTyped DEF DeclineBar
  <2> QED BY <1>9, <1>11, <2>1 DEF DeclineBar, TypeInv, TypeOK
<1>12. ASSUME NEW id \in OrderIds, SubmitEntry(id) PROVE TypeInv'
  <2>1. bar \in Bars /\ prevBar \in Bars
    BY <1>12, QuietTyped DEF SubmitEntry, TypeInv, TypeOK
  <2>2. PICK t \in Triggers : Sized(t) /\ book' = [book EXCEPT ![id] = StopEntry(t)]
    BY <1>12 DEF SubmitEntry
  <2>3. StopEntry(t) \in PendingOrders
    BY <2>1, <2>2, EntryTyped
  <2>4. book' \in [OrderIds -> PendingOrders \cup {NoOrder}]
    BY <2>2, <2>3 DEF TypeInv, TypeOK
  <2> QED BY <1>9, <1>12, <2>1, <2>4 DEF SubmitEntry
<1>13. ASSUME FinishFlat PROVE TypeInv'
  BY <1>13 DEF FinishFlat, TypeInv, TypeOK, PlaceholderPosition, BarPresent
<1>14. ASSUME ForceClose PROVE TypeInv'
  <2>1. bar \in Bars /\ bar # NoBar
    BY <1>14 DEF ForceClose, EndOfData, TypeInv, TypeOK
  <2>2. pos \in Positions /\ posSignal \in EntrySignals
    BY <1>14 DEF ForceClose, TypeInv, TypeOK, BarPresent
  <2>3. ForceClosePrice(pos) \in Int
    BY <2>2 DEF ForceClosePrice, Positions
  <2>4. /\ cash' \in Int /\ realized' \in Int
        /\ pos' = NoPosition /\ posSignal' = NoSignal /\ managed' = NoPosition
        /\ trades' \in Seq(Trades)
        /\ risk' \in RiskStates
    BY <1>14, <2>1, <2>2, <2>3, CloseStepTyped DEF ForceClose
  <2>5. TypeOK'
    BY <1>14, <2>4 DEF ForceClose, TypeInv, TypeOK
  <2> QED BY <1>14, <2>1, <2>4, <2>5 DEF ForceClose, TypeInv, PlaceholderPosition, BarPresent
<1>15. ASSUME ForceCloseFailure PROVE TypeInv'
  BY <1>15 DEF ForceCloseFailure, TypeInv, TypeOK, PlaceholderPosition, BarPresent
<1>16. ASSUME UNCHANGED vars PROVE TypeInv'
  BY <1>16 DEF vars, TypeInv, TypeOK, PlaceholderPosition, BarPresent
<1> QED
  BY <1>1, <1>2, <1>3, <1>4, <1>5, <1>6, <1>7, <1>8, <1>10, <1>11, <1>12, <1>13,
     <1>14, <1>15, <1>16
     DEF Next, Returned

(* Every variable of the backtest keeps its type; an order in the book     *)
(* always asks for a positive number of units (Backtest, TypeOK).          *)
THEOREM TypeCorrect == Spec => []TypeOK
<1>1. Spec => []TypeInv
  BY TypeInvInit, TypeInvStep, PTL DEF Spec
<1>2. TypeInv => TypeOK
  BY DEF TypeInv
<1> QED BY <1>1, <1>2, PTL

LEMMA TypeInvInvariant == Spec => []TypeInv
BY TypeInvInit, TypeInvStep, PTL DEF Spec

(***************************************************************************)
(* The two books of the position.                                          *)
(***************************************************************************)

(* No bar that is only marked disturbs the agreement of the books. *)
LEMMA QuietKeepsBooks ==
  ASSUME TypeInv, BooksAgree, QuietBar
  PROVE  BooksAgree'
<1>1. /\ (pos' = NoPosition) = (pos = NoPosition)
      /\ (managed' = NoPosition) = (managed = NoPosition)
      /\ managed # NoPosition =>
           managed' = [managed EXCEPT
                         !.position = UpdatePrice(managed.position, ClosingPrice)]
  BY QuietTyped
<1>2. CASE pos = NoPosition
  BY <1>1, <1>2 DEF QuietBar, BooksAgree
<1>3. CASE pos # NoPosition
  <2>1. /\ pos \in Positions /\ managed \in ManagedPositions
        /\ pos' = UpdatePrice(pos, ClosingPrice)
    BY <1>3 DEF QuietBar, Marked, BooksAgree, TypeInv, TypeOK
  <2>2. managed'.position = UpdatePrice(managed.position, ClosingPrice)
    BY <1>1, <1>3, <2>1 DEF ManagedPositions, BooksAgree
  <2>3. /\ pos'.direction = pos.direction /\ pos'.quantity = pos.quantity
        /\ pos'.entry = pos.entry /\ pos'.openedAt = pos.openedAt
        /\ pos'.current = ClosingPrice
    BY <2>1 DEF UpdatePrice, Positions
  <2>4. /\ managed'.position.direction = managed.position.direction
        /\ managed'.position.quantity = managed.position.quantity
        /\ managed'.position.entry = managed.position.entry
        /\ managed'.position.current = ClosingPrice
    BY <2>1, <2>2 DEF UpdatePrice, ManagedPositions, Positions
  <2> QED BY <1>1, <1>3, <2>3, <2>4 DEF QuietBar, BooksAgree
<1> QED BY <1>2, <1>3

LEMMA BooksAgreeStep == TypeInv /\ BooksAgree /\ [Next]_vars => BooksAgree'
<1> SUFFICES ASSUME TypeInv, BooksAgree, [Next]_vars PROVE BooksAgree'
  OBVIOUS
<1> USE DEF engineVars, portfolioVars, reportVars, strategyVars
<1>1. ASSUME UNCHANGED <<pos, posSignal, managed>> PROVE BooksAgree'
  BY <1>1 DEF BooksAgree
<1>2. ASSUME FirstBar \/ NextDayBar \/ SameDayBar \/ NoData PROVE BooksAgree'
  BY <1>1, <1>2 DEF FirstBar, NextDayBar, SameDayBar, NoData, Deliver
<1>3. ASSUME NEW id \in OrderIds, FillOrder(id) PROVE BooksAgree'
  <2>1. bar \in Bars /\ book[id] \in PendingOrders
    BY <1>3 DEF FillOrder, TypeInv, TypeOK, BarPresent
  <2>2. /\ Opened(book[id]) \in Positions
        /\ ManagedFill(book[id]) \in ManagedPositions
    BY <2>1, FillTyped DEF TypeInv
  <2>3. SignalOfFill(book[id]) \in EntrySignals
    BY <2>1 DEF SignalOfFill, PendingOrders, EntrySignals, Bars
  <2>4. pos' # NoPosition /\ managed' # NoPosition /\ posSignal' # NoSignal
    BY <1>3, <2>2, <2>3, BacktestAssumption DEF FillOrder
  <2>5. /\ pos' = Opened(book[id])
        /\ managed'.position = FilledPosition(book[id])
        /\ posSignal'.direction = book[id].direction /\ posSignal'.day = bar.day
    BY <1>3 DEF FillOrder, SignalOfFill, ManagedFill, Manage
  <2> QED BY <2>4, <2>5 DEF BooksAgree, Opened, FilledPosition
<1>4. ASSUME NEW id \in OrderIds, RefuseFill(id) PROVE BooksAgree'
  BY <1>1, <1>4 DEF RefuseFill
<1>5. ASSUME StopOut PROVE BooksAgree'
  BY <1>5 DEF StopOut, ClosePosition, BooksAgree
<1>6. ASSUME SettlementFailure PROVE BooksAgree'
  <2>1. bar \in Bars
    BY <1>6 DEF SettlementFailure, StrategyTurn, TypeInv, TypeOK, BarPresent
  <2>2. ClosingPrice \in Int
    BY <2>1, SlippageAssumption DEF ClosingPrice, Money, Bars
  <2>3. /\ pos \in Positions /\ managed \in ManagedPositions
        /\ managed.risk = 0 /\ ~ managed.trailing
        /\ pos' = UpdatePrice(pos, ClosingPrice)
    BY <1>6 DEF SettlementFailure, StopRequested, Marked, TypeInv, TypeOK,
                PlaceholderPosition
  <2>4. managed' = Managed(managed, ClosingPrice, {}, {})
    BY <1>6 DEF SettlementFailure, StopRequested, ManagedAfterBar
  <2>5. managed' = [managed EXCEPT
                      !.position = UpdatePrice(managed.position, ClosingPrice)]
        /\ managed' \in ManagedPositions
    BY <2>2, <2>3, <2>4, ManagedKeepsAll
  <2>6. managed'.position = UpdatePrice(managed.position, ClosingPrice)
    BY <2>3, <2>5 DEF ManagedPositions
  <2>7. /\ pos'.direction = pos.direction /\ pos'.quantity = pos.quantity
        /\ pos'.entry = pos.entry /\ pos'.openedAt = pos.openedAt
        /\ pos'.current = ClosingPrice /\ pos' \in Positions
    BY <2>2, <2>3 DEF UpdatePrice, Positions
  <2>8. /\ managed'.position.direction = managed.position.direction
        /\ managed'.position.quantity = managed.position.quantity
        /\ managed'.position.entry = managed.position.entry
        /\ managed'.position.current = ClosingPrice
    BY <2>3, <2>6 DEF UpdatePrice, ManagedPositions, Positions
  <2>9. pos' # NoPosition /\ managed' # NoPosition
    BY <2>5, <2>7, BacktestAssumption
  <2> QED BY <1>6, <2>7, <2>8, <2>9 DEF SettlementFailure, BooksAgree
<1>7. ASSUME WatchBar \/ DeclineBar \/ \E id \in OrderIds : SubmitEntry(id)
      PROVE  BooksAgree'
  BY <1>7, QuietKeepsBooks DEF WatchBar, DeclineBar, SubmitEntry
<1>8. ASSUME FinishFlat \/ ForceCloseFailure PROVE BooksAgree'
  BY <1>1, <1>8 DEF FinishFlat, ForceCloseFailure
<1>9. ASSUME ForceClose PROVE BooksAgree'
  BY <1>9 DEF ForceClose, ClosePosition, BooksAgree
<1>10. ASSUME UNCHANGED vars PROVE BooksAgree'
  BY <1>1, <1>10 DEF vars
<1> QED
  BY <1>2, <1>3, <1>4, <1>5, <1>6, <1>7, <1>8, <1>9, <1>10 DEF Next, Returned

(* Portfolio, position manager and trade log always speak of the same      *)
(* position (Backtest, BooksAgree).                                        *)
THEOREM BooksAlwaysAgree == Spec => []BooksAgree
<1>1. Init => BooksAgree
  BY DEF Init, BooksAgree
<1> QED BY <1>1, BooksAgreeStep, TypeInvInvariant, PTL DEF Spec

(***************************************************************************)
(* The account.                                                            *)
(***************************************************************************)

(* The entry value of the held position is unaffected by a mark. *)
LEMMA MarkKeepsValue ==
  ASSUME TypeInv, NEW price \in Int
  PROVE  HeldValue(Marked(pos, price)) = HeldValue(pos)
<1>1. CASE pos = NoPosition
  BY <1>1 DEF Marked
<1>2. CASE pos # NoPosition
  <2>1. pos \in Positions
    BY <1>2 DEF TypeInv, TypeOK
  <2>2. UpdatePrice(pos, price) \in Positions
    BY <2>1 DEF UpdatePrice, Positions
  <2>3. UpdatePrice(pos, price) # NoPosition
    BY <2>2, BacktestAssumption
  <2>4. EntryValue(UpdatePrice(pos, price)) = EntryValue(pos)
    BY <2>1 DEF UpdatePrice, EntryValue, Positions
  <2> QED BY <1>2, <2>3, <2>4 DEF Marked, HeldValue
<1> QED BY <1>1, <1>2

(* A close moves the entry value and the profit to cash, at any price. *)
LEMMA CloseKeepsMoney ==
  ASSUME TypeInv, MoneyConserved, pos \in Positions, NEW price \in Int,
         ClosePosition(price), replaced' = replaced
  PROVE  MoneyConserved' /\ (RiskCapitalTracksPnl => RiskCapitalTracksPnl')
<1>1. /\ Pnl(pos, price) \in Int /\ EntryValue(pos) \in Int
      /\ Proceeds(pos, price) = EntryValue(pos) + Pnl(pos, price)
  BY CloseTyped
<1>2. HeldValue(pos) = EntryValue(pos) /\ HeldValue(pos') = 0
  BY BacktestAssumption DEF HeldValue, ClosePosition
<1>3. cash \in Int /\ realized \in Int /\ replaced \in Int /\ InitialCapital \in Int
  BY BacktestAssumption DEF TypeInv, TypeOK
<1>4. MoneyConserved'
  <2>1. cash' = cash + Proceeds(pos, price) /\ realized' = realized + Pnl(pos, price)
    BY DEF ClosePosition
  <2> QED BY <1>1, <1>2, <1>3, <2>1 DEF MoneyConserved
<1>5. ASSUME RiskCapitalTracksPnl PROVE RiskCapitalTracksPnl'
  <2>1. risk'.capital = risk.capital + Pnl(pos, price)
    BY DEF ClosePosition, RecordClose, TypeInv, TypeOK, RiskStates
  <2> QED BY <1>1, <1>3, <1>5, <2>1, RiskAssumption
          DEF RiskCapitalTracksPnl, ClosePosition
<1> QED BY <1>4, <1>5

AccountInv == MoneyConserved /\ RiskCapitalTracksPnl

LEMMA AccountStep == TypeInv /\ AccountInv /\ [Next]_vars => AccountInv'
<1> SUFFICES ASSUME TypeInv, AccountInv, [Next]_vars PROVE AccountInv'
  OBVIOUS
<1> USE DEF engineVars, portfolioVars, reportVars, strategyVars
<1>1. ASSUME UNCHANGED <<cash, realized, replaced>>,
             HeldValue(pos') = HeldValue(pos),
             risk'.capital = risk.capital
      PROVE  AccountInv'
  BY <1>1 DEF AccountInv, MoneyConserved, RiskCapitalTracksPnl
<1>2. ASSUME FirstBar \/ NextDayBar PROVE AccountInv'
  <2>1. risk' = ResetDaily(risk) /\ UNCHANGED <<cash, realized, pos, replaced>>
    BY <1>2 DEF FirstBar, NextDayBar, SessionOpen, Deliver
  <2> QED BY <1>1, <2>1 DEF ResetDaily
<1>3. ASSUME SameDayBar \/ NoData PROVE AccountInv'
  BY <1>1, <1>3 DEF SameDayBar, NoData, Deliver
<1>4. ASSUME NEW id \in OrderIds, FillOrder(id) PROVE AccountInv'
  <2>1. bar \in Bars /\ book[id] \in PendingOrders
    BY <1>4 DEF FillOrder, TypeInv, TypeOK, BarPresent
  <2>2. Cost(book[id]) \in Int /\ Opened(book[id]) \in Positions
    BY <2>1, FillTyped DEF TypeInv
  <2>3. HeldValue(pos') = Cost(book[id])
    <3>1. pos' = Opened(book[id]) /\ pos' # NoPosition
      BY <1>4, <2>2, BacktestAssumption DEF FillOrder
    <3> QED BY <3>1 DEF HeldValue, EntryValue, Opened, Cost
  <2>4. HeldValue(pos) \in Int
    BY CloseTyped DEF HeldValue, TypeInv, TypeOK
  <2>5. /\ cash' = cash - Cost(book[id]) /\ replaced' = replaced + HeldValue(pos)
        /\ realized' = realized
    BY <1>4 DEF FillOrder
  <2>6. MoneyConserved'
    BY <2>2, <2>3, <2>4, <2>5, BacktestAssumption
       DEF AccountInv, MoneyConserved, TypeInv, TypeOK
  <2>7. risk'.capital = risk.capital
    BY <1>4 DEF FillOrder, RecordOpen, TypeInv, TypeOK, RiskStates
  <2> QED BY <2>5, <2>6, <2>7 DEF AccountInv, RiskCapitalTracksPnl
<1>5. ASSUME NEW id \in OrderIds, RefuseFill(id) PROVE AccountInv'
  BY <1>1, <1>5 DEF RefuseFill
<1>6. ASSUME StopOut PROVE AccountInv'
  <2>1. bar \in Bars /\ pos \in Positions
    BY <1>6 DEF StopOut, StrategyTurn, TypeInv, TypeOK, BarPresent
  <2>2. ClosingPrice \in Int
    BY <2>1, SlippageAssumption DEF ClosingPrice, Money, Bars
  <2> QED BY <1>6, <2>1, <2>2, CloseKeepsMoney DEF StopOut, AccountInv
<1>7. ASSUME SettlementFailure PROVE AccountInv'
  <2>1. bar \in Bars
    BY <1>7 DEF SettlementFailure, StrategyTurn, TypeInv, TypeOK, BarPresent
  <2>2. ClosingPrice \in Int
    BY <2>1, SlippageAssumption DEF ClosingPrice, Money, Bars
  <2> QED BY <1>1, <1>7, <2>2, MarkKeepsValue DEF SettlementFailure
<1>8. ASSUME WatchBar \/ DeclineBar \/ \E id \in OrderIds : SubmitEntry(id)
      PROVE  AccountInv'
  <2>1. QuietBar
    BY <1>8 DEF WatchBar, DeclineBar, SubmitEntry
  <2>2. ClosingPrice \in Int
    BY <2>1, QuietTyped
  <2> QED BY <1>1, <2>1, <2>2, MarkKeepsValue DEF QuietBar
<1>9. ASSUME FinishFlat \/ ForceCloseFailure PROVE AccountInv'
  BY <1>1, <1>9 DEF FinishFlat, ForceCloseFailure
<1>10. ASSUME ForceClose PROVE AccountInv'
  <2>1. pos \in Positions
    BY <1>10 DEF ForceClose, TypeInv, TypeOK
  <2>2. ForceClosePrice(pos) \in Int
    BY <2>1 DEF ForceClosePrice, Positions
  <2> QED BY <1>10, <2>1, <2>2, CloseKeepsMoney DEF ForceClose, AccountInv
<1>11. ASSUME UNCHANGED vars PROVE AccountInv'
  BY <1>1, <1>11 DEF vars
<1> QED
  BY <1>2, <1>3, <1>4, <1>5, <1>6, <1>7, <1>8, <1>9, <1>10, <1>11 DEF Next, Returned

LEMMA AccountInvariant == Spec => []AccountInv
<1>1. Init => AccountInv
  BY BacktestAssumption, RiskAssumption
     DEF Init, AccountInv, MoneyConserved, RiskCapitalTracksPnl, HeldValue, NewRiskState
<1> QED BY <1>1, AccountStep, TypeInvInvariant, PTL DEF Spec

(* No step of a backtest creates or destroys money, except that a fill     *)
(* overwriting an open position writes its entry value off (Backtest,      *)
(* MoneyConserved).                                                        *)
THEOREM MoneyAlwaysConserved == Spec => []MoneyConserved
<1>1. AccountInv => MoneyConserved
  BY DEF AccountInv
<1> QED BY <1>1, AccountInvariant, PTL

(* The risk manager sizes positions from the capital the portfolio really  *)
(* has realized (Backtest, RiskCapitalTracksPnl).                          *)
THEOREM RiskCapitalAlwaysTracks == Spec => []RiskCapitalTracksPnl
<1>1. AccountInv => RiskCapitalTracksPnl
  BY DEF AccountInv
<1> QED BY <1>1, AccountInvariant, PTL

(***************************************************************************)
(* The daily loss limit and the order book.                                *)
(***************************************************************************)

BookInv == OrdersAreOfToday /\ LossLimitEmptiesBook

LEMMA BookStep == TypeInv /\ BookInv /\ [Next]_vars => BookInv'
<1> SUFFICES ASSUME TypeInv, BookInv, [Next]_vars PROVE BookInv'
  OBVIOUS
<1> USE DEF engineVars, portfolioVars, reportVars, strategyVars
<1>1. ASSUME UNCHANGED <<bar, risk>>, pc # "done", Pending' \subseteq Pending,
             \A id \in Pending' : book'[id] = book[id]
      PROVE  BookInv'
  BY <1>1 DEF BookInv, OrdersAreOfToday, LossLimitEmptiesBook
<1>2. ASSUME Pending' = {} PROVE BookInv'
  BY <1>2 DEF BookInv, OrdersAreOfToday, LossLimitEmptiesBook
<1>3. ASSUME FirstBar PROVE BookInv'
  <2>1. book' = EmptyBook
    BY <1>3 DEF FirstBar, Deliver, TypeInv, BarPresent
  <2> QED BY <1>2, <2>1 DEF Pending, EmptyBook
<1>4. ASSUME NextDayBar PROVE BookInv'
  <2>1. book' = EmptyBook
    BY <1>4 DEF NextDayBar, OvernightOrders, Deliver
  <2> QED BY <1>2, <2>1 DEF Pending, EmptyBook
<1>5. ASSUME SameDayBar PROVE BookInv'
  <2>1. PICK k \in NextBars : DayOfMonth(k.day) = DayOfMonth(bar.day) /\ Deliver(k, book)
    BY <1>5 DEF SameDayBar
  <2>2. UNCHANGED <<book, risk>> /\ bar' = k /\ pc = "feed"
    BY <1>5, <2>1 DEF SameDayBar, Wanted, Deliver
  <2> QED BY <2>1, <2>2 DEF BookInv, OrdersAreOfToday, LossLimitEmptiesBook, Pending
<1>6. ASSUME NoData PROVE BookInv'
  BY <1>1, <1>6 DEF NoData, Pending
<1>7. ASSUME NEW id \in OrderIds, FillOrder(id) PROVE BookInv'
  <2>1. /\ Pending' \subseteq Pending
        /\ \A j \in Pending' : book'[j] = book[j]
    BY <1>7 DEF FillOrder, Pending, TypeInv, TypeOK
  <2>2. LossLimitHit(risk') = LossLimitHit(risk)
    BY <1>7 DEF FillOrder, RecordOpen, LossLimitHit, TypeInv, TypeOK, RiskStates
  <2>3. UNCHANGED bar /\ pc # "done"
    BY <1>7 DEF FillOrder
  <2> QED BY <2>1, <2>2, <2>3 DEF BookInv, OrdersAreOfToday, LossLimitEmptiesBook
<1>8. ASSUME NEW id \in OrderIds, RefuseFill(id) PROVE BookInv'
  <2>1. /\ Pending' \subseteq Pending
        /\ \A j \in Pending' : book'[j] = book[j]
    BY <1>8 DEF RefuseFill, Pending, TypeInv, TypeOK
  <2> QED BY <1>1, <1>8, <2>1 DEF RefuseFill
<1>9. ASSUME StopOut PROVE BookInv'
  <2>1. book' = EmptyBook
    BY <1>9 DEF StopOut, OrdersAfterClose
  <2> QED BY <1>2, <2>1 DEF Pending, EmptyBook
<1>10. ASSUME SettlementFailure PROVE BookInv'
  BY <1>1, <1>10 DEF SettlementFailure, StrategyTurn, Pending
<1>11. ASSUME WatchBar \/ DeclineBar PROVE BookInv'
  BY <1>1, <1>11 DEF WatchBar, DeclineBar, QuietBar, StrategyTurn, Pending
<1>12. ASSUME NEW id \in OrderIds, SubmitEntry(id) PROVE BookInv'
  <2>1. UNCHANGED <<bar, risk>> /\ ~ LossLimitHit(risk)
    BY <1>12 DEF SubmitEntry, QuietBar, SignalsWanted, CanOpenPosition
  <2>2. PICK t \in Triggers : book' = [book EXCEPT ![id] = StopEntry(t)]
    BY <1>12 DEF SubmitEntry
  <2>3. ASSUME NEW j \in Pending' PROVE DayOfMonth(book'[j].day) = DayOfMonth(bar.day)
    <3>1. CASE j = id
      <4>1. book'[j] = StopEntry(t)
        BY <2>2, <3>1 DEF TypeInv, TypeOK
      <4> QED BY <4>1 DEF StopEntry
    <3>2. CASE j # id
      <4>1. book'[j] = book[j] /\ j \in Pending
        BY <2>2, <2>3, <3>2 DEF Pending, TypeInv, TypeOK
      <4> QED BY <4>1 DEF BookInv, OrdersAreOfToday
    <3> QED BY <3>1, <3>2
  <2> QED BY <2>1, <2>3 DEF BookInv, OrdersAreOfToday, LossLimitEmptiesBook
<1>13. ASSUME FinishFlat \/ ForceCloseFailure PROVE BookInv'
  BY <1>1, <1>13 DEF FinishFlat, ForceCloseFailure, EndOfData, Pending
<1>14. ASSUME ForceClose PROVE BookInv'
  BY <1>14 DEF ForceClose, BookInv, OrdersAreOfToday, LossLimitEmptiesBook, Pending
<1>15. ASSUME UNCHANGED vars PROVE BookInv'
  BY <1>15 DEF vars, BookInv, OrdersAreOfToday, LossLimitEmptiesBook, Pending
<1> QED
  BY <1>3, <1>4, <1>5, <1>6, <1>7, <1>8, <1>9, <1>10, <1>11, <1>12, <1>13, <1>14,
     <1>15
     DEF Next, Returned

LEMMA BookInvariant == Spec => []BookInv
<1>1. Init => BookInv
  BY DEF Init, BookInv, OrdersAreOfToday, LossLimitEmptiesBook, Pending, EmptyBook
<1> QED BY <1>1, BookStep, TypeInvInvariant, PTL DEF Spec

(* No order outlives the day of the month on which it was submitted        *)
(* (Backtest, OrdersAreOfToday).                                           *)
THEOREM OrdersAlwaysOfToday == Spec => []OrdersAreOfToday
<1>1. BookInv => OrdersAreOfToday
  BY DEF BookInv
<1> QED BY <1>1, BookInvariant, PTL

(* A hit loss limit leaves no order behind that could still be filled      *)
(* (Backtest, LossLimitEmptiesBook).                                       *)
THEOREM LossLimitAlwaysEmptiesBook == Spec => []LossLimitEmptiesBook
<1>1. BookInv => LossLimitEmptiesBook
  BY DEF BookInv
<1> QED BY <1>1, BookInvariant, PTL

LEMMA NoTradeStep ==
  ASSUME TypeInv, LossLimitEmptiesBook, LossLimitHit(risk), [Next]_vars
  PROVE  /\ risk'.openCount <= risk.openCount
         /\ \A id \in OrderIds : book[id] = NoOrder => book'[id] = NoOrder
<1> USE DEF engineVars, portfolioVars, reportVars, strategyVars
<1>1. risk.openCount \in Nat
  BY DEF TypeInv, TypeOK, RiskStates
<1>2. CASE FirstBar \/ NextDayBar
  <2>1. risk' = ResetDaily(risk)
    BY <1>2 DEF FirstBar, NextDayBar, SessionOpen
  <2>2. book' \in {book, EmptyBook}
    BY <1>2 DEF FirstBar, NextDayBar, Deliver, OvernightOrders
  <2> QED BY <1>1, <2>1, <2>2 DEF ResetDaily, EmptyBook
<1>3. CASE SameDayBar \/ NoData \/ SettlementFailure \/ WatchBar \/ DeclineBar
             \/ FinishFlat \/ ForceCloseFailure \/ UNCHANGED vars
  BY <1>1, <1>3 DEF SameDayBar, Deliver, NoData, SettlementFailure, WatchBar,
       DeclineBar, QuietBar, FinishFlat, ForceCloseFailure, vars
<1>4. ASSUME NEW id \in OrderIds, FillOrder(id) \/ RefuseFill(id)
      PROVE  FALSE
  <2>1. pc = "fill" /\ book[id] # NoOrder
    BY <1>4 DEF FillOrder, RefuseFill, TypeInv, BarPresent
  <2> QED BY <2>1 DEF LossLimitEmptiesBook, Pending
<1>5. ASSUME NEW id \in OrderIds, SubmitEntry(id) PROVE FALSE
  BY <1>5 DEF SubmitEntry, SignalsWanted, CanOpenPosition
<1>6. CASE StopOut \/ ForceClose
  <2>1. PICK price : risk' = RecordClose(risk, Pnl(pos, price))
    BY <1>6 DEF StopOut, ForceClose, ClosePosition
  <2>2. risk'.openCount = IF risk.openCount > 0 THEN risk.openCount - 1 ELSE 0
    BY <2>1 DEF RecordClose, TypeInv, TypeOK, RiskStates
  <2>3. book' \in {book, EmptyBook}
    BY <1>6 DEF StopOut, ForceClose, OrdersAfterClose
  <2> QED BY <1>1, <2>2, <2>3 DEF EmptyBook
<1> QED BY <1>2, <1>3, <1>4, <1>5, <1>6 DEF Next, Returned

(* max_daily_loss_pct really stops trading: while the limit is hit, no     *)
(* step opens a position or submits an order (Backtest,                    *)
(* NoTradeAfterLossLimit).                                                 *)
THEOREM LossLimitStopsTrading == Spec => NoTradeAfterLossLimit
<1>1. TypeInv /\ BookInv /\ [Next]_vars =>
        [LossLimitHit(risk) =>
           /\ risk'.openCount <= risk.openCount
           /\ \A id \in OrderIds : book[id] = NoOrder => book'[id] = NoOrder]_vars
  BY NoTradeStep DEF BookInv
<1> QED BY <1>1, TypeInvInvariant, BookInvariant, PTL DEF Spec, NoTradeAfterLossLimit

(***************************************************************************)
(* The trade log and T+1.                                                  *)
(***************************************************************************)

(* A close that the settlement rule allows logs a settled trade. *)
LEMMA CloseLogsSettled ==
  ASSUME TypeInv, BooksAgree, LoggedLongsSettled,
         bar \in Bars, pos \in Positions, posSignal \in EntrySignals,
         ~ LockedByT1(pos, bar.day),
         NEW price \in Int, ClosePosition(price)
  PROVE  LoggedLongsSettled'
<1> DEFINE t == TradeRecord(pos, price, bar.day)
<1>1. posSignal.direction = pos.direction /\ posSignal.day = pos.openedAt
  BY BacktestAssumption DEF BooksAgree
<1>2. t.direction = "Long" => t.exitDay > t.entryDay
  BY <1>1 DEF TradeRecord, LockedByT1, IsT1Settled
<1>3. trades \in Seq(Trades) /\ t \in Trades
  <2>1. Pnl(pos, price) \in Int
    BY CloseTyped
  <2> QED BY <2>1 DEF TradeRecord, Trades, EntrySignals, Bars, TypeInv, TypeOK
<1>4. trades' = Append(trades, t)
  BY BacktestAssumption DEF ClosePosition, LoggedTrades
<1>5. ASSUME NEW i \in 1..Len(trades')
      PROVE  trades'[i].direction = "Long" => trades'[i].exitDay > trades'[i].entryDay
  <2> HIDE DEF t
  <2>1. Len(trades') = Len(trades) + 1
    BY <1>3, <1>4
  <2>2. CASE i = Len(trades) + 1
    <3>1. trades'[i] = t
      BY <1>3, <1>4, <2>2
    <3> QED BY <3>1, <1>2
  <2>3. CASE i \in 1..Len(trades)
    <3>1. trades'[i] = trades[i]
      BY <1>3, <1>4, <2>3
    <3> QED BY <3>1, <2>3 DEF LoggedLongsSettled
  <2> QED BY <1>3, <2>1, <2>2, <2>3
<1> QED BY <1>5 DEF LoggedLongsSettled

LEMMA LoggedLongsStep ==
  TypeInv /\ BooksAgree /\ LoggedLongsSettled /\ [Next]_vars => LoggedLongsSettled'
<1> SUFFICES ASSUME TypeInv, BooksAgree, LoggedLongsSettled, [Next]_vars
             PROVE  LoggedLongsSettled'
  OBVIOUS
<1> USE DEF engineVars, portfolioVars, reportVars, strategyVars
<1>1. CASE StopOut
  <2>1. bar \in Bars /\ pos \in Positions /\ posSignal \in EntrySignals
    BY <1>1 DEF StopOut, StrategyTurn, TypeInv, TypeOK, BarPresent
  <2>2. ClosingPrice \in Int
    BY <2>1, SlippageAssumption DEF ClosingPrice, Money, Bars
  <2> QED BY <1>1, <2>1, <2>2, CloseLogsSettled DEF StopOut
<1>2. CASE ForceClose
  <2>1. bar \in Bars /\ pos \in Positions /\ posSignal \in EntrySignals
    BY <1>2 DEF ForceClose, EndOfData, TypeInv, TypeOK, BarPresent
  <2>2. ForceClosePrice(pos) \in Int
    BY <2>1 DEF ForceClosePrice, Positions
  <2> QED BY <1>2, <2>1, <2>2, CloseLogsSettled DEF ForceClose
<1>3. CASE UNCHANGED trades
  BY <1>3 DEF LoggedLongsSettled
<1> QED
  BY <1>1, <1>2, <1>3
     DEF Next, Returned, vars, FirstBar, NextDayBar, SameDayBar, Deliver, NoData,
         FillOrder, RefuseFill, SettlementFailure, WatchBar, DeclineBar, SubmitEntry,
         QuietBar, FinishFlat, ForceCloseFailure

(* Every Long in the report was sold on a later date than it was bought,   *)
(* whichever bars, orders and wall clock (Backtest, LoggedLongsSettled).   *)
THEOREM LongsSettleBeforeSale == Spec => []LoggedLongsSettled
<1>1. Init => LoggedLongsSettled
  BY DEF Init, LoggedLongsSettled
<1> QED BY <1>1, LoggedLongsStep, TypeInvInvariant, BooksAlwaysAgree, PTL DEF Spec

(* A close logs the profit it realizes: there is a position, so there is a *)
(* signal to log it with.                                                  *)
LEMMA CloseLogsProfit ==
  ASSUME TypeInv, BooksAgree, TradeLogComplete, bar \in Bars, pos \in Positions,
         NEW price \in Int, ClosePosition(price)
  PROVE  TradeLogComplete'
<1> DEFINE t == TradeRecord(pos, price, bar.day)
           profits == [i \in DOMAIN trades |-> trades[i].pnl]
           n == Len(trades)
<1>0. posSignal \in EntrySignals /\ posSignal # NoSignal
  <2>1. pos # NoPosition
    BY BacktestAssumption
  <2> QED BY <2>1 DEF BooksAgree, TypeInv, TypeOK
<1>1. t \in Trades /\ t.pnl = Pnl(pos, price) /\ t.pnl \in Int
  <2>1. Pnl(pos, price) \in Int
    BY CloseTyped
  <2> QED BY <1>0, <2>1 DEF TradeRecord, Trades, EntrySignals, Bars
<1>2. /\ trades \in Seq(Trades) /\ realized \in Int
      /\ trades' = Append(trades, t) /\ realized' = realized + t.pnl
  BY <1>0, <1>1 DEF TypeInv, TypeOK, ClosePosition, LoggedTrades
<1> HIDE DEF t
<1>3. /\ n \in Nat /\ DOMAIN trades = 1 .. n /\ DOMAIN trades' = 1 .. n + 1
      /\ \A i \in 1 .. n : trades[i] \in Trades /\ trades'[i] = trades[i]
      /\ trades'[n + 1] = t
  BY <1>1, <1>2
<1> HIDE DEF n
<1>4. /\ \A i \in 1 .. n : profits[i] \in Int /\ profits'[i] = profits[i]
      /\ profits'[n + 1] = t.pnl
  BY <1>3 DEF Trades
<1>5. LoggedPnl = SumFunctionOnSet(profits, 1 .. n)
      /\ LoggedPnl' = SumFunctionOnSet(profits', 1 .. n + 1)
  BY <1>3 DEF LoggedPnl
<1> HIDE DEF profits
<1>6. SumFunctionOnSet(profits', 1 .. n + 1) = profits'[n + 1] + SumFunctionOnSet(profits, 1 .. n)
  BY <1>1, <1>3, <1>4, SumAppend
<1> QED BY <1>1, <1>2, <1>4, <1>5, <1>6 DEF TradeLogComplete

LEMMA TradeLogStep ==
  TypeInv /\ BooksAgree /\ TradeLogComplete /\ [Next]_vars => TradeLogComplete'
<1> SUFFICES ASSUME TypeInv, BooksAgree, TradeLogComplete, [Next]_vars
             PROVE  TradeLogComplete'
  OBVIOUS
<1> USE DEF engineVars, portfolioVars, reportVars, strategyVars
<1>1. CASE StopOut
  <2>1. bar \in Bars /\ pos \in Positions
    BY <1>1 DEF StopOut, StrategyTurn, TypeInv, TypeOK, BarPresent
  <2>2. ClosingPrice \in Int
    BY <2>1, SlippageAssumption DEF ClosingPrice, Money, Bars
  <2> QED BY <1>1, <2>1, <2>2, CloseLogsProfit DEF StopOut
<1>2. CASE ForceClose
  <2>1. bar \in Bars /\ pos \in Positions
    BY <1>2 DEF ForceClose, EndOfData, TypeInv, TypeOK, BarPresent
  <2>2. ForceClosePrice(pos) \in Int
    BY <2>1 DEF ForceClosePrice, Positions
  <2> QED BY <1>2, <2>1, <2>2, CloseLogsProfit DEF ForceClose
<1>3. CASE UNCHANGED <<trades, realized>>
  BY <1>3 DEF TradeLogComplete, LoggedPnl
<1> QED
  BY <1>1, <1>2, <1>3
     DEF Next, Returned, vars, FirstBar, NextDayBar, SameDayBar, Deliver, NoData,
         FillOrder, RefuseFill, SettlementFailure, WatchBar, DeclineBar, SubmitEntry,
         QuietBar, FinishFlat, ForceCloseFailure

(* The profits in the trade log add up to the realized profit, over any    *)
(* number of trades: engine.rs logs a close only where position_signals    *)
(* has an entry, and there is one for as long as there is a position       *)
(* (BooksAgree), whatever overwrote what.                                  *)
THEOREM TradeLogAlwaysComplete == Spec => []TradeLogComplete
<1>1. Init => TradeLogComplete
  <2> SUFFICES ASSUME Init PROVE TradeLogComplete
    OBVIOUS
  <2>1. DOMAIN trades = {} /\ realized = 0
    BY DEF Init
  <2> QED BY <2>1, SumEmpty DEF TradeLogComplete, LoggedPnl
<1> QED BY <1>1, TradeLogStep, TypeInvInvariant, BooksAlwaysAgree, PTL DEF Spec

(***************************************************************************)
(* The snapshots.                                                          *)
(***************************************************************************)

(* Between bars the last snapshot is the value of the account; at the end  *)
(* it is the cash.                                                         *)
EquityInv ==
  /\ pc = "feed" => equity = cash + MarkToMarket(pos)
  /\ FinalEquityIsCash

LEMMA EquityStep == TypeInv /\ EquityInv /\ [Next]_vars => EquityInv'
<1> SUFFICES ASSUME TypeInv, EquityInv, [Next]_vars PROVE EquityInv'
  OBVIOUS
<1> USE DEF engineVars, portfolioVars, reportVars, strategyVars
<1>1. CASE pc' \in {"fill", "failed"}
  BY <1>1 DEF EquityInv, FinalEquityIsCash
<1>2. CASE UNCHANGED vars
  BY <1>2 DEF vars, EquityInv, FinalEquityIsCash
<1>3. CASE StopOut \/ WatchBar \/ DeclineBar \/ \E id \in OrderIds : SubmitEntry(id)
  BY <1>3 DEF StopOut, WatchBar, DeclineBar, SubmitEntry, QuietBar, EquityInv,
              FinalEquityIsCash
<1>4. CASE FinishFlat
  BY <1>4 DEF FinishFlat, EndOfData, EquityInv, FinalEquityIsCash, MarkToMarket,
              TypeInv, TypeOK
<1>5. CASE ForceClose
  <2>1. pos \in Positions
    BY <1>5 DEF ForceClose, TypeInv, TypeOK
  <2>2. equity = cash + (EntryValue(pos) + UnrealizedPnl(pos))
    BY <1>5 DEF ForceClose, EndOfData, EquityInv, MarkToMarket
  <2>3. cash' = cash + (EntryValue(pos) + Pnl(pos, pos.current))
    BY <1>5 DEF ForceClose, ClosePosition, Proceeds, ForceClosePrice
  <2>4. UnrealizedPnl(pos) = Pnl(pos, pos.current)
    BY DEF UnrealizedPnl, Pnl
  <2> QED BY <1>5, <2>2, <2>3, <2>4 DEF ForceClose, EquityInv, FinalEquityIsCash
<1> QED
  BY <1>1, <1>2, <1>3, <1>4, <1>5
     DEF Next, Returned, FirstBar, NextDayBar, SameDayBar, Deliver, NoData,
         FillOrder, RefuseFill, SettlementFailure, ForceCloseFailure

(* The final equity of the report, taken before the forced close, is the   *)
(* cash after it (Backtest, FinalEquityIsCash).                            *)
THEOREM FinalEquityAlwaysCash == Spec => []FinalEquityIsCash
<1>1. Init => EquityInv
  BY BacktestAssumption DEF Init, EquityInv, FinalEquityIsCash, MarkToMarket
<1>2. EquityInv => FinalEquityIsCash
  BY DEF EquityInv
<1> QED BY <1>1, <1>2, EquityStep, TypeInvInvariant, PTL DEF Spec

(***************************************************************************)
(* The backtest implements the ledger.                                     *)
(***************************************************************************)

(* A close sells what the ledger holds, on a date the ledger allows. *)
LEMMA CloseIsLedgerClose ==
  ASSUME TypeInv, bar \in Bars, pos \in Positions, ~ LockedByT1(pos, bar.day),
         NEW price \in Int, ClosePosition(price), UNCHANGED <<bar, replaced>>
  PROVE  LedgerView!Close
<1>1. /\ Pnl(pos, price) \in Int /\ EntryValue(pos) \in Int
      /\ Proceeds(pos, price) = EntryValue(pos) + Pnl(pos, price)
  BY CloseTyped
<1>2. cash \in Int /\ realized \in Int
  BY DEF TypeInv, TypeOK
<1>3. pos # NoPosition /\ pos' = NoPosition /\ bar # NoBar
  BY BacktestAssumption DEF ClosePosition
<1>4. HeldValue(pos) = EntryValue(pos) /\ HeldValue(pos') = 0
  BY <1>3 DEF HeldValue
<1>5. cash' = cash + Proceeds(pos, price) /\ realized' = realized + Pnl(pos, price)
  BY DEF ClosePosition
<1>6. cash' = cash + HeldValue(pos) + (realized' - realized)
  BY <1>1, <1>2, <1>4, <1>5
<1>7. pos.direction = "Long" => Today > pos.openedAt
  BY <1>3 DEF LockedByT1, IsT1Settled, Today
<1>8. pos.direction # "none"
  BY DEF Positions, Directions
<1>9. realized' \in Int
  BY <1>1, <1>2, <1>5
<1> QED BY <1>3, <1>4, <1>6, <1>7, <1>8, <1>9 DEF LedgerView!Close, Today

(* A fill opens a position in the ledger, for the cash that is there. *)
LEMMA FillIsLedgerOpen ==
  ASSUME TypeInv, NEW id \in OrderIds, FillOrder(id)
  PROVE  LedgerView!Open
<1>1. bar \in Bars /\ bar # NoBar /\ book[id] \in PendingOrders
  BY DEF FillOrder, TypeInv, TypeOK, BarPresent
<1>2. Cost(book[id]) \in Int /\ Opened(book[id]) \in Positions
  BY <1>1, FillTyped DEF TypeInv
<1>3. pos' = Opened(book[id]) /\ pos' # NoPosition
  BY <1>2, BacktestAssumption DEF FillOrder
<1>4. HeldValue(pos') = Cost(book[id])
  BY <1>3 DEF HeldValue, EntryValue, Opened, Cost
<1>5. cash \in Int /\ cash' = cash - Cost(book[id]) /\ Cost(book[id]) <= cash
  BY DEF FillOrder, Affordable, TypeInv, TypeOK
<1>6. cash' \in Nat /\ HeldValue(pos') = cash - cash'
  BY <1>2, <1>4, <1>5
<1> QED BY <1>1, <1>2, <1>3, <1>4, <1>5, <1>6
        DEF FillOrder, LedgerView!Open, Opened, Today, Positions, Directions

(* A bar that is only marked changes nothing in the ledger. *)
LEMMA MarkIsLedgerStutter ==
  ASSUME TypeInv, bar \in Bars, pos' = Marked(pos, ClosingPrice),
         UNCHANGED <<bar, cash, realized, replaced>>
  PROVE  UNCHANGED LedgerView!vars
<1>1. ClosingPrice \in Int
  BY SlippageAssumption DEF ClosingPrice, Money, Bars
<1>2. HeldValue(pos') = HeldValue(pos)
  BY <1>1, MarkKeepsValue
<1>3. CASE pos = NoPosition
  BY <1>2, <1>3 DEF Marked, LedgerView!vars, Today
<1>4. CASE pos # NoPosition
  <2>1. pos \in Positions /\ pos' = UpdatePrice(pos, ClosingPrice)
    BY <1>4 DEF Marked, TypeInv, TypeOK
  <2>2. /\ pos'.direction = pos.direction /\ pos'.openedAt = pos.openedAt
        /\ pos' \in Positions
    BY <1>1, <2>1 DEF UpdatePrice, Positions
  <2>3. pos' # NoPosition
    BY <2>2, BacktestAssumption
  <2> QED BY <1>2, <1>4, <2>2, <2>3 DEF LedgerView!vars, Today
<1> QED BY <1>3, <1>4

LEMMA LedgerStep == TypeInv /\ [Next]_vars => [LedgerView!Next]_(LedgerView!vars)
<1> SUFFICES ASSUME TypeInv, [Next]_vars
             PROVE  LedgerView!Next \/ UNCHANGED LedgerView!vars
  OBVIOUS
<1> USE DEF engineVars, portfolioVars, reportVars, strategyVars
<1>1. ASSUME FirstBar \/ NextDayBar \/ SameDayBar
      PROVE  LedgerView!Wait
  <2>1. PICK k \in NextBars : bar' = k /\ UNCHANGED <<cash, realized, pos, replaced>>
    BY <1>1 DEF FirstBar, NextDayBar, SameDayBar, Deliver
  <2>2. k \in Bars /\ k.day >= Today
    <3>1. k \in Bars
      BY NextBarsTyped DEF TypeInv
    <3>2. k.day >= Today
      BY DEF NextBars
    <3> QED BY <3>1, <3>2
  <2>3. Today' = k.day
    BY <2>1, <2>2, BacktestAssumption DEF Today
  <2> QED BY <2>1, <2>2, <2>3 DEF LedgerView!Wait, Bars
<1>2. ASSUME UNCHANGED <<bar, cash, realized, pos, replaced>>
      PROVE  UNCHANGED LedgerView!vars
  BY <1>2 DEF LedgerView!vars, Today
<1>3. ASSUME NoData \/ FinishFlat \/ ForceCloseFailure \/ UNCHANGED vars
              \/ \E id \in OrderIds : RefuseFill(id)
      PROVE  UNCHANGED LedgerView!vars
  BY <1>2, <1>3 DEF NoData, FinishFlat, ForceCloseFailure, RefuseFill, vars
<1>4. ASSUME NEW id \in OrderIds, FillOrder(id) PROVE LedgerView!Open
  BY <1>4, FillIsLedgerOpen
<1>5. ASSUME StopOut PROVE LedgerView!Close
  <2>1. bar \in Bars /\ pos \in Positions
    BY <1>5 DEF StopOut, StrategyTurn, TypeInv, TypeOK, BarPresent
  <2>2. ClosingPrice \in Int
    BY <2>1, SlippageAssumption DEF ClosingPrice, Money, Bars
  <2> QED BY <1>5, <2>1, <2>2, CloseIsLedgerClose DEF StopOut
<1>6. ASSUME ForceClose PROVE LedgerView!Close
  <2>1. bar \in Bars /\ pos \in Positions
    BY <1>6 DEF ForceClose, EndOfData, TypeInv, TypeOK
  <2>2. ForceClosePrice(pos) \in Int
    BY <2>1 DEF ForceClosePrice, Positions
  <2> QED BY <1>6, <2>1, <2>2, CloseIsLedgerClose DEF ForceClose
<1>7. ASSUME SettlementFailure \/ QuietBar PROVE UNCHANGED LedgerView!vars
  <2>1. bar \in Bars
    BY <1>7 DEF SettlementFailure, QuietBar, StrategyTurn, TypeInv, TypeOK, BarPresent
  <2> QED BY <1>7, <2>1, MarkIsLedgerStutter DEF SettlementFailure, QuietBar
<1> QED
  BY <1>1, <1>3, <1>4, <1>5, <1>6, <1>7
     DEF Next, Returned, WatchBar, DeclineBar, SubmitEntry, LedgerView!Next

(* The backtest is an implementation of the ledger: no step of engine,     *)
(* portfolio or strategy treats money or the settlement rule otherwise     *)
(* than the ledger allows (Backtest, ImplementsLedger).                    *)
THEOREM BacktestImplementsLedger == Spec => ImplementsLedger
<1>1. Init => LedgerView!Init
  BY DEF Init, LedgerView!Init, HeldValue, Today
<1> QED
  BY <1>1, LedgerStep, TypeInvInvariant, PTL DEF Spec, ImplementsLedger, LedgerView!Spec

-----------------------------------------------------------------------------

(* While a position is open the risk manager counts at least one, so the   *)
(* limit on open positions cannot be missed (Backtest,                     *)
(* CountCoversPositions).                                                  *)
THEOREM CountAlwaysCovers == Spec => []CountCoversPositions
<1> USE DEF engineVars, portfolioVars, reportVars, strategyVars
<1>1. Init => CountCoversPositions
  BY DEF Init, CountCoversPositions
<1>2. TypeInv /\ CountCoversPositions /\ [Next]_vars => CountCoversPositions'
  <2> SUFFICES ASSUME TypeInv, CountCoversPositions, [Next]_vars
               PROVE  CountCoversPositions'
    OBVIOUS
  <2>1. risk.openCount \in Nat
    BY DEF TypeInv, TypeOK, RiskStates
  <2>2. ASSUME pos' = NoPosition PROVE CountCoversPositions'
    BY <2>2 DEF CountCoversPositions
  <2>3. ASSUME pos' = NoPosition <=> pos = NoPosition, risk'.openCount = risk.openCount
        PROVE  CountCoversPositions'
    BY <2>3 DEF CountCoversPositions
  <2>4. ASSUME FirstBar \/ NextDayBar PROVE CountCoversPositions'
    <3>1. risk' = ResetDaily(risk) /\ UNCHANGED pos
      BY <2>4 DEF FirstBar, NextDayBar, SessionOpen, Deliver
    <3>2. risk'.openCount = risk.openCount
      BY <3>1 DEF ResetDaily
    <3> QED BY <2>3, <3>1, <3>2
  <2>5. ASSUME NEW id \in OrderIds, FillOrder(id) PROVE CountCoversPositions'
    <3>1. risk' = RecordOpen(risk)
      BY <2>5 DEF FillOrder
    <3>2. risk'.openCount = risk.openCount + 1
      BY <3>1 DEF RecordOpen, TypeInv, TypeOK, RiskStates
    <3> QED BY <2>1, <3>2 DEF CountCoversPositions
  <2>6. ASSUME StopOut \/ ForceClose PROVE CountCoversPositions'
    BY <2>2, <2>6 DEF StopOut, ForceClose, ClosePosition
  <2>7. ASSUME UNCHANGED <<posSignal, risk>> PROVE CountCoversPositions'
    <3>1. pos' = NoPosition <=> pos = NoPosition
      BY <2>7, TypeInvStep DEF TypeInv, BarPresent
    <3> QED BY <2>3, <2>7, <3>1
  <2>8. ASSUME SettlementFailure \/ WatchBar \/ DeclineBar PROVE CountCoversPositions'
    BY <2>7, <2>8 DEF SettlementFailure, WatchBar, DeclineBar, QuietBar
  <2>9. ASSUME UNCHANGED <<pos, risk>> PROVE CountCoversPositions'
    BY <2>3, <2>9
  <2>10. ASSUME NEW id \in OrderIds, SubmitEntry(id) PROVE CountCoversPositions'
    BY <2>7, <2>10 DEF SubmitEntry, QuietBar
  <2> QED
    BY <2>4, <2>5, <2>6, <2>8, <2>9, <2>10
       DEF Next, Returned, vars, SameDayBar, Deliver, NoData, RefuseFill, FinishFlat,
           ForceCloseFailure
<1> QED BY <1>1, <1>2, TypeInvInvariant, PTL DEF Spec

-----------------------------------------------------------------------------
(* Portfolio and position manager agree on the position, and the risk      *)
(* manager counts it, in every run of every length.                        *)
THEOREM PositionsAlwaysAgree == Spec => []PositionsAgree
<1>1. BooksAgree /\ CountCoversPositions => PositionsAgree
  BY DEF PositionsAgree
<1> QED BY <1>1, BooksAlwaysAgree, CountAlwaysCovers, PTL

(* The book holds orders of the day only, and none once the loss limit is  *)
(* hit.                                                                    *)
THEOREM BookAlwaysCurrent == Spec => []BookIsCurrent
<1>1. OrdersAreOfToday /\ LossLimitEmptiesBook => BookIsCurrent
  BY DEF BookIsCurrent
<1> QED BY <1>1, OrdersAlwaysOfToday, LossLimitAlwaysEmptiesBook, PTL

(* Cash, realized profit, risk capital and final equity always agree.      *)
THEOREM MoneyAlwaysAgrees == Spec => []MoneyAgrees
<1>1. MoneyConserved /\ RiskCapitalTracksPnl /\ FinalEquityIsCash => MoneyAgrees
  BY DEF MoneyAgrees
<1> QED BY <1>1, MoneyAlwaysConserved, RiskCapitalAlwaysTracks, FinalEquityAlwaysCash, PTL

-----------------------------------------------------------------------------
(* The ledger by itself.                                                   *)

(* Amounts of the ledger stay whole numbers. *)
LEMMA AmountsInvariant == LedgerView!Spec => []LedgerView!AmountsOK
<1>1. LedgerView!Init => LedgerView!AmountsOK
  BY BacktestAssumption DEF BacktestAssumption, LedgerView!Init, LedgerView!AmountsOK
<1>2. LedgerView!AmountsOK /\ [LedgerView!Next]_(LedgerView!vars) => LedgerView!AmountsOK'
  <2> SUFFICES ASSUME LedgerView!AmountsOK, [LedgerView!Next]_(LedgerView!vars)
               PROVE  LedgerView!AmountsOK'
    OBVIOUS
  <2>1. CASE LedgerView!Wait
    BY <2>1 DEF LedgerView!Wait, LedgerView!AmountsOK
  <2>2. CASE LedgerView!Open
    <3>1. cash' \in Int
      BY <2>2 DEF LedgerView!Open
    <3> QED BY <2>2, <3>1 DEF LedgerView!Open, LedgerView!AmountsOK
  <2>3. CASE LedgerView!Close
    <3>1. realized' \in Int
      BY <2>3 DEF LedgerView!Close
    <3> QED BY <2>3, <3>1 DEF LedgerView!Close, LedgerView!AmountsOK
  <2>4. CASE UNCHANGED LedgerView!vars
    BY <2>4 DEF LedgerView!vars, LedgerView!AmountsOK
  <2> QED BY <2>1, <2>2, <2>3, <2>4 DEF LedgerView!Next
<1> QED BY <1>1, <1>2, PTL DEF LedgerView!Spec

(* Whatever moves as the ledger does conserves money: the abstract         *)
(* specification alone, without engine, orders or strategy, promises what  *)
(* MoneyConserved says of the portfolio (portfolio.rs open_position,       *)
(* close_position).                                                        *)
THEOREM LedgerConserves == LedgerView!Spec => []LedgerView!Conservation
<1>1. LedgerView!Init => LedgerView!Conservation
  BY BacktestAssumption DEF BacktestAssumption, LedgerView!Init, LedgerView!Conservation
<1>2. LedgerView!AmountsOK /\ LedgerView!Conservation /\ [LedgerView!Next]_(LedgerView!vars)
        => LedgerView!Conservation'
  <2> SUFFICES ASSUME LedgerView!AmountsOK, LedgerView!Conservation,
                      [LedgerView!Next]_(LedgerView!vars)
               PROVE  LedgerView!Conservation'
    OBVIOUS
  <2>1. CASE LedgerView!Wait
    BY <2>1 DEF LedgerView!Wait, LedgerView!Conservation
  <2>2. CASE LedgerView!Open
    <3>1. cash' \in Int
      BY <2>2 DEF LedgerView!Open
    <3> QED BY <2>2, <3>1 DEF LedgerView!Open, LedgerView!AmountsOK, LedgerView!Conservation
  <2>3. CASE LedgerView!Close
    <3>1. realized' \in Int
      BY <2>3 DEF LedgerView!Close
    <3>2. /\ cash' = cash + HeldValue(pos) + (realized' - realized)
          /\ HeldValue(pos)' = 0 /\ replaced' = replaced
      BY <2>3 DEF LedgerView!Close
    <3>3. cash' + 0 + replaced' = InitialCapital + realized'
      BY <3>1, <3>2, BacktestAssumption
         DEF BacktestAssumption, LedgerView!AmountsOK, LedgerView!Conservation
    <3> QED BY <3>2, <3>3 DEF LedgerView!Conservation
  <2>4. CASE UNCHANGED LedgerView!vars
    BY <2>4 DEF LedgerView!vars, LedgerView!Conservation
  <2> QED BY <2>1, <2>2, <2>3, <2>4 DEF LedgerView!Next
<1> QED BY <1>1, <1>2, AmountsInvariant, PTL DEF LedgerView!Spec

-----------------------------------------------------------------------------
(* The report of the run, from its trades and its equity curve.            *)

ReportTypeOK == pnls \in Seq(Int) /\ curve \in Seq(Nat)

(***************************************************************************)
(* The drawdown.                                                           *)
(***************************************************************************)

Start(s) == [peak |-> Head(s), worst |-> <<0, 1>>]

IsDrawdown(s, g) ==
  g = [U \in SUBSET DOMAIN s |->
         IF U = {} THEN Start(s)
         ELSE DrawdownStep(g[U \ {Top(U)}], s[Top(U)])]

Drawdown(s) == CHOOSE g : IsDrawdown(s, g)

LEMMA MaxDrawdownIs ==
  MaxDrawdown = IF curve = <<>> THEN <<0, 1>> ELSE Drawdown(curve)[DOMAIN curve].worst
BY Zenon DEF MaxDrawdown, FoldLeft, MapThenFoldSet, Max,
             Drawdown, IsDrawdown, Start, Top

Falls == [peak : Nat, worst : Int \X Int]

LEMMA StepTyped ==
  ASSUME NEW a \in Falls, NEW e \in Nat
  PROVE  DrawdownStep(a, e) \in Falls
BY DEF DrawdownStep, Falls

LEMMA DrawdownExists ==
  ASSUME NEW s \in Seq(Nat), s # <<>>
  PROVE  IsDrawdown(s, Drawdown(s))
<1> DEFINE N == Len(s)
           step == [p \in Falls \X (1 .. N) |-> DrawdownStep(p[1], s[p[2]])]
<1>1. N \in Nat /\ Start(s) \in Falls /\ DOMAIN s = 1 .. N
  BY DEF Start, Falls
<1>2. step \in [Falls \X (1 .. N) -> Falls]
  <2> SUFFICES ASSUME NEW p \in Falls \X (1 .. N)
               PROVE  DrawdownStep(p[1], s[p[2]]) \in Falls
    OBVIOUS
  <2>1. p[1] \in Falls /\ s[p[2]] \in Nat
    OBVIOUS
  <2> QED BY <2>1, StepTyped
<1> HIDE DEF step, N
<1>3. PICK g \in [SUBSET (1 .. N) -> Falls] : IsFold(N, Start(s), step, g)
  BY <1>1, <1>2, FoldExists
<1>4. ASSUME NEW U \in SUBSET (1 .. N)
      PROVE  g[U] = IF U = {} THEN Start(s)
                    ELSE DrawdownStep(g[U \ {Top(U)}], s[Top(U)])
  <2>1. g[U] = IF U = {} THEN Start(s) ELSE step[<<g[U \ {Top(U)}], Top(U)>>]
    BY <1>3 DEF IsFold
  <2>2. CASE U = {}
    BY <2>1, <2>2
  <2>3. CASE U # {}
    <3>1. Top(U) \in 1 .. N
      BY <1>1, <2>3, TopIn
    <3>2. g[U \ {Top(U)}] \in Falls
      OBVIOUS
    <3>3. step[<<g[U \ {Top(U)}], Top(U)>>] = DrawdownStep(g[U \ {Top(U)}], s[Top(U)])
      BY <3>1, <3>2 DEF step
    <3> QED BY <2>1, <2>3, <3>3
  <2> QED BY <2>2, <2>3
<1>5. IsDrawdown(s, g)
  BY <1>1, <1>4 DEF IsDrawdown
<1> QED BY <1>5, Zenon DEF Drawdown

LEMMA DrawdownUnfolds ==
  ASSUME NEW s \in Seq(Nat), s # <<>>
  PROVE  /\ Drawdown(s)[1 .. 0] = Start(s)
         /\ \A n \in Nat : n < Len(s) =>
              Drawdown(s)[1 .. n + 1] = DrawdownStep(Drawdown(s)[1 .. n], s[n + 1])
<1> DEFINE g == Drawdown(s)
<1>1. \A U \in SUBSET DOMAIN s :
        g[U] = IF U = {} THEN Start(s)
               ELSE DrawdownStep(g[U \ {Top(U)}], s[Top(U)])
  <2>1. IsDrawdown(s, g)
    BY DrawdownExists
  <2> HIDE DEF g
  <2> QED BY <2>1 DEF IsDrawdown
<1> HIDE DEF g
<1>2. g[1 .. 0] = Start(s)
  <2>1. 1 .. 0 = {} /\ {} \in SUBSET DOMAIN s
    OBVIOUS
  <2> QED BY <1>1, <2>1
<1>3. ASSUME NEW n \in Nat, n < Len(s)
      PROVE  g[1 .. n + 1] = DrawdownStep(g[1 .. n], s[n + 1])
  <2>1. 1 .. n + 1 \in SUBSET DOMAIN s
    BY <1>3
  <2>2. 1 .. n + 1 # {} /\ Top(1 .. n + 1) = n + 1 /\ (1 .. n + 1) \ {n + 1} = 1 .. n
    BY TopOfPrefix
  <2> DEFINE U == 1 .. n + 1
  <2>3. g[U] = DrawdownStep(g[U \ {Top(U)}], s[Top(U)])
    <3> HIDE DEF U
    <3> QED BY <1>1, <2>1, <2>2 DEF U
  <2> QED BY <2>2, <2>3
<1> QED BY <1>2, <1>3 DEF g

(* A fall is a fraction whose denominator is positive. *)
Fractions == Int \X (Nat \ {0})

LEMMA BelowIs ==
  ASSUME NEW a \in Int, NEW b \in Int, NEW c \in Int, NEW d \in Int
  PROVE  Below(<<a, b>>, <<c, d>>) <=> a * d < c * b
BY DEF Below

LEMMA TimesKeepsOrder ==
  ASSUME NEW x \in Int, NEW y \in Int, x >= y, NEW k \in Nat
  PROVE  x * k >= y * k
<1>1. (x - y) * k >= 0
  OBVIOUS
<1>2. (x - y) * k = x * k - y * k
  OBVIOUS
<1>3. x * k \in Int /\ y * k \in Int
  OBVIOUS
<1> QED BY <1>1, <1>2, <1>3

LEMMA TimesReflectsOrder ==
  ASSUME NEW x \in Int, NEW y \in Int, NEW k \in Nat \ {0}, x * k >= y * k
  PROVE  x >= y
<1> SUFFICES ASSUME x < y PROVE FALSE
  OBVIOUS
<1>1. (y - x) * k > 0
  OBVIOUS
<1>2. (y - x) * k = y * k - x * k
  OBVIOUS
<1>3. x * k \in Int /\ y * k \in Int
  OBVIOUS
<1> QED BY <1>1, <1>2, <1>3

(* Fractions are ordered. *)
LEMMA NotBelowTransitive ==
  ASSUME NEW f \in Fractions, NEW g \in Fractions, NEW h \in Fractions,
         ~ Below(f, g), ~ Below(g, h)
  PROVE  ~ Below(f, h)
<1> DEFINE a == f[1]  b == f[2]  c == g[1]  d == g[2]  e == h[1]  k == h[2]
<1>1. /\ a \in Int /\ c \in Int /\ e \in Int
      /\ b \in Nat \ {0} /\ d \in Nat \ {0} /\ k \in Nat \ {0}
  BY DEF Fractions
<1>2. a * d \in Int /\ c * b \in Int /\ c * k \in Int /\ e * d \in Int /\ a * k \in Int /\ e * b \in Int
  BY <1>1
<1>3. a * d >= c * b /\ c * k >= e * d
  BY <1>2 DEF Below
<1>4. ~ Below(f, h) <=> a * k >= e * b
  BY <1>2 DEF Below
<1> HIDE DEF a, b, c, d, e, k
<1>5. (a * d) * k >= (c * b) * k /\ (c * k) * b >= (e * d) * b
  BY <1>1, <1>2, <1>3, TimesKeepsOrder
<1>6. (c * b) * k = (c * k) * b /\ (a * d) * k = (a * k) * d /\ (e * d) * b = (e * b) * d
  BY <1>1
<1>7. (a * k) * d >= (e * b) * d
  <2> DEFINE u == (a * k) * d  v == (c * k) * b  w == (e * b) * d
  <2>1. u >= v /\ v >= w
    BY <1>5, <1>6
  <2>2. u \in Int /\ v \in Int /\ w \in Int
    BY <1>1
  <2> HIDE DEF u, v, w
  <2>3. u >= w
    BY <2>1, <2>2
  <2> QED BY <2>3 DEF u, w
<1>8. a * k >= e * b
  BY <1>1, <1>2, <1>7, TimesReflectsOrder
<1> QED BY <1>4, <1>8

LEMMA BelowIsNotAbove ==
  ASSUME NEW f \in Fractions, NEW g \in Fractions, Below(f, g)
  PROVE  ~ Below(g, f)
<1>1. f[1] * g[2] \in Int /\ g[1] * f[2] \in Int
  BY DEF Fractions
<1> QED BY <1>1 DEF Below

(* Of two peaks, the fall from the higher is at least as deep. *)
LEMMA HigherPeakFallsDeeper ==
  ASSUME NEW p \in Nat \ {0}, NEW q \in Nat, p <= q, NEW x \in Nat
  PROVE  ~ Below(<<q - x, q>>, <<p - x, p>>)
<1>1. q * x >= p * x
  BY TimesKeepsOrder
<1>2. (q - x) * p = q * p - x * p /\ (p - x) * q = p * q - x * q
  OBVIOUS
<1>3. q * p = p * q /\ x * p = p * x /\ x * q = q * x
  OBVIOUS
<1>4. q * p \in Int /\ p * x \in Int /\ q * x \in Int
  OBVIOUS
<1>5. (q - x) * p = q * p - p * x /\ (p - x) * q = q * p - q * x
  BY <1>2, <1>3
<1>6. (q - x) * p >= (p - x) * q
  <2> DEFINE l == (q - x) * p  r == (p - x) * q  u == q * p  v == p * x  w == q * x
  <2>1. l = u - v /\ r = u - w /\ w >= v /\ u \in Int /\ v \in Int /\ w \in Int
    BY <1>1, <1>4, <1>5
  <2> HIDE DEF l, r, u, v, w
  <2>2. l >= r
    BY <2>1
  <2> QED BY <2>2 DEF l, r
<1>7. (q - x) * p \in Int /\ (p - x) * q \in Int
  OBVIOUS
<1> QED BY <1>6, <1>7 DEF Below

(* The fall from point i to point j. *)
FallOf(s, i, j) == <<s[i] - s[j], s[i]>>

(* What the fold knows of the first n points. *)
PeakKnown(s, n, a) ==
  /\ \A i \in 1 .. n : s[i] <= a.peak
  /\ \E i \in DOMAIN s : (i <= n \/ i = 1) /\ s[i] = a.peak

WorstKnown(s, n, a) ==
  /\ \A i, j \in 1 .. n : i <= j /\ s[i] # 0 => ~ Below(a.worst, FallOf(s, i, j))
  /\ \/ a.worst = <<0, 1>>
     \/ \E i, j \in DOMAIN s : i <= j /\ s[i] # 0 /\ a.worst = FallOf(s, i, j)

DrawdownKnown(s, n, a) ==
  /\ a \in Falls /\ a.worst \in Fractions
  /\ PeakKnown(s, n, a)
  /\ WorstKnown(s, n, a)

LEMMA FallIsFraction ==
  ASSUME NEW s \in Seq(Nat), NEW i \in DOMAIN s, NEW j \in DOMAIN s, s[i] # 0
  PROVE  FallOf(s, i, j) \in Fractions
BY DEF FallOf, Fractions

LEMMA DrawdownStarts ==
  ASSUME NEW s \in Seq(Nat), s # <<>>
  PROVE  DrawdownKnown(s, 0, Start(s))
<1>1. 1 \in DOMAIN s /\ Head(s) = s[1] /\ s[1] \in Nat /\ 1 .. 0 = {}
  OBVIOUS
<1>2. Start(s) \in Falls /\ Start(s).worst = <<0, 1>> /\ Start(s).peak = s[1]
  BY <1>1 DEF Start, Falls
<1>3. <<0, 1>> \in Fractions
  BY DEF Fractions
<1> QED BY <1>1, <1>2, <1>3 DEF DrawdownKnown, PeakKnown, WorstKnown

LEMMA DrawdownGoesOn ==
  ASSUME NEW s \in Seq(Nat), NEW n \in Nat, n < Len(s), NEW a, DrawdownKnown(s, n, a)
  PROVE  DrawdownKnown(s, n + 1, DrawdownStep(a, s[n + 1]))
<1> DEFINE x == s[n + 1]
           b == DrawdownStep(a, x)
           peak == IF x > a.peak THEN x ELSE a.peak
           fall == <<peak - x, peak>>
<1>1. n + 1 \in DOMAIN s /\ x \in Nat /\ a.peak \in Nat /\ a.worst \in Fractions /\ a \in Falls
  BY DEF DrawdownKnown, Falls
<1>2. peak \in Nat /\ a.peak <= peak /\ x <= peak
  BY <1>1
<1>3. b.peak = peak
  BY DEF DrawdownStep
<1>4. b.worst = IF peak # 0 /\ Below(a.worst, fall) THEN fall ELSE a.worst
  BY DEF DrawdownStep
<1>5. b \in Falls
  BY <1>1, StepTyped
<1>6. peak # 0 => fall \in Fractions
  BY <1>1, <1>2 DEF Fractions
<1>7. b.worst \in Fractions
  BY <1>1, <1>4, <1>6
<1>8. PICK t \in DOMAIN s : (t <= n + 1 \/ t = 1) /\ s[t] = peak
  <2>1. CASE x > a.peak
    <3>1. n + 1 <= n + 1 /\ s[n + 1] = peak
      BY <2>1
    <3> QED BY <1>1, <3>1
  <2>2. CASE ~ (x > a.peak)
    <3>1. PICK t \in DOMAIN s : (t <= n \/ t = 1) /\ s[t] = a.peak
      BY DEF DrawdownKnown, PeakKnown
    <3>2. t \in Nat /\ (t <= n + 1 \/ t = 1) /\ s[t] = peak
      BY <2>2, <3>1
    <3> QED BY <3>2
  <2> QED BY <2>1, <2>2
<1>9. \A i \in 1 .. n + 1 : i \in 1 .. n \/ i = n + 1
  OBVIOUS
<1>10. \A i \in 1 .. n + 1 : i \in DOMAIN s /\ s[i] \in Nat
  OBVIOUS
<1>11. \A i \in 1 .. n + 1 : s[i] <= peak
  <2> SUFFICES ASSUME NEW i \in 1 .. n + 1 PROVE s[i] <= peak
    OBVIOUS
  <2>1. CASE i = n + 1
    BY <1>2, <2>1
  <2>2. CASE i \in 1 .. n
    <3>1. s[i] <= a.peak
      BY <2>2 DEF DrawdownKnown, PeakKnown
    <3>2. s[i] \in Nat
      BY <1>10
    <3> HIDE DEF peak
    <3> QED BY <1>1, <1>2, <3>1, <3>2
  <2> QED BY <1>9, <2>1, <2>2
<1>12. PeakKnown(s, n + 1, b)
  <2> HIDE DEF b, peak
  <2> QED BY <1>3, <1>8, <1>11 DEF PeakKnown
<1>13. ~ Below(b.worst, a.worst)
  <2>1. CASE peak # 0 /\ Below(a.worst, fall)
    <3>1. b.worst = fall
      BY <1>4, <2>1
    <3>2. ~ Below(fall, a.worst)
      <4> HIDE DEF fall, peak
      <4> QED BY <1>1, <1>6, <2>1, BelowIsNotAbove
    <3> QED BY <3>1, <3>2
  <2>2. CASE ~ (peak # 0 /\ Below(a.worst, fall))
    <3>1. b.worst = a.worst
      BY <1>4, <2>2
    <3>2. a.worst[1] * a.worst[2] \in Int
      BY <1>1 DEF Fractions
    <3> QED BY <3>1, <3>2 DEF Below
  <2> QED BY <2>1, <2>2
<1>14. peak # 0 => ~ Below(b.worst, fall)
  <2> SUFFICES ASSUME peak # 0 PROVE ~ Below(b.worst, fall)
    OBVIOUS
  <2>1. CASE Below(a.worst, fall)
    <3>1. b.worst = fall
      BY <1>4, <2>1
    <3>2. fall[1] * fall[2] \in Int
      BY <1>6 DEF Fractions
    <3> HIDE DEF fall, peak, b
    <3> QED BY <3>1, <3>2 DEF Below
  <2>2. CASE ~ Below(a.worst, fall)
    <3>1. b.worst = a.worst
      BY <1>4, <2>2
    <3> HIDE DEF fall, peak, b
    <3> QED BY <2>2, <3>1
  <2> QED BY <2>1, <2>2
<1>15. \A i, j \in 1 .. n + 1 :
         i <= j /\ s[i] # 0 => ~ Below(b.worst, FallOf(s, i, j))
  <2> SUFFICES ASSUME NEW i \in 1 .. n + 1, NEW j \in 1 .. n + 1, i <= j, s[i] # 0
               PROVE  ~ Below(b.worst, FallOf(s, i, j))
    OBVIOUS
  <2>1. FallOf(s, i, j) \in Fractions
    <3>1. i \in DOMAIN s /\ j \in DOMAIN s
      BY <1>10
    <3> QED BY <3>1, FallIsFraction
  <2>2. CASE j = n + 1
    <3>1. s[i] \in Nat \ {0} /\ s[i] <= peak
      BY <1>10, <1>11
    <3>2. peak # 0
      <4> HIDE DEF peak
      <4> QED BY <1>2, <3>1
    <3>3. FallOf(s, i, j) = <<s[i] - x, s[i]>>
      BY <2>2 DEF FallOf
    <3> HIDE DEF peak, b
    <3>4. ~ Below(fall, FallOf(s, i, j))
      BY <1>1, <1>2, <3>1, <3>3, HigherPeakFallsDeeper
    <3> HIDE DEF fall
    <3> QED BY <1>6, <1>7, <1>14, <2>1, <3>2, <3>4, NotBelowTransitive
  <2>3. CASE j # n + 1
    <3>1. i \in 1 .. n /\ j \in 1 .. n
      BY <2>3
    <3>2. ~ Below(a.worst, FallOf(s, i, j))
      BY <3>1 DEF DrawdownKnown, WorstKnown
    <3> HIDE DEF b
    <3> QED BY <1>1, <1>7, <1>13, <2>1, <3>2, NotBelowTransitive
  <2> QED BY <2>2, <2>3
<1>16. \/ b.worst = <<0, 1>>
       \/ \E i, j \in DOMAIN s : i <= j /\ s[i] # 0 /\ b.worst = FallOf(s, i, j)
  <2>1. CASE peak # 0 /\ Below(a.worst, fall)
    <3>1. t <= n + 1 /\ FallOf(s, t, n + 1) = fall /\ s[t] # 0
      BY <1>8, <2>1 DEF FallOf
    <3>2. b.worst = fall
      BY <1>4, <2>1
    <3> HIDE DEF b, fall, peak
    <3> QED BY <1>1, <3>1, <3>2
  <2>2. CASE ~ (peak # 0 /\ Below(a.worst, fall))
    <3>1. b.worst = a.worst
      BY <1>4, <2>2
    <3> HIDE DEF b, fall, peak
    <3> QED BY <3>1 DEF DrawdownKnown, WorstKnown
  <2> QED BY <2>1, <2>2
<1> HIDE DEF b
<1>17. WorstKnown(s, n + 1, b)
  BY <1>15, <1>16 DEF WorstKnown
<1>18. DrawdownKnown(s, n + 1, b)
  BY <1>5, <1>7, <1>12, <1>17 DEF DrawdownKnown
<1> QED BY <1>18 DEF b

LEMMA DrawdownOfPrefix ==
  ASSUME NEW s \in Seq(Nat), s # <<>>, NEW k \in 0 .. Len(s)
  PROVE  DrawdownKnown(s, k, Drawdown(s)[1 .. k])
<1> DEFINE T == {n \in 0 .. Len(s) : ~ DrawdownKnown(s, n, Drawdown(s)[1 .. n])}
<1>1. SUFFICES ASSUME T # {} PROVE FALSE
  OBVIOUS
<1>2. PICK m \in T : \A n \in T : m <= n
  <2>1. T \in SUBSET Nat
    OBVIOUS
  <2> HIDE DEF T
  <2> QED BY <1>1, <2>1, LeastNatural
<1>3. m # 0
  BY DrawdownStarts, DrawdownUnfolds
<1> DEFINE n == m - 1
<1>4. n \in Nat /\ n < Len(s) /\ n \in 0 .. Len(s) /\ m = n + 1
  BY <1>3
<1>5. n \notin T
  <2> SUFFICES ASSUME n \in T PROVE FALSE
    OBVIOUS
  <2>1. m <= n
    BY <1>2
  <2> QED BY <1>4, <2>1
<1>6. DrawdownKnown(s, n, Drawdown(s)[1 .. n])
  BY <1>4, <1>5
<1> HIDE DEF n
<1>7. Drawdown(s)[1 .. n + 1] = DrawdownStep(Drawdown(s)[1 .. n], s[n + 1])
  BY <1>4, DrawdownUnfolds
<1>8. DrawdownKnown(s, n + 1, Drawdown(s)[1 .. n + 1])
  BY <1>4, <1>6, <1>7, DrawdownGoesOn
<1> QED BY <1>4, <1>8

LEMMA WorstFallReported ==
  ASSUME NEW s \in Seq(Nat), s # <<>>, NEW w, w = Drawdown(s)[DOMAIN s].worst
  PROVE  /\ w \in Fractions
         /\ \A i, j \in DOMAIN s : i <= j /\ s[i] # 0 => ~ Below(w, FallOf(s, i, j))
         /\ \/ w = <<0, 1>>
            \/ \E i, j \in DOMAIN s : i <= j /\ s[i] # 0 /\ w = FallOf(s, i, j)
<1>1. Len(s) \in 0 .. Len(s) /\ DOMAIN s = 1 .. Len(s)
  OBVIOUS
<1>2. DrawdownKnown(s, Len(s), Drawdown(s)[1 .. Len(s)])
  BY <1>1, DrawdownOfPrefix
<1> QED BY <1>1, <1>2 DEF DrawdownKnown, WorstKnown

(***************************************************************************)
(* The streak of losing trades.                                            *)
(***************************************************************************)

Calm == [now |-> 0, most |-> 0]

StreakStep(a, pnl) ==
  LET now == IF pnl < 0 THEN a.now + 1 ELSE 0
  IN  [now |-> now, most |-> IF now > a.most THEN now ELSE a.most]

IsStreak(s, g) ==
  g = [U \in SUBSET DOMAIN s |->
         IF U = {} THEN Calm ELSE StreakStep(g[U \ {Top(U)}], s[Top(U)])]

Streak(s) == CHOOSE g : IsStreak(s, g)

LEMMA MaxConsecutiveLossesIs == MaxConsecutiveLosses = Streak(pnls)[DOMAIN pnls].most
BY Zenon DEF MaxConsecutiveLosses, FoldLeft, MapThenFoldSet, Max,
             Streak, IsStreak, StreakStep, Calm, Top

Streaks == [now : Nat, most : Nat]

LEMMA StreakExists ==
  ASSUME NEW s \in Seq(Int)
  PROVE  IsStreak(s, Streak(s))
<1> DEFINE N == Len(s)
           step == [p \in Streaks \X (1 .. N) |-> StreakStep(p[1], s[p[2]])]
<1>1. N \in Nat /\ Calm \in Streaks /\ DOMAIN s = 1 .. N
  BY DEF Calm, Streaks
<1>2. step \in [Streaks \X (1 .. N) -> Streaks]
  <2> SUFFICES ASSUME NEW p \in Streaks \X (1 .. N)
               PROVE  StreakStep(p[1], s[p[2]]) \in Streaks
    OBVIOUS
  <2>1. p[1] \in Streaks /\ s[p[2]] \in Int
    OBVIOUS
  <2> QED BY <2>1 DEF StreakStep, Streaks
<1> HIDE DEF step, N
<1>3. PICK g \in [SUBSET (1 .. N) -> Streaks] : IsFold(N, Calm, step, g)
  BY <1>1, <1>2, FoldExists
<1>4. ASSUME NEW U \in SUBSET (1 .. N)
      PROVE  g[U] = IF U = {} THEN Calm ELSE StreakStep(g[U \ {Top(U)}], s[Top(U)])
  <2>1. g[U] = IF U = {} THEN Calm ELSE step[<<g[U \ {Top(U)}], Top(U)>>]
    BY <1>3 DEF IsFold
  <2>2. CASE U = {}
    BY <2>1, <2>2
  <2>3. CASE U # {}
    <3>1. Top(U) \in 1 .. N
      BY <1>1, <2>3, TopIn
    <3>2. g[U \ {Top(U)}] \in Streaks
      OBVIOUS
    <3>3. step[<<g[U \ {Top(U)}], Top(U)>>] = StreakStep(g[U \ {Top(U)}], s[Top(U)])
      BY <3>1, <3>2 DEF step
    <3> QED BY <2>1, <2>3, <3>3
  <2> QED BY <2>2, <2>3
<1>5. IsStreak(s, g)
  BY <1>1, <1>4 DEF IsStreak
<1> QED BY <1>5, Zenon DEF Streak

LEMMA StreakUnfolds ==
  ASSUME NEW s \in Seq(Int)
  PROVE  /\ Streak(s)[1 .. 0] = Calm
         /\ \A n \in Nat : n < Len(s) =>
              Streak(s)[1 .. n + 1] = StreakStep(Streak(s)[1 .. n], s[n + 1])
<1> DEFINE g == Streak(s)
<1>1. \A U \in SUBSET DOMAIN s :
        g[U] = IF U = {} THEN Calm ELSE StreakStep(g[U \ {Top(U)}], s[Top(U)])
  <2>1. IsStreak(s, g)
    BY StreakExists
  <2> HIDE DEF g
  <2> QED BY <2>1 DEF IsStreak
<1> HIDE DEF g
<1>2. g[1 .. 0] = Calm
  <2>1. 1 .. 0 = {} /\ {} \in SUBSET DOMAIN s
    OBVIOUS
  <2> QED BY <1>1, <2>1
<1>3. ASSUME NEW n \in Nat, n < Len(s)
      PROVE  g[1 .. n + 1] = StreakStep(g[1 .. n], s[n + 1])
  <2>1. 1 .. n + 1 \in SUBSET DOMAIN s
    BY <1>3
  <2>2. 1 .. n + 1 # {} /\ Top(1 .. n + 1) = n + 1 /\ (1 .. n + 1) \ {n + 1} = 1 .. n
    BY TopOfPrefix
  <2> DEFINE U == 1 .. n + 1
  <2>3. g[U] = StreakStep(g[U \ {Top(U)}], s[Top(U)])
    <3> HIDE DEF U
    <3> QED BY <1>1, <2>1, <2>2 DEF U
  <2> QED BY <2>2, <2>3
<1> QED BY <1>2, <1>3 DEF g

(* Every trade from a to b lost. *)
Lost(s, a, b) == \A k \in a .. b : s[k] < 0

(* What the fold knows of the first n trades: the stretch that ends with   *)
(* the last of them, and the longest.                                      *)
StretchKnown(s, n, now) ==
  /\ Lost(s, n - now + 1, n)
  /\ now < n => ~ (s[n - now] < 0)

MostKnown(s, n, most) ==
  /\ \A i, j \in 1 .. n : i <= j /\ Lost(s, i, j) => j - i + 1 <= most
  /\ most > 0 => \E i, j \in 1 .. n : i <= j /\ Lost(s, i, j) /\ j - i + 1 = most

StreakKnown(s, n, a) ==
  /\ a.now \in 0 .. n /\ a.most \in Nat /\ a.now <= a.most
  /\ StretchKnown(s, n, a.now)
  /\ MostKnown(s, n, a.most)

LEMMA StreakGoesOn ==
  ASSUME NEW s \in Seq(Int), NEW n \in Nat, n < Len(s), NEW a, StreakKnown(s, n, a)
  PROVE  StreakKnown(s, n + 1, StreakStep(a, s[n + 1]))
<1> DEFINE x == s[n + 1]
           b == StreakStep(a, x)
<1>1. n + 1 \in DOMAIN s /\ x \in Int /\ a.now \in 0 .. n /\ a.most \in Nat /\ a.now <= a.most
  BY DEF StreakKnown, StretchKnown, MostKnown
<1>2. /\ b.now = IF x < 0 THEN a.now + 1 ELSE 0
      /\ b.most = IF b.now > a.most THEN b.now ELSE a.most
  BY DEF StreakStep
<1> HIDE DEF b
<1>3. /\ b.now \in 0 .. n + 1 /\ b.most \in Nat /\ b.now <= b.most /\ a.most <= b.most
      /\ b.most = b.now \/ b.most = a.most
  BY <1>1, <1>2
<1>4. Lost(s, n + 1 - b.now + 1, n + 1)
  <2>1. CASE x < 0
    <3>1. n + 1 - b.now + 1 = n - a.now + 1
      BY <1>1, <1>2, <2>1
    <3>2. ASSUME NEW k \in n - a.now + 1 .. n + 1 PROVE s[k] < 0
      <4>1. CASE k = n + 1
        BY <2>1, <4>1
      <4>2. CASE k # n + 1
        <5>1. k \in n - a.now + 1 .. n
          BY <1>1, <4>2
        <5> QED BY <5>1 DEF StreakKnown, StretchKnown, Lost
      <4> QED BY <4>1, <4>2
    <3> QED BY <3>1, <3>2 DEF Lost
  <2>2. CASE ~ (x < 0)
    <3>1. b.now = 0
      BY <1>2, <2>2
    <3>2. n + 1 - b.now + 1 .. n + 1 = {}
      BY <3>1
    <3> QED BY <3>2 DEF Lost
  <2> QED BY <2>1, <2>2
<1>5. b.now < n + 1 => ~ (s[n + 1 - b.now] < 0)
  <2>1. CASE x < 0
    <3>1. b.now = a.now + 1 /\ a.now \in Nat
      BY <1>1, <1>2, <2>1
    <3>2. n + 1 - b.now = n - a.now
      BY <3>1
    <3>3. b.now < n + 1 => a.now < n
      BY <3>1
    <3> QED BY <3>2, <3>3 DEF StreakKnown, StretchKnown, MostKnown
  <2>2. CASE ~ (x < 0)
    <3>1. n + 1 - b.now = n + 1
      BY <1>2, <2>2
    <3> QED BY <2>2, <3>1
  <2> QED BY <2>1, <2>2
<1>6. ASSUME NEW i \in 1 .. n + 1, NEW j \in 1 .. n + 1, i <= j, Lost(s, i, j)
      PROVE  j - i + 1 <= b.most
  <2>1. CASE j = n + 1
    <3>1. i <= n + 1 - b.now => b.now = n + 1
      <4> SUFFICES ASSUME i <= n + 1 - b.now, b.now < n + 1 PROVE FALSE
        BY <1>3
      <4>1. n + 1 - b.now \in i .. j
        BY <1>3, <2>1
      <4> QED BY <1>5, <1>6, <4>1 DEF Lost
    <3>2. j - i + 1 <= b.now
      BY <1>3, <2>1, <3>1
    <3> QED BY <1>3, <3>2
  <2>2. CASE j # n + 1
    <3>1. i \in 1 .. n /\ j \in 1 .. n
      BY <1>6, <2>2
    <3>2. j - i + 1 <= a.most
      BY <1>6, <3>1 DEF StreakKnown, StretchKnown, MostKnown
    <3> QED BY <1>1, <1>3, <3>2
  <2> QED BY <2>1, <2>2
<1>7. ASSUME b.most > 0
      PROVE  \E i, j \in 1 .. n + 1 :
               i <= j /\ Lost(s, i, j) /\ j - i + 1 = b.most
  <2>1. CASE b.most = b.now
    <3> DEFINE i == n + 1 - b.now + 1
    <3>1. i \in 1 .. n + 1 /\ n + 1 \in 1 .. n + 1 /\ i <= n + 1 /\ n + 1 - i + 1 = b.most
      BY <1>3, <1>7, <2>1, SMTT(30)
    <3>2. Lost(s, i, n + 1)
      BY <1>4
    <3> HIDE DEF i
    <3> QED BY <3>1, <3>2
  <2>2. CASE b.most = a.most
    <3>1. PICK i \in 1 .. n, j \in 1 .. n : i <= j /\ Lost(s, i, j) /\ j - i + 1 = a.most
      BY <1>7, <2>2 DEF StreakKnown, StretchKnown, MostKnown
    <3>2. i \in 1 .. n + 1 /\ j \in 1 .. n + 1
      OBVIOUS
    <3> QED BY <2>2, <3>1, <3>2
  <2> QED BY <1>3, <2>1, <2>2
<1>8. \A i, j \in 1 .. n + 1 : i <= j /\ Lost(s, i, j) => j - i + 1 <= b.most
  BY <1>6
<1>9. b.most > 0 =>
         \E i, j \in 1 .. n + 1 : i <= j /\ Lost(s, i, j) /\ j - i + 1 = b.most
  BY <1>7
<1>10. StretchKnown(s, n + 1, b.now)
  <2>1. PICK t \in 0 .. n + 1 : t = b.now
    BY <1>3
  <2>2. Lost(s, (n + 1) - t + 1, n + 1)
    BY <1>4, <2>1, SMTT(30)
  <2>3. t < n + 1 => ~ (s[(n + 1) - t] < 0)
    BY <1>5, <2>1
  <2>4. StretchKnown(s, n + 1, t)
    BY <2>2, <2>3 DEF StretchKnown
  <2> QED BY <2>1, <2>4
<1>11. MostKnown(s, n + 1, b.most)
  BY <1>8, <1>9 DEF MostKnown
<1>12. StreakKnown(s, n + 1, b)
  BY <1>3, <1>10, <1>11 DEF StreakKnown
<1> QED BY <1>12 DEF b

LEMMA StreakOfPrefix ==
  ASSUME NEW s \in Seq(Int), NEW k \in 0 .. Len(s)
  PROVE  StreakKnown(s, k, Streak(s)[1 .. k])
<1> DEFINE T == {n \in 0 .. Len(s) : ~ StreakKnown(s, n, Streak(s)[1 .. n])}
<1>1. SUFFICES ASSUME T # {} PROVE FALSE
  OBVIOUS
<1>2. PICK m \in T : \A n \in T : m <= n
  <2>1. T \in SUBSET Nat
    OBVIOUS
  <2> HIDE DEF T
  <2> QED BY <1>1, <2>1, LeastNatural
<1>3. m # 0
  <2>1. StreakKnown(s, 0, Calm)
    BY DEF StreakKnown, StretchKnown, MostKnown, Calm, Lost
  <2>2. StreakKnown(s, 0, Streak(s)[1 .. 0])
    BY <2>1, StreakUnfolds
  <2> QED BY <2>2
<1> DEFINE n == m - 1
<1>4. n \in Nat /\ n < Len(s) /\ n \in 0 .. Len(s) /\ m = n + 1
  BY <1>3
<1>5. n \notin T
  <2> SUFFICES ASSUME n \in T PROVE FALSE
    OBVIOUS
  <2>1. m <= n
    BY <1>2
  <2> QED BY <1>4, <2>1
<1>6. StreakKnown(s, n, Streak(s)[1 .. n])
  BY <1>4, <1>5
<1> HIDE DEF n
<1>7. Streak(s)[1 .. n + 1] = StreakStep(Streak(s)[1 .. n], s[n + 1])
  BY <1>4, StreakUnfolds
<1>8. StreakKnown(s, n + 1, Streak(s)[1 .. n + 1])
  BY <1>4, <1>6, <1>7, StreakGoesOn
<1> QED BY <1>4, <1>8

LEMMA LongestStreakReported ==
  ASSUME NEW s \in Seq(Int), NEW m, m = Streak(s)[DOMAIN s].most
  PROVE  /\ m \in Nat
         /\ \A i, j \in DOMAIN s : i <= j /\ Lost(s, i, j) => j - i + 1 <= m
         /\ m > 0 => \E i, j \in DOMAIN s :
                       i <= j /\ Lost(s, i, j) /\ j - i + 1 = m
<1>1. Len(s) \in 0 .. Len(s) /\ DOMAIN s = 1 .. Len(s)
  OBVIOUS
<1>2. StreakKnown(s, Len(s), Streak(s)[1 .. Len(s)])
  BY <1>1, StreakOfPrefix
<1> QED BY <1>1, <1>2 DEF StreakKnown, StretchKnown, MostKnown

(***************************************************************************)
(* The figures.                                                            *)
(***************************************************************************)

LEMMA DrawdownIsExact ==
  ASSUME ReportTypeOK
  PROVE  DrawdownIsWorstFall
<1> DEFINE falls == {f \in (DOMAIN curve) \X (DOMAIN curve) : f[1] <= f[2] /\ curve[f[1]] # 0}
           Fall(f) == <<curve[f[1]] - curve[f[2]], curve[f[1]]>>
<1>1. CASE curve = <<>>
  <2>1. falls = {} /\ MaxDrawdown = <<0, 1>>
    BY <1>1, MaxDrawdownIs
  <2> QED BY <2>1 DEF DrawdownIsWorstFall
<1>2. CASE curve # <<>>
  <2>1. PICK s \in Seq(Nat) : s = curve
    BY DEF ReportTypeOK
  <2>2. PICK w : w = MaxDrawdown
    OBVIOUS
  <2>3. w = Drawdown(s)[DOMAIN s].worst
    BY <1>2, <2>1, <2>2, MaxDrawdownIs
  <2>4. /\ \A i, j \in DOMAIN s : i <= j /\ s[i] # 0 => ~ Below(w, FallOf(s, i, j))
        /\ \/ w = <<0, 1>>
           \/ \E i, j \in DOMAIN s : i <= j /\ s[i] # 0 /\ w = FallOf(s, i, j)
    BY <1>2, <2>1, <2>3, WorstFallReported
  <2>5. ASSUME NEW f \in falls PROVE ~ Below(w, Fall(f))
    <3>1. f[1] \in DOMAIN s /\ f[2] \in DOMAIN s /\ f[1] <= f[2] /\ s[f[1]] # 0
      BY <2>1
    <3>2. Fall(f) = FallOf(s, f[1], f[2])
      BY <2>1 DEF FallOf
    <3> QED BY <2>4, <3>1, <3>2
  <2>6. w = <<0, 1>> \/ \E f \in falls : Fall(f) = w
    <3> SUFFICES ASSUME NEW i \in DOMAIN s, NEW j \in DOMAIN s, i <= j, s[i] # 0, w = FallOf(s, i, j)
                 PROVE  \E f \in falls : Fall(f) = w
      BY <2>4
    <3>1. <<i, j>> \in falls /\ Fall(<<i, j>>) = w
      BY <2>1 DEF FallOf
    <3> HIDE DEF falls
    <3> QED BY <3>1
  <2> QED BY <2>2, <2>5, <2>6 DEF DrawdownIsWorstFall
<1> QED BY <1>1, <1>2

LEMMA StreakIsExact ==
  ASSUME ReportTypeOK
  PROVE  StreakIsLongestRun
<1> DEFINE runs == {r \in (1 .. Len(pnls)) \X (0 .. Len(pnls)) :
                      r[2] >= r[1] - 1 /\ \A k \in r[1] .. r[2] : pnls[k] < 0}
<1>1. PICK s \in Seq(Int) : s = pnls
  BY DEF ReportTypeOK
<1>2. PICK m : m = MaxConsecutiveLosses
  OBVIOUS
<1>3. m = Streak(s)[DOMAIN s].most
  BY <1>1, <1>2, MaxConsecutiveLossesIs
<1>4. /\ m \in Nat
      /\ \A i, j \in DOMAIN s : i <= j /\ Lost(s, i, j) => j - i + 1 <= m
      /\ m > 0 => \E i, j \in DOMAIN s :
                    i <= j /\ Lost(s, i, j) /\ j - i + 1 = m
  BY <1>1, <1>3, LongestStreakReported
<1>5. ASSUME NEW r \in runs PROVE r[2] - r[1] + 1 <= m
  <2>1. r[1] \in 1 .. Len(s) /\ r[2] \in 0 .. Len(s) /\ r[2] >= r[1] - 1 /\ Lost(s, r[1], r[2])
    BY <1>1 DEF Lost
  <2>2. CASE r[1] <= r[2]
    <3>1. r[1] \in DOMAIN s /\ r[2] \in DOMAIN s
      BY <2>1, <2>2
    <3> QED BY <1>4, <2>1, <2>2, <3>1
  <2>3. CASE ~ (r[1] <= r[2])
    BY <1>4, <2>1, <2>3
  <2> QED BY <2>2, <2>3
<1>6. ASSUME pnls # <<>> PROVE \E r \in runs : r[2] - r[1] + 1 = m
  <2>1. CASE m > 0
    <3>1. PICK i \in DOMAIN s, j \in DOMAIN s : i <= j /\ Lost(s, i, j) /\ j - i + 1 = m
      BY <1>4, <2>1
    <3>2. <<i, j>> \in runs /\ <<i, j>>[2] - <<i, j>>[1] + 1 = m
      BY <1>1, <3>1 DEF Lost
    <3> HIDE DEF runs
    <3> QED BY <3>2
  <2>2. CASE m = 0
    <3>1. Len(s) \in Nat /\ Len(s) >= 1
      BY <1>1, <1>6
    <3>2. <<1, 0>> \in (1 .. Len(pnls)) \X (0 .. Len(pnls)) /\ 1 .. 0 = {}
      BY <1>1, <3>1
    <3>3. <<1, 0>> \in runs /\ <<1, 0>>[2] - <<1, 0>>[1] + 1 = m
      BY <2>2, <3>2
    <3> HIDE DEF runs
    <3> QED BY <3>3
  <2> QED BY <1>4, <2>1, <2>2
<1> QED BY <1>2, <1>5, <1>6 DEF StreakIsLongestRun

(* Gains and losses make the total, and tell its sign.                     *)
Gained(s) == {i \in DOMAIN s : s[i] > 0}
Forgone(s) == {i \in DOMAIN s : s[i] < 0}

LEMMA GrossSums ==
  ASSUME NEW s \in Seq(Int)
  PROVE  LET gain == SumFunctionOnSet(s, Gained(s))
             loss == SumFunctionOnSet(s, Forgone(s))
         IN  /\ SumFunctionOnSet(s, DOMAIN s) = gain + loss
             /\ gain \in Int /\ loss \in Int /\ gain >= 0 /\ loss <= 0
             /\ gain > 0 <=> Gained(s) # {}
             /\ loss < 0 <=> Forgone(s) # {}
             /\ IsFiniteSet(Gained(s)) /\ IsFiniteSet(Forgone(s))
             /\ Cardinality(Gained(s)) \in Nat /\ Cardinality(Forgone(s)) \in Nat
             /\ Cardinality(Gained(s)) = 0 <=> Gained(s) = {}
             /\ Cardinality(Forgone(s)) = 0 <=> Forgone(s) = {}
             /\ Cardinality(Gained(s)) + Cardinality(Forgone(s)) <= Len(s)
<1> DEFINE gain == SumFunctionOnSet(s, Gained(s))
           loss == SumFunctionOnSet(s, Forgone(s))
<1>1. IsFiniteSet(DOMAIN s) /\ Cardinality(DOMAIN s) = Len(s)
  <2>1. DOMAIN s = 1 .. Len(s) /\ Len(s) \in Nat
    OBVIOUS
  <2>2. IsFiniteSet(1 .. Len(s)) /\ Cardinality(1 .. Len(s)) = IF 1 > Len(s) THEN 0 ELSE Len(s) - 1 + 1
    BY <2>1, FS_Interval
  <2> QED BY <2>1, <2>2
<1>2. \A i \in DOMAIN s : s[i] \in Int
  OBVIOUS
<1>3. Gained(s) \in SUBSET DOMAIN s /\ Forgone(s) \in SUBSET DOMAIN s /\ Gained(s) \cap Forgone(s) = {}
  BY <1>2 DEF Gained, Forgone
<1>4. IsFiniteSet(Gained(s)) /\ IsFiniteSet(Forgone(s))
  BY <1>1, <1>3, FS_Subset
<1>5. IF Gained(s) = {} THEN gain = 0 ELSE gain > 0
  <2>1. \A i \in Gained(s) : s[i] \in Int /\ s[i] > 0
    BY <1>2 DEF Gained
  <2> QED BY <1>4, <2>1, SumOfGains
<1>6. IF Forgone(s) = {} THEN loss = 0 ELSE loss < 0
  <2>1. \A i \in Forgone(s) : s[i] \in Int /\ s[i] < 0
    BY <1>2 DEF Forgone
  <2> QED BY <1>4, <2>1, SumOfLosses
<1>7. gain \in Int /\ loss \in Int
  <2>1. (\A i \in Gained(s) : s[i] \in Int) /\ (\A i \in Forgone(s) : s[i] \in Int)
    BY <1>2, <1>3
  <2> QED BY <1>4, <2>1, SumType
<1>8. SumFunctionOnSet(s, DOMAIN s) = gain + loss
  BY <1>1, <1>2, SumBySign DEF Gained, Forgone
<1>9. /\ Cardinality(Gained(s)) \in Nat /\ Cardinality(Forgone(s)) \in Nat
      /\ Cardinality(Gained(s)) = 0 <=> Gained(s) = {}
      /\ Cardinality(Forgone(s)) = 0 <=> Forgone(s) = {}
  BY <1>4, FS_CardinalityType, FS_EmptySet
<1>10. Cardinality(Gained(s)) + Cardinality(Forgone(s)) <= Len(s)
  <2>1. Cardinality(Gained(s) \cup Forgone(s))
          = Cardinality(Gained(s)) + Cardinality(Forgone(s)) - Cardinality({})
    BY <1>3, <1>4, FS_Union
  <2>2. Cardinality({}) = 0
    BY FS_EmptySet
  <2>3. Cardinality(Gained(s) \cup Forgone(s)) <= Cardinality(DOMAIN s)
    <3>1. Gained(s) \cup Forgone(s) \in SUBSET DOMAIN s
      BY <1>3
    <3> QED BY <1>1, <3>1, FS_Subset
  <2> QED BY <1>1, <1>9, <2>1, <2>2, <2>3
<1> HIDE DEF gain, loss
<1>11. /\ gain >= 0 /\ loss <= 0
       /\ gain > 0 <=> Gained(s) # {}
       /\ loss < 0 <=> Forgone(s) # {}
  BY <1>5, <1>6, <1>7
<1> QED BY <1>4, <1>7, <1>8, <1>9, <1>10, <1>11 DEF gain, loss

(* The last clause of ReportIsConsistent: what the account lost from its   *)
(* first point to its last is one of the falls.                            *)
LEMMA ReturnWithinDrawdown ==
  ASSUME NEW s \in Seq(Nat), s # <<>>, NEW w, w = Drawdown(s)[DOMAIN s].worst,
         NEW r, r = IF Head(s) = 0 THEN <<0, 1>> ELSE <<s[Len(s)] - Head(s), Head(s)>>
  PROVE  ~ Below(r, <<- w[1], w[2]>>)
<1> DEFINE N == Len(s)
<1>1. /\ N \in DOMAIN s /\ 1 \in DOMAIN s /\ 1 <= N /\ Head(s) = s[1] /\ N = Len(s)
      /\ s[1] \in Nat /\ s[N] \in Nat
  OBVIOUS
<1>2. /\ w \in Fractions
      /\ \A i, j \in DOMAIN s : i <= j /\ s[i] # 0 => ~ Below(w, FallOf(s, i, j))
      /\ \/ w = <<0, 1>>
         \/ \E i, j \in DOMAIN s : i <= j /\ s[i] # 0 /\ w = FallOf(s, i, j)
  BY WorstFallReported
<1>3. w[1] \in Int /\ w[2] \in Nat \ {0}
  BY <1>2 DEF Fractions
<1> HIDE DEF N
<1>4. CASE s[1] = 0
  <2>1. w[1] >= 0
    <3>1. CASE w = <<0, 1>>
      BY <3>1
    <3>2. CASE w # <<0, 1>>
      <4>1. PICK i \in DOMAIN s : s[i] # 0
        BY <1>2, <3>2
      <4>2. s[i] \in Nat /\ s[i] > 0 /\ i <= i
        BY <4>1
      <4>3. ~ Below(w, FallOf(s, i, i)) /\ FallOf(s, i, i) = <<0, s[i]>>
        BY <1>2, <4>1, <4>2 DEF FallOf
      <4>4. PICK a \in Int, k \in Nat \ {0} : a = w[1] /\ k = s[i]
        BY <1>3, <4>2
      <4>5. ~ (a * k < 0 * w[2])
        BY <4>3, <4>4 DEF Below
      <4>6. ~ (a * k < 0)
        <5>1. 0 * w[2] = 0
          BY <1>3
        <5> QED BY <4>5, <5>1
      <4>7. a < 0 => a * k < 0
        OBVIOUS
      <4>8. a >= 0
        BY <4>6, <4>7
      <4> QED BY <4>4, <4>8
    <3> QED BY <3>1, <3>2
  <2>2. r = <<0, 1>>
    BY <1>1, <1>4
  <2>3. Below(r, <<- w[1], w[2]>>) <=> 0 * w[2] < (- w[1]) * 1
    BY <2>2 DEF Below
  <2> QED BY <1>3, <2>1, <2>3
<1>5. CASE s[1] # 0
  <2>1. ~ Below(w, FallOf(s, 1, N))
    BY <1>1, <1>2, <1>5
  <2>2. PICK p \in Nat, q \in Nat, a \in Int, d \in Nat \ {0} :
          p = s[1] /\ q = s[N] /\ a = w[1] /\ d = w[2]
    BY <1>1, <1>3
  <2>3. ~ (a * p < (p - q) * d)
    BY <2>1, <2>2 DEF FallOf, Below
  <2>4. r = <<q - p, p>>
    BY <1>1, <1>5, <2>2
  <2>5. Below(r, <<- w[1], w[2]>>) <=> (q - p) * d < (- a) * p
    <3>1. <<- w[1], w[2]>> = <<- a, d>>
      BY <2>2
    <3>2. Below(<<q - p, p>>, <<- a, d>>) <=> (q - p) * d < (- a) * p
      BY BelowIs
    <3> QED BY <2>4, <3>1, <3>2
  <2>6. (q - p) * d = - ((p - q) * d) /\ (- a) * p = - (a * p)
    OBVIOUS
  <2>7. (p - q) * d \in Int /\ a * p \in Int
    OBVIOUS
  <2> QED BY <2>3, <2>5, <2>6, <2>7
<1> QED BY <1>4, <1>5

LEMMA FiguresAgree ==
  ASSUME ReportTypeOK
  PROVE  ReportIsConsistent
<1> DEFINE gain == SumFunctionOnSet(pnls, Gained(pnls))
           loss == SumFunctionOnSet(pnls, Forgone(pnls))
           won == Cardinality(Gained(pnls))
           lost == Cardinality(Forgone(pnls))
           most == MaxConsecutiveLosses
<1>1. pnls \in Seq(Int) /\ \A i \in DOMAIN pnls : pnls[i] \in Int
  BY DEF ReportTypeOK
<1>2. Winners = Gained(pnls) /\ Losers = Forgone(pnls)
  BY <1>1 DEF Winners, Losers, IsWinner, Gained, Forgone
<1>3. /\ GrossProfit = gain /\ GrossLoss = loss
      /\ TotalPnl = SumFunctionOnSet(pnls, DOMAIN pnls)
      /\ Cardinality(Winners) = won /\ Cardinality(Losers) = lost
  <2>1. /\ GrossProfit = SumFunctionOnSet(pnls, Gained(pnls))
        /\ GrossLoss = SumFunctionOnSet(pnls, Forgone(pnls))
        /\ TotalPnl = SumFunctionOnSet(pnls, DOMAIN pnls)
    BY DEF GrossProfit, GrossLoss, TotalPnl, Gained, Forgone
  <2> QED BY <1>2, <2>1
<1>4. /\ SumFunctionOnSet(pnls, DOMAIN pnls) = gain + loss
      /\ gain \in Int /\ loss \in Int /\ gain >= 0 /\ loss <= 0
      /\ gain > 0 <=> Gained(pnls) # {}
      /\ loss < 0 <=> Forgone(pnls) # {}
      /\ won \in Nat /\ lost \in Nat
      /\ won = 0 <=> Gained(pnls) = {}
      /\ lost = 0 <=> Forgone(pnls) = {}
      /\ won + lost <= Len(pnls) /\ Len(pnls) \in Nat
  <2>1. PICK s \in Seq(Int) : s = pnls
    BY <1>1
  <2> QED BY <2>1, GrossSums
<1>5. most \in Nat /\ (most > 0 <=> Forgone(pnls) # {})
  <2>1. PICK s \in Seq(Int) : s = pnls
    BY <1>1
  <2>2. PICK m : m = most
    OBVIOUS
  <2>3. m = Streak(s)[DOMAIN s].most
    BY <2>1, <2>2, MaxConsecutiveLossesIs
  <2>4. /\ m \in Nat
        /\ \A i, j \in DOMAIN s : i <= j /\ Lost(s, i, j) => j - i + 1 <= m
        /\ m > 0 => \E i, j \in DOMAIN s : i <= j /\ Lost(s, i, j) /\ j - i + 1 = m
    BY <2>3, LongestStreakReported
  <2>5. ASSUME m > 0 PROVE Forgone(s) # {}
    <3>1. PICK i \in DOMAIN s, j \in DOMAIN s : i <= j /\ Lost(s, i, j)
      BY <2>4, <2>5
    <3>2. i \in i .. j
      BY <3>1
    <3> QED BY <3>1, <3>2 DEF Lost, Forgone
  <2>6. ASSUME NEW k \in Forgone(s) PROVE m > 0
    <3>1. k \in DOMAIN s /\ s[k] < 0 /\ k \in Int
      BY DEF Forgone
    <3>2. Lost(s, k, k) /\ k <= k
      BY <3>1 DEF Lost
    <3>3. k - k + 1 <= m
      BY <2>4, <3>1, <3>2
    <3> QED BY <2>4, <3>1, <3>3
  <2> QED BY <2>1, <2>2, <2>4, <2>5, <2>6
<1>6. /\ Calculate.num_winners = won /\ Calculate.num_losers = lost
      /\ Calculate.total_trades = Len(pnls)
      /\ Calculate.max_consecutive_losses = most
      /\ Calculate.profit_factor = ProfitFactor
      /\ Calculate.avg_win = AvgWin /\ Calculate.avg_loss = AvgLoss
      /\ Calculate.win_rate = WinRate
      /\ Calculate.sharpe = SharpeSign /\ Calculate.sortino = SortinoSign
      /\ Calculate.total_return = TotalReturn
      /\ Calculate.max_drawdown = MaxDrawdown
  BY <1>3 DEF Calculate
<1> HIDE DEF gain, loss, won, lost, most
<1>7. /\ ProfitFactor = IF loss = 0 THEN IF gain = 0 THEN <<0, 1>> ELSE <<1, 0>>
                               ELSE <<gain, - loss>>
  BY <1>3, <1>4 DEF ProfitFactor, Magnitude
<1>8. Below(<<1, 1>>, ProfitFactor) <=> gain + loss > 0
  <2>1. CASE loss = 0 /\ gain = 0
    BY <1>7, <2>1 DEF Below
  <2>2. CASE loss = 0 /\ gain # 0
    BY <1>4, <1>7, <2>2 DEF Below
  <2>3. CASE loss # 0
    <3>1. ProfitFactor = <<gain, - loss>>
      BY <1>7, <2>3
    <3>2. Below(<<1, 1>>, <<gain, - loss>>) <=> 1 * (- loss) < gain * 1
      BY DEF Below
    <3>3. 1 * (- loss) < gain * 1 <=> gain + loss > 0
      BY <1>4
    <3> QED BY <3>1, <3>2, <3>3
  <2> QED BY <2>1, <2>2, <2>3
<1>9. Below(<<0, 1>>, ProfitFactor) <=> gain > 0
  <2>1. CASE loss = 0 /\ gain = 0
    BY <1>7, <2>1 DEF Below
  <2>2. CASE loss = 0 /\ gain # 0
    BY <1>4, <1>7, <2>2 DEF Below
  <2>3. CASE loss # 0
    <3>1. ProfitFactor = <<gain, - loss>>
      BY <1>7, <2>3
    <3>2. Below(<<0, 1>>, <<gain, - loss>>) <=> 0 * (- loss) < gain * 1
      BY DEF Below
    <3>3. 0 * (- loss) < gain * 1 <=> gain > 0
      BY <1>4
    <3> QED BY <3>1, <3>2, <3>3
  <2> QED BY <2>1, <2>2, <2>3
<1>10. Below(<<0, 1>>, AvgWin) <=> gain > 0
  <2>1. CASE Gained(pnls) = {}
    <3>1. AvgWin = <<0, 1>>
      BY <1>2, <2>1 DEF AvgWin
    <3> QED BY <1>4, <2>1, <3>1 DEF Below
  <2>2. CASE Gained(pnls) # {}
    <3>1. AvgWin = <<gain, won>>
      BY <1>2, <1>3, <2>2 DEF AvgWin
    <3>2. Below(<<0, 1>>, <<gain, won>>) <=> 0 * won < gain * 1
      BY DEF Below
    <3> QED BY <1>4, <3>1, <3>2
  <2> QED BY <2>1, <2>2
<1>11. Below(AvgLoss, <<0, 1>>) <=> loss < 0
  <2>1. CASE Forgone(pnls) = {}
    <3>1. AvgLoss = <<0, 1>>
      BY <1>2, <2>1 DEF AvgLoss
    <3> QED BY <1>4, <2>1, <3>1 DEF Below
  <2>2. CASE Forgone(pnls) # {}
    <3>1. AvgLoss = <<loss, lost>>
      BY <1>2, <1>3, <2>2 DEF AvgLoss
    <3>2. Below(<<loss, lost>>, <<0, 1>>) <=> loss * 1 < 0 * lost
      BY DEF Below
    <3> QED BY <1>4, <3>1, <3>2
  <2> QED BY <2>1, <2>2
<1>12. ~ Below(<<1, 1>>, WinRate)
  <2>1. CASE pnls = <<>>
    BY <2>1 DEF WinRate, Below
  <2>2. CASE pnls # <<>>
    <3>1. WinRate = <<won, Len(pnls)>>
      BY <1>3, <2>2 DEF WinRate
    <3>2. Below(<<1, 1>>, <<won, Len(pnls)>>) <=> 1 * Len(pnls) < won * 1
      BY DEF Below
    <3> QED BY <1>4, <3>1, <3>2
  <2> QED BY <2>1, <2>2
<1>13. SharpeSign * SortinoSign >= 0
  <2>1. MeanSign \in {-1, 0, 1}
    BY DEF MeanSign, Sign
  <2>2. SharpeSign \in {MeanSign, 0} /\ SortinoSign \in {MeanSign, 0}
    BY DEF SharpeSign, SortinoSign
  <2>3. PICK m \in {-1, 0, 1} : m = MeanSign
    BY <2>1
  <2>4. PICK a \in {m, 0} : a = SharpeSign
    BY <2>2, <2>3
  <2>5. PICK b \in {m, 0} : b = SortinoSign
    BY <2>2, <2>3
  <2>6. a * b >= 0
    OBVIOUS
  <2> QED BY <2>4, <2>5, <2>6
<1>14. curve # <<>> /\ Head(curve) = StartingCapital =>
         ~ Below(TotalReturn, <<- MaxDrawdown[1], MaxDrawdown[2]>>)
  <2> SUFFICES ASSUME curve # <<>>, Head(curve) = StartingCapital
               PROVE  ~ Below(TotalReturn,
                                     <<- MaxDrawdown[1], MaxDrawdown[2]>>)
    OBVIOUS
  <2>1. PICK s \in Seq(Nat) : s = curve
    BY DEF ReportTypeOK
  <2>2. PICK w : w = MaxDrawdown
    OBVIOUS
  <2>3. PICK r : r = TotalReturn
    OBVIOUS
  <2>4. w = Drawdown(s)[DOMAIN s].worst
    BY <2>1, <2>2, MaxDrawdownIs
  <2>5. r = IF Head(s) = 0 THEN <<0, 1>> ELSE <<s[Len(s)] - Head(s), Head(s)>>
    BY <2>1, <2>3 DEF TotalReturn, AccountPnl, FinalEquity, Last
  <2>6. ~ Below(r, <<- w[1], w[2]>>)
    BY <2>1, <2>4, <2>5, ReturnWithinDrawdown
  <2> QED BY <2>2, <2>3, <2>6
<1>15. SumFunctionOnSet(pnls, DOMAIN pnls) > 0 <=> gain + loss > 0
  BY <1>4
<1> QED BY <1>3, <1>4, <1>5, <1>6, <1>8, <1>9, <1>10, <1>11, <1>12, <1>13, <1>14, <1>15
        DEF ReportIsConsistent

LEMMA ReportTypeInvariant == ReportSpec => []ReportTypeOK
<1>1. ReportInit => ReportTypeOK
  BY DEF ReportInit, ReportTypeOK
<1>2. ReportTypeOK /\ [ReportNext]_metricsVars => ReportTypeOK'
  <2> SUFFICES ASSUME ReportTypeOK, [ReportNext]_metricsVars PROVE ReportTypeOK'
    OBVIOUS
  <2>1. ASSUME NEW pnl \in Gains \union {- loss : loss \in Losses}, Record(pnl)
        PROVE  ReportTypeOK'
    <3>1. pnl \in Int
      BY MetricsAssumption DEF MetricsAssumption
    <3> QED BY <2>1, <3>1 DEF Record, ReportTypeOK
  <2>2. ASSUME NEW point \in Equities, SnapshotEquity(point) PROVE ReportTypeOK'
    <3>1. point \in Nat
      BY MetricsAssumption DEF MetricsAssumption
    <3> QED BY <2>2, <3>1 DEF SnapshotEquity, ReportTypeOK
  <2>3. CASE UNCHANGED metricsVars
    BY <2>3 DEF metricsVars, ReportTypeOK
  <2> QED BY <2>1, <2>2, <2>3 DEF ReportNext
<1> QED BY <1>1, <1>2, PTL DEF ReportSpec

(* The report of a backtest is exact: with one peak and one worst fall     *)
(* kept, the drawdown is the worst fall of the whole curve; with one       *)
(* running count, the streak is the longest of the log; and the figures    *)
(* never contradict each other (metrics.rs BacktestMetrics::calculate).    *)
THEOREM FiguresAlwaysExact == ReportSpec => []FiguresAreExact
<1>1. ReportTypeOK => FiguresAreExact
  <2> SUFFICES ASSUME ReportTypeOK PROVE FiguresAreExact
    OBVIOUS
  <2>1. DrawdownIsWorstFall
    BY DrawdownIsExact
  <2>2. StreakIsLongestRun
    BY StreakIsExact
  <2>3. ReportIsConsistent
    BY FiguresAgree
  <2> QED BY <2>1, <2>2, <2>3 DEF FiguresAreExact
<1> QED BY <1>1, ReportTypeInvariant, PTL

=============================================================================
