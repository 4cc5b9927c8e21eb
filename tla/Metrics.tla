------------------------------- MODULE Metrics -------------------------------
(***************************************************************************)
(* The report of a backtest (backtester/src/metrics.rs, trade_log.rs): the *)
(* trade log and the equity curve grow bar by bar, and the figures are     *)
(* computed from them.  A trade is its realized profit; an equity point is *)
(* its equity.  Ratios the code computes in floating point are exact here: *)
(* a fraction is a pair <<numerator, denominator>>, a return is counted in *)
(* units of 1 / ReturnUnit, and of the Sharpe and Sortino ratios only the  *)
(* signs are modelled.                                                     *)
(***************************************************************************)
EXTENDS SequencesExt, Integers

CONSTANTS
  StartingCapital,
  Gains,       \* bound: realized profits of trades that gain
  Losses,      \* bound: what trades that lose lose
  Equities,    \* bound: equities of snapshots
  ReturnUnit,  \* a multiple of every equity
  MaxTrades,   \* bound: trades of a run
  MaxPoints    \* bound: points of the equity curve

ASSUME MetricsAssumption ==
  /\ StartingCapital \in Nat
  /\ Gains \subseteq Nat /\ Losses \subseteq Nat
  /\ Equities \subseteq Nat
  /\ ReturnUnit \in Nat \ {0} /\ \A e \in Equities \ {0} : ReturnUnit % e = 0
  /\ MaxTrades \in Nat /\ MaxPoints \in Nat

VARIABLES
  pnls,    \* TradeLog.trades, by their profits
  curve    \* Portfolio.equity_curve

metricsVars == <<pnls, curve>>

ReportInit == pnls = <<>> /\ curve = <<>>

(* TradeLog::record *)
Record(pnl) ==
  /\ Len(pnls) < MaxTrades
  /\ pnls' = Append(pnls, pnl)
  /\ UNCHANGED curve

SnapshotEquity(equity) ==
  /\ Len(curve) < MaxPoints
  /\ curve' = Append(curve, equity)
  /\ UNCHANGED pnls

ReportNext ==
  \/ \E pnl \in Gains \union {- loss : loss \in Losses} : Record(pnl)
  \/ \E equity \in Equities : SnapshotEquity(equity)

ReportSpec == ReportInit /\ [][ReportNext]_metricsVars

-----------------------------------------------------------------------------
(* The trade log.                                                          *)

IsWinner(pnl) == pnl > 0

(* The trades by their places in the log.                                  *)
Winners == {i \in DOMAIN pnls : IsWinner(pnls[i])}
Losers == {i \in DOMAIN pnls : ~ IsWinner(pnls[i]) /\ pnls[i] # 0}

TotalPnl == SumFunctionOnSet(pnls, DOMAIN pnls)
GrossProfit == SumFunctionOnSet(pnls, {i \in DOMAIN pnls : pnls[i] > 0})

GrossLoss == SumFunctionOnSet(pnls, {i \in DOMAIN pnls : pnls[i] < 0})

-----------------------------------------------------------------------------
(* The figures of the report.                                              *)

FinalEquity == IF curve = <<>> THEN StartingCapital ELSE Last(curve)

(* What the account gained, and as a fraction of what it began with.       *)
AccountPnl == FinalEquity - StartingCapital
TotalReturn ==
  IF StartingCapital = 0 THEN <<0, 1>> ELSE <<AccountPnl, StartingCapital>>

WinRate ==
  IF pnls = <<>> THEN <<0, 1>> ELSE <<Cardinality(Winners), Len(pnls)>>

Magnitude(x) == IF x < 0 THEN - x ELSE x

(* Infinity is the fraction 1/0. *)
ProfitFactor ==
  IF Magnitude(GrossLoss) = 0
  THEN IF GrossProfit = 0 THEN <<0, 1>> ELSE <<1, 0>>
  ELSE <<GrossProfit, Magnitude(GrossLoss)>>

AvgWin == IF Winners = {} THEN <<0, 1>> ELSE <<GrossProfit, Cardinality(Winners)>>
AvgLoss == IF Losers = {} THEN <<0, 1>> ELSE <<GrossLoss, Cardinality(Losers)>>

Below(f, g) == f[1] * g[2] < g[1] * f[2]

(* The fall from the highest equity so far, point by point; a highest      *)
(* equity of zero is passed over.                                          *)
DrawdownStep(acc, equity) ==
  LET peak == IF equity > acc.peak THEN equity ELSE acc.peak
      fall == <<peak - equity, peak>>
  IN  [peak |-> peak,
       worst |-> IF peak # 0 /\ Below(acc.worst, fall) THEN fall ELSE acc.worst]

(* A mistaken MaxDrawdown: the fall is taken from the first equity. *)
DrawdownFromStart ==
  IF curve = <<>> THEN <<0, 1>>
  ELSE FoldLeft(LAMBDA acc, equity : DrawdownStep([acc EXCEPT !.peak = Head(curve)], equity),
                [peak |-> Head(curve), worst |-> <<0, 1>>], curve).worst

MaxDrawdown ==
  IF curve = <<>> THEN <<0, 1>>
  ELSE FoldLeft(DrawdownStep, [peak |-> Head(curve), worst |-> <<0, 1>>], curve).worst

MaxConsecutiveLosses ==
  FoldLeft(LAMBDA acc, pnl :
             LET now == IF pnl < 0 THEN acc.now + 1 ELSE 0
             IN  [now |-> now, most |-> IF now > acc.most THEN now ELSE acc.most],
           [now |-> 0, most |-> 0], pnls).most

Sign(x) == IF x > 0 THEN 1 ELSE IF x < 0 THEN -1 ELSE 0

(* The changes from point to point, but for those from an equity of zero.  *)
Returns ==
  [i \in {n \in 1 .. Len(curve) - 1 : curve[n] # 0} |->
     (curve[i + 1] - curve[i]) * (ReturnUnit \div curve[i])]

MeanSign == Sign(SumFunctionOnSet(Returns, DOMAIN Returns))

(* With no returns, or returns that do not vary, the Sharpe ratio is zero; *)
(* without a falling one, the Sortino ratio.                               *)
SharpeVaries == \E i, j \in DOMAIN Returns : Returns[i] # Returns[j]
SortinoFalls == \E i \in DOMAIN Returns : Returns[i] < 0

SharpeSign == IF SharpeVaries THEN MeanSign ELSE 0
SortinoSign == IF SortinoFalls THEN MeanSign ELSE 0

(* BacktestMetrics::calculate *)
Calculate ==
  [final_equity |-> FinalEquity, total_pnl |-> AccountPnl,
   total_return |-> TotalReturn, max_drawdown |-> MaxDrawdown,
   sharpe |-> SharpeSign, sortino |-> SortinoSign,
   win_rate |-> WinRate, profit_factor |-> ProfitFactor,
   total_trades |-> Len(pnls), num_winners |-> Cardinality(Winners),
   num_losers |-> Cardinality(Losers), avg_win |-> AvgWin, avg_loss |-> AvgLoss,
   max_consecutive_losses |-> MaxConsecutiveLosses]

-----------------------------------------------------------------------------
(* The reported drawdown is the worst fall, relative to where it began,    *)
(* from any point of the curve to a later one, though the code keeps one   *)
(* peak and one worst fall only.                                           *)
DrawdownIsWorstFall ==
  LET falls == {f \in (DOMAIN curve) \X (DOMAIN curve) : f[1] <= f[2] /\ curve[f[1]] # 0}
      Fall(f) == <<curve[f[1]] - curve[f[2]], curve[f[1]]>>
  IN  /\ \A f \in falls : ~ Below(MaxDrawdown, Fall(f))
      /\ \/ MaxDrawdown = <<0, 1>>
         \/ \E f \in falls : Fall(f) = MaxDrawdown

(* The streak is the length of the longest stretch of losing trades in a   *)
(* row.                                                                    *)
StreakIsLongestRun ==
  LET runs == {r \in (1 .. Len(pnls)) \X (0 .. Len(pnls)) :
                 r[2] >= r[1] - 1 /\ \A k \in r[1] .. r[2] : pnls[k] < 0}
  IN  /\ \A r \in runs : r[2] - r[1] + 1 <= MaxConsecutiveLosses
      /\ pnls # <<>> => \E r \in runs : r[2] - r[1] + 1 = MaxConsecutiveLosses

(* The figures of the report agree with each other: gross profit and loss  *)
(* make the total, the profit factor is above one just when money was made *)
(* on balance, the average win and loss have the right signs, the two      *)
(* risk-adjusted ratios never point in different directions, and an        *)
(* account that ends below its first point has a drawdown of at least what *)
(* it lost.                                                                *)
ReportIsConsistent ==
  LET report == Calculate
  IN  /\ GrossProfit + GrossLoss = TotalPnl
      /\ report.num_winners + report.num_losers <= report.total_trades
      /\ Below(<<1, 1>>, report.profit_factor) <=> TotalPnl > 0
      /\ Below(<<0, 1>>, report.avg_win) <=> Below(<<0, 1>>, report.profit_factor)
      /\ Below(report.avg_loss, <<0, 1>>) <=> report.max_consecutive_losses > 0
      /\ ~ Below(<<1, 1>>, report.win_rate)
      /\ report.sharpe * report.sortino >= 0
      /\ curve # <<>> /\ Head(curve) = StartingCapital =>
           ~ Below(report.total_return,
                   <<- report.max_drawdown[1], report.max_drawdown[2]>>)

(* The report tells the curve and the trade log as they are: drawdown and  *)
(* streak are what a comparison of all points and all stretches gives, and *)
(* its figures agree.                                                      *)
FiguresAreExact == DrawdownIsWorstFall /\ StreakIsLongestRun /\ ReportIsConsistent

=============================================================================
