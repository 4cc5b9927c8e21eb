----------------------------- MODULE RiskManager ----------------------------
(***************************************************************************)
(* Position sizing and the daily limits (strategy/src/risk.rs), as         *)
(* operators over the risk manager's record                                *)
(*    [capital, dayStart, dayPnl, openCount].                              *)
(* Money is in the units of the caller; percentages are integers, and the  *)
(* quotients of the code are compared by cross multiplication, so nothing  *)
(* is rounded that the code's decimals keep.                               *)
(***************************************************************************)
EXTENDS Integers

CONSTANTS
  RiskCapital,       \* risk.initial_capital
  MaxRiskPct,        \* risk.max_risk_per_trade_pct
  MaxDailyLossPct,   \* risk.max_daily_loss_pct
  MaxOpenPositions   \* risk.max_open_positions

ASSUME RiskAssumption ==
  /\ RiskCapital \in Nat
  /\ MaxRiskPct \in Nat
  /\ MaxDailyLossPct \in Nat
  /\ MaxOpenPositions \in Nat

RiskStates ==
  [capital : Int, dayStart : Int, dayPnl : Int, openCount : Nat]

NewRiskState ==
  [capital |-> RiskCapital, dayStart |-> RiskCapital, dayPnl |-> 0, openCount |-> 0]

(* floor(capital * pct / 100 / risk / lot) * lot, and 0 below one lot. *)
PositionSize(r, riskPerUnit, lot) ==
  LET budget  == r.capital * MaxRiskPct
      perLot  == 100 * riskPerUnit * lot
  IN  IF budget < perLot THEN 0 ELSE (budget \div perLot) * lot

(* The day's realized loss, as a percentage of the day's starting capital, *)
(* reaches the limit.  A zero starting capital counts as no loss; dividing *)
(* by a negative one reverses the comparison.                              *)
LossLimitHit(r) ==
  IF r.dayStart = 0
  THEN MaxDailyLossPct = 0
  ELSE IF r.dayStart > 0
       THEN 100 * r.dayPnl <= -(MaxDailyLossPct * r.dayStart)
       ELSE 100 * r.dayPnl >= -(MaxDailyLossPct * r.dayStart)

(* A mistaken CanOpenPosition: only the number of positions is checked. *)
CountAllows(r) == r.openCount < MaxOpenPositions

CanOpenPosition(r) ==
  /\ r.openCount < MaxOpenPositions
  /\ ~ LossLimitHit(r)

RecordOpen(r) == [r EXCEPT !.openCount = @ + 1]

RecordClose(r, pnl) ==
  [r EXCEPT !.dayPnl    = @ + pnl,
            !.capital   = @ + pnl,
            !.openCount = IF @ > 0 THEN @ - 1 ELSE 0]

(* A mistaken ResetDaily: the position count is reset with the rest. *)
ResetAll(r) ==
  [capital |-> r.capital, dayStart |-> r.capital, dayPnl |-> 0, openCount |-> 0]

ResetDaily(r) ==
  [capital |-> r.capital, dayStart |-> r.capital, dayPnl |-> 0,
   openCount |-> r.openCount]

=============================================================================
