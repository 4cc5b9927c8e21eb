------------------------------ MODULE FillModel -----------------------------
(***************************************************************************)
(* The backtester's NextBarOpenFill model (backtester/src/fill_model.rs).  *)
(* Bar prices are integers; fills are quoted in units SlipUnit times finer *)
(* (10000 in the code, since slippage is given in basis points), so that   *)
(* slippage is exact.                                                      *)
(***************************************************************************)
EXTENDS Position

CONSTANTS
  SlipUnit,      \* denominator of the slippage fraction
  SlippageBps    \* numerator of the slippage fraction

ASSUME SlippageAssumption ==
  /\ SlipUnit \in Nat \ {0}
  /\ SlippageBps \in Nat

(* A bar price in money units. *)
Money(price) == price * SlipUnit

OrderTypes == {"Market", "Limit", "Stop", "StopLimit"}

(* A stop order waits for the market to trade through its level in the     *)
(* trade's direction, a limit order for the market to come back to it; a   *)
(* stop-limit order is treated as a stop order.                            *)
Triggered(order, bar) ==
  LET long == order.direction = "Long"
  IN  CASE order.type = "Market" -> TRUE
        [] order.type \in {"Stop", "StopLimit"} ->
             IF long THEN bar.high >= order.price ELSE bar.low <= order.price
        [] order.type = "Limit" ->
             IF long THEN bar.low <= order.price ELSE bar.high >= order.price

(* Slippage is always adverse: a buyer pays more, a seller receives less. *)
ApplySlippage(price, direction) ==
  IF direction = "Long"
  THEN price * (SlipUnit + SlippageBps)
  ELSE price * (SlipUnit - SlippageBps)

(* A triggered order is executed at the open of the bar, whatever its level. *)
FillPrice(order, bar) == ApplySlippage(bar.open, order.direction)

=============================================================================
