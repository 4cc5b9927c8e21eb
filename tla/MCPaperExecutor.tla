--------------------------- MODULE MCPaperExecutor --------------------------
(***************************************************************************)
(* Small instances of PaperExecutor for TLC.                               *)
(***************************************************************************)
EXTENDS PaperExecutor, TLC

CONSTANTS etf1, etf2

Order(security, direction, type, quantity, price, stop) ==
  [security |-> security, direction |-> direction, type |-> type,
   quantity |-> quantity, price |-> price, stop |-> stop]

(* Market, limit and stop-limit orders; an order of another security; and  *)
(* two orders the executor must refuse, of no units and of a broken lot.   *)
MCRequests ==
  {Order(etf1, "Long", "Market", 2, {}, {}),
   Order(etf1, "Long", "Limit", 2, {1}, {}),
   Order(etf1, "Short", "StopLimit", 2, {2}, {1}),
   Order(etf2, "Short", "Stop", 2, {}, {1}),
   Order(etf2, "Long", "Market", 0, {}, {}),
   Order(etf2, "Long", "Limit", 3, {2}, {})}

OrderSymmetry == Permutations(OrderIds)

=============================================================================
