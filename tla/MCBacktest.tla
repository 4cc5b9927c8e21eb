----------------------------- MODULE MCBacktest -----------------------------
(***************************************************************************)
(* Small instances of Backtest for TLC.                                    *)
(***************************************************************************)
EXTENDS Backtest, TLC

Shape(o, h, l, c) == [open |-> o, high |-> h, low |-> l, close |-> c]

(* Prices 1..5: signal bars of one and of two units of risk, bars that     *)
(* fill buy orders and stop out Shorts, one that fills sell orders and     *)
(* closes below every Long's stop, and one that leaves a buy order behind  *)
(* at a level the others do not reach, so that a buy and a sell order are  *)
(* pending together.                                                       *)
MCShapes ==
  {Shape(2, 3, 2, 3), Shape(3, 3, 2, 2), Shape(3, 4, 3, 4), Shape(2, 2, 1, 1),
   Shape(2, 3, 1, 2), Shape(4, 5, 4, 5)}

OrderSymmetry == Permutations(OrderIds)

=============================================================================
