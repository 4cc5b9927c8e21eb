----------------------------- MODULE MCAnalyzer -----------------------------
(***************************************************************************)
(* Small instances of Analyzer for TLC.                                    *)
(***************************************************************************)
EXTENDS Analyzer

(* A price step is 4096 units, so that the average and the levels halve     *)
(* exactly over the bars of a behaviour.                                   *)
Step == 4096

Shape(o, h, l, c) ==
  [open |-> Step * o, high |-> Step * h, low |-> Step * l, close |-> Step * c]

(* Two strong bars each way, one of them with a tail, and a doji: they     *)
(* make turning points at several prices, break levels and fall back, and  *)
(* stay in a range.                                                        *)
MCShapes ==
  {Shape(2, 5, 2, 5), Shape(4, 7, 4, 6), Shape(6, 6, 3, 3), Shape(4, 4, 1, 2),
   Shape(4, 5, 2, 4)}

MCConfig ==
  [emaPeriod |-> 3, lookback |-> 1, dojiPct |-> 20, tolerance |-> Step,
   maxRecent |-> 3, climax |-> 2, minRangeBars |-> 3]

MCTopPrice == 8 * Step
MCMaxPrice == 9 * Step

=============================================================================
