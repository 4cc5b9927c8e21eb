------------------------------ MODULE MCStrategy ------------------------------
(***************************************************************************)
(* Small instances of Strategy for TLC.                                    *)
(***************************************************************************)
EXTENDS Strategy

Step == 4096

Shape(o, h, l, c) ==
  [open |-> Step * o, high |-> Step * h, low |-> Step * l, close |-> Step * c]

(* A rise that made a turning point on either side: the levels the bars of *)
(* the behaviour break out of.                                             *)
MCPasts == {<<Shape(4, 5, 3, 3), Shape(2, 3, 1, 2), Shape(3, 6, 3, 5), Shape(4, 5, 3, 4)>>}

MCShapes == {Shape(4, 7, 4, 7), Shape(6, 8, 6, 8), Shape(5, 5, 2, 2)}

MCContextShapes == {Shape(2, 5, 2, 5)}

MCParams == [emaPeriod |-> 3, lookback |-> 1, dojiPct |-> 20, tolerance |-> Step]

MCDefaultConfig ==
  [emaPeriod |-> 20, lookback |-> 2, dojiPct |-> 20, tolerance |-> Step,
   maxRecent |-> 3, climax |-> 2, minRangeBars |-> 3]

(* 10:00, 10:05, 11:14, 11:20 and 13:05: the fourth is too late for an     *)
(* entry.                                                                  *)
MCSchedule == <<600, 605, 674, 680, 785>>

MCTickPrices == {2 * Step}

SecuritySymmetry == Permutations(Securities)

MCMaxPrice == 9 * Step

=============================================================================
