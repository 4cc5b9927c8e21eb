-------------------------- MODULE SupportResistance --------------------------
(***************************************************************************)
(* Support and resistance levels (pa-engine/src/support_resistance.rs) in  *)
(* the order of the detector's list, which decides which of several near   *)
(* levels a new price joins.  Only swing points make levels.               *)
(***************************************************************************)
EXTENDS Bars

CONSTANT MaxLevels    \* levels kept (50)

ASSUME LevelsAssumption == MaxLevels \in Nat \ {0}

Levels ==
  [price : Int, type : {"SwingHigh", "SwingLow"}, strength : Nat, first : Nat, last : Nat]

(* A level that is met again moves halfway to the price.                   *)
Strengthened(l, price, time) ==
  [l EXCEPT !.strength = @ + 1, !.last = time, !.price = (@ + price) \div 2]

(* The first level within the tolerance is strengthened; without one, the  *)
(* price becomes a level of its own.                                       *)
AddOrStrengthen(levels, price, type, time, tolerance) ==
  LET near == SelectInSeq(levels, LAMBDA l : Magnitude(l.price - price) <= tolerance)
  IN  IF near > 0
      THEN [levels EXCEPT ![near] = Strengthened(@, price, time)]
      ELSE Append(levels, [price |-> price, type |-> type, strength |-> 1,
                           first |-> time, last |-> time])

Touches(b, price) == b.low <= price /\ price <= b.high

CheckTouches(levels, b, time) ==
  [i \in DOMAIN levels |->
     IF Touches(b, levels[i].price)
     THEN [levels[i] EXCEPT !.strength = @ + 1, !.last = time]
     ELSE levels[i]]

(* Strongest first, then the latest touched; the sort keeps ties in place. *)
StrongerThan(levels, i, j) ==
  \/ levels[i].strength > levels[j].strength
  \/ /\ levels[i].strength = levels[j].strength
     /\ \/ levels[i].last > levels[j].last
        \/ levels[i].last = levels[j].last /\ i < j

(* A mistaken Pruned: the limit is forgotten. *)
Unpruned(levels) == levels

Pruned(levels) ==
  IF Len(levels) <= MaxLevels THEN levels
  ELSE LET Rank(i) == Cardinality({j \in DOMAIN levels : StrongerThan(levels, j, i)}) + 1
       IN  [k \in 1 .. MaxLevels |-> levels[CHOOSE i \in DOMAIN levels : Rank(i) = k]]

(* The last swing high and the last swing low, if there is one of each. *)
UpdateLevels(levels, b, time, highs, lows, tolerance) ==
  LET afterHigh ==
        IF highs = <<>> THEN levels
        ELSE AddOrStrengthen(levels, Last(highs).price, "SwingHigh", Last(highs).index, tolerance)
      afterLow ==
        IF lows = <<>> THEN afterHigh
        ELSE AddOrStrengthen(afterHigh, Last(lows).price, "SwingLow", Last(lows).index, tolerance)
  IN  Pruned(CheckTouches(afterLow, b, time))

(* max_by_key returns the last of equal keys and min_by_key the first. *)
NearestSupport(levels, price) ==
  {levels[i] : i \in {i \in DOMAIN levels :
     /\ levels[i].price < price
     /\ \A j \in DOMAIN levels : levels[j].price < price =>
          \/ levels[j].price < levels[i].price
          \/ levels[j].price = levels[i].price /\ j <= i}}

NearestResistance(levels, price) ==
  {levels[i] : i \in {i \in DOMAIN levels :
     /\ levels[i].price > price
     /\ \A j \in DOMAIN levels : levels[j].price > price =>
          \/ levels[j].price > levels[i].price
          \/ levels[j].price = levels[i].price /\ i <= j}}

=============================================================================
