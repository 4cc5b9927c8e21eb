------------------------------ MODULE Position ------------------------------
(***************************************************************************)
(* The open position (core/src/position.rs): a record shared by the        *)
(* backtest portfolio and by the strategy's position manager.  Prices are  *)
(* integers of a common money unit; a date is the number of a CST calendar *)
(* day; an optional target is a set of at most one price.                  *)
(***************************************************************************)
EXTENDS Integers

Directions == {"Long", "Short"}

Positions ==
  [direction : Directions,
   quantity  : Nat,
   entry     : Int,
   current   : Int,
   stop      : Int,
   target    : SUBSET Int,
   openedAt  : Int]

(* What a price change is worth to a holder of one unit. *)
Gain(direction, from, to) == IF direction = "Long" THEN to - from ELSE from - to

UnrealizedPnl(p) == Gain(p.direction, p.entry, p.current) * p.quantity

UpdatePrice(p, price) == [p EXCEPT !.current = price]

(* Touching the level counts as a hit, for the stop and for the target. *)
IsStopHit(p, price) ==
  IF p.direction = "Long" THEN price <= p.stop ELSE price >= p.stop

IsTargetHit(p, price) ==
  \E tp \in p.target :
     IF p.direction = "Long" THEN price >= tp ELSE price <= tp

EntryValue(p) == p.entry * p.quantity

(* A mistaken IsT1Settled: settled on the opening date itself. *)
IsT0Settled(p, date) == date >= p.openedAt

(* T+1: settled only on a CST date strictly after the opening date. *)
IsT1Settled(p, date) == date > p.openedAt

=============================================================================
