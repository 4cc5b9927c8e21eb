------------------------------ MODULE Breakout ------------------------------
(***************************************************************************)
(* Breakouts of levels and what becomes of them                            *)
(* (pa-engine/src/breakout.rs).  A breakout is pending until the close     *)
(* falls back through its level, which moves it to the failed ones, or     *)
(* until it has lasted ConfirmationBars bars, which confirms it; confirmed *)
(* ones stay in the active list for good.                                  *)
(***************************************************************************)
EXTENDS Bars

CONSTANTS
  ConfirmationBars,    \* bars a breakout has to hold (3)
  MaxFailed            \* failed breakouts kept (20)

ASSUME BreakoutAssumption == ConfirmationBars \in Nat \ {0} /\ MaxFailed \in Nat \ {0}

Breakouts ==
  [direction : {"Long", "Short"}, level : Int, index : Nat,
   strength : {"Strong", "Moderate", "Weak"},
   status : {"Pending", "Confirmed", "Failed"}, settled : Nat]

NewBreakouts == [active |-> <<>>, failed |-> <<>>, index |-> 0]

FellBack(k, b) ==
  IF k.direction = "Long" THEN b.close < k.level ELSE b.close > k.level

(* A mistaken HeldLongEnough: one bar more is asked for. *)
HeldLonger(k, index) == index - k.index > ConfirmationBars

HeldLongEnough(k, index) == index - k.index >= ConfirmationBars

(* settled is the bars held by a confirmed one, the bar that ended a failed *)
(* one, and zero until then.                                                *)
FollowThrough(k, b, index) ==
  IF k.status # "Pending" THEN k
  ELSE IF FellBack(k, b) THEN [k EXCEPT !.status = "Failed", !.settled = index]
  ELSE IF HeldLongEnough(k, index)
       THEN [k EXCEPT !.status = "Confirmed", !.settled = index - k.index]
  ELSE k

StrengthBeyond(b, distance) ==
  IF AtLeast(distance, b, 60) THEN "Strong"
  ELSE IF AtLeast(distance, b, 30) THEN "Moderate"
  ELSE "Weak"

BreaksUp(b, price) == b.close > price /\ b.open <= price
BreaksDown(b, price) == b.close < price /\ b.open >= price

BreakoutOf(b, price, index) ==
  [direction |-> IF b.close > price THEN "Long" ELSE "Short",
   level     |-> price,
   index     |-> index,
   strength  |-> StrengthBeyond(b, Magnitude(b.close - price)),
   status    |-> "Pending",
   settled   |-> 0]

BrokenLevels(levels, b) ==
  Selected(levels, {i \in DOMAIN levels :
                      BreaksUp(b, levels[i].price) \/ BreaksDown(b, levels[i].price)})

(* Every broken level adds a breakout, whether or not one is active there. *)
UpdateBreakouts(d, b, levels) ==
  LET followed == [i \in DOMAIN d.active |-> FollowThrough(d.active[i], b, d.index)]
      failed   == {i \in DOMAIN followed : followed[i].status = "Failed"}
      kept     == Selected(followed, DOMAIN followed \ failed)
      broken   == BrokenLevels(levels, b)
  IN  [active |-> kept \o [i \in DOMAIN broken |-> BreakoutOf(b, broken[i].price, d.index)],
       failed |-> RememberAll(d.failed, Selected(followed, failed), MaxFailed),
       index  |-> d.index + 1]

=============================================================================
