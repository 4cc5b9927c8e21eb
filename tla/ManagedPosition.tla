--------------------------- MODULE ManagedPosition --------------------------
(***************************************************************************)
(* One position under the strategy's management                            *)
(* (strategy/src/position_manager.rs, ManagedPosition and the body of      *)
(* update; strategy/src/stop_target.rs, trailing_stop).  The counters that *)
(* nothing reads (bars_held, partial_exits) and the copies of the original *)
(* stop and target are left out.                                           *)
(***************************************************************************)
EXTENDS Position

ManagedPositions == [position : Positions, risk : Int, trailing : BOOLEAN]

(* add_position: the trail is off until the position has earned its risk. *)
Manage(position, risk) ==
  [position |-> position, risk |-> risk, trailing |-> FALSE]

(* A mistaken LockedByT1: a Short has to settle, too. *)
LockedBothWays(p, date) == ~ IsT1Settled(p, date)

(* The long position may not be sold on the date it was bought. *)
LockedByT1(p, date) == p.direction = "Long" /\ ~ IsT1Settled(p, date)

ExitLevelHit(p, price) == IsStopHit(p, price) \/ IsTargetHit(p, price)

(* update asks for the position to be closed at this price and date. *)
WantsClose(m, price, date) ==
  /\ ExitLevelHit(m.position, price)
  /\ ~ LockedByT1(m.position, date)

(* The trail is activated by a gain of one unit of risk, for good. *)
TrailActive(m, price) ==
  \/ m.trailing
  \/ /\ m.risk > 0
     /\ Gain(m.position.direction, m.position.entry, price) >= m.risk

(* trailing_stop: the best swing level beyond the current stop, if any. *)
TrailCandidates(p, lows, highs) ==
  IF p.direction = "Long"
  THEN {l \in lows : l > p.stop}
  ELSE {h \in highs : h < p.stop}

TrailingStop(p, lows, highs) ==
  LET levels == TrailCandidates(p, lows, highs)
  IN  IF levels = {} THEN p.stop
      ELSE CHOOSE s \in levels : \A t \in levels :
              IF p.direction = "Long" THEN t <= s ELSE t >= s

(* The managed position after update: a hit exit level, acted on or locked *)
(* by T+1, ends the handler before the trail is looked at.                 *)
Managed(m, price, lows, highs) ==
  LET p  == UpdatePrice(m.position, price)
      on == TrailActive(m, price)
  IN  IF ExitLevelHit(m.position, price)
      THEN [m EXCEPT !.position = p]
      ELSE [m EXCEPT !.trailing = on,
                     !.position = IF on
                                  THEN [p EXCEPT !.stop = TrailingStop(p, lows, highs)]
                                  ELSE p]

=============================================================================
