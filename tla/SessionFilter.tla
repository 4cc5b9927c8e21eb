---------------------------- MODULE SessionFilter ----------------------------
(***************************************************************************)
(* When the strategy may open positions                                    *)
(* (strategy/src/session_filter.rs): the minutes of a session in which     *)
(* entries are allowed, once enough bars of the session were seen.  The    *)
(* filter's state is that number of bars.                                  *)
(***************************************************************************)
EXTENDS TradingSession

CONSTANT WarmUpBars    \* strategy.warm_up_bars

ASSUME WarmUpAssumption == WarmUpBars \in Nat

NoEntryBeforeClose == 15
NoEntryAfterOpen == 5

IsWarmedUp(seen) == seen >= WarmUpBars

IsNearOpen(s, time) ==
  \E open \in {s.morningOpen, s.afternoonOpen} :
     open <= time /\ time < open + NoEntryAfterOpen

IsNearClose(s, time) ==
  \E close \in {s.morningClose, s.afternoonClose} :
     close - NoEntryBeforeClose <= time /\ time <= close

AllowsNewEntry(s, seen, time) ==
  /\ IsWarmedUp(seen)
  /\ IsMarketOpen(s, time)
  /\ ~ IsLunchBreak(s, time)
  /\ ~ IsNearOpen(s, time)
  /\ ~ IsNearClose(s, time)

(* Positions are held overnight: nothing is closed for the end of the day. *)
ShouldForceClose(time) == FALSE

=============================================================================
