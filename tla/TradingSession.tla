--------------------------- MODULE TradingSession ---------------------------
(***************************************************************************)
(* The hours of a trading day (china-market/src/session.rs).  A time of    *)
(* day is a number of minutes after midnight, CST; the code's seconds are  *)
(* left out, since every boundary is a whole minute and bars start on one. *)
(***************************************************************************)
EXTENDS Integers

MinutesOfDay == 0 .. 1439

Sessions ==
  [morningOpen : MinutesOfDay, morningClose : MinutesOfDay,
   afternoonOpen : MinutesOfDay, afternoonClose : MinutesOfDay]

ChinaAShare ==
  [morningOpen |-> 570, morningClose |-> 690, afternoonOpen |-> 780, afternoonClose |-> 900]

(* Both ends of each half are open. *)
IsMarketOpen(s, time) ==
  \/ s.morningOpen <= time /\ time <= s.morningClose
  \/ s.afternoonOpen <= time /\ time <= s.afternoonClose

IsLunchBreak(s, time) == s.morningClose < time /\ time < s.afternoonOpen

IsPreMarket(s, time) == time < s.morningOpen

IsAfterHours(s, time) == time > s.afternoonClose

TotalTradingMinutes(s) ==
  (s.morningClose - s.morningOpen) + (s.afternoonClose - s.afternoonOpen)

(* A mistaken NextBoundary: a close is over in its own minute. *)
BoundaryAfter(s, time) ==
  {t \in {s.morningOpen, s.morningClose, s.afternoonOpen, s.afternoonClose} :
     time < t /\ \A u \in {s.morningOpen, s.morningClose, s.afternoonOpen, s.afternoonClose} :
                    time < u => t <= u}

(* The boundary that is waited for: a close counts until its own minute is *)
(* over, an open only before it.  There is none after the market's close.  *)
NextBoundary(s, time) ==
  IF time < s.morningOpen THEN {s.morningOpen}
  ELSE IF time <= s.morningClose THEN {s.morningClose}
  ELSE IF time < s.afternoonOpen THEN {s.afternoonOpen}
  ELSE IF time <= s.afternoonClose THEN {s.afternoonClose}
  ELSE {}

MinutesUntilNextBoundary(s, time) == {t - time : t \in NextBoundary(s, time)}

=============================================================================
