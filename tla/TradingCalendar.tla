--------------------------- MODULE TradingCalendar ---------------------------
(***************************************************************************)
(* Trading days (china-market/src/calendar.rs).  A date is a day number;   *)
(* day 1 is 2025-01-01, a Wednesday.  A calendar is a record of two sets   *)
(* of dates.                                                               *)
(***************************************************************************)
EXTENDS Integers, FiniteSetsExt

CONSTANT MaxBreak   \* bound: the longest run of days without trading

ASSUME MaxBreakAssumption == MaxBreak \in Nat \ {0}

EmptyCalendar == [holidays |-> {}, makeupDays |-> {}]

(* The first day, less one, of each month the calendar of 2025 names.      *)
January == 0
February == 31
April == 90
May == 120
June == 151
September == 243
October == 273

China2025 ==
  [holidays |->
     {January + d : d \in {1} \union 28 .. 31} \union {February + d : d \in 1 .. 4}
       \union {April + d : d \in 4 .. 6} \union {May + d : d \in (1 .. 5) \union {31}}
       \union {June + d : d \in 1 .. 2} \union {October + d : d \in 1 .. 8},
   makeupDays |->
     {January + 26, February + 8, April + 27, September + 28, October + 11}]

(* Monday is 0. *)
Weekday(date) == (date + 1) % 7

IsWeekend(date) == Weekday(date) \in {5, 6}

(* A makeup day overrides the weekend, a holiday overrides both. *)
IsTradingDay(cal, date) ==
  /\ date \in cal.makeupDays \/ ~ IsWeekend(date)
  /\ date \notin cal.holidays

(* A mistaken NextTradingDay: the day itself will do. *)
ThisOrNextTradingDay(cal, from) ==
  Min({d \in from .. from + MaxBreak : IsTradingDay(cal, d)})

NextTradingDay(cal, from) ==
  Min({d \in from + 1 .. from + MaxBreak : IsTradingDay(cal, d)})

PrevTradingDay(cal, from) ==
  Max({d \in from - MaxBreak .. from - 1 : IsTradingDay(cal, d)})

(* Both dates are left out of the count. *)
TradingDaysBetween(cal, start, end) ==
  Cardinality({d \in start + 1 .. end - 1 : IsTradingDay(cal, d)})

=============================================================================
