----------------------------- MODULE MarketClock -----------------------------
(***************************************************************************)
(* The market's clock and calendar at work: a program that sets up its     *)
(* calendar, lives through the minutes of a trading day and goes on with   *)
(* the next one.  It puts the rules of china-market/src/session.rs and     *)
(* calendar.rs and the entry windows of strategy/src/session_filter.rs     *)
(* side by side.                                                           *)
(***************************************************************************)
EXTENDS SessionFilter, TradingCalendar

CONSTANTS
  FirstDay,   \* the trading day on which the program starts
  Editable,   \* bound: dates that may be added to the calendar
  MaxDays     \* bound: trading days of a behaviour

ASSUME MarketClockAssumption ==
  /\ FirstDay \in Nat \ {0}
  /\ Editable \subseteq Nat
  /\ MaxDays \in Nat \ {0}

VARIABLES
  calendar,  \* the TradingCalendar
  date,      \* today, a trading day
  minute,    \* the minute of the day
  days       \* history: the trading days so far, today included

clockVars == <<calendar, date, minute, days>>

ClockInit ==
  /\ calendar \in {EmptyCalendar, China2025}
  /\ IsTradingDay(calendar, FirstDay)
  /\ date = FirstDay /\ minute = 0 /\ days = 1

SettingUp == minute = 0 /\ days = 1

AddHoliday(d) ==
  /\ SettingUp /\ d # FirstDay
  /\ calendar' = [calendar EXCEPT !.holidays = @ \union {d}]
  /\ UNCHANGED <<date, minute, days>>

AddMakeupDay(d) ==
  /\ SettingUp
  /\ calendar' = [calendar EXCEPT !.makeupDays = @ \union {d}]
  /\ UNCHANGED <<date, minute, days>>

Minute ==
  /\ minute < 1439
  /\ minute' = minute + 1
  /\ UNCHANGED <<calendar, date, days>>

NextDay ==
  /\ minute = 1439 /\ days < MaxDays
  /\ date' = NextTradingDay(calendar, date)
  /\ minute' = 0
  /\ days' = days + 1
  /\ UNCHANGED calendar

ClockNext ==
  \/ \E d \in Editable : AddHoliday(d) \/ AddMakeupDay(d)
  \/ Minute
  \/ NextDay

ClockSpec == ClockInit /\ [][ClockNext]_clockVars

-----------------------------------------------------------------------------
Market == ChinaAShare

(* What is_pre_market, is_market_open, is_lunch_break and is_after_hours   *)
(* say of a minute.                                                        *)
PhasesOf(m) ==
  {phase \in {"pre", "open", "lunch", "after"} :
     \/ phase = "pre" /\ IsPreMarket(Market, m)
     \/ phase = "open" /\ IsMarketOpen(Market, m)
     \/ phase = "lunch" /\ IsLunchBreak(Market, m)
     \/ phase = "after" /\ IsAfterHours(Market, m)}

(* Every minute is in one phase of the day and no other, and positions are *)
(* opened just when the market has been open for five minutes or longer   *)
(* and stays so for more than fifteen.                                     *)
PhasesPartitionTheDay ==
  /\ Cardinality(PhasesOf(minute)) = 1
  /\ AllowsNewEntry(Market, WarmUpBars, minute) <=>
       \A m \in minute - NoEntryAfterOpen .. minute + NoEntryBeforeClose + 1 :
          PhasesOf(m) = {"open"}

(* The minutes until the next boundary are counted down one by one, and    *)
(* when they are over the phase of the day changes: a countdown never      *)
(* jumps and never misses a session's end.                                 *)
CountdownReachesBoundary ==
  [][Minute =>
       \A left \in MinutesUntilNextBoundary(Market, minute) :
          \/ left > 0 /\ MinutesUntilNextBoundary(Market, minute)' = {left - 1}
          \/ /\ left \in {0, 1}
             /\ PhasesOf(minute) # PhasesOf(minute)']_clockVars

(* The clock of the day adds up: its phases, its entry window and its      *)
(* countdowns tell the same boundaries.                                    *)
BoundariesAgree == []PhasesPartitionTheDay /\ CountdownReachesBoundary

(* Going from one trading day to the next skips no trading day: the days   *)
(* lived through are those that lie between, counted from either end, and  *)
(* the day before the next one is today, however holidays and makeup days  *)
(* were set up.                                                            *)
CalendarSkipsNoDay ==
  /\ IsTradingDay(calendar, date)
  /\ days > 1 => TradingDaysBetween(calendar, FirstDay, date) = days - 2
  /\ PrevTradingDay(calendar, NextTradingDay(calendar, date)) = date

=============================================================================
