------------------------------ MODULE Aggregator ------------------------------
(***************************************************************************)
(* Bars out of ticks (market-data/src/aggregator.rs): one aggregator of    *)
(* one security and timeframe.  A tick comes at a whole minute of CST,     *)
(* counted from the midnight before the epoch; ticks come in the order of  *)
(* their times.  The history of the ticks is kept for the properties.      *)
(***************************************************************************)
EXTENDS TradingSession, Sequences, FiniteSetsExt

CONSTANTS
  TimeframeChoices,  \* the timeframes a run may aggregate
  Dates,             \* bound: days of ticks, counted from the epoch
  TickMinutes,       \* bound: minutes of the day of ticks
  TickPrices,        \* bound: prices of ticks
  TickVolumes,       \* bound: volumes of ticks
  MaxTicks,          \* bound: ticks of a behaviour
  NoBar              \* no partial bar (Option::None)

Timeframes ==
  {"Minute1", "Minute5", "Minute15", "Minute30", "Minute60", "Daily", "Weekly"}

(* The code counts seconds. *)
DurationMinutes(timeframe) ==
  CASE timeframe = "Minute1"  -> 1
    [] timeframe = "Minute5"  -> 5
    [] timeframe = "Minute15" -> 15
    [] timeframe = "Minute30" -> 30
    [] timeframe = "Minute60" -> 60
    [] timeframe = "Daily"    -> 1440
    [] timeframe = "Weekly"   -> 10080

PartialBars ==
  [start : Nat, open : Int, high : Int, low : Int, close : Int, volume : Nat]

(* CST is eight hours ahead of the clock that timestamps count. *)
CstOffset == 480

(* The exchange sends no tick between midnight and 8:00 CST, where the day *)
(* of the timestamps begins: it opens at 9:30.                             *)
ASSUME AggregatorAssumption ==
  /\ TimeframeChoices \subseteq Timeframes
  /\ Dates \subseteq Nat \ {0}
  /\ TickMinutes \subseteq CstOffset .. 1439
  /\ TickPrices \subseteq Int
  /\ TickVolumes \subseteq Nat
  /\ MaxTicks \in Nat
  /\ NoBar \notin PartialBars

VARIABLES
  timeframe,   \* BarAggregator.timeframe
  current,     \* BarAggregator.current_bar
  delivered,   \* the bar the last call returned
  ticks,       \* history: the ticks of the current bar
  ticksOfBar,  \* history: the ticks of the delivered bar
  dropped,     \* history: the time of the tick the last call left out, if any
  started,     \* history: the parts of days in which a tick went into a bar
  owed,        \* history: volume of the ticks taken, less that of the bars delivered
  last, count  \* history: the time of the last tick and the number of ticks

historyVars == <<ticks, ticksOfBar, dropped, started, owed, last, count>>
vars == <<timeframe, current, delivered, historyVars>>

Init ==
  /\ timeframe \in TimeframeChoices
  /\ current = NoBar /\ delivered = NoBar
  /\ ticks = <<>> /\ ticksOfBar = <<>>
  /\ dropped = {} /\ started = {} /\ owed = 0 /\ last = 0 /\ count = 0

-----------------------------------------------------------------------------
MinuteOf(time) == time % 1440
DateOf(time) == time \div 1440

SlotOf(time) == (time - CstOffset) \div DurationMinutes(timeframe)

IsBoundary(time) == SlotOf(time) > SlotOf(current.start)

(* A mistaken CrossesClose: the minute of the close is still its session. *)
PassesClose(time, close) ==
  MinuteOf(current.start) < close /\ MinuteOf(time) > close

(* A mistaken CrossesClose: a bar of the close's own minute ends, too. *)
MeetsClose(time, close) ==
  MinuteOf(current.start) <= close /\ MinuteOf(time) >= close

(* Times of day are compared, whatever their dates. *)
CrossesClose(time, close) ==
  MinuteOf(current.start) < close /\ MinuteOf(time) >= close

AtSessionBoundary(time) ==
  \/ CrossesClose(time, ChinaAShare.morningClose)
  \/ CrossesClose(time, ChinaAShare.afternoonClose)

PartialBar(tick) ==
  [start |-> tick.time, open |-> tick.price, high |-> tick.price, low |-> tick.price,
   close |-> tick.price, volume |-> tick.volume]

(* A mistaken Updated: a bar has the volume of its last tick. *)
UpdatedLastVolume(b, tick) ==
  [b EXCEPT !.high = IF tick.price > @ THEN tick.price ELSE @,
            !.low = IF tick.price < @ THEN tick.price ELSE @,
            !.close = tick.price,
            !.volume = tick.volume]

Updated(b, tick) ==
  [b EXCEPT !.high = IF tick.price > @ THEN tick.price ELSE @,
            !.low = IF tick.price < @ THEN tick.price ELSE @,
            !.close = tick.price,
            !.volume = @ + tick.volume]

Deliver(bar) == delivered' = bar /\ ticksOfBar' = ticks
DeliverNothing == delivered' = NoBar /\ ticksOfBar' = <<>>

(* The parts of a day that a close separates. *)
PartOf(time) ==
  LET m == MinuteOf(time)
  IN  IF m < ChinaAShare.morningClose THEN "morning"
      ELSE IF m < ChinaAShare.afternoonClose THEN "afternoon"
      ELSE "evening"

Take(tick, deliveredVolume) ==
  /\ started' = started \union {<<DateOf(tick.time), PartOf(tick.time)>>}
  /\ owed' = owed + tick.volume - deliveredVolume
  /\ dropped' = {}

(* process_tick at a session boundary: the bar is complete and the tick is *)
(* not counted in any.                                                     *)
CloseSession(tick) ==
  /\ current # NoBar /\ AtSessionBoundary(tick.time)
  /\ Deliver(current)
  /\ current' = NoBar /\ ticks' = <<>>
  /\ dropped' = {tick.time}
  /\ owed' = owed - current.volume
  /\ UNCHANGED started

(* process_tick in a new slot. *)
StartNext(tick) ==
  /\ current # NoBar /\ ~ AtSessionBoundary(tick.time) /\ IsBoundary(tick.time)
  /\ Deliver(current)
  /\ current' = PartialBar(tick) /\ ticks' = <<tick>>
  /\ Take(tick, current.volume)

(* process_tick in the slot of the partial bar. *)
Grow(tick) ==
  /\ current # NoBar /\ ~ AtSessionBoundary(tick.time) /\ ~ IsBoundary(tick.time)
  /\ DeliverNothing
  /\ current' = Updated(current, tick) /\ ticks' = Append(ticks, tick)
  /\ Take(tick, 0)

(* process_tick without a partial bar. *)
StartFirst(tick) ==
  /\ current = NoBar
  /\ DeliverNothing
  /\ current' = PartialBar(tick) /\ ticks' = <<tick>>
  /\ Take(tick, 0)

(* flush returns the partial bar, whatever the time. *)
Flush ==
  /\ current # NoBar
  /\ Deliver(current)
  /\ current' = NoBar /\ ticks' = <<>>
  /\ owed' = owed - current.volume
  /\ dropped' = {}
  /\ UNCHANGED <<timeframe, started, last, count>>

Ticks ==
  {[price |-> p, volume |-> v, time |-> d * 1440 + m] :
     p \in TickPrices, v \in TickVolumes, d \in Dates, m \in TickMinutes}

(* Ticks come in the order of their times, several of them in a minute. *)
Tick(tick) ==
  /\ last <= tick.time /\ last' = tick.time
  /\ count < MaxTicks /\ count' = count + 1
  /\ CloseSession(tick) \/ StartNext(tick) \/ Grow(tick) \/ StartFirst(tick)
  /\ UNCHANGED timeframe

Next ==
  \/ \E tick \in Ticks : Tick(tick)
  \/ Flush

Spec == Init /\ [][Next]_vars

-----------------------------------------------------------------------------
VolumeOf(seq) == SumFunctionOnSet([i \in DOMAIN seq |-> seq[i].volume], DOMAIN seq)

Summarises(bar, seq) ==
  LET prices == {seq[i].price : i \in DOMAIN seq}
  IN  /\ seq # <<>>
      /\ SlotOf(bar.start) = SlotOf(seq[1].time)
      /\ bar.open = seq[1].price
      /\ bar.high = Max(prices)
      /\ bar.low = Min(prices)
      /\ bar.close = seq[Len(seq)].price
      /\ bar.volume = VolumeOf(seq)

(* Every bar, delivered or partial, is the summary of just the ticks that  *)
(* went into it and is dated in their slot, and the volumes of all bars    *)
(* add up to that of the ticks that were not dropped at a session          *)
(* boundary: no volume is counted twice or lost unseen.                    *)
BarsSummariseTheirTicks ==
  /\ current # NoBar => Summarises(current, ticks)
  /\ delivered # NoBar => Summarises(delivered, ticksOfBar)
  /\ owed = IF current = NoBar THEN 0 ELSE current.volume

(* All ticks of a bar fall into one slot of its timeframe, and, but for    *)
(* weekly bars, into one part of one day: although times of day are        *)
(* compared without their dates, no bar joins two sessions.                *)
BarsKeepToTheirSlot ==
  \A seq \in {ticks, ticksOfBar} : \A i, j \in DOMAIN seq :
    LET s == seq[i].time
        t == seq[j].time
    IN  /\ SlotOf(s) = SlotOf(t)
        /\ timeframe # "Weekly" => DateOf(s) = DateOf(t) /\ PartOf(s) = PartOf(t)

(* A tick that is dropped is the first of its part of the day: once a      *)
(* session has a bar, each of its ticks goes into one.                     *)
DropsComeFirst ==
  \A d \in dropped : <<DateOf(d), PartOf(d)>> \notin started

-----------------------------------------------------------------------------
(* What a comment says and the code does not do.                           *)

(* "Aligns bar timestamps to timeframe boundaries (e.g., 9:30, 9:35, 9:40  *)
(* for 5min)" (market-data/src/aggregator.rs:62): the bar of a slot is     *)
(* dated at the slot's first minute.                                       *)
TimestampsAligned ==
  current # NoBar /\ timeframe \notin {"Daily", "Weekly"} =>
    current.start % DurationMinutes(timeframe) = 0

(* "Starts fresh bars after 13:00 (afternoon open)" (aggregator.rs:61) and *)
(* "it arrived at a session boundary (11:30 or 15:00)" (aggregator.rs:96): *)
(* no tick of the afternoon's trading is left out.                         *)
AfternoonStartsFresh ==
  \A d \in dropped :
    MinuteOf(d) \notin ChinaAShare.afternoonOpen .. ChinaAShare.afternoonClose - 1

=============================================================================
