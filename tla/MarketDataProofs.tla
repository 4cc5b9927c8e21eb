--------------------------- MODULE MarketDataProofs ---------------------------
(***************************************************************************)
(* What is proved of market data. Of the aggregator: that a bar summarises *)
(* its ticks, that it joins no two slots or sessions, and that only the    *)
(* first tick of a session is ever dropped. Of the provider and the client *)
(* that feed it: that what they write can be cut into frames, that events  *)
(* keep their order, and that the bars pushed are those wanted.  Of the    *)
(* market clock: that the calendar skips no trading day and that the       *)
(* phases of a day have the same boundaries for every question asked.      *)
(***************************************************************************)
EXTENDS Aggregator, Provider, MarketClock, FiniteInduction

Times == {t \in Nat : MinuteOf(t) >= CstOffset}

TickRecords == [price : Int, volume : Nat, time : Times]

(* The parts of a day in their order. *)
PartIndex(time) ==
  IF MinuteOf(time) < ChinaAShare.morningClose THEN 0
  ELSE IF MinuteOf(time) < ChinaAShare.afternoonClose THEN 1
  ELSE 2

(* The tick comes from the slot of the time, and from its session. *)
SameSlot(s, t) ==
  /\ SlotOf(s) = SlotOf(t)
  /\ timeframe # "Weekly" => DateOf(s) = DateOf(t) /\ PartOf(s) = PartOf(t)

TypeOK ==
  /\ timeframe \in Timeframes
  /\ current \in PartialBars \cup {NoBar}
  /\ ticks \in Seq(TickRecords) /\ ticksOfBar \in Seq(TickRecords)
  /\ last \in Nat
  /\ owed \in Int

(* The partial bar begins with its first tick, no later than the last one, *)
(* and its ticks belong to where it begins.                                *)
PartialKeeps ==
  /\ current = NoBar => ticks = <<>>
  /\ current # NoBar =>
       /\ current.start \in Times /\ current.start <= last
       /\ last \in Times
       /\ \A i \in DOMAIN ticks : SameSlot(ticks[i].time, current.start)

DeliveredKeeps ==
  \A i, j \in DOMAIN ticksOfBar : SameSlot(ticksOfBar[i].time, ticksOfBar[j].time)

(* No part of a day has a bar that is later than the last tick; and when   *)
(* the part of the last tick has one, the partial bar began no earlier in  *)
(* the day.                                                                *)
StartedInOrder ==
  /\ \A d \in Nat, t \in Nat :
       <<d, PartOf(t)>> \in started =>
         d <= DateOf(last) /\ (d = DateOf(last) => PartIndex(t) <= PartIndex(last))
  /\ current # NoBar /\ <<DateOf(last), PartOf(last)>> \in started =>
       PartIndex(last) <= PartIndex(current.start)

(* The bar summarises the ticks; its high and low, which the property      *)
(* defines as the largest and least price, are prices that bound the rest. *)
Totals(bar, seq) ==
  /\ seq # <<>>
  /\ bar.start = seq[1].time /\ bar.open = seq[1].price
  /\ bar.close = seq[Len(seq)].price
  /\ \E i \in DOMAIN seq : bar.high = seq[i].price
  /\ \E i \in DOMAIN seq : bar.low = seq[i].price
  /\ \A i \in DOMAIN seq : bar.low <= seq[i].price /\ seq[i].price <= bar.high
  /\ bar.volume = VolumeOf(seq)

BarsTotal ==
  /\ current # NoBar => Totals(current, ticks)
  /\ delivered # NoBar => Totals(delivered, ticksOfBar)
  /\ owed = IF current = NoBar THEN 0 ELSE current.volume

AggregatorInv ==
  /\ TypeOK /\ PartialKeeps /\ DeliveredKeeps /\ StartedInOrder
  /\ DropsComeFirst /\ BarsTotal

-----------------------------------------------------------------------------
(* Times, dates and slots.                                                 *)

LEMMA ClockType ==
  ASSUME NEW t \in Nat
  PROVE  /\ MinuteOf(t) \in Nat /\ DateOf(t) \in Nat
         /\ t = 1440 * DateOf(t) + MinuteOf(t)
BY DEF MinuteOf, DateOf

LEMMA PartType == \A t \in Nat : PartIndex(t) \in Nat /\ DateOf(t) \in Nat
BY DEF DateOf, PartIndex

(* Parts are told apart by their order, and within a day time passes from  *)
(* one to the next.                                                        *)
LEMMA PartsAreOrdered ==
  ASSUME NEW s \in Nat, NEW t \in Nat
  PROVE  /\ PartOf(s) = PartOf(t) <=> PartIndex(s) = PartIndex(t)
         /\ s <= t => DateOf(s) <= DateOf(t)
         /\ s <= t /\ DateOf(s) = DateOf(t) => PartIndex(s) <= PartIndex(t)
<1>0. /\ MinuteOf(s) \in Nat /\ s = 1440 * DateOf(s) + MinuteOf(s)
      /\ MinuteOf(t) \in Nat /\ t = 1440 * DateOf(t) + MinuteOf(t)
      /\ DateOf(s) \in Nat /\ DateOf(t) \in Nat
  BY ClockType
<1>1. PartOf(s) = PartOf(t) <=> PartIndex(s) = PartIndex(t)
  BY <1>0 DEF PartOf, PartIndex, ChinaAShare
<1>2. s <= t => DateOf(s) <= DateOf(t)
  BY DEF DateOf
<1>3. s <= t /\ DateOf(s) = DateOf(t) => MinuteOf(s) <= MinuteOf(t)
  BY <1>0
<1>4. MinuteOf(s) <= MinuteOf(t) => PartIndex(s) <= PartIndex(t)
  BY <1>0 DEF PartIndex, ChinaAShare
<1> QED BY <1>1, <1>2, <1>3, <1>4

LEMMA SlotsAreOrdered ==
  ASSUME timeframe \in Timeframes, NEW s \in Nat, NEW t \in Nat
  PROVE  /\ SlotOf(s) \in Int /\ SlotOf(t) \in Int
         /\ s <= t => SlotOf(s) <= SlotOf(t)
BY DEF Timeframes, SlotOf, DurationMinutes, CstOffset

(* A slot of a day or less lies within one day of the exchange.            *)
LEMMA SlotsKeepToTheDay ==
  ASSUME timeframe \in Timeframes, timeframe # "Weekly",
         NEW s \in Times, NEW t \in Times, SlotOf(s) = SlotOf(t)
  PROVE  DateOf(s) = DateOf(t)
BY DEF Timeframes, SlotOf, DurationMinutes, CstOffset, Times, MinuteOf, DateOf

(* A bar ends at a session boundary just when the tick is of a later part  *)
(* of the day than the bar's start.                                        *)
LEMMA BoundaryIsLaterPart ==
  ASSUME NEW t \in Nat, current.start \in Nat
  PROVE  AtSessionBoundary(t) <=> PartIndex(current.start) < PartIndex(t)
<1>1. \A s \in Nat : MinuteOf(s) \in Nat
  BY DEF MinuteOf
<1>2. MinuteOf(current.start) \in Nat /\ MinuteOf(t) \in Nat
  BY <1>1
<1> QED BY <1>2 DEF AtSessionBoundary, CrossesClose, PartIndex, ChinaAShare

-----------------------------------------------------------------------------
(* Summaries.                                                              *)

LEMMA TickFields ==
  ASSUME NEW tick \in TickRecords
  PROVE  tick.price \in Int /\ tick.volume \in Int /\ tick.time \in Times /\ tick.time \in Nat
<1>1. tick.price \in Int /\ tick.volume \in Nat /\ tick.time \in Times
  BY Zenon DEF TickRecords
<1> QED BY <1>1 DEF Times

LEMMA TicksFields ==
  ASSUME NEW seq \in Seq(TickRecords)
  PROVE  \A i \in DOMAIN seq : /\ seq[i] \in TickRecords
                               /\ seq[i].price \in Int /\ seq[i].volume \in Int
                               /\ seq[i].time \in Times
<1>1. \A i \in DOMAIN seq : seq[i] \in TickRecords
  OBVIOUS
<1> QED BY <1>1, TickFields

LEMMA VolumeOfMore ==
  ASSUME NEW seq \in Seq(TickRecords), NEW tick \in TickRecords
  PROVE  /\ VolumeOf(seq) \in Int
         /\ VolumeOf(Append(seq, tick)) = VolumeOf(seq) + tick.volume
         /\ VolumeOf(<<tick>>) = tick.volume
<1> DEFINE V(s) == [i \in DOMAIN s |-> s[i].volume]
<1>0. tick.volume \in Int
  BY TickFields
<1>1. ASSUME NEW s \in Seq(TickRecords) PROVE \A i \in DOMAIN s : V(s)[i] \in Int
  BY TicksFields
<1>2. VolumeOf(seq) \in Int
  <2>1. IsFiniteSet(DOMAIN seq)
    BY FS_Interval
  <2>2. VolumeOf(seq) = SumFunctionOnSet(V(seq), DOMAIN seq)
    BY DEF VolumeOf
  <2>3. \A i \in DOMAIN seq : V(seq)[i] \in Int
    BY <1>1
  <2> HIDE DEF V
  <2> QED BY <2>1, <2>2, <2>3, SumType
<1>3. ASSUME NEW s \in Seq(TickRecords)
      PROVE  VolumeOf(Append(s, tick)) = tick.volume + VolumeOf(s)
  <2> DEFINE n == Len(s)  t == Append(s, tick)
  <2>1. n \in Nat /\ DOMAIN s = 1 .. n /\ DOMAIN t = 1 .. n + 1
    OBVIOUS
  <2>2. \A i \in 1 .. n : V(s)[i] \in Int /\ V(t)[i] = V(s)[i]
    BY <1>1
  <2>3. V(t)[n + 1] = tick.volume /\ tick.volume \in Int
    BY <1>0
  <2>4. VolumeOf(s) = SumFunctionOnSet(V(s), 1 .. n)
        /\ VolumeOf(t) = SumFunctionOnSet(V(t), 1 .. n + 1)
    BY <2>1 DEF VolumeOf
  <2> HIDE DEF n, t, V
  <2>5. SumFunctionOnSet(V(t), 1 .. n + 1) = V(t)[n + 1] + SumFunctionOnSet(V(s), 1 .. n)
    BY <2>1, <2>2, <2>3, SumAppend
  <2> QED BY <2>3, <2>4, <2>5 DEF t
<1>4. VolumeOf(<<tick>>) = tick.volume
  <2>1. VolumeOf(<<>>) = 0
    BY SumEmpty DEF VolumeOf
  <2>2. Append(<<>>, tick) = <<tick>> /\ <<>> \in Seq(TickRecords)
    OBVIOUS
  <2>3. VolumeOf(<<tick>>) = tick.volume + VolumeOf(<<>>)
    BY <1>3, <2>2
  <2> QED BY <1>0, <2>1, <2>3
<1> QED BY <1>0, <1>2, <1>3, <1>4

LEMMA TotalsOfOne ==
  ASSUME NEW tick \in TickRecords
  PROVE  Totals(PartialBar(tick), <<tick>>)
<1>1. VolumeOf(<<tick>>) = tick.volume
  <2>1. <<>> \in Seq(TickRecords)
    OBVIOUS
  <2> QED BY <2>1, VolumeOfMore
<1>2. tick.price \in Int
  BY TickFields
<1> QED BY <1>1, <1>2 DEF Totals, PartialBar

LEMMA TotalsOfMore ==
  ASSUME NEW b \in PartialBars, NEW seq \in Seq(TickRecords), NEW tick \in TickRecords,
         Totals(b, seq)
  PROVE  Totals(Updated(b, tick), Append(seq, tick))
<1> DEFINE c == Updated(b, tick)  s == Append(seq, tick)  n == Len(seq)
<1>1. /\ c.start = b.start /\ c.open = b.open /\ c.close = tick.price
      /\ c.high = (IF tick.price > b.high THEN tick.price ELSE b.high)
      /\ c.low = (IF tick.price < b.low THEN tick.price ELSE b.low)
      /\ c.volume = b.volume + tick.volume
  BY DEF Updated, PartialBars
<1>2. /\ n \in Nat \ {0} /\ DOMAIN seq = 1 .. n /\ DOMAIN s = 1 .. n + 1 /\ Len(s) = n + 1
      /\ s[n + 1] = tick /\ \A i \in 1 .. n : s[i] = seq[i]
  BY DEF Totals
<1>3. c.volume = VolumeOf(s)
  BY <1>1, VolumeOfMore DEF Totals
<1>4. /\ tick.price \in Int /\ b.high \in Int /\ b.low \in Int
      /\ \A i \in 1 .. n : seq[i].price \in Int
  <2>1. b.high \in Int /\ b.low \in Int
    BY Zenon DEF PartialBars
  <2> QED BY <1>2, <2>1, TickFields, TicksFields
<1> HIDE DEF c, s, n
<1>5. c.start = s[1].time /\ c.open = s[1].price /\ c.close = s[Len(s)].price /\ s # <<>>
  BY <1>1, <1>2 DEF Totals
<1>6. \E i \in DOMAIN s : c.high = s[i].price
  <2>1. PICK i \in 1 .. n : b.high = seq[i].price
    BY <1>2 DEF Totals
  <2>2. i \in DOMAIN s /\ n + 1 \in DOMAIN s
    BY <1>2
  <2> QED BY <1>1, <1>2, <2>1, <2>2
<1>7. \E i \in DOMAIN s : c.low = s[i].price
  <2>1. PICK i \in 1 .. n : b.low = seq[i].price
    BY <1>2 DEF Totals
  <2>2. i \in DOMAIN s /\ n + 1 \in DOMAIN s
    BY <1>2
  <2> QED BY <1>1, <1>2, <2>1, <2>2
<1>8. ASSUME NEW i \in DOMAIN s
      PROVE  c.low <= s[i].price /\ s[i].price <= c.high
  <2>1. \A j \in 1 .. n : b.low <= seq[j].price /\ seq[j].price <= b.high
    BY <1>2 DEF Totals
  <2>2. i = n + 1 \/ i \in 1 .. n
    BY <1>2
  <2>3. CASE i = n + 1
    BY <1>1, <1>2, <1>4, <2>3
  <2>4. CASE i \in 1 .. n
    BY <1>1, <1>2, <1>4, <2>1, <2>4
  <2> QED BY <2>2, <2>3, <2>4
<1> QED BY <1>3, <1>5, <1>6, <1>7, <1>8 DEF Totals, c, s

(* The bounds of the prices are the largest and the least of them.         *)
LEMMA TotalsSummarise ==
  ASSUME NEW bar, NEW seq \in Seq(TickRecords), Totals(bar, seq)
  PROVE  Summarises(bar, seq)
<1> DEFINE prices == {seq[i].price : i \in DOMAIN seq}
<1>1. prices \in SUBSET Int
  BY TicksFields
<1>2. bar.high \in prices /\ bar.low \in prices
  BY DEF Totals
<1>3. \A p \in prices : bar.low <= p /\ p <= bar.high
  BY DEF Totals
<1> HIDE DEF prices
<1>4. Max(prices) = bar.high
  <2>1. Max(prices) \in prices /\ \A p \in prices : Max(prices) >= p
    <3>1. bar.high \in prices /\ \A p \in prices : bar.high >= p
      BY <1>1, <1>2, <1>3
    <3> QED BY <3>1, Zenon DEF Max
  <2>2. Max(prices) \in Int /\ bar.high \in Int
    BY <1>1, <1>2, <2>1
  <2>3. bar.low <= Max(prices) /\ Max(prices) <= bar.high
    BY <1>3, <2>1
  <2>4. Max(prices) >= bar.high
    BY <1>2, <2>1
  <2> QED BY <2>2, <2>3, <2>4
<1>5. Min(prices) = bar.low
  <2>1. Min(prices) \in prices /\ \A p \in prices : Min(prices) <= p
    <3>1. bar.low \in prices /\ \A p \in prices : bar.low <= p
      BY <1>1, <1>2, <1>3
    <3> QED BY <3>1, Zenon DEF Min
  <2>2. Min(prices) \in Int /\ bar.low \in Int
    BY <1>1, <1>2, <2>1
  <2>3. bar.low <= Min(prices) /\ Min(prices) <= bar.high
    BY <1>3, <2>1
  <2>4. Min(prices) <= bar.low
    BY <1>2, <2>1
  <2> QED BY <2>2, <2>3, <2>4
<1> QED BY <1>4, <1>5 DEF Summarises, Totals, prices

-----------------------------------------------------------------------------
(* The invariant.                                                          *)

LEMMA AggregatorInit == Init => AggregatorInv
<1> SUFFICES ASSUME Init PROVE AggregatorInv
  OBVIOUS
<1>1. TypeOK
  BY AggregatorAssumption DEF Init, TypeOK
<1>2. PartialKeeps /\ DeliveredKeeps /\ DropsComeFirst /\ StartedInOrder /\ BarsTotal
  BY DEF Init, PartialKeeps, DeliveredKeeps, DropsComeFirst, StartedInOrder, BarsTotal
<1> QED BY <1>1, <1>2 DEF AggregatorInv

LEMMA TicksTyped == Ticks \subseteq TickRecords
<1> SUFFICES ASSUME NEW p \in TickPrices, NEW v \in TickVolumes,
                    NEW d \in Dates, NEW m \in TickMinutes
             PROVE  [price |-> p, volume |-> v, time |-> d * 1440 + m] \in TickRecords
  BY DEF Ticks
<1>1. p \in Int /\ v \in Nat /\ d \in Nat /\ m \in Nat /\ m >= CstOffset /\ m <= 1439
  BY AggregatorAssumption DEF AggregatorAssumption, CstOffset
<1>2. d * 1440 + m \in Nat /\ MinuteOf(d * 1440 + m) = m
  <2>1. MinuteOf(d * 1440 + m) = m
    BY <1>1 DEF MinuteOf
  <2> QED BY <1>1, <2>1
<1>3. d * 1440 + m \in Times
  BY <1>1, <1>2 DEF Times
<1> QED BY <1>1, <1>3 DEF TickRecords

(* What a tick finds, as far as the cases of its step have it in common.   *)
LEMMA TickFinds ==
  ASSUME AggregatorInv, NEW tick \in TickRecords, last <= tick.time
  PROVE  /\ tick.time \in Times /\ tick.time \in Nat /\ last \in Nat
         /\ PartIndex(tick.time) \in Nat /\ PartIndex(last) \in Nat
         /\ DateOf(tick.time) \in Nat /\ DateOf(last) \in Nat
         /\ DateOf(last) <= DateOf(tick.time)
         /\ DateOf(last) = DateOf(tick.time) => PartIndex(last) <= PartIndex(tick.time)
         /\ current # NoBar =>
              /\ current \in PartialBars /\ current.start \in Times /\ current.start \in Nat
              /\ current.start <= tick.time /\ current.volume \in Int
              /\ PartIndex(current.start) \in Nat
<1>1. tick.time \in Times /\ tick.time \in Nat /\ last \in Nat
  BY TickFields DEF AggregatorInv, TypeOK
<1>2. \A t \in Nat : PartIndex(t) \in Nat /\ DateOf(t) \in Nat
  BY PartType
<1>3. ASSUME current # NoBar
      PROVE  /\ current \in PartialBars /\ current.start \in Times /\ current.start \in Nat
             /\ current.start <= tick.time /\ current.volume \in Int
  <2>1. current \in PartialBars /\ current.start \in Times /\ current.start <= last
    BY <1>3 DEF AggregatorInv, TypeOK, PartialKeeps
  <2>2. current.start \in Nat /\ current.volume \in Nat
    BY <2>1, Zenon DEF PartialBars
  <2> QED BY <1>1, <2>1, <2>2
<1> QED BY <1>1, <1>2, <1>3, PartsAreOrdered

(* Delivering the partial bar.                                             *)
LEMMA DeliverKeeps ==
  ASSUME AggregatorInv, current # NoBar, Deliver(current), UNCHANGED timeframe
  PROVE  /\ ticksOfBar' \in Seq(TickRecords) /\ DeliveredKeeps'
         /\ Totals(delivered', ticksOfBar')
<1>1. ticksOfBar' = ticks /\ delivered' = current
  BY DEF Deliver
<1>2. \A i, j \in DOMAIN ticks : SameSlot(ticks[i].time, ticks[j].time)
  BY DEF AggregatorInv, PartialKeeps, SameSlot
<1>3. DeliveredKeeps'
  BY <1>1, <1>2 DEF DeliveredKeeps, SameSlot, SlotOf
<1> QED BY <1>1, <1>3 DEF AggregatorInv, TypeOK, BarsTotal

LEMMA DeliverNothingKeeps ==
  ASSUME DeliverNothing
  PROVE  delivered' = NoBar /\ ticksOfBar' \in Seq(TickRecords) /\ DeliveredKeeps'
BY DEF DeliverNothing, DeliveredKeeps

(* The tick goes into the bar that starts with it or with an earlier tick  *)
(* of a part that is no earlier in the day.                                *)
LEMMA TakeKeepsOrder ==
  ASSUME AggregatorInv, NEW tick \in TickRecords, last <= tick.time, last' = tick.time,
         NEW v, Take(tick, v), current' # NoBar,
         PartIndex(tick.time) <= PartIndex(current'.start)
  PROVE  StartedInOrder' /\ DropsComeFirst'
<1>1. started' = started \cup {<<DateOf(last'), PartOf(last')>>} /\ dropped' = {}
  BY DEF Take
<1>2. DropsComeFirst'
  BY <1>1 DEF DropsComeFirst
<1>3. ASSUME NEW d \in Nat, NEW t \in Nat, <<d, PartOf(t)>> \in started'
      PROVE  d <= DateOf(last') /\ (d = DateOf(last') => PartIndex(t) <= PartIndex(last'))
  <2>0. /\ PartIndex(last') \in Nat /\ PartIndex(last) \in Nat /\ PartIndex(t) \in Nat
        /\ DateOf(last') \in Nat /\ DateOf(last) \in Nat
        /\ DateOf(last) <= DateOf(last')
        /\ DateOf(last) = DateOf(last') => PartIndex(last) <= PartIndex(last')
        /\ last' \in Nat
    <3>1. last' = tick.time
      OBVIOUS
    <3> QED BY <3>1, TickFinds, PartType
  <2>1. CASE <<d, PartOf(t)>> \in started
    <3>1. d <= DateOf(last) /\ (d = DateOf(last) => PartIndex(t) <= PartIndex(last))
      BY <2>1 DEF AggregatorInv, StartedInOrder
    <3> QED BY <2>0, <3>1
  <2>2. CASE d = DateOf(last') /\ PartOf(t) = PartOf(last')
    <3>1. PartIndex(t) = PartIndex(last')
      BY <2>0, <2>2, PartsAreOrdered
    <3> QED BY <2>0, <2>2, <3>1
  <2> QED BY <1>1, <1>3, <2>1, <2>2
<1>4. PartIndex(last') <= PartIndex(current'.start)
  OBVIOUS
<1> QED BY <1>2, <1>3, <1>4 DEF StartedInOrder

(* A bar that starts with the tick. *)
LEMMA StartKeeps ==
  ASSUME AggregatorInv, NEW tick \in TickRecords, last <= tick.time, last' = tick.time,
         UNCHANGED timeframe, current' = PartialBar(tick), ticks' = <<tick>>
  PROVE  /\ current' \in PartialBars /\ current' # NoBar
         /\ ticks' \in Seq(TickRecords) /\ PartialKeeps' /\ Totals(current', ticks')
         /\ PartIndex(tick.time) <= PartIndex(current'.start)
         /\ current'.volume = tick.volume
<1>1. current' \in PartialBars /\ current' # NoBar
  <2>1. tick.price \in Int /\ tick.volume \in Nat /\ tick.time \in Times
    BY Zenon DEF TickRecords
  <2>2. tick.time \in Nat
    BY <2>1 DEF Times
  <2> QED BY <2>1, <2>2, AggregatorAssumption DEF AggregatorAssumption, PartialBar, PartialBars
<1>2. current'.start = tick.time /\ current'.volume = tick.volume
  BY DEF PartialBar
<1>3. tick.time \in Times /\ tick.time \in Nat
  BY TickFields
<1>4. PartialKeeps'
  BY <1>1, <1>2, <1>3 DEF PartialKeeps, SameSlot, SlotOf
<1>5. Totals(current', ticks')
  BY TotalsOfOne
<1>6. PartIndex(tick.time) \in Nat
  BY <1>3, PartType
<1> QED BY <1>1, <1>2, <1>4, <1>5, <1>6

LEMMA CloseSessionKeeps ==
  ASSUME AggregatorInv, NEW tick \in TickRecords, last <= tick.time, last' = tick.time,
         UNCHANGED timeframe, CloseSession(tick)
  PROVE  AggregatorInv'
<1>1. /\ current # NoBar /\ AtSessionBoundary(tick.time) /\ Deliver(current)
      /\ current' = NoBar /\ ticks' = <<>> /\ dropped' = {tick.time}
      /\ owed' = owed - current.volume /\ started' = started
  BY DEF CloseSession
<1>2. /\ ticksOfBar' \in Seq(TickRecords) /\ DeliveredKeeps'
      /\ Totals(delivered', ticksOfBar')
  BY <1>1, DeliverKeeps
<1>3. owed' = 0
  BY <1>1, TickFinds DEF AggregatorInv, BarsTotal
<1>4. TypeOK'
  BY <1>1, <1>2, <1>3, TickFinds DEF AggregatorInv, TypeOK
<1>5. PartialKeeps' /\ BarsTotal'
  BY <1>1, <1>2, <1>3 DEF PartialKeeps, BarsTotal
<1>6. StartedInOrder'
  <2>1. ASSUME NEW d \in Nat, NEW t \in Nat, <<d, PartOf(t)>> \in started
        PROVE  d <= DateOf(last') /\ (d = DateOf(last') => PartIndex(t) <= PartIndex(last'))
    <3>1. d <= DateOf(last) /\ (d = DateOf(last) => PartIndex(t) <= PartIndex(last))
      BY <2>1 DEF AggregatorInv, StartedInOrder
    <3>2. PartIndex(t) \in Nat
      BY PartType
    <3> QED BY <3>1, <3>2, TickFinds
  <2> QED BY <1>1, <2>1 DEF StartedInOrder
<1>7. DropsComeFirst'
  <2> DEFINE t == tick.time
  <2>1. SUFFICES ASSUME <<DateOf(t), PartOf(t)>> \in started PROVE FALSE
    BY <1>1 DEF DropsComeFirst
  <2>2. PartIndex(current.start) < PartIndex(t)
    BY <1>1, TickFinds, BoundaryIsLaterPart
  <2>3. DateOf(t) = DateOf(last) /\ PartIndex(t) = PartIndex(last)
    <3>1. DateOf(t) <= DateOf(last)
          /\ (DateOf(t) = DateOf(last) => PartIndex(t) <= PartIndex(last))
      BY <2>1, TickFinds DEF AggregatorInv, StartedInOrder
    <3> QED BY <3>1, TickFinds
  <2>4. PartOf(t) = PartOf(last)
    BY <2>3, TickFinds, PartsAreOrdered
  <2>5. PartIndex(last) <= PartIndex(current.start)
    BY <1>1, <2>1, <2>3, <2>4 DEF AggregatorInv, StartedInOrder
  <2> QED BY <1>1, <2>2, <2>3, <2>5, TickFinds
<1> QED BY <1>2, <1>4, <1>5, <1>6, <1>7 DEF AggregatorInv

LEMMA StartNextKeeps ==
  ASSUME AggregatorInv, NEW tick \in TickRecords, last <= tick.time, last' = tick.time,
         UNCHANGED timeframe, StartNext(tick)
  PROVE  AggregatorInv'
<1>1. /\ current # NoBar /\ Deliver(current)
      /\ current' = PartialBar(tick) /\ ticks' = <<tick>>
      /\ Take(tick, current.volume)
  BY DEF StartNext
<1>2. /\ ticksOfBar' \in Seq(TickRecords) /\ DeliveredKeeps'
      /\ Totals(delivered', ticksOfBar')
  BY <1>1, DeliverKeeps
<1>3. /\ current' \in PartialBars /\ current' # NoBar
      /\ ticks' \in Seq(TickRecords) /\ PartialKeeps' /\ Totals(current', ticks')
      /\ PartIndex(tick.time) <= PartIndex(current'.start)
      /\ current'.volume = tick.volume
  BY <1>1, StartKeeps
<1>4. StartedInOrder' /\ DropsComeFirst'
  BY <1>1, <1>3, TakeKeepsOrder
<1>5. owed' = current'.volume /\ owed' \in Int
  <2>1. owed' = owed + tick.volume - current.volume
    BY <1>1 DEF Take
  <2>2. owed = current.volume /\ owed \in Int
    BY <1>1 DEF AggregatorInv, TypeOK, BarsTotal
  <2> QED BY <1>3, <2>1, <2>2, TickFields
<1>6. TypeOK'
  BY <1>2, <1>3, <1>5, TickFields DEF AggregatorInv, TypeOK
<1>7. BarsTotal'
  BY <1>2, <1>3, <1>5 DEF BarsTotal
<1> QED BY <1>2, <1>3, <1>4, <1>6, <1>7 DEF AggregatorInv

LEMMA StartFirstKeeps ==
  ASSUME AggregatorInv, NEW tick \in TickRecords, last <= tick.time, last' = tick.time,
         UNCHANGED timeframe, StartFirst(tick)
  PROVE  AggregatorInv'
<1>1. /\ current = NoBar /\ DeliverNothing
      /\ current' = PartialBar(tick) /\ ticks' = <<tick>>
      /\ Take(tick, 0)
  BY DEF StartFirst
<1>2. /\ delivered' = NoBar /\ ticksOfBar' \in Seq(TickRecords) /\ DeliveredKeeps'
  BY <1>1, DeliverNothingKeeps
<1>3. /\ current' \in PartialBars /\ current' # NoBar
      /\ ticks' \in Seq(TickRecords) /\ PartialKeeps' /\ Totals(current', ticks')
      /\ PartIndex(tick.time) <= PartIndex(current'.start)
      /\ current'.volume = tick.volume
  BY <1>1, StartKeeps
<1>4. StartedInOrder' /\ DropsComeFirst'
  BY <1>1, <1>3, TakeKeepsOrder
<1>5. owed' = current'.volume /\ owed' \in Int
  <2>1. owed' = owed + tick.volume - 0
    BY <1>1 DEF Take
  <2>2. owed = 0
    BY <1>1 DEF AggregatorInv, BarsTotal
  <2> QED BY <1>3, <2>1, <2>2, TickFields
<1>6. TypeOK'
  BY <1>2, <1>3, <1>5, TickFields DEF AggregatorInv, TypeOK
<1>7. BarsTotal'
  BY <1>2, <1>3, <1>5 DEF BarsTotal
<1> QED BY <1>2, <1>3, <1>4, <1>6, <1>7 DEF AggregatorInv

(* A tick of the slot that is at no session boundary is of the bar's       *)
(* session: it is no earlier than the bar's start and no later than the    *)
(* start's part of the day.                                                *)
LEMMA GrowKeeps ==
  ASSUME AggregatorInv, NEW tick \in TickRecords, last <= tick.time, last' = tick.time,
         UNCHANGED timeframe, Grow(tick)
  PROVE  AggregatorInv'
<1> DEFINE s == current.start  t == tick.time
<1>1. /\ current # NoBar /\ ~ AtSessionBoundary(t) /\ ~ IsBoundary(t)
      /\ DeliverNothing
      /\ current' = Updated(current, tick) /\ ticks' = Append(ticks, tick)
      /\ Take(tick, 0)
  BY DEF Grow
<1>2. /\ delivered' = NoBar /\ ticksOfBar' \in Seq(TickRecords) /\ DeliveredKeeps'
  BY <1>1, DeliverNothingKeeps
<1>3. /\ current' \in PartialBars /\ current' # NoBar
      /\ current'.start = s /\ current'.volume = current.volume + tick.volume
  <2>1. tick.price \in Int /\ tick.volume \in Nat
    BY Zenon DEF TickRecords
  <2>2. /\ current.start \in Nat /\ current.open \in Int /\ current.high \in Int
        /\ current.low \in Int /\ current.volume \in Nat
        /\ current = [start |-> current.start, open |-> current.open,
                      high |-> current.high, low |-> current.low,
                      close |-> current.close, volume |-> current.volume]
    BY <1>1, TickFinds DEF PartialBars
  <2>3. current' = [start |-> current.start, open |-> current.open,
                    high |-> IF tick.price > current.high THEN tick.price ELSE current.high,
                    low |-> IF tick.price < current.low THEN tick.price ELSE current.low,
                    close |-> tick.price, volume |-> current.volume + tick.volume]
    BY <1>1, <2>2 DEF Updated
  <2>4. current' \in PartialBars
    BY <2>1, <2>2, <2>3 DEF PartialBars
  <2> QED BY <2>3, <2>4, AggregatorAssumption DEF AggregatorAssumption
<1>4. timeframe \in Timeframes /\ s \in Times /\ s \in Nat /\ t \in Times /\ t \in Nat /\ s <= t
  BY <1>1, TickFinds DEF AggregatorInv, TypeOK
<1>5. PartIndex(t) <= PartIndex(s) /\ PartIndex(t) \in Nat /\ PartIndex(s) \in Nat
  <2>1. PartIndex(t) \in Nat /\ PartIndex(s) \in Nat
    BY <1>4, PartType
  <2>2. ~ (PartIndex(s) < PartIndex(t))
    BY <1>1, <1>4, BoundaryIsLaterPart
  <2> QED BY <2>1, <2>2
<1>6. SameSlot(t, s)
  <2>1. SlotOf(s) = SlotOf(t)
    BY <1>1, <1>4, SlotsAreOrdered DEF IsBoundary
  <2>2. ASSUME timeframe # "Weekly"
        PROVE  DateOf(t) = DateOf(s) /\ PartOf(t) = PartOf(s)
    <3>1. DateOf(s) = DateOf(t)
      BY <1>4, <2>1, <2>2, SlotsKeepToTheDay
    <3>2. PartIndex(s) <= PartIndex(t)
      BY <1>4, <3>1, PartsAreOrdered
    <3>3. PartIndex(s) = PartIndex(t)
      BY <1>5, <3>2
    <3> QED BY <1>4, <3>1, <3>3, PartsAreOrdered
  <2> QED BY <2>1, <2>2 DEF SameSlot
<1>7. ticks \in Seq(TickRecords) /\ ticks' \in Seq(TickRecords)
  BY <1>1 DEF AggregatorInv, TypeOK
<1>8. PartialKeeps'
  <2>1. \A i \in DOMAIN ticks : SameSlot(ticks[i].time, s)
    BY <1>1 DEF AggregatorInv, PartialKeeps
  <2>2. ASSUME NEW i \in DOMAIN ticks' PROVE SameSlot(ticks'[i].time, s)
    BY <1>1, <1>6, <1>7, <2>1
  <2>3. last' \in Times /\ s <= last' /\ current'.start = s /\ timeframe' = timeframe
    BY <1>3, <1>4
  <2> HIDE DEF s, t
  <2> QED BY <1>3, <1>4, <2>2, <2>3 DEF PartialKeeps, SameSlot, SlotOf
<1>9. StartedInOrder' /\ DropsComeFirst'
  BY <1>1, <1>3, <1>5, TakeKeepsOrder
<1>10. owed' = current'.volume /\ owed' \in Int
  <2>1. owed' = owed + tick.volume - 0
    BY <1>1 DEF Take
  <2>2. owed = current.volume /\ owed \in Int
    BY <1>1 DEF AggregatorInv, TypeOK, BarsTotal
  <2> QED BY <1>3, <2>1, <2>2, TickFields
<1>11. Totals(current', ticks')
  <2>1. Totals(current, ticks) /\ current \in PartialBars
    BY <1>1, TickFinds DEF AggregatorInv, BarsTotal
  <2> QED BY <1>1, <1>7, <2>1, TotalsOfMore
<1>12. TypeOK'
  BY <1>2, <1>3, <1>4, <1>7, <1>10 DEF TypeOK
<1>13. BarsTotal'
  BY <1>2, <1>3, <1>10, <1>11 DEF BarsTotal
<1> QED BY <1>2, <1>8, <1>9, <1>12, <1>13 DEF AggregatorInv

LEMMA FlushKeeps == AggregatorInv /\ Flush => AggregatorInv'
<1> SUFFICES ASSUME AggregatorInv, Flush PROVE AggregatorInv'
  OBVIOUS
<1>1. /\ current # NoBar /\ Deliver(current) /\ current' = NoBar /\ ticks' = <<>>
      /\ owed' = owed - current.volume /\ dropped' = {}
      /\ timeframe' = timeframe /\ started' = started /\ last' = last
  BY DEF Flush
<1>2. /\ ticksOfBar' \in Seq(TickRecords) /\ DeliveredKeeps'
      /\ Totals(delivered', ticksOfBar')
  BY <1>1, DeliverKeeps
<1>3. owed' = 0
  BY <1>1 DEF AggregatorInv, TypeOK, BarsTotal
<1>4. TypeOK'
  BY <1>1, <1>2, <1>3 DEF AggregatorInv, TypeOK
<1>5. PartialKeeps' /\ BarsTotal' /\ DropsComeFirst'
  BY <1>1, <1>2, <1>3 DEF PartialKeeps, BarsTotal, DropsComeFirst
<1>6. StartedInOrder'
  BY <1>1 DEF AggregatorInv, StartedInOrder
<1> QED BY <1>2, <1>4, <1>5, <1>6 DEF AggregatorInv

LEMMA AggregatorStep == AggregatorInv /\ [Next]_vars => AggregatorInv'
<1> SUFFICES ASSUME AggregatorInv, [Next]_vars PROVE AggregatorInv'
  OBVIOUS
<1>1. CASE \E tick \in Ticks : Tick(tick)
  <2>1. PICK tick \in Ticks : Tick(tick)
    BY <1>1
  <2>2. tick \in TickRecords /\ last <= tick.time /\ last' = tick.time
        /\ UNCHANGED timeframe
    BY <2>1, TicksTyped DEF Tick
  <2>3. CloseSession(tick) \/ StartNext(tick) \/ Grow(tick) \/ StartFirst(tick)
    BY <2>1 DEF Tick
  <2> QED BY <2>2, <2>3, CloseSessionKeeps, StartNextKeeps, GrowKeeps, StartFirstKeeps
<1>2. CASE Flush
  BY <1>2, FlushKeeps
<1>3. CASE UNCHANGED vars
  <2>1. TypeOK' /\ PartialKeeps' /\ DeliveredKeeps'
    BY <1>3 DEF vars, historyVars, AggregatorInv, TypeOK, PartialKeeps, DeliveredKeeps,
                SameSlot, SlotOf
  <2>2. StartedInOrder' /\ DropsComeFirst' /\ BarsTotal'
    BY <1>3 DEF vars, historyVars, AggregatorInv, StartedInOrder, DropsComeFirst, BarsTotal
  <2> QED BY <2>1, <2>2 DEF AggregatorInv
<1> QED BY <1>1, <1>2, <1>3 DEF Next

(* The inductive invariant holds, part by part as AggregatorInv names them. *)
THEOREM AggregatorInvariant == Spec => []AggregatorInv
BY AggregatorInit, AggregatorStep, PTL DEF Spec

-----------------------------------------------------------------------------
(* What follows from it.                                                   *)

(* Every bar is the summary of just its ticks, and no volume is counted    *)
(* twice or lost unseen: process_tick, PartialBar::update and into_bar of  *)
(* aggregator.rs (Aggregator, BarsSummariseTheirTicks).                    *)
THEOREM BarsAlwaysSummarise == Spec => []BarsSummariseTheirTicks
<1>1. AggregatorInv => BarsSummariseTheirTicks
  BY TotalsSummarise DEF AggregatorInv, TypeOK, BarsTotal, BarsSummariseTheirTicks
<1> QED BY <1>1, AggregatorInvariant, PTL

(* No bar joins two slots of its timeframe or, but for weekly bars, two    *)
(* sessions, though check_session_boundary of aggregator.rs compares times *)
(* of day without their dates (Aggregator, BarsKeepToTheirSlot).           *)
THEOREM BarsAlwaysKeepToTheirSlot == Spec => []BarsKeepToTheirSlot
<1>1. AggregatorInv => BarsKeepToTheirSlot
  <2> SUFFICES ASSUME AggregatorInv PROVE BarsKeepToTheirSlot
    OBVIOUS
  <2>1. \A i, j \in DOMAIN ticks : SameSlot(ticks[i].time, ticks[j].time)
    BY DEF AggregatorInv, PartialKeeps, SameSlot
  <2>2. \A i, j \in DOMAIN ticksOfBar : SameSlot(ticksOfBar[i].time, ticksOfBar[j].time)
    BY DEF AggregatorInv, DeliveredKeeps
  <2> QED BY <2>1, <2>2 DEF BarsKeepToTheirSlot, SameSlot
<1> QED BY <1>1, AggregatorInvariant, PTL

(* Only the first tick of a session is ever dropped, at the boundary that  *)
(* completes the last session's bar (Aggregator, DropsComeFirst).          *)
THEOREM DropsAlwaysComeFirst == Spec => []DropsComeFirst
<1>1. AggregatorInv => DropsComeFirst
  BY DEF AggregatorInv
<1> QED BY <1>1, AggregatorInvariant, PTL

-----------------------------------------------------------------------------
(* The provider over its client, which feeds the aggregators. The theorems *)
(* on frames and events need no assumption on their constants.             *)

Places == {"idle", "locking", "body", "written", "ended"}

Parts ==
  [part : {"header"}, by : Writers, serial : Nat]
    \cup [part : {"body"}, by : Writers]

(* Whoever is between the two parts of a frame holds the lock.             *)
LockInv ==
  /\ queue \in Seq(Writers)
  /\ place \in [Writers -> Places]
  /\ \A w \in Writers : place[w] = "body" => HoldsLock(w)

(* While frames can be written, the last part is a header just when a      *)
(* writer is between the two parts of a frame, and then it is its own.     *)
WireInv ==
  /\ wire \in Seq(Parts)
  /\ serial = FirstSerial + (Len(wire) + 1) \div 2
  /\ link # "broken" =>
       \/ Len(wire) % 2 = 0 /\ \A w \in Writers : place[w] # "body"
       \/ /\ Len(wire) % 2 = 1
          /\ \E w \in Writers : place[w] = "body"
          /\ \A w \in Writers : place[w] = "body" => wire[Len(wire)].by = w

FramesInv == LockInv /\ WireInv /\ FramesAreWhole

(* How the length of the wire counts frames.                               *)
LEMMA Halves ==
  ASSUME NEW n \in Nat
  PROVE  /\ n % 2 \in {0, 1} /\ n \div 2 \in Nat /\ (n + 1) \div 2 \in Nat
         /\ n % 2 = 0 => (n + 1) % 2 = 1 /\ (n + 2) \div 2 = (n + 1) \div 2 + 1
         /\ n % 2 = 1 => (n + 1) % 2 = 0 /\ (n + 2) \div 2 = (n + 1) \div 2
OBVIOUS

LEMMA FramesInvInit ==
  ASSUME ProviderInit PROVE FramesInv
<1>1. /\ link = "open" /\ queue = <<>> /\ wire = <<>>
      /\ place = [w \in Writers |-> "idle"] /\ serial = FirstSerial
  BY DEF ProviderInit, Connected, Writers
<1> QED
  BY <1>1 DEF FramesInv, LockInv, WireInv, FramesAreWhole, Places, FirstSerial

(* A step that leaves the wire alone, puts nobody between two parts and    *)
(* takes nobody's lock away.                                               *)
LEMMA QuietFrames ==
  ASSUME FramesInv, wire' = wire, serial' = serial,
         queue' \in Seq(Writers), place' \in [Writers -> Places],
         \A w \in Writers : place'[w] = "body" =>
           place[w] = "body" /\ queue' # <<>> /\ Head(queue') = w,
         link' # "broken" =>
           link # "broken" /\ \A w \in Writers : place[w] = "body" => place'[w] = "body"
  PROVE  FramesInv'
<1>1. LockInv'
  BY DEF FramesInv, LockInv, HoldsLock
<1>2. WireInv'
  BY DEF FramesInv, WireInv
<1>3. FramesAreWhole'
  BY DEF FramesInv, FramesAreWhole, FirstSerial
<1> QED BY <1>1, <1>2, <1>3 DEF FramesInv

LEMMA HeaderFrames ==
  ASSUME FramesInv, NEW w \in Writers, WriteHeader(w)
  PROVE  FramesInv'
<1> DEFINE L == Len(wire)
           part == [part |-> "header", by |-> w, serial |-> serial]
<1>1. /\ place[w] = "locking" /\ queue # <<>> /\ Head(queue) = w /\ link # "broken"
      /\ wire' = Append(wire, part)
      /\ serial' = serial + 1 /\ place' = [place EXCEPT ![w] = "body"]
      /\ queue' = queue /\ link' = link
  BY DEF WriteHeader, HoldsLock
<1>2. \A v \in Writers : place[v] # "body"
  BY <1>1 DEF FramesInv, LockInv, HoldsLock
<1>3. L \in Nat /\ L % 2 = 0 /\ serial \in Nat /\ serial = FirstSerial + (L + 1) \div 2
  <2>1. L \in Nat
    BY DEF FramesInv, WireInv
  <2>2. serial = FirstSerial + (L + 1) \div 2
    BY DEF FramesInv, WireInv
  <2>3. L % 2 = 0
    BY <1>1, <1>2 DEF FramesInv, WireInv
  <2> HIDE DEF L
  <2> QED BY <2>1, <2>2, <2>3, Halves DEF FirstSerial
<1>4. part \in Parts
  BY <1>3 DEF Parts
<1>5. /\ wire' \in Seq(Parts) /\ Len(wire') = L + 1
      /\ wire'[L + 1] = part
      /\ \A i \in 1 .. L : wire'[i] = wire[i]
  BY <1>1, <1>4 DEF FramesInv, WireInv
<1>6. LockInv'
  BY <1>1, <1>2 DEF FramesInv, LockInv, HoldsLock, Places
<1> HIDE DEF L
<1>7. (L + 1) % 2 = 1 /\ serial' = FirstSerial + (L + 2) \div 2
  BY <1>1, <1>3, Halves DEF FirstSerial
<1>8. WireInv'
  <2>1. \A v \in Writers : place'[v] = "body" => v = w
    BY <1>1, <1>2 DEF FramesInv, LockInv
  <2>2. wire'[L + 1].by = w
    BY <1>5
  <2>3. L + 1 + 1 = L + 2
    BY <1>3
  <2>4. place'[w] = "body"
    BY <1>1 DEF FramesInv, LockInv
  <2> QED BY <1>5, <1>7, <2>1, <2>2, <2>3, <2>4 DEF WireInv
<1>9. FramesAreWhole'
  <2> SUFFICES ASSUME NEW i \in 1 .. L + 1
               PROVE  IF i % 2 = 1
                      THEN /\ wire'[i].part = "header"
                           /\ wire'[i].serial = FirstSerial + i \div 2
                      ELSE wire'[i] = [part |-> "body", by |-> wire'[i - 1].by]
    BY <1>5 DEF FramesAreWhole, FirstSerial
  <2>1. CASE i = L + 1
    BY <1>3, <1>5, <1>7, <2>1
  <2>2. CASE i # L + 1
    <3>1. i \in 1 .. L /\ (i % 2 # 1 => i - 1 \in 1 .. L)
      BY <1>3, <2>2
    <3>2. wire'[i] = wire[i] /\ (i % 2 # 1 => wire'[i - 1] = wire[i - 1])
      BY <1>5, <3>1
    <3>3. IF i % 2 = 1
          THEN wire[i].part = "header" /\ wire[i].serial = FirstSerial + i \div 2
          ELSE wire[i] = [part |-> "body", by |-> wire[i - 1].by]
      BY <3>1 DEF FramesInv, FramesAreWhole, L, FirstSerial
    <3> QED BY <3>2, <3>3
  <2> QED BY <2>1, <2>2
<1> QED BY <1>6, <1>8, <1>9 DEF FramesInv

LEMMA BodyFrames ==
  ASSUME FramesInv, NEW w \in Writers, WriteBody(w)
  PROVE  FramesInv'
<1> DEFINE L == Len(wire)
           part == [part |-> "body", by |-> w]
<1>1. /\ place[w] = "body" /\ link # "broken"
      /\ wire' = Append(wire, part) /\ queue' = Tail(queue)
      /\ serial' = serial /\ place' = [place EXCEPT ![w] = "written"] /\ link' = link
  BY DEF WriteBody
<1>2. L \in Nat /\ L % 2 = 1 /\ L > 0 /\ wire[L].by = w /\ serial = FirstSerial + (L + 1) \div 2
  BY <1>1, Halves DEF FramesInv, WireInv, FirstSerial
<1>3. \A v \in Writers : place'[v] # "body"
  BY <1>1 DEF FramesInv, LockInv, HoldsLock
<1>4. part \in Parts
  BY DEF Parts
<1>5. /\ wire' \in Seq(Parts) /\ Len(wire') = L + 1
      /\ wire'[L + 1] = part
      /\ \A i \in 1 .. L : wire'[i] = wire[i]
  BY <1>1, <1>4 DEF FramesInv, WireInv
<1>6. LockInv'
  <2>1. queue \in Seq(Writers) /\ queue # <<>>
    BY <1>1 DEF FramesInv, LockInv, HoldsLock
  <2>2. queue' \in Seq(Writers)
    BY <1>1, <2>1
  <2>3. place' \in [Writers -> Places]
    BY <1>1 DEF FramesInv, LockInv, Places
  <2> QED BY <1>3, <2>2, <2>3 DEF LockInv
<1> HIDE DEF L
<1>7. (L + 1) % 2 = 0 /\ serial' = FirstSerial + (L + 2) \div 2
  BY <1>1, <1>2, Halves DEF FirstSerial
<1>8. WireInv'
  <2>1. L + 1 + 1 = L + 2
    BY <1>2
  <2> QED BY <1>3, <1>5, <1>7, <2>1 DEF WireInv
<1>9. FramesAreWhole'
  <2> SUFFICES ASSUME NEW i \in 1 .. L + 1
               PROVE  IF i % 2 = 1
                      THEN /\ wire'[i].part = "header"
                           /\ wire'[i].serial = FirstSerial + i \div 2
                      ELSE wire'[i] = [part |-> "body", by |-> wire'[i - 1].by]
    BY <1>5 DEF FramesAreWhole, FirstSerial
  <2>1. CASE i = L + 1
    <3>1. i % 2 # 1 /\ i - 1 = L /\ L \in 1 .. L
      BY <1>2, <1>7, <2>1
    <3>2. wire'[i - 1].by = w
      BY <1>2, <1>5, <3>1
    <3> QED BY <1>5, <2>1, <3>1, <3>2
  <2>2. CASE i # L + 1
    <3>1. i \in 1 .. L /\ (i % 2 # 1 => i - 1 \in 1 .. L)
      BY <1>2, <2>2
    <3>2. wire'[i] = wire[i] /\ (i % 2 # 1 => wire'[i - 1] = wire[i - 1])
      BY <1>5, <3>1
    <3>3. IF i % 2 = 1
          THEN wire[i].part = "header" /\ wire[i].serial = FirstSerial + i \div 2
          ELSE wire[i] = [part |-> "body", by |-> wire[i - 1].by]
      BY <3>1 DEF FramesInv, FramesAreWhole, L, FirstSerial
    <3> QED BY <3>2, <3>3
  <2> QED BY <2>1, <2>2
<1> QED BY <1>6, <1>8, <1>9 DEF FramesInv

(* Steps of the gateway, the receiver and the consumer write nothing.      *)
LEMMA OthersKeepFrames ==
  ASSUME FramesInv, UNCHANGED <<queue, place, serial, wire>>, link' = "broken" \/ link # "broken"
  PROVE  FramesInv'
BY QuietFrames DEF FramesInv, LockInv, HoldsLock

LEMMA BeginFrames ==
  ASSUME FramesInv, NEW w \in Writers, NEW request, Begin(w, request)
  PROVE  FramesInv'
<1>1. /\ place[w] = "idle"
      /\ place' = [place EXCEPT ![w] = "locking"] /\ queue' = Append(queue, w)
      /\ link' = link /\ serial' = serial /\ wire' = wire
  BY DEF Begin
<1>2. queue \in Seq(Writers) /\ place \in [Writers -> Places]
  BY DEF FramesInv, LockInv
<1>3. queue' \in Seq(Writers) /\ place' \in [Writers -> Places]
  BY <1>1, <1>2 DEF Places
<1>4. \A v \in Writers : (place'[v] = "body") <=> (place[v] = "body")
  BY <1>1, <1>2
<1>5. \A v \in Writers : place[v] = "body" => queue' # <<>> /\ Head(queue') = v
  BY <1>1, <1>2 DEF FramesInv, LockInv, HoldsLock
<1> QED BY <1>1, <1>3, <1>4, <1>5, QuietFrames

LEMMA FailFrames ==
  ASSUME FramesInv, NEW w \in Writers, Fail(w)
  PROVE  FramesInv'
<1>1. /\ HoldsLock(w) /\ link' = "broken" /\ queue' = Tail(queue)
      /\ place' = [place EXCEPT ![w] = IF w = "keepAlive" THEN "ended" ELSE "idle"]
      /\ serial' = serial /\ wire' = wire
  BY DEF Fail
<1>2. queue \in Seq(Writers) /\ place \in [Writers -> Places] /\ queue # <<>>
  BY <1>1 DEF FramesInv, LockInv, HoldsLock
<1>3. queue' \in Seq(Writers) /\ place' \in [Writers -> Places]
  BY <1>1, <1>2 DEF Places
<1>4. \A v \in Writers : place'[v] # "body"
  BY <1>1, <1>2 DEF FramesInv, LockInv, HoldsLock
<1> QED BY <1>1, <1>3, <1>4, QuietFrames

LEMMA ReturnFrames ==
  ASSUME FramesInv, NEW w \in Writers, Return(w)
  PROVE  FramesInv'
<1>1. /\ place[w] = "written" /\ place' = [place EXCEPT ![w] = "idle"]
      /\ UNCHANGED <<link, queue, serial, wire>>
  BY DEF Return
<1>2. queue \in Seq(Writers) /\ place' \in [Writers -> Places]
  BY <1>1 DEF FramesInv, LockInv, Places
<1>3. \A v \in Writers : (place'[v] = "body") <=> (place[v] = "body")
  BY <1>1 DEF FramesInv, LockInv
<1> QED BY <1>1, <1>2, <1>3, QuietFrames DEF FramesInv, LockInv, HoldsLock

LEMMA DropFrames ==
  ASSUME FramesInv, DropClient
  PROVE  FramesInv'
<1>1. /\ place["caller"] = "idle" /\ link' = "broken"
      /\ place' = [place EXCEPT !["keepAlive"] = "ended"] /\ queue' = <<>>
      /\ serial' = serial /\ wire' = wire
  BY DEF DropClient
<1>2. Writers = {"caller", "keepAlive"}
  BY DEF Writers
<1>3. queue' \in Seq(Writers) /\ place' \in [Writers -> Places]
  <2>1. place \in [Writers -> Places]
    BY DEF FramesInv, LockInv
  <2>2. place' \in [Writers -> Places]
    BY <1>1, <2>1 DEF Places
  <2>3. queue' \in Seq(Writers)
    BY <1>1
  <2> QED BY <2>2, <2>3
<1>4. \A v \in Writers : place'[v] # "body"
  BY <1>1, <1>2 DEF FramesInv, LockInv
<1> QED BY <1>1, <1>3, <1>4, QuietFrames

LEMMA FramesInvStep ==
  ASSUME FramesInv, [ProviderNext]_providerVars
  PROVE  FramesInv'
<1> USE DEF Writers
<1>1. CASE Calls
  BY <1>1, BeginFrames DEF Calls, Subscribe, Unsubscribe,
     FetchHistoricalBars, Call, Writers
<1>2. CASE CallReturns
  BY <1>2, ReturnFrames DEF CallReturns, Writers
<1>3. CASE KeepAlive
  BY <1>3, BeginFrames, ReturnFrames DEF KeepAlive, Writers
<1>4. CASE ClientStep
  <2>1. ASSUME NEW w \in Writers, WriterStep(w)
        PROVE  FramesInv'
    BY <2>1, HeaderFrames, BodyFrames, FailFrames DEF WriterStep
  <2>2. CASE StartPushReceiver
    BY <2>2, OthersKeepFrames DEF StartPushReceiver, writerVars
  <2>3. CASE ReceiverStep
    BY <2>3, OthersKeepFrames DEF ReceiverStep, ReadFrame, ReadEnd,
       SendEvent, writerVars
  <2>4. CASE DropClient
    BY <2>4, DropFrames
  <2> QED BY <1>4, <2>1, <2>2, <2>3, <2>4 DEF ClientStep
<1>5. CASE Environment
  <2>1. UNCHANGED <<queue, place, serial, wire>> /\ (link' = "broken" \/ link # "broken")
    BY <1>5 DEF Environment, Serve, Close, Push,
       ConsumerStep, Consume, HearEnd, Depart, writerVars
  <2> QED BY <2>1, OthersKeepFrames
<1>6. CASE UNCHANGED providerVars
  <2>1. UNCHANGED <<queue, place, serial, wire, link>>
    BY <1>6 DEF providerVars, clientVars, writerVars
  <2> QED BY <2>1, OthersKeepFrames
<1> QED BY <1>1, <1>2, <1>3, <1>4, <1>5, <1>6 DEF ProviderNext

(* The gateway can always cut what was written into frames, whoever wrote  *)
(* them (send_frame of market-data/src/futu/connection.rs under the lock   *)
(* of client.rs): for any number of frames, calls and pushes.              *)
THEOREM FramesAlwaysWhole == ProviderSpec => []FramesAreWhole
<1>1. FramesInv => FramesAreWhole
  BY DEF FramesInv
<1> QED BY <1>1, FramesInvInit, FramesInvStep, PTL DEF ProviderSpec

-----------------------------------------------------------------------------
(* Events on their way to the consumer.                                    *)

Ordered(s) == \A i, j \in DOMAIN s : i < j => s[i] < s[j]

ValuesOf(s) == {s[i] : i \in DOMAIN s}

(* The frames of data among the first n.                                   *)
DataAmong(frames, n) == {k \in 1 .. n : frames[k] = "Data"}

Passed == consumed \o channel

ReceiverTypeOK ==
  /\ inbound \in Seq(FrameKinds) /\ read \in 0 .. Len(inbound)
  /\ channel \in Seq(Nat) /\ consumed \in Seq(Nat)
  /\ receiver \in {"none", "reading", "sending", "ended"}

(* A receiver that waits for room has just read the frame it sends, which  *)
(* is the last in the channel.                                             *)
SendsLastFrame ==
  receiver = "sending" =>
    /\ channel # <<>> /\ read > 0 /\ inbound[read] = "Data"
    /\ consumer # "gone" => Last(channel) = read

(* What the consumer got or will get, while it stays.                      *)
NothingMissed ==
  consumer # "gone" =>
    /\ Ordered(Passed)
    /\ \/ ValuesOf(Passed) = DataAmong(inbound, read)
       \/ /\ clientDropped
          /\ \E final \in DataAmong(inbound, read) :
               /\ \A n \in DataAmong(inbound, read) : n <= final
               /\ ValuesOf(Passed) = DataAmong(inbound, read) \ {final}

EventsInv ==
  /\ ReceiverTypeOK
  /\ SendsLastFrame
  /\ NothingMissed
  /\ clientDropped => receiver \in {"none", "ended"}

(* A greater number at the end.                                            *)
LEMMA OrderedAppend ==
  ASSUME NEW s \in Seq(Nat), NEW x \in Nat, Ordered(s), \A v \in ValuesOf(s) : v < x
  PROVE  Ordered(Append(s, x)) /\ ValuesOf(Append(s, x)) = ValuesOf(s) \cup {x}
<1> DEFINE t == Append(s, x)
           n == Len(s)
<1>1. n \in Nat /\ DOMAIN s = 1 .. n /\ DOMAIN t = 1 .. n + 1
  OBVIOUS
<1>2. t[n + 1] = x /\ \A i \in 1 .. n : t[i] = s[i] /\ s[i] \in Nat /\ s[i] < x
  BY <1>1 DEF ValuesOf
<1> HIDE DEF t, n
<1>3. Ordered(t)
  <2> SUFFICES ASSUME NEW i \in 1 .. n + 1, NEW j \in 1 .. n + 1, i < j PROVE t[i] < t[j]
    BY <1>1 DEF Ordered
  <2>1. i \in 1 .. n
    BY <1>1
  <2>2. CASE j = n + 1
    BY <1>2, <2>1, <2>2
  <2>3. CASE j # n + 1
    <3>1. j \in 1 .. n
      BY <1>1, <2>3
    <3>2. s[i] < s[j]
      BY <1>1, <2>1, <3>1 DEF Ordered
    <3> QED BY <1>2, <2>1, <3>1, <3>2
  <2> QED BY <2>2, <2>3
<1>4. ValuesOf(t) = ValuesOf(s) \cup {x}
  <2>1. ASSUME NEW i \in 1 .. n + 1 PROVE t[i] \in ValuesOf(s) \cup {x}
    <3>1. CASE i = n + 1
      BY <1>2, <3>1
    <3>2. CASE i # n + 1
      <4>1. i \in 1 .. n
        BY <1>1, <3>2
      <4> QED BY <1>1, <1>2, <4>1 DEF ValuesOf
    <3> QED BY <3>1, <3>2
  <2>2. ASSUME NEW i \in 1 .. n PROVE s[i] \in ValuesOf(t)
    <3>1. i \in 1 .. n + 1
      BY <1>1
    <3> QED BY <1>1, <1>2, <3>1 DEF ValuesOf
  <2>3. x \in ValuesOf(t)
    <3>1. n + 1 \in 1 .. n + 1
      BY <1>1
    <3> QED BY <1>1, <1>2, <3>1 DEF ValuesOf
  <2>4. ValuesOf(t) \subseteq ValuesOf(s) \cup {x}
    BY <1>1, <2>1 DEF ValuesOf
  <2>5. ValuesOf(s) \subseteq ValuesOf(t)
    BY <1>1, <2>2 DEF ValuesOf
  <2> QED BY <2>3, <2>4, <2>5
<1> QED BY <1>3, <1>4 DEF t

(* The greatest number taken from the end.                                 *)
LEMMA OrderedWithoutLast ==
  ASSUME NEW s \in Seq(Nat), NEW x \in Nat, Ordered(Append(s, x))
  PROVE  /\ Ordered(s) /\ ValuesOf(s) = ValuesOf(Append(s, x)) \ {x}
         /\ x \in ValuesOf(Append(s, x)) /\ \A v \in ValuesOf(Append(s, x)) : v <= x
<1> DEFINE t == Append(s, x)
           n == Len(s)
<1>1. n \in Nat /\ DOMAIN s = 1 .. n /\ DOMAIN t = 1 .. n + 1
  OBVIOUS
<1>2. t[n + 1] = x /\ \A i \in 1 .. n : t[i] = s[i] /\ s[i] \in Nat
  BY <1>1
<1> HIDE DEF t, n
<1>3. \A i \in 1 .. n : i \in 1 .. n + 1 /\ i < n + 1 /\ n + 1 \in 1 .. n + 1
  BY <1>1
<1>4. \A i \in 1 .. n : s[i] < x
  BY <1>1, <1>2, <1>3 DEF Ordered, t
<1>5. Ordered(s)
  BY <1>1, <1>2, <1>3 DEF Ordered, t
<1>6. \A v \in ValuesOf(s) : v < x
  BY <1>1, <1>4 DEF ValuesOf
<1>7. ValuesOf(t) = ValuesOf(s) \cup {x}
  BY <1>5, <1>6, OrderedAppend DEF t
<1>8. \A v \in ValuesOf(s) : v \in Nat
  BY <1>1, <1>2 DEF ValuesOf
<1> QED BY <1>5, <1>6, <1>7, <1>8 DEF t

(* What moves from the channel to the consumer stays where it was.         *)
LEMMA MovedStays ==
  ASSUME NEW a \in Seq(Nat), NEW b \in Seq(Nat), b # <<>>
  PROVE  Append(a, Head(b)) \o Tail(b) = a \o b
OBVIOUS

LEMMA JoinAppend ==
  ASSUME NEW a \in Seq(Nat), NEW b \in Seq(Nat), NEW x \in Nat
  PROVE  a \o Append(b, x) = Append(a \o b, x)
OBVIOUS

LEMMA FrontAndLast ==
  ASSUME NEW s \in Seq(Nat), s # <<>>
  PROVE  /\ Front(s) \in Seq(Nat) /\ Last(s) \in Nat
         /\ s = Append(Front(s), Last(s))
BY DEF Front, Last

LEMMA TailKeepsLast ==
  ASSUME NEW s \in Seq(Nat), Len(s) > 1
  PROVE  /\ Tail(s) \in Seq(Nat) /\ Tail(s) # <<>>
         /\ Last(Tail(s)) = Last(s)
BY DEF Last

LEMMA AppendLast ==
  ASSUME NEW s \in Seq(Nat), NEW x \in Nat
  PROVE  /\ Append(s, x) \in Seq(Nat) /\ Append(s, x) # <<>>
         /\ Append(s, x)[Len(Append(s, x))] = x
OBVIOUS

LEMMA EventsInvInit ==
  ASSUME ProviderInit PROVE EventsInv
<1>1. /\ inbound = <<>> /\ read = 0 /\ receiver = "none"
      /\ channel = <<>> /\ consumed = <<>> /\ clientDropped = FALSE
  BY DEF ProviderInit, Connected
<1>2. Passed = <<>>
  BY <1>1 DEF Passed
<1>3. Ordered(Passed) /\ ValuesOf(Passed) = {} /\ DataAmong(inbound, read) = {}
  BY <1>1, <1>2 DEF Ordered, ValuesOf, DataAmong
<1> QED BY <1>1, <1>3 DEF EventsInv, ReceiverTypeOK, SendsLastFrame, NothingMissed

(* A step that leaves the frames, the events and the consumer alone, and   *)
(* starts to send nothing.                                                 *)
LEMMA QuietEvents ==
  ASSUME EventsInv, UNCHANGED <<inbound, read, channel, consumed>>,
         consumer' = consumer \/ (consumer # "gone" /\ consumer' # "gone"),
         receiver' \in {"none", "reading", "sending", "ended"},
         receiver' = "sending" => receiver = "sending",
         clientDropped' = clientDropped,
         clientDropped => receiver' \in {"none", "ended"}
  PROVE  EventsInv'
<1>1. ReceiverTypeOK' /\ SendsLastFrame'
  BY DEF EventsInv, ReceiverTypeOK, SendsLastFrame
<1>2. NothingMissed'
  BY DEF EventsInv, NothingMissed, Passed
<1> QED BY <1>1, <1>2 DEF EventsInv

LEMMA PushKeepsEvents ==
  ASSUME EventsInv, NEW kind \in FrameKinds, Push(kind)
  PROVE  EventsInv'
<1>1. /\ inbound' = Append(inbound, kind)
      /\ UNCHANGED <<read, receiver, channel, consumer, consumed, clientDropped>>
  BY DEF Push
<1> DEFINE K == FrameKinds
<1>2. inbound \in Seq(K) /\ kind \in K /\ read \in 0 .. Len(inbound)
  BY DEF EventsInv, ReceiverTypeOK
<1> HIDE DEF K
<1>3. /\ inbound' \in Seq(K) /\ read \in 0 .. Len(inbound')
      /\ \A n \in 1 .. read : inbound'[n] = inbound[n]
  BY <1>1, <1>2
<1>4. DataAmong(inbound', read) = DataAmong(inbound, read)
  BY <1>3 DEF DataAmong
<1>5. read > 0 => read \in 1 .. read
  BY <1>2
<1>6. ReceiverTypeOK' /\ SendsLastFrame'
  BY <1>1, <1>3, <1>5 DEF EventsInv, ReceiverTypeOK, SendsLastFrame, K
<1>7. NothingMissed'
  BY <1>1, <1>4 DEF EventsInv, NothingMissed, Passed
<1> QED BY <1>1, <1>6, <1>7 DEF EventsInv

LEMMA ReadKeepsEvents ==
  ASSUME EventsInv, ReadFrame
  PROVE  EventsInv'
<1> DEFINE n == read + 1
<1>1. /\ receiver = "reading" /\ read < Len(inbound) /\ read' = n
      /\ UNCHANGED <<inbound, consumer, consumed, clientDropped>>
      /\ receiver' = CASE inbound[n] = "BadMagic" -> "ended"
                       [] inbound[n] = "Data"     -> "sending"
                       [] OTHER                   -> "reading"
      /\ channel' = IF inbound[n] = "Data" THEN Append(channel, n) ELSE channel
  BY DEF ReadFrame
<1>2. /\ inbound \in Seq(FrameKinds) /\ read \in Nat /\ Len(inbound) \in Nat
      /\ channel \in Seq(Nat) /\ consumed \in Seq(Nat)
      /\ ~ clientDropped
  BY <1>1 DEF EventsInv, ReceiverTypeOK
<1>3. n \in Nat /\ n \in 0 .. Len(inbound) /\ n > 0 /\ read = n - 1
  BY <1>1, <1>2
<1>4. Passed \in Seq(Nat)
  BY <1>2 DEF Passed
<1>5. \A v \in DataAmong(inbound, read) : v \in Nat /\ v < n
  BY <1>2 DEF DataAmong
<1> HIDE DEF n
<1>6. CASE inbound[n] = "Data"
  <2>1. receiver' = "sending" /\ channel' = Append(channel, n)
    BY <1>1, <1>6
  <2>2. channel' \in Seq(Nat) /\ channel' # <<>> /\ Last(channel') = n
    <3>0. channel' \in Seq(Nat)
      BY <1>2, <1>3, <2>1, AppendLast
    <3>1. PICK c \in Seq(Nat) : c = channel'
      BY <3>0
    <3>2. c # <<>> /\ c[Len(c)] = n
      BY <1>2, <1>3, <2>1, <3>1, AppendLast
    <3>3. Last(channel') = c[Len(c)]
      BY <3>1 DEF Last
    <3> QED BY <3>1, <3>2, <3>3
  <2>3. ReceiverTypeOK' /\ SendsLastFrame'
    BY <1>1, <1>2, <1>3, <1>6, <2>1, <2>2 DEF ReceiverTypeOK, SendsLastFrame
  <2>4. Passed' = Append(Passed, n)
    BY <1>1, <1>2, <1>3, <2>1, JoinAppend, SMTT(30) DEF Passed
  <2>5. DataAmong(inbound, n) = DataAmong(inbound, read) \cup {n}
    <3>1. \A k : k \in 1 .. n <=> k \in 1 .. read \/ k = n
      BY <1>2, <1>3
    <3> QED BY <1>6, <3>1 DEF DataAmong
  <2>6. ASSUME consumer # "gone"
        PROVE  Ordered(Passed') /\ ValuesOf(Passed') = DataAmong(inbound, n)
    <3>1. Ordered(Passed) /\ ValuesOf(Passed) = DataAmong(inbound, read)
      BY <1>2, <2>6 DEF EventsInv, NothingMissed
    <3> QED BY <1>3, <1>4, <1>5, <2>4, <2>5, <3>1, OrderedAppend
  <2>7. NothingMissed'
    BY <1>1, <2>6 DEF NothingMissed
  <2> QED BY <1>1, <1>2, <2>3, <2>7 DEF EventsInv
<1>7. CASE inbound[n] # "Data"
  <2>1. receiver' \in {"reading", "ended"} /\ channel' = channel
    BY <1>1, <1>7
  <2>2. ReceiverTypeOK' /\ SendsLastFrame'
    BY <1>1, <1>2, <1>3, <2>1 DEF ReceiverTypeOK, SendsLastFrame
  <2>3. DataAmong(inbound, n) = DataAmong(inbound, read)
    <3>1. \A k : k \in 1 .. n <=> k \in 1 .. read \/ k = n
      BY <1>2, <1>3
    <3> QED BY <1>7, <3>1 DEF DataAmong
  <2>4. NothingMissed'
    BY <1>1, <2>1, <2>3 DEF EventsInv, NothingMissed, Passed
  <2> QED BY <1>1, <1>2, <2>2, <2>4 DEF EventsInv
<1> QED BY <1>6, <1>7

LEMMA ConsumeKeepsEvents ==
  ASSUME EventsInv, Consume
  PROVE  EventsInv'
<1>1. /\ consumer = "receiving" /\ InChannel > 0
      /\ consumed' = Append(consumed, Head(channel)) /\ channel' = Tail(channel)
      /\ UNCHANGED <<inbound, read, receiver, consumer, clientDropped>>
  BY DEF Consume
<1>2. channel \in Seq(Nat) /\ consumed \in Seq(Nat)
  BY DEF EventsInv, ReceiverTypeOK
<1>3. channel # <<>> /\ (receiver = "sending" => Len(channel) > 1)
  BY <1>1, <1>2 DEF InChannel
<1>4. channel' \in Seq(Nat) /\ consumed' \in Seq(Nat)
  BY <1>1, <1>2, <1>3
<1>5. ReceiverTypeOK'
  BY <1>1, <1>4 DEF EventsInv, ReceiverTypeOK
<1>6. SendsLastFrame'
  BY <1>1, <1>2, <1>3, TailKeepsLast DEF EventsInv, SendsLastFrame
<1>7. Passed' = Passed
  BY <1>1, <1>2, <1>3, MovedStays DEF Passed
<1>8. NothingMissed'
  BY <1>1, <1>7 DEF EventsInv, NothingMissed
<1> QED BY <1>1, <1>5, <1>6, <1>8 DEF EventsInv

LEMMA DepartKeepsEvents ==
  ASSUME EventsInv, Depart
  PROVE  EventsInv'
<1>1. /\ consumer' = "gone"
      /\ channel' = IF receiver = "sending" THEN <<Last(channel)>> ELSE <<>>
      /\ UNCHANGED <<inbound, read, receiver, consumed, clientDropped>>
  BY DEF Depart
<1>2. receiver = "sending" => Last(channel) \in Nat
  BY FrontAndLast DEF EventsInv, ReceiverTypeOK, SendsLastFrame
<1>3. channel' \in Seq(Nat) /\ (receiver = "sending" => channel' # <<>>)
  BY <1>1, <1>2
<1> QED
  BY <1>1, <1>3 DEF EventsInv, ReceiverTypeOK, SendsLastFrame, NothingMissed

LEMMA SendKeepsEvents ==
  ASSUME EventsInv, SendEvent
  PROVE  EventsInv'
<1>1. UNCHANGED <<inbound, read, consumer, consumed, clientDropped>> /\ receiver = "sending"
  BY DEF SendEvent
<1>2. ~ clientDropped
  BY <1>1 DEF EventsInv
<1>3. CASE receiver' = "reading" /\ channel' = channel
  BY <1>1, <1>2, <1>3, QuietEvents
<1>4. CASE consumer = "gone" /\ receiver' = "ended" /\ channel' = <<>>
  BY <1>1, <1>2, <1>4 DEF EventsInv, ReceiverTypeOK, SendsLastFrame, NothingMissed
<1> QED BY <1>3, <1>4 DEF SendEvent

LEMMA DropKeepsEvents ==
  ASSUME EventsInv, DropClient
  PROVE  EventsInv'
<1>1. /\ ~ clientDropped /\ clientDropped' = TRUE
      /\ receiver' = IF receiver = "none" THEN "none" ELSE "ended"
      /\ channel' = IF receiver = "sending" THEN Front(channel) ELSE channel
      /\ UNCHANGED <<inbound, read, consumer, consumed>>
  BY DEF DropClient
<1>2. /\ receiver' \in {"none", "ended"}
      /\ channel \in Seq(Nat) /\ consumed \in Seq(Nat)
  BY <1>1 DEF EventsInv, ReceiverTypeOK
<1>3. CASE receiver = "sending"
  <2>1. channel # <<>>
    BY <1>3 DEF EventsInv, SendsLastFrame
  <2>2. /\ channel' \in Seq(Nat) /\ Last(channel) \in Nat
        /\ channel = Append(channel', Last(channel))
    BY <1>1, <1>2, <1>3, <2>1, FrontAndLast
  <2>3. PICK final \in Nat : final = Last(channel)
    BY <2>2
  <2>4. Passed = Append(Passed', final) /\ Passed' \in Seq(Nat)
    <3>1. PICK c \in Seq(Nat) : c = channel'
      BY <2>2
    <3>2. channel = Append(c, final)
      BY <2>2, <2>3, <3>1
    <3>3. consumed \o channel = Append(consumed \o c, final)
      <4>1. consumed \o Append(c, final) = Append(consumed \o c, final)
        BY <1>2, JoinAppend
      <4> QED BY <3>2, <4>1
    <3>4. Passed' = consumed \o c
      BY <1>1, <3>1 DEF Passed
    <3> QED BY <1>2, <3>1, <3>3, <3>4 DEF Passed
  <2>5. ASSUME consumer # "gone"
        PROVE  /\ Ordered(Passed')
               /\ final \in DataAmong(inbound, read)
               /\ \A n \in DataAmong(inbound, read) : n <= final
               /\ ValuesOf(Passed') = DataAmong(inbound, read) \ {final}
    <3>1. Ordered(Passed) /\ ValuesOf(Passed) = DataAmong(inbound, read)
      BY <1>1, <2>5 DEF EventsInv, NothingMissed
    <3>2. PICK s \in Seq(Nat) : s = Passed'
      BY <2>4
    <3> QED BY <2>4, <3>1, <3>2, OrderedWithoutLast
  <2>6. ReceiverTypeOK' /\ SendsLastFrame'
    BY <1>1, <1>2, <2>2 DEF EventsInv, ReceiverTypeOK, SendsLastFrame
  <2>7. NothingMissed'
    BY <1>1, <2>5 DEF NothingMissed
  <2> QED BY <1>2, <2>6, <2>7 DEF EventsInv
<1>4. CASE receiver # "sending"
  <2>1. channel' = channel
    BY <1>1, <1>4
  <2>2. ReceiverTypeOK' /\ SendsLastFrame'
    BY <1>1, <1>2, <2>1 DEF EventsInv, ReceiverTypeOK, SendsLastFrame
  <2>3. NothingMissed'
    BY <1>1, <2>1 DEF EventsInv, NothingMissed, Passed
  <2> QED BY <1>2, <2>2, <2>3 DEF EventsInv
<1> QED BY <1>3, <1>4

LEMMA EventsInvStep ==
  ASSUME EventsInv, [ProviderNext]_providerVars
  PROVE  EventsInv'
<1> DEFINE Quiet == UNCHANGED <<inbound, read, receiver, channel, consumer, consumed, clientDropped>>
<1>1. ASSUME Quiet PROVE EventsInv'
  BY <1>1, QuietEvents DEF EventsInv, ReceiverTypeOK
<1>2. CASE Calls \/ CallReturns \/ KeepAlive
  <2>1. Quiet
    BY <1>2 DEF Calls, Subscribe, Unsubscribe, FetchHistoricalBars,
       Call, CallReturns, KeepAlive, Begin, Return,
       receiverVars
  <2> QED BY <1>1, <2>1
<1>3. CASE ClientStep
  <2>1. ASSUME NEW w \in Writers, WriterStep(w)
        PROVE  EventsInv'
    <3>1. Quiet
      BY <2>1 DEF WriterStep, WriteHeader, WriteBody, Fail,
         receiverVars
    <3> QED BY <1>1, <3>1
  <2>2. CASE StartPushReceiver
    <3>1. /\ ~ clientDropped /\ receiver' = "reading"
          /\ UNCHANGED <<inbound, read, channel, consumer, consumed, clientDropped>>
      BY <2>2 DEF StartPushReceiver
    <3> QED BY <3>1, QuietEvents
  <2>3. CASE ReadEnd
    <3>1. /\ receiver' = "ended"
          /\ UNCHANGED <<inbound, read, channel, consumer, consumed, clientDropped>>
      BY <2>3 DEF ReadEnd
    <3> QED BY <3>1, QuietEvents
  <2> QED
    BY <1>3, <2>1, <2>2, <2>3, ReadKeepsEvents, SendKeepsEvents, DropKeepsEvents
    DEF ClientStep, ReceiverStep
<1>4. CASE Environment
  <2>1. CASE Serve \/ Close
    <3>1. Quiet
      BY <2>1 DEF Serve, Close, receiverVars
    <3> QED BY <1>1, <3>1
  <2>2. CASE HearEnd
    <3>1. /\ consumer = "receiving" /\ consumer' = "heard"
          /\ UNCHANGED <<inbound, read, receiver, channel, consumed, clientDropped>>
      BY <2>2 DEF HearEnd
    <3> QED BY <3>1, QuietEvents DEF EventsInv, ReceiverTypeOK
  <2> QED
    BY <1>4, <2>1, <2>2, PushKeepsEvents, ConsumeKeepsEvents, DepartKeepsEvents
    DEF Environment, ConsumerStep
<1>5. CASE UNCHANGED providerVars
  <2>1. Quiet
    BY <1>5 DEF providerVars, clientVars, receiverVars
  <2> QED BY <1>1, <2>1
<1> QED BY <1>2, <1>3, <1>4, <1>5 DEF ProviderNext

(* Whatever the size of the channel and the pace of the consumer, each     *)
(* frame of data is passed on once and in order while the consumer stays   *)
(* (the loop of start_push_receiver in market-data/src/futu/client.rs).    *)
THEOREM EventsAlwaysInOrder == ProviderSpec => []EventsKeepOrder
<1>1. EventsInv => EventsKeepOrder
  <2> SUFFICES ASSUME EventsInv PROVE EventsKeepOrder
    OBVIOUS
  <2>1. Range(Passed) = ValuesOf(Passed)
    BY DEF Range, ValuesOf
  <2> QED BY <2>1 DEF EventsInv, NothingMissed, EventsKeepOrder, Ordered, DataAmong, Passed
<1> QED BY <1>1, EventsInvInit, EventsInvStep, PTL DEF ProviderSpec

-----------------------------------------------------------------------------
(* Subscriptions at the gateway and the aggregators for their bars.        *)

SubTypes == {SubType(t) : t \in ClientTimeframes}

Subscriptions == Securities \X SubTypes

Aggregators == Securities \X ClientTimeframes

SubRequests ==
  [op : {"subscribe", "unsubscribe"}, securities : SUBSET Securities,
   timeframes : SUBSET ClientTimeframes]

OtherRequests == {NoRequest, KeepAliveRequest, HistoryRequest}

AllRequests == SubRequests \cup OtherRequests

Starts(r, p) == r.op = "subscribe" /\ p \in DataTypes(r)

Ends(r, p) == r.op = "unsubscribe" /\ p \in DataTypes(r)

(* Is p pushed once the requests rs are read by a gateway that pushes held? *)
WillHold(p, held, rs) ==
  \/ p \in held /\ \A j \in 1 .. Len(rs) : ~ Ends(rs[j], p)
  \/ \E i \in 1 .. Len(rs) :
       Starts(rs[i], p) /\ \A j \in i + 1 .. Len(rs) : ~ Ends(rs[j], p)

(* The gateway will push the bars there are aggregators for.               *)
Agree(held, rs, expected) ==
  /\ \A p \in Subscriptions : WillHold(p, held, rs) =>
       \E a \in expected : a[1] = p[1] /\ SubType(a[2]) = p[2]
  /\ \A a \in expected : a[2] \notin Shared => WillHold(a, held, rs)
  /\ held \subseteq Securities \X (SubTypes \cup {"RT"})

Aggregated(r, before) ==
  CASE r.op = "subscribe" -> before \cup (r.securities \X r.timeframes)
    [] r.op = "unsubscribe" -> before \ (r.securities \X r.timeframes)
    [] OTHER -> before

(* The aggregators there will be when the call that has written its        *)
(* request returns.                                                        *)
Expected ==
  IF place["caller"] \in {"body", "written"}
  THEN Aggregated(sending["caller"], aggregators) ELSE aggregators

CallsTypeOK ==
  /\ place \in [Writers -> Places]
  /\ sending \in [Writers -> AllRequests]
  /\ sending["keepAlive"] \in OtherRequests
  /\ requests \in Seq(AllRequests)
  /\ aggregators \in SUBSET Aggregators

CallsInv ==
  /\ CallsTypeOK
  /\ link = "open" => Agree(subscribed, requests, Expected)

LEMMA SubTypeFacts ==
  /\ "RT" \notin SubTypes
  /\ \A t \in ClientTimeframes :
       /\ SubType(t) \in SubTypes
       /\ t \notin Shared => SubType(t) = t
       /\ SubType(t) = t \/ SubType(t) \in Shared
BY DEF SubTypes, SubType, ClientTimeframes, Shared

(* What a request is about.                                                *)
LEMMA RequestFacts ==
  ASSUME NEW r \in AllRequests
  PROVE  \/ /\ r \in SubRequests /\ r.op \in {"subscribe", "unsubscribe"}
            /\ r.securities \subseteq Securities /\ r.timeframes \subseteq ClientTimeframes
         \/ r \in OtherRequests /\ r.op \notin {"subscribe", "unsubscribe"}
BY DEF AllRequests, SubRequests, OtherRequests, NoRequest, KeepAliveRequest,
   HistoryRequest

LEMMA DataFacts ==
  ASSUME NEW r \in SubRequests
  PROVE  /\ DataTypes(r) \subseteq Securities \X (SubTypes \cup {"RT"})
         /\ \A p \in Subscriptions :
              p \in DataTypes(r) <=>
                \E t \in r.timeframes : p[1] \in r.securities /\ p[2] = SubType(t)
<1> DEFINE S == r.securities
           T == r.timeframes
           types == {SubType(t) : t \in T}
           live == IF r.op = "subscribe" THEN {"RT"} ELSE {}
<1>1. DataTypes(r) = S \X (types \cup live)
  BY DEF DataTypes
<1>2. S \subseteq Securities /\ T \subseteq ClientTimeframes
  BY DEF SubRequests
<1>3. types \subseteq SubTypes /\ live \subseteq {"RT"}
  BY <1>2, SubTypeFacts
<1>4. ASSUME NEW p \in Subscriptions
      PROVE  p \in DataTypes(r) <=> p[1] \in S /\ p[2] \in types
  <2>1. p = <<p[1], p[2]>> /\ p[2] \in SubTypes
    BY DEF Subscriptions
  <2>2. p[2] \notin live
    BY <1>3, <2>1, SubTypeFacts
  <2> HIDE DEF live, types, S
  <2> QED BY <1>1, <2>1, <2>2
<1>5. DataTypes(r) \subseteq Securities \X (SubTypes \cup {"RT"})
  BY <1>1, <1>2, <1>3
<1> QED BY <1>4, <1>5

LEMMA HoldsNone ==
  ASSUME NEW p, NEW held
  PROVE  WillHold(p, held, <<>>) <=> p \in held
BY DEF WillHold

LEMMA HoldsAppend ==
  ASSUME NEW R, NEW rs \in Seq(R), NEW r \in R, NEW p, NEW held
  PROVE  WillHold(p, held, Append(rs, r)) <=>
           Starts(r, p) \/ (WillHold(p, held, rs) /\ ~ Ends(r, p))
<1> DEFINE qs == Append(rs, r)
           n == Len(rs)
<1>1. n \in Nat /\ Len(qs) = n + 1 /\ qs[n + 1] = r
  OBVIOUS
<1>2. \A i \in 1 .. n : qs[i] = rs[i]
  OBVIOUS
<1>3. ~ (Starts(r, p) /\ Ends(r, p))
  BY DEF Starts, Ends
<1> HIDE DEF qs, n
<1>4. \A i : i \in 1 .. n + 1 <=> i \in 1 .. n \/ i = n + 1
  BY <1>1
<1>5. n + 1 + 1 .. n + 1 = {}
  BY <1>1
<1>6. ASSUME NEW i \in 1 .. n
      PROVE  \A j : j \in i + 1 .. n + 1 <=> j \in i + 1 .. n \/ j = n + 1
  BY <1>1
<1>7. \A i \in 1 .. n : i + 1 .. n \subseteq 1 .. n
  BY <1>1
<1>8. (\A j \in 1 .. n + 1 : ~ Ends(qs[j], p)) <=>
        (\A j \in 1 .. n : ~ Ends(rs[j], p)) /\ ~ Ends(r, p)
  BY <1>1, <1>2, <1>4
<1>9. ASSUME NEW i \in 1 .. n
      PROVE  (\A j \in i + 1 .. n + 1 : ~ Ends(qs[j], p)) <=>
               (\A j \in i + 1 .. n : ~ Ends(rs[j], p)) /\ ~ Ends(r, p)
  <2>1. \A j \in i + 1 .. n : qs[j] = rs[j]
    BY <1>2, <1>7
  <2> QED BY <1>1, <1>6, <2>1
<1>10. (\E i \in 1 .. n + 1 : Starts(qs[i], p) /\ \A j \in i + 1 .. n + 1 : ~ Ends(qs[j], p))
         <=> \/ Starts(r, p)
             \/ /\ \E i \in 1 .. n : Starts(rs[i], p) /\ \A j \in i + 1 .. n : ~ Ends(rs[j], p)
                /\ ~ Ends(r, p)
  <2>1. (\E i \in 1 .. n + 1 : Starts(qs[i], p) /\ \A j \in i + 1 .. n + 1 : ~ Ends(qs[j], p))
          <=> \/ Starts(qs[n + 1], p) /\ \A j \in n + 1 + 1 .. n + 1 : ~ Ends(qs[j], p)
              \/ \E i \in 1 .. n :
                   Starts(qs[i], p) /\ \A j \in i + 1 .. n + 1 : ~ Ends(qs[j], p)
    BY <1>4
  <2> QED BY <1>1, <1>2, <1>5, <1>9, <2>1
<1>11. WillHold(p, held, qs) <=>
         \/ p \in held /\ \A j \in 1 .. n + 1 : ~ Ends(qs[j], p)
         \/ \E i \in 1 .. n + 1 :
              Starts(qs[i], p) /\ \A j \in i + 1 .. n + 1 : ~ Ends(qs[j], p)
  BY <1>1 DEF WillHold
<1>12. WillHold(p, held, rs) <=>
         \/ p \in held /\ \A j \in 1 .. n : ~ Ends(rs[j], p)
         \/ \E i \in 1 .. n : Starts(rs[i], p) /\ \A j \in i + 1 .. n : ~ Ends(rs[j], p)
  BY DEF WillHold, n
<1> QED BY <1>3, <1>8, <1>10, <1>11, <1>12 DEF qs

(* The gateway reads the first request.                                    *)
LEMMA HoldsTail ==
  ASSUME NEW R, NEW rs \in Seq(R), rs # <<>>, NEW p, NEW held, NEW after,
         p \in after <=> Starts(Head(rs), p) \/ (p \in held /\ ~ Ends(Head(rs), p))
  PROVE  WillHold(p, after, Tail(rs)) <=> WillHold(p, held, rs)
<1> DEFINE qs == Tail(rs)
           r == Head(rs)
           n == Len(rs) - 1
<1>1. n \in Nat /\ Len(rs) = n + 1 /\ Len(qs) = n /\ rs[1] = r
  OBVIOUS
<1>2. \A i \in 1 .. n : rs[i + 1] = qs[i]
  OBVIOUS
<1> HIDE DEF qs, n, r
<1>3. \A i : i \in 1 .. n + 1 <=> i = 1 \/ \E k \in 1 .. n : i = k + 1
  <2> SUFFICES ASSUME NEW i \in 1 .. n + 1, i # 1 PROVE \E k \in 1 .. n : i = k + 1
    BY <1>1
  <2>1. i - 1 \in 1 .. n /\ i = (i - 1) + 1
    BY <1>1
  <2> QED BY <2>1
<1>4. ASSUME NEW m \in 0 .. n
      PROVE  \A i : i \in (m + 1) + 1 .. n + 1 <=> \E k \in m + 1 .. n : i = k + 1
  <2> SUFFICES ASSUME NEW i \in (m + 1) + 1 .. n + 1 PROVE \E k \in m + 1 .. n : i = k + 1
    BY <1>1
  <2>1. i - 1 \in m + 1 .. n /\ i = (i - 1) + 1
    BY <1>1
  <2> QED BY <2>1
<1>5. ASSUME NEW m \in 0 .. n
      PROVE  (\A j \in (m + 1) + 1 .. n + 1 : ~ Ends(rs[j], p)) <=>
               (\A j \in m + 1 .. n : ~ Ends(qs[j], p))
  <2>1. \A k \in m + 1 .. n : rs[k + 1] = qs[k]
    BY <1>1, <1>2
  <2> QED BY <1>4, <2>1
<1>6. (\A j \in 1 + 1 .. n + 1 : ~ Ends(rs[j], p)) <=> \A j \in 1 .. n : ~ Ends(qs[j], p)
  <2>1. 0 \in 0 .. n /\ 0 + 1 = 1
    BY <1>1
  <2> QED BY <1>5, <2>1
<1>7. (\A j \in 1 .. n + 1 : ~ Ends(rs[j], p)) <=>
        ~ Ends(r, p) /\ \A j \in 1 .. n : ~ Ends(qs[j], p)
  <2>1. (\A j \in 1 .. n + 1 : ~ Ends(rs[j], p)) <=>
          ~ Ends(rs[1], p) /\ \A k \in 1 .. n : ~ Ends(rs[k + 1], p)
    BY <1>3
  <2> QED BY <1>1, <1>2, <2>1
<1>8. (\E i \in 1 .. n + 1 : Starts(rs[i], p) /\ \A j \in i + 1 .. n + 1 : ~ Ends(rs[j], p))
         <=> \/ Starts(r, p) /\ \A j \in 1 .. n : ~ Ends(qs[j], p)
             \/ \E i \in 1 .. n : Starts(qs[i], p) /\ \A j \in i + 1 .. n : ~ Ends(qs[j], p)
  <2>1. \A i \in 1 .. n : i \in 0 .. n
    BY <1>1
  <2>2. (\E i \in 1 .. n + 1 : Starts(rs[i], p) /\ \A j \in i + 1 .. n + 1 : ~ Ends(rs[j], p))
         <=> \/ Starts(rs[1], p) /\ \A j \in 1 + 1 .. n + 1 : ~ Ends(rs[j], p)
             \/ \E i \in 1 .. n :
                  Starts(rs[i + 1], p) /\ \A j \in (i + 1) + 1 .. n + 1 : ~ Ends(rs[j], p)
    BY <1>3
  <2> QED BY <1>1, <1>2, <1>5, <1>6, <2>1, <2>2
<1>9. WillHold(p, after, qs) <=>
         \/ p \in after /\ \A j \in 1 .. n : ~ Ends(qs[j], p)
         \/ \E i \in 1 .. n : Starts(qs[i], p) /\ \A j \in i + 1 .. n : ~ Ends(qs[j], p)
  BY <1>1 DEF WillHold
<1>10. WillHold(p, held, rs) <=>
         \/ p \in held /\ \A j \in 1 .. n + 1 : ~ Ends(rs[j], p)
         \/ \E i \in 1 .. n + 1 :
              Starts(rs[i], p) /\ \A j \in i + 1 .. n + 1 : ~ Ends(rs[j], p)
  BY <1>1 DEF WillHold
<1>11. p \in after <=> Starts(r, p) \/ (p \in held /\ ~ Ends(r, p))
  BY DEF r
<1> QED BY <1>7, <1>8, <1>9, <1>10, <1>11 DEF qs

(* A request written: the gateway has it to read, the call it to carry out.*)
LEMMA AgreeAppend ==
  ASSUME NEW rs \in Seq(AllRequests), NEW r \in AllRequests, NEW held,
         NEW before \in SUBSET Aggregators, Agree(held, rs, before)
  PROVE  Agree(held, Append(rs, r), Aggregated(r, before))
<1> DEFINE qs == Append(rs, r)
           after == Aggregated(r, before)
           Serves(a, p) == a[1] = p[1] /\ SubType(a[2]) = p[2]
<1>1. \A p : WillHold(p, held, qs) <=> Starts(r, p) \/ (WillHold(p, held, rs) /\ ~ Ends(r, p))
  BY HoldsAppend
<1>2. /\ \A p \in Subscriptions : WillHold(p, held, rs) => \E a \in before : Serves(a, p)
      /\ \A a \in before : a[2] \notin Shared => WillHold(a, held, rs)
      /\ held \subseteq Securities \X (SubTypes \cup {"RT"})
  BY DEF Agree
<1>3. \A a \in before :
        /\ a[1] \in Securities /\ a[2] \in ClientTimeframes /\ a = <<a[1], a[2]>>
        /\ a[2] \notin Shared => a \in Subscriptions
  BY SubTypeFacts DEF Aggregators, Subscriptions
<1> HIDE DEF qs
<1>4. CASE r \in OtherRequests /\ r.op \notin {"subscribe", "unsubscribe"}
  <2>1. after = before /\ \A p : ~ Starts(r, p) /\ ~ Ends(r, p)
    BY <1>4 DEF Aggregated, Starts, Ends
  <2> QED BY <1>1, <1>2, <2>1 DEF Agree, qs
<1>5. CASE r \in SubRequests /\ r.op = "subscribe"
  <2> DEFINE pairs == r.securities \X r.timeframes
  <2>1. /\ after = before \cup pairs
        /\ \A p : ~ Ends(r, p) /\ (Starts(r, p) <=> p \in DataTypes(r))
    BY <1>5 DEF Aggregated, Starts, Ends
  <2>2. r.securities \subseteq Securities /\ r.timeframes \subseteq ClientTimeframes
    BY <1>5 DEF SubRequests
  <2>3. ASSUME NEW p \in Subscriptions, WillHold(p, held, qs)
        PROVE  \E a \in after : Serves(a, p)
    <3>1. CASE p \in DataTypes(r)
      <4>1. PICK t \in r.timeframes : p[1] \in r.securities /\ p[2] = SubType(t)
        BY <1>5, <3>1, DataFacts
      <4>2. <<p[1], t>> \in pairs
        BY <4>1
      <4>3. Serves(<<p[1], t>>, p)
        BY <4>1
      <4> HIDE DEF pairs, after, Serves
      <4> QED BY <2>1, <4>2, <4>3
    <3>2. CASE p \notin DataTypes(r)
      <4> HIDE DEF pairs, after, Serves
      <4> QED BY <1>1, <1>2, <2>1, <2>3, <3>2
    <3> QED BY <3>1, <3>2
  <2>4. ASSUME NEW a \in after, a[2] \notin Shared
        PROVE  WillHold(a, held, qs)
    <3>1. CASE a \in before
      BY <1>1, <1>2, <2>1, <2>4, <3>1
    <3>2. CASE a \in pairs
      <4>1. a[1] \in r.securities /\ a[2] \in r.timeframes /\ a[1] \in Securities
            /\ a[2] \in ClientTimeframes /\ a = <<a[1], a[2]>>
        BY <2>2, <3>2
      <4>2. SubType(a[2]) = a[2] /\ a[2] \in SubTypes
        BY <2>4, <4>1, SubTypeFacts
      <4>3. a \in Subscriptions
        BY <4>1, <4>2 DEF Subscriptions
      <4>4. a \in DataTypes(r)
        BY <1>5, <4>1, <4>2, <4>3, DataFacts
      <4> QED BY <1>1, <2>1, <4>4
    <3> HIDE DEF pairs, after
    <3> QED BY <2>1, <2>4, <3>1, <3>2
  <2> HIDE DEF after
  <2> QED BY <1>2, <2>3, <2>4 DEF Agree, qs, after
<1>6. CASE r \in SubRequests /\ r.op = "unsubscribe"
  <2> DEFINE pairs == r.securities \X r.timeframes
  <2>1. /\ after = before \ pairs
        /\ \A p : ~ Starts(r, p) /\ (Ends(r, p) <=> p \in DataTypes(r))
    BY <1>6 DEF Aggregated, Starts, Ends
  <2>2. r.securities \subseteq Securities /\ r.timeframes \subseteq ClientTimeframes
    BY <1>6 DEF SubRequests
  <2>3. ASSUME NEW p \in Subscriptions, WillHold(p, held, qs)
        PROVE  \E a \in after : Serves(a, p)
    <3>1. WillHold(p, held, rs) /\ p \notin DataTypes(r)
      BY <1>1, <2>1, <2>3
    <3>2. PICK a \in before : Serves(a, p)
      BY <1>2, <3>1
    <3>3. a \notin pairs
      <4>1. SUFFICES ASSUME a \in pairs PROVE FALSE
        OBVIOUS
      <4>2. a[1] \in r.securities /\ a[2] \in r.timeframes
        BY <4>1
      <4> QED BY <1>6, <3>1, <3>2, <4>2, DataFacts
    <3> HIDE DEF pairs, after, Serves
    <3> QED BY <2>1, <3>2, <3>3
  <2>4. ASSUME NEW a \in after, a[2] \notin Shared
        PROVE  WillHold(a, held, qs)
    <3>1. a \in before /\ a \notin pairs
      <4> HIDE DEF pairs, after
      <4> QED BY <2>1, <2>4
    <3>2. a \in Subscriptions /\ a = <<a[1], a[2]>> /\ WillHold(a, held, rs)
      BY <1>2, <1>3, <2>4, <3>1
    <3>3. a \notin DataTypes(r)
      <4>1. SUFFICES ASSUME a \in DataTypes(r) PROVE FALSE
        OBVIOUS
      <4>2. PICK t \in r.timeframes : a[1] \in r.securities /\ a[2] = SubType(t)
        BY <1>6, <3>2, <4>1, DataFacts
      <4>3. t \in ClientTimeframes
        BY <2>2, <4>2
      <4>4. a[2] = t
        BY <2>4, <4>2, <4>3, SubTypeFacts
      <4> QED BY <3>1, <3>2, <4>2, <4>4
    <3> QED BY <1>1, <2>1, <3>2, <3>3
  <2> HIDE DEF after
  <2> QED BY <1>2, <2>3, <2>4 DEF Agree, qs, after
<1> QED BY <1>4, <1>5, <1>6, RequestFacts

(* The gateway reads a request and follows it.                             *)
LEMMA AgreeTail ==
  ASSUME NEW rs \in Seq(AllRequests), rs # <<>>, NEW held, NEW expected \in SUBSET Aggregators,
         NEW after,
         after = CASE Head(rs).op = "subscribe"   -> held \cup DataTypes(Head(rs))
                   [] Head(rs).op = "unsubscribe" -> held \ DataTypes(Head(rs))
                   [] OTHER                       -> held,
         Agree(held, rs, expected)
  PROVE  Agree(after, Tail(rs), expected)
<1>1. PICK r \in AllRequests : r = Head(rs)
  OBVIOUS
<1>2. /\ after = CASE r.op = "subscribe"   -> held \cup DataTypes(r)
                   [] r.op = "unsubscribe" -> held \ DataTypes(r)
                   [] OTHER                -> held
  BY <1>1
<1>3. \A p : p \in after <=> Starts(r, p) \/ (p \in held /\ ~ Ends(r, p))
  <2>1. CASE r.op = "subscribe"
    BY <1>2, <2>1 DEF Starts, Ends
  <2>2. CASE r.op = "unsubscribe"
    BY <1>2, <2>2 DEF Starts, Ends
  <2>3. CASE r.op \notin {"subscribe", "unsubscribe"}
    BY <1>2, <2>3 DEF Starts, Ends
  <2> QED BY <2>1, <2>2, <2>3
<1>4. \A p : WillHold(p, after, Tail(rs)) <=> WillHold(p, held, rs)
  BY <1>1, <1>3, HoldsTail
<1>5. after \subseteq Securities \X (SubTypes \cup {"RT"})
  <2>1. held \subseteq Securities \X (SubTypes \cup {"RT"})
    BY DEF Agree
  <2>2. CASE r.op \in {"subscribe", "unsubscribe"}
    <3>1. r \in SubRequests
      BY <2>2, RequestFacts
    <3>2. DataTypes(r) \subseteq Securities \X (SubTypes \cup {"RT"})
      BY <3>1, DataFacts
    <3> QED BY <1>2, <2>1, <2>2, <3>2
  <2>3. CASE r.op \notin {"subscribe", "unsubscribe"}
    BY <1>2, <2>1, <2>3
  <2> QED BY <2>2, <2>3
<1> QED BY <1>4, <1>5 DEF Agree

LEMMA AggregatedType ==
  ASSUME NEW r \in AllRequests, NEW before \in SUBSET Aggregators
  PROVE  Aggregated(r, before) \in SUBSET Aggregators
<1>1. CASE r.op \in {"subscribe", "unsubscribe"}
  <2>1. r.securities \X r.timeframes \subseteq Aggregators
    BY <1>1, RequestFacts DEF Aggregators
  <2> QED BY <2>1 DEF Aggregated
<1>2. CASE r.op \notin {"subscribe", "unsubscribe"}
  BY <1>2 DEF Aggregated
<1> QED BY <1>1, <1>2

LEMMA CallsInvInit ==
  ASSUME ProviderInit PROVE CallsInv
<1>1. /\ place = [w \in Writers |-> "idle"] /\ sending = [w \in Writers |-> NoRequest]
      /\ requests = <<>> /\ subscribed = {} /\ aggregators = {}
  BY DEF ProviderInit, Connected, Writers
<1>2. Writers = {"caller", "keepAlive"}
  BY DEF Writers
<1>3. CallsTypeOK
  BY <1>1, <1>2 DEF CallsTypeOK, Places, AllRequests, OtherRequests
<1>4. Expected = {}
  BY <1>1, <1>2 DEF Expected
<1>5. \A p : ~ WillHold(p, {}, <<>>)
  BY HoldsNone
<1>6. Agree({}, <<>>, {})
  BY <1>5 DEF Agree
<1> QED BY <1>1, <1>3, <1>4, <1>6 DEF CallsInv

(* A step that leaves requests and subscriptions alone, or comes when the  *)
(* connection has ended.                                                   *)
LEMMA QuietCalls ==
  ASSUME CallsInv, CallsTypeOK',
         link' = "open" =>
           link = "open" /\ requests' = requests /\ subscribed' = subscribed /\ Expected' = Expected
  PROVE  CallsInv'
BY DEF CallsInv

(* Steps of the receiver and of the consumer ask for nothing.              *)
LEMMA OthersKeepCalls ==
  ASSUME CallsInv, UNCHANGED <<place, sending, requests, subscribed, aggregators>>,
         link' = link
  PROVE  CallsInv'
<1>1. CallsTypeOK' /\ Expected' = Expected
  BY DEF CallsInv, CallsTypeOK, Expected
<1> QED BY <1>1, QuietCalls

LEMMA BeginCalls ==
  ASSUME CallsInv, NEW w \in Writers, NEW r \in AllRequests, Begin(w, r),
         w = "keepAlive" => r \in OtherRequests, aggregators' = aggregators
  PROVE  CallsInv'
<1>1. /\ place[w] = "idle"
      /\ place' = [place EXCEPT ![w] = "locking"] /\ sending' = [sending EXCEPT ![w] = r]
      /\ UNCHANGED <<link, requests, subscribed>>
  BY DEF Begin, gatewayVars
<1>2. Writers = {"caller", "keepAlive"}
  BY DEF Writers
<1>3. CallsTypeOK'
  BY <1>1, <1>2 DEF CallsInv, CallsTypeOK, Places
<1>4. Expected' = Expected
  BY <1>1, <1>2 DEF CallsInv, CallsTypeOK, Expected
<1> QED BY <1>1, <1>3, <1>4, QuietCalls

LEMMA HeaderCalls ==
  ASSUME CallsInv, NEW w \in Writers, WriteHeader(w), aggregators' = aggregators
  PROVE  CallsInv'
<1>1. /\ place[w] = "locking" /\ place' = [place EXCEPT ![w] = "body"]
      /\ requests' = IF link = "open" THEN Append(requests, sending[w]) ELSE requests
      /\ UNCHANGED <<link, sending, subscribed>>
  BY DEF WriteHeader
<1>2. Writers = {"caller", "keepAlive"}
  BY DEF Writers
<1>3. PICK r \in AllRequests : r = sending[w]
  BY DEF CallsInv, CallsTypeOK
<1>4. PICK rs \in Seq(AllRequests) : rs = requests
  BY DEF CallsInv, CallsTypeOK
<1>5. PICK before \in SUBSET Aggregators : before = aggregators
  BY DEF CallsInv, CallsTypeOK
<1>6. PICK held : held = subscribed
  OBVIOUS
<1>7. Append(rs, r) \in Seq(AllRequests)
  BY <1>3, <1>4
<1>8. CallsTypeOK'
  BY <1>1, <1>2, <1>3, <1>4, <1>7 DEF CallsInv, CallsTypeOK, Places
<1>9. Aggregated(r, before) \in SUBSET Aggregators
  BY <1>3, <1>5, AggregatedType
<1>10. ASSUME link = "open"
       PROVE  Agree(subscribed, requests, Expected)'
  <2>1. requests' = Append(rs, r) /\ Agree(held, rs, Expected)
    BY <1>1, <1>3, <1>4, <1>6, <1>10 DEF CallsInv
  <2>2. CASE w = "caller"
    <3>1. Expected = before
      BY <1>1, <1>5, <2>2 DEF Expected
    <3>2. Expected' = Aggregated(r, before)
      BY <1>1, <1>2, <1>3, <1>5, <2>2 DEF Expected, CallsInv, CallsTypeOK
    <3>3. Agree(held, Append(rs, r), Aggregated(r, before))
      BY <2>1, <3>1, AgreeAppend
    <3> QED BY <1>1, <1>6, <2>1, <3>2, <3>3
  <2>3. CASE w = "keepAlive"
    <3>1. Expected' = Expected
      BY <1>1, <1>2, <2>3 DEF Expected, CallsInv, CallsTypeOK
    <3>2. r.op \notin {"subscribe", "unsubscribe"}
      BY <1>3, <2>3 DEF CallsInv, CallsTypeOK, OtherRequests, NoRequest,
         KeepAliveRequest, HistoryRequest
    <3>3. Expected \in SUBSET Aggregators
      <4>1. PICK s \in AllRequests : s = sending["caller"]
        BY <1>2 DEF CallsInv, CallsTypeOK
      <4>2. Aggregated(s, before) \in SUBSET Aggregators
        BY AggregatedType
      <4> QED BY <1>5, <4>1, <4>2 DEF Expected
    <3>4. PICK expected \in SUBSET Aggregators : expected = Expected
      BY <3>3
    <3>5. Aggregated(r, expected) = expected
      BY <3>2 DEF Aggregated
    <3>6. Agree(held, Append(rs, r), Aggregated(r, expected))
      BY <2>1, <3>4, AgreeAppend
    <3> QED BY <1>1, <1>6, <2>1, <3>1, <3>4, <3>5, <3>6
  <2> QED BY <1>2, <2>2, <2>3
<1> QED BY <1>1, <1>8, <1>10 DEF CallsInv

LEMMA BodyCalls ==
  ASSUME CallsInv, NEW w \in Writers, WriteBody(w), aggregators' = aggregators
  PROVE  CallsInv'
<1>1. /\ place[w] = "body" /\ place' = [place EXCEPT ![w] = "written"]
      /\ UNCHANGED <<link, sending, requests, subscribed>>
  BY DEF WriteBody, gatewayVars
<1>2. Writers = {"caller", "keepAlive"}
  BY DEF Writers
<1>3. CallsTypeOK'
  BY <1>1 DEF CallsInv, CallsTypeOK, Places
<1>4. Expected' = Expected
  BY <1>1, <1>2 DEF CallsInv, CallsTypeOK, Expected
<1> QED BY <1>1, <1>3, <1>4, QuietCalls

LEMMA FailCalls ==
  ASSUME CallsInv, NEW w \in Writers, Fail(w), aggregators' = aggregators
  PROVE  CallsInv'
<1>1. /\ place' = [place EXCEPT ![w] = IF w = "keepAlive" THEN "ended" ELSE "idle"]
      /\ sending' = [sending EXCEPT ![w] = NoRequest]
      /\ link' = "broken" /\ UNCHANGED <<requests, subscribed>>
  BY DEF Fail, gatewayVars
<1>2. Writers = {"caller", "keepAlive"}
  BY DEF Writers
<1>3. NoRequest \in OtherRequests /\ NoRequest \in AllRequests
  BY DEF OtherRequests, AllRequests
<1>4. CallsTypeOK'
  BY <1>1, <1>2, <1>3 DEF CallsInv, CallsTypeOK, Places
<1> QED BY <1>1, <1>4, QuietCalls

(* The call has carried out what it asked for.                             *)
LEMMA ReturnCalls ==
  ASSUME CallsInv, NEW w \in Writers, Return(w),
         aggregators' = IF w = "caller" THEN Aggregated(sending["caller"], aggregators)
                        ELSE aggregators
  PROVE  CallsInv'
<1>1. /\ place[w] = "written" /\ place' = [place EXCEPT ![w] = "idle"]
      /\ sending' = [sending EXCEPT ![w] = NoRequest]
      /\ UNCHANGED <<link, requests, subscribed>>
  BY DEF Return, gatewayVars
<1>2. Writers = {"caller", "keepAlive"}
  BY DEF Writers
<1>3. NoRequest \in OtherRequests /\ NoRequest \in AllRequests
  BY DEF OtherRequests, AllRequests
<1>4. PICK r \in AllRequests : r = sending["caller"]
  BY <1>2 DEF CallsInv, CallsTypeOK
<1>5. PICK before \in SUBSET Aggregators : before = aggregators
  BY DEF CallsInv, CallsTypeOK
<1>6. Aggregated(r, before) \in SUBSET Aggregators
  BY AggregatedType
<1>7. CallsTypeOK'
  BY <1>1, <1>2, <1>3, <1>4, <1>5, <1>6 DEF CallsInv, CallsTypeOK, Places
<1>8. Expected' = Expected
  <2>1. CASE w = "caller"
    BY <1>1, <1>2, <2>1 DEF CallsInv, CallsTypeOK, Expected
  <2>2. CASE w = "keepAlive"
    BY <1>1, <1>2, <2>2 DEF CallsInv, CallsTypeOK, Expected
  <2> QED BY <1>2, <2>1, <2>2
<1> QED BY <1>1, <1>7, <1>8, QuietCalls

LEMMA ServeCalls ==
  ASSUME FramesInv, CallsInv, Serve, aggregators' = aggregators
  PROVE  CallsInv'
<1>1. /\ link = "open" /\ Len(requests) > Unfinished
      /\ requests' = Tail(requests)
      /\ subscribed' =
           CASE Head(requests).op = "subscribe"   ->
                  subscribed \cup DataTypes(Head(requests))
             [] Head(requests).op = "unsubscribe" ->
                  subscribed \ DataTypes(Head(requests))
             [] OTHER                             -> subscribed
      /\ UNCHANGED <<link, place, sending>>
  BY DEF Serve, writerVars
<1>2. PICK rs \in Seq(AllRequests) : rs = requests
  BY DEF CallsInv, CallsTypeOK
<1>3. PICK held : held = subscribed
  OBVIOUS
<1>4. PICK after : after = subscribed'
  OBVIOUS
<1>5. PICK before \in SUBSET Aggregators : before = aggregators
  BY DEF CallsInv, CallsTypeOK
<1>6. rs # <<>>
  <2>1. Unfinished \in {0, 1}
    <3>1. PICK n \in Nat : n = Len(wire)
      BY DEF FramesInv, WireInv
    <3> QED BY <3>1, Halves DEF Unfinished
  <2> QED BY <1>1, <1>2, <2>1
<1>7. CallsTypeOK'
  <2>1. Tail(rs) \in Seq(AllRequests)
    BY <1>2, <1>6
  <2> QED BY <1>1, <1>2, <2>1 DEF CallsInv, CallsTypeOK
<1>8. Expected' = Expected
  BY <1>1 DEF Expected
<1>9. Expected \in SUBSET Aggregators
  <2>1. Writers = {"caller", "keepAlive"}
    BY DEF Writers
  <2>2. PICK s \in AllRequests : s = sending["caller"]
    BY <2>1 DEF CallsInv, CallsTypeOK
  <2>3. Aggregated(s, before) \in SUBSET Aggregators
    BY AggregatedType
  <2> QED BY <1>5, <2>2, <2>3 DEF Expected
<1>10. PICK expected \in SUBSET Aggregators : expected = Expected
  BY <1>9
<1>11. Agree(held, rs, expected)
  BY <1>1, <1>2, <1>3, <1>10 DEF CallsInv
<1>12. after = CASE Head(rs).op = "subscribe"   -> held \cup DataTypes(Head(rs))
                 [] Head(rs).op = "unsubscribe" -> held \ DataTypes(Head(rs))
                 [] OTHER                       -> held
  BY <1>1, <1>2, <1>3, <1>4
<1>13. Agree(after, Tail(rs), expected)
  BY <1>2, <1>6, <1>11, <1>12, AgreeTail
<1>14. Agree(subscribed, requests, Expected)'
  BY <1>1, <1>2, <1>4, <1>8, <1>10, <1>13
<1> QED BY <1>7, <1>14 DEF CallsInv

LEMMA EndCalls ==
  ASSUME CallsInv, Close \/ DropClient, aggregators' = aggregators
  PROVE  CallsInv'
<1>1. /\ link' # "open" /\ requests' = <<>>
      /\ \/ UNCHANGED <<place, sending>>
         \/ /\ place' = [place EXCEPT !["keepAlive"] = "ended"]
            /\ sending' = [sending EXCEPT !["keepAlive"] = NoRequest]
  BY DEF Close, DropClient, writerVars
<1>2. Writers = {"caller", "keepAlive"}
  BY DEF Writers
<1>3. NoRequest \in OtherRequests /\ NoRequest \in AllRequests
  BY DEF OtherRequests, AllRequests
<1>4. CallsTypeOK'
  BY <1>1, <1>2, <1>3 DEF CallsInv, CallsTypeOK, Places
<1> QED BY <1>1, <1>4, QuietCalls

LEMMA CallsInvStep ==
  ASSUME FramesInv, CallsInv, [ProviderNext]_providerVars
  PROVE  CallsInv'
<1>1. CASE Calls
  <2>1. "caller" \in Writers
    BY DEF Writers
  <2>2. PICK r : Call(r) /\ r \in AllRequests
    <3>1. CASE FetchHistoricalBars
      BY <3>1 DEF FetchHistoricalBars, AllRequests, OtherRequests
    <3>2. ASSUME NEW op \in {"subscribe", "unsubscribe"}, NEW s \in SUBSET Securities,
                 NEW t \in TimeframeLists
          PROVE  SubRequest(op, s, t) \in AllRequests
      BY ClientAssumption DEF AllRequests, SubRequests, SubRequest, ClientAssumption
    <3>3. CASE Subscribe
      BY <3>2, <3>3 DEF Subscribe
    <3>4. CASE Unsubscribe
      BY <3>2, <3>4 DEF Unsubscribe
    <3> QED BY <1>1, <3>1, <3>3, <3>4 DEF Calls
  <2>3. Begin("caller", r) /\ aggregators' = aggregators
    BY <2>2 DEF Call
  <2> QED BY <2>1, <2>2, <2>3, BeginCalls
<1>2. CASE CallReturns
  <2>1. "caller" \in Writers /\ Return("caller")
    BY <1>2 DEF CallReturns, Writers, Writers
  <2>2. aggregators' = Aggregated(sending["caller"], aggregators)
    BY <1>2 DEF CallReturns, AfterCall, Aggregated
  <2> QED BY <2>1, <2>2, ReturnCalls
<1>3. CASE KeepAlive
  <2>1. "keepAlive" \in Writers /\ aggregators' = aggregators
    BY <1>3 DEF KeepAlive, Writers, Writers
  <2>2. CASE Begin("keepAlive", KeepAliveRequest)
    <3>1. KeepAliveRequest \in OtherRequests /\ KeepAliveRequest \in AllRequests
      BY DEF OtherRequests, AllRequests
    <3> QED BY <2>1, <2>2, <3>1, BeginCalls
  <2>3. CASE Return("keepAlive")
    BY <2>1, <2>3, ReturnCalls
  <2> QED BY <1>3, <2>2, <2>3 DEF KeepAlive
<1>4. CASE ClientStep
  <2>1. aggregators' = aggregators
    BY <1>4 DEF ClientStep
  <2>2. ASSUME NEW w \in Writers, WriterStep(w)
        PROVE  CallsInv'
    BY <2>1, <2>2, HeaderCalls, BodyCalls, FailCalls DEF WriterStep
  <2>3. CASE StartPushReceiver
    BY <2>1, <2>3, OthersKeepCalls DEF StartPushReceiver, writerVars,
       gatewayVars
  <2>4. CASE ReceiverStep
    BY <2>1, <2>4, OthersKeepCalls DEF ReceiverStep, ReadFrame, ReadEnd,
       SendEvent, writerVars, gatewayVars
  <2>5. CASE DropClient
    BY <2>1, <2>5, EndCalls
  <2> QED BY <1>4, <2>2, <2>3, <2>4, <2>5 DEF ClientStep, Writers
<1>5. CASE Environment
  <2>1. aggregators' = aggregators
    BY <1>5 DEF Environment
  <2>2. CASE Serve
    BY <2>1, <2>2, ServeCalls
  <2>3. CASE Close
    BY <2>1, <2>3, EndCalls
  <2>4. CASE (\E kind \in FrameKinds : Push(kind)) \/ ConsumerStep \/ Depart
    BY <2>1, <2>4, OthersKeepCalls DEF Push, ConsumerStep, Consume,
       HearEnd, Depart, writerVars, gatewayVars
  <2> QED BY <1>5, <2>2, <2>3, <2>4 DEF Environment
<1>6. CASE UNCHANGED providerVars
  BY <1>6, OthersKeepCalls DEF providerVars, clientVars, writerVars,
     gatewayVars
<1> QED BY <1>1, <1>2, <1>3, <1>4, <1>5, <1>6 DEF ProviderNext

(* Whatever calls are made, once the gateway has read every request the    *)
(* bars it pushes are those there are aggregators for, sharers aside       *)
(* (subscribe and unsubscribe of market-data/src/provider.rs).             *)
THEOREM BarsAlwaysHaveAggregators == ProviderSpec => []BarsHaveAggregators
<1>1. CallsInv => BarsHaveAggregators
  <2> SUFFICES ASSUME CallsInv, link = "open", place["caller"] = "idle", requests = <<>>
               PROVE  /\ \A p \in subscribed : p[2] # "RT" =>
                           \E a \in aggregators : a[1] = p[1] /\ SubType(a[2]) = p[2]
                      /\ \A a \in aggregators : a[2] \in Shared \/ a \in subscribed
    BY DEF BarsHaveAggregators
  <2>1. Agree(subscribed, <<>>, aggregators)
    BY DEF CallsInv, Expected
  <2>2. \A p : WillHold(p, subscribed, <<>>) <=> p \in subscribed
    BY HoldsNone
  <2>3. ASSUME NEW p \in subscribed, p[2] # "RT"
        PROVE  p \in Subscriptions
    BY <2>1, <2>3 DEF Agree, Subscriptions
  <2> QED BY <2>1, <2>2, <2>3 DEF Agree
<1> QED BY <1>1, FramesInvInit, FramesInvStep, CallsInvInit, CallsInvStep, PTL DEF ProviderSpec


-----------------------------------------------------------------------------
(* The market's clock and calendar, by which all of this keeps time.       *)

Trades(cal, d) == IsTradingDay(cal, d)

(* The bound on breaks is no restriction: trading goes on within MaxBreak  *)
(* days, whatever is added to the calendar.                                *)
BreaksEnd ==
  \A H \in SUBSET Editable, M \in SUBSET Editable :
    \A known \in {EmptyCalendar, China2025} :
      \A d \in Nat : \E e \in d + 1 .. d + MaxBreak :
        Trades([holidays |-> known.holidays \cup H, makeupDays |-> known.makeupDays \cup M], e)

(* The calendar is one the program can set up.                             *)
Known(cal) ==
  \E H \in SUBSET Editable, M \in SUBSET Editable :
    \E known \in {EmptyCalendar, China2025} :
      cal = [holidays |-> known.holidays \cup H, makeupDays |-> known.makeupDays \cup M]

TradingBetween(cal, start, end) == {d \in start + 1 .. end - 1 : Trades(cal, d)}

DaysInv ==
  /\ Known(calendar)
  /\ date \in Nat /\ days \in Nat /\ days > 0
  /\ Trades(calendar, date)
  /\ days = 1 => date = FirstDay
  /\ days > 1 => /\ date > FirstDay
                 /\ IsFiniteSet(TradingBetween(calendar, FirstDay, date))
                 /\ Cardinality(TradingBetween(calendar, FirstDay, date)) = days - 2

(* The next trading day is the first after today.                          *)
LEMMA NextDayIsNext ==
  ASSUME MaxBreak \in Nat, BreaksEnd, NEW cal, Known(cal), NEW d \in Nat, NEW next,
         next = NextTradingDay(cal, d)
  PROVE  /\ next \in d + 1 .. d + MaxBreak /\ Trades(cal, next)
         /\ TradingBetween(cal, d, next) = {}
<1> DEFINE S == {e \in d + 1 .. d + MaxBreak : Trades(cal, e)}
<1>1. S # {}
  <2>1. PICK H \in SUBSET Editable, M \in SUBSET Editable,
             known \in {EmptyCalendar, China2025} :
          cal = [holidays |-> known.holidays \cup H, makeupDays |-> known.makeupDays \cup M]
    BY DEF Known
  <2>2. \E e \in d + 1 .. d + MaxBreak : Trades(cal, e)
    BY <2>1 DEF BreaksEnd
  <2> QED BY <2>2
<1>2. S \in SUBSET Int /\ IsFiniteSet(S)
  <2>1. IsFiniteSet(d + 1 .. d + MaxBreak)
    BY FS_Interval
  <2>2. S \subseteq d + 1 .. d + MaxBreak
    OBVIOUS
  <2> QED BY <2>1, <2>2, FS_Subset
<1>3. \E m \in S : \A x \in S : x >= m
  <2> HIDE DEF S
  <2> QED BY <1>1, <1>2, BoundsExist
<1>4. next = CHOOSE x \in S : \A y \in S : x <= y
  BY DEF NextTradingDay, Min, Trades
<1>5. next \in S /\ \A y \in S : next <= y
  <2>1. \E m \in S : \A y \in S : m <= y
    <3>1. PICK m \in S : \A x \in S : x >= m
      BY <1>3
    <3>2. \A x \in S : m <= x
      <4> HIDE DEF S
      <4> QED BY <1>2, <3>1
    <3> QED BY <3>1, <3>2
  <2> HIDE DEF S
  <2> QED BY <1>4, <2>1
<1>6. TradingBetween(cal, d, next) = {}
  <2> SUFFICES ASSUME NEW e \in TradingBetween(cal, d, next) PROVE FALSE
    OBVIOUS
  <2>1. e \in d + 1 .. next - 1 /\ Trades(cal, e)
    BY DEF TradingBetween
  <2>2. next \in d + 1 .. d + MaxBreak
    BY <1>5
  <2>3. e \in d + 1 .. d + MaxBreak /\ ~ next <= e
    BY <2>1, <2>2
  <2> QED BY <1>5, <2>1, <2>3
<1> QED BY <1>5, <1>6

(* Back from there one comes to today again.                               *)
LEMMA PreviousOfNext ==
  ASSUME MaxBreak \in Nat, NEW cal, NEW d \in Nat, Trades(cal, d),
         NEW next \in d + 1 .. d + MaxBreak, TradingBetween(cal, d, next) = {}
  PROVE  PrevTradingDay(cal, next) = d
<1> DEFINE S == {e \in next - MaxBreak .. next - 1 : Trades(cal, e)}
<1>1. PrevTradingDay(cal, next) = CHOOSE x \in S : \A y \in S : x >= y
  BY DEF PrevTradingDay, Max, Trades
<1>2. d \in next - MaxBreak .. next - 1
  OBVIOUS
<1>3. d \in S
  BY <1>2
<1>4. ASSUME NEW y \in S PROVE y \in Int /\ d >= y
  <2>1. y \in Int /\ y <= next - 1 /\ Trades(cal, y)
    OBVIOUS
  <2>2. CASE y > d
    <3>1. y \in d + 1 .. next - 1
      BY <2>1, <2>2
    <3> QED BY <2>1, <3>1 DEF TradingBetween
  <2> QED BY <2>1, <2>2
<1> HIDE DEF S
<1>5. \A x \in S : (\A y \in S : x >= y) => x = d
  BY <1>3, <1>4
<1>6. \A y \in S : d >= y
  BY <1>4
<1> QED BY <1>1, <1>3, <1>5, <1>6

(* Weeks repeat.                                                           *)
LEMMA WeeksRepeat ==
  ASSUME NEW d \in Nat
  PROVE  \E c \in {1, 3} : \A i \in Nat : ~ IsWeekend(d + c + 7 * i)
<1>1. ASSUME NEW x \in Nat, NEW i \in Nat PROVE (x + 7 * i) % 7 = x % 7
  OBVIOUS
<1>2. ASSUME NEW c \in {1, 3}, NEW i \in Nat
      PROVE  Weekday(d + c + 7 * i) = (d + c + 1) % 7
  <2>1. d + c + 7 * i + 1 = (d + c + 1) + 7 * i /\ d + c + 1 \in Nat
    OBVIOUS
  <2> QED BY <1>1, <2>1 DEF Weekday
<1>3. PICK c \in {1, 3} : (d + c + 1) % 7 \notin {5, 6}
  OBVIOUS
<1>4. \A i \in Nat : ~ IsWeekend(d + c + 7 * i)
  BY <1>2, <1>3 DEF IsWeekend
<1> QED BY <1>4

(* Breaks do end when there are finitely many holidays: then some MaxBreak *)
(* is long enough, one week for each of them and one more.                 *)
LEMMA BreaksEndInTime ==
  ASSUME MaxBreak \in Nat, NEW H, IsFiniteSet(H),
         China2025.holidays \cup Editable \subseteq H,
         MaxBreak >= 7 * (Cardinality(H) + 1)
  PROVE  BreaksEnd
<1> DEFINE n == Cardinality(H)
<1>1. n \in Nat /\ MaxBreak >= 7 * (n + 1)
  BY FS_CardinalityType
<1> HIDE DEF n
<1>2. SUFFICES ASSUME NEW cal, Known(cal), NEW d \in Nat
               PROVE  \E e \in d + 1 .. d + MaxBreak : Trades(cal, e)
  BY DEF BreaksEnd, Known
<1>3. cal.holidays \subseteq H
  <2>1. PICK A \in SUBSET Editable, M \in SUBSET Editable,
             known \in {EmptyCalendar, China2025} :
          cal = [holidays |-> known.holidays \cup A, makeupDays |-> known.makeupDays \cup M]
    BY <1>2 DEF Known
  <2>2. known.holidays \subseteq H
    BY DEF EmptyCalendar
  <2> QED BY <2>1, <2>2
<1>4. PICK c \in {1, 3} : \A i \in Nat : ~ IsWeekend(d + c + 7 * i)
  BY WeeksRepeat
<1> DEFINE f == [i \in 0 .. n |-> d + c + 7 * i]
<1>5. PICK i \in 0 .. n : f[i] \notin H
  <2> SUFFICES ASSUME \A i \in 0 .. n : f[i] \in H PROVE FALSE
    OBVIOUS
  <2>1. f \in [0 .. n -> H]
    OBVIOUS
  <2>2. IsFiniteSet(0 .. n) /\ Cardinality(0 .. n) = n + 1
    <3>1. 0 \in Int /\ n \in Int /\ ~ 0 > n /\ n - 0 + 1 = n + 1
      BY <1>1
    <3> QED BY <3>1, FS_Interval
  <2>3. n < n + 1
    BY <1>1
  <2>4. PICK x \in 0 .. n, y \in 0 .. n : x # y /\ f[x] = f[y]
    <3> HIDE DEF f
    <3>1. n = Cardinality(H)
      BY DEF n
    <3>2. PICK S : S = 0 .. n
      OBVIOUS
    <3>3. IsFiniteSet(S) /\ Cardinality(H) < Cardinality(S) /\ f \in [S -> H]
      BY <2>1, <2>2, <2>3, <3>1, <3>2
    <3>4. \E x, y \in S : x # y /\ f[x] = f[y]
      BY <3>3, FS_PigeonHole
    <3> QED BY <3>2, <3>4
  <2>5. d + c + 7 * x = d + c + 7 * y
    BY <2>4
  <2> HIDE DEF f
  <2> QED BY <1>1, <2>4, <2>5
<1>6. f[i] = d + c + 7 * i
  OBVIOUS
<1> HIDE DEF f
<1>7. f[i] \in d + 1 .. d + MaxBreak
  BY <1>1, <1>6
<1>8. Trades(cal, f[i])
  BY <1>3, <1>4, <1>5, <1>6 DEF Trades, IsTradingDay
<1> QED BY <1>7, <1>8

LEMMA DaysInvInit ==
  ASSUME ClockInit PROVE DaysInv
<1>1. /\ calendar \in {EmptyCalendar, China2025}
      /\ Trades(calendar, FirstDay) /\ date = FirstDay /\ days = 1 /\ FirstDay \in Nat
  BY MarketClockAssumption DEF ClockInit, MarketClockAssumption, Trades
<1>2. PICK known \in {EmptyCalendar, China2025} : calendar = known
  BY <1>1
<1>3. known = [holidays |-> known.holidays \cup {}, makeupDays |-> known.makeupDays \cup {}]
  BY <1>2 DEF EmptyCalendar, China2025
<1>4. Known(known)
  BY <1>3 DEF Known
<1> QED BY <1>1, <1>2, <1>4 DEF DaysInv

(* While the calendar is set up, today stays a trading day.                *)
LEMMA SetUpKeepsDays ==
  ASSUME DaysInv, NEW d \in Editable, AddHoliday(d) \/ AddMakeupDay(d)
  PROVE  DaysInv'
<1>1. /\ days = 1 /\ days' = days /\ date' = date
      /\ \/ d # FirstDay /\ calendar' = [calendar EXCEPT !.holidays = @ \cup {d}]
         \/ calendar' = [calendar EXCEPT !.makeupDays = @ \cup {d}]
  BY DEF AddHoliday, AddMakeupDay, SettingUp
<1>2. PICK H \in SUBSET Editable, M \in SUBSET Editable,
           known \in {EmptyCalendar, China2025} :
        calendar = [holidays |-> known.holidays \cup H, makeupDays |-> known.makeupDays \cup M]
  BY DEF DaysInv, Known
<1>3. H \cup {d} \in SUBSET Editable /\ M \cup {d} \in SUBSET Editable
  OBVIOUS
<1>4. \/ /\ d # FirstDay
         /\ calendar' = [holidays |-> known.holidays \cup (H \cup {d}),
                         makeupDays |-> known.makeupDays \cup M]
      \/ calendar' = [holidays |-> known.holidays \cup H,
                      makeupDays |-> known.makeupDays \cup (M \cup {d})]
  BY <1>1, <1>2
<1>5. PICK cal : cal = calendar'
  OBVIOUS
<1>6. Known(cal)
  BY <1>3, <1>4, <1>5 DEF Known
<1>7. Trades(cal, date)
  <2>1. Trades(calendar, date) /\ date = FirstDay
    BY <1>1 DEF DaysInv
  <2> QED BY <1>1, <1>5, <2>1, <1>2 DEF Trades, IsTradingDay
<1> QED BY <1>1, <1>5, <1>6, <1>7 DEF DaysInv

LEMMA NextDayKeepsDays ==
  ASSUME MaxBreak \in Nat, BreaksEnd, DaysInv, NextDay
  PROVE  DaysInv'
<1>1. /\ date' = NextTradingDay(calendar, date)
      /\ days' = days + 1 /\ calendar' = calendar
  BY DEF NextDay
<1>2. PICK cal : cal = calendar
  OBVIOUS
<1>3. PICK d \in Nat : d = date
  BY DEF DaysInv
<1>4. PICK next : next = date'
  OBVIOUS
<1>5. FirstDay \in Nat /\ days \in Nat /\ days > 0 /\ Known(cal) /\ Trades(cal, d)
  BY <1>2, <1>3, MarketClockAssumption DEF DaysInv, MarketClockAssumption
<1>6. next = NextTradingDay(cal, d)
  BY <1>1, <1>2, <1>3, <1>4
<1>7. /\ next \in d + 1 .. d + MaxBreak /\ Trades(cal, next)
      /\ TradingBetween(cal, d, next) = {}
  BY <1>5, <1>6, NextDayIsNext
<1>8. next \in Nat /\ next > d /\ days + 1 \in Nat /\ days + 1 > 1
  BY <1>3, <1>5, <1>7
<1>9. /\ next > FirstDay
      /\ IsFiniteSet(TradingBetween(cal, FirstDay, next))
      /\ Cardinality(TradingBetween(cal, FirstDay, next)) = (days + 1) - 2
  <2>1. CASE days = 1
    <3>1. d = FirstDay
      BY <1>3, <2>1 DEF DaysInv
    <3> QED BY <1>7, <1>8, <2>1, <3>1, FS_EmptySet
  <2>2. CASE days # 1
    <3> DEFINE before == TradingBetween(cal, FirstDay, d)
    <3>1. /\ d > FirstDay /\ IsFiniteSet(before) /\ Cardinality(before) = days - 2
      BY <1>2, <1>3, <1>5, <2>2 DEF DaysInv
    <3>2. TradingBetween(cal, FirstDay, next) = before \cup {d}
      <4>1. \A e : e \in FirstDay + 1 .. next - 1 <=>
                     \/ e \in FirstDay + 1 .. d - 1 \/ e = d \/ e \in d + 1 .. next - 1
        BY <1>3, <1>5, <1>8, <3>1
      <4>2. \A e \in d + 1 .. next - 1 : ~ Trades(cal, e)
        BY <1>7 DEF TradingBetween
      <4> QED BY <1>5, <4>1, <4>2 DEF TradingBetween
    <3>3. d \notin before
      BY <1>3 DEF TradingBetween
    <3> HIDE DEF before
    <3>4. IsFiniteSet(before \cup {d}) /\ Cardinality(before \cup {d}) = Cardinality(before) + 1
      BY <3>1, <3>3, FS_AddElement
    <3> QED BY <1>3, <1>5, <1>8, <3>1, <3>2, <3>4
  <2> QED BY <2>1, <2>2
<1> QED BY <1>1, <1>2, <1>4, <1>5, <1>7, <1>8, <1>9 DEF DaysInv

(* From one trading day to the next no trading day is skipped, forwards or *)
(* backwards, however the calendar was set up (next_trading_day,           *)
(* prev_trading_day, trading_days_between of china-market/src/calendar.rs).*)
THEOREM CalendarNeverSkips ==
  ASSUME BreaksEnd
  PROVE  ClockSpec => []CalendarSkipsNoDay
<1>0. MaxBreak \in Nat
  BY MaxBreakAssumption DEF MaxBreakAssumption
<1>1. DaysInv => CalendarSkipsNoDay
  <2> SUFFICES ASSUME DaysInv PROVE CalendarSkipsNoDay
    OBVIOUS
  <2>1. PICK cal : cal = calendar
    OBVIOUS
  <2>2. PICK d \in Nat : d = date
    BY DEF DaysInv
  <2>3. PICK next : next = NextTradingDay(cal, d)
    OBVIOUS
  <2>4. Known(cal) /\ Trades(cal, d)
    BY <2>1, <2>2 DEF DaysInv
  <2>5. next \in d + 1 .. d + MaxBreak /\ TradingBetween(cal, d, next) = {}
    BY <1>0, <2>3, <2>4, NextDayIsNext
  <2>6. PrevTradingDay(cal, next) = d
    BY <1>0, <2>4, <2>5, PreviousOfNext
  <2>7. days > 1 => TradingDaysBetween(calendar, FirstDay, date) = days - 2
    <3>1. TradingDaysBetween(calendar, FirstDay, date) =
            Cardinality(TradingBetween(calendar, FirstDay, date))
      BY DEF TradingDaysBetween, TradingBetween, Trades
    <3> QED BY <3>1 DEF DaysInv
  <2> QED BY <2>1, <2>2, <2>3, <2>4, <2>6, <2>7 DEF CalendarSkipsNoDay, Trades
<1>2. DaysInv /\ [ClockNext]_clockVars => DaysInv'
  <2> SUFFICES ASSUME DaysInv, [ClockNext]_clockVars PROVE DaysInv'
    OBVIOUS
  <2>1. CASE Minute \/ UNCHANGED clockVars
    BY <2>1 DEF Minute, clockVars, DaysInv
  <2> QED BY <1>0, <2>1, SetUpKeepsDays, NextDayKeepsDays DEF ClockNext
<1> QED BY <1>1, <1>2, DaysInvInit, PTL DEF ClockSpec

(* The phase of a minute of China's market.                                *)
PhaseOf(m) ==
  IF m < 570 THEN "pre" ELSE IF m <= 690 THEN "open" ELSE IF m < 780 THEN "lunch"
  ELSE IF m <= 900 THEN "open" ELSE "after"

LEMMA OnePhase ==
  ASSUME NEW m \in Int PROVE PhasesOf(m) = {PhaseOf(m)}
BY DEF PhasesOf, PhaseOf, Market, ChinaAShare, IsPreMarket,
   IsMarketOpen, IsLunchBreak, IsAfterHours

LEMMA EntryWindow ==
  ASSUME NEW m \in Int, WarmUpBars \in Nat
  PROVE  AllowsNewEntry(Market, WarmUpBars, m) <=>
           m \in 575 .. 674 \/ m \in 785 .. 884
BY DEF AllowsNewEntry, Market, ChinaAShare, IsWarmedUp,
   IsMarketOpen, IsLunchBreak, IsNearOpen, IsNearClose,
   NoEntryAfterOpen, NoEntryBeforeClose

LEMMA MinutesPartition ==
  ASSUME WarmUpBars \in Nat, minute \in 0 .. 1439
  PROVE  PhasesPartitionTheDay
<1>1. PICK m \in Int : m = minute
  OBVIOUS
<1>2. Cardinality(PhasesOf(minute)) = 1
  <2>1. PhasesOf(minute) = {PhaseOf(m)}
    BY <1>1, OnePhase
  <2> QED BY <2>1, FS_Singleton, ZenonT(30)
<1>3. \A k \in m - 5 .. m + 16 : k \in Int /\ (PhasesOf(k) = {"open"} <=> PhaseOf(k) = "open")
  BY OnePhase
<1>4. m \in 575 .. 674 \/ m \in 785 .. 884 => \A k \in m - 5 .. m + 16 : PhaseOf(k) = "open"
  BY DEF PhaseOf
<1>5. (\A k \in m - 5 .. m + 16 : PhaseOf(k) = "open") => m \in 575 .. 674 \/ m \in 785 .. 884
  <2>1. m - 5 \in m - 5 .. m + 16 /\ m + 16 \in m - 5 .. m + 16
    OBVIOUS
  <2>2. PhaseOf(m - 5) = "open" /\ PhaseOf(m + 16) = "open" =>
          m \in 575 .. 674 \/ m \in 785 .. 884
    BY DEF PhaseOf
  <2> QED BY <2>1, <2>2
<1>6. AllowsNewEntry(Market, WarmUpBars, m) <=>
        \A k \in m - 5 .. m + 16 : PhasesOf(k) = {"open"}
  BY <1>3, <1>4, <1>5, EntryWindow
<1>7. m - NoEntryAfterOpen = m - 5 /\ m + NoEntryBeforeClose + 1 = m + 16
  BY DEF NoEntryAfterOpen, NoEntryBeforeClose
<1> QED BY <1>1, <1>2, <1>6, <1>7 DEF PhasesPartitionTheDay

(* The boundary ahead of a minute.                                         *)
LEMMA Countdown ==
  ASSUME NEW m \in 0 .. 1439
  PROVE  MinutesUntilNextBoundary(Market, m) =
           IF m < 570 THEN {570 - m} ELSE IF m <= 690 THEN {690 - m}
           ELSE IF m < 780 THEN {780 - m} ELSE IF m <= 900 THEN {900 - m} ELSE {}
BY DEF MinutesUntilNextBoundary, NextBoundary, Market, ChinaAShare

LEMMA MinuteCountsDown ==
  ASSUME minute \in 0 .. 1439, Minute,
         NEW left \in MinutesUntilNextBoundary(Market, minute)
  PROVE  \/ left > 0 /\ MinutesUntilNextBoundary(Market, minute)' = {left - 1}
         \/ left \in {0, 1} /\ PhasesOf(minute) # PhasesOf(minute)'
<1>1. PICK m \in 0 .. 1438 : m = minute /\ minute' = m + 1
  BY DEF Minute
<1>2. m \in 0 .. 1439 /\ m + 1 \in 0 .. 1439
  OBVIOUS
<1>3. left \in IF m < 570 THEN {570 - m} ELSE IF m <= 690 THEN {690 - m}
               ELSE IF m < 780 THEN {780 - m} ELSE IF m <= 900 THEN {900 - m} ELSE {}
  BY <1>1, <1>2, Countdown, SMTT(30)
<1>4. MinutesUntilNextBoundary(Market, minute)' =
        MinutesUntilNextBoundary(Market, m + 1)
  BY <1>1 DEF MinutesUntilNextBoundary, NextBoundary, Market
<1>5. PhasesOf(minute) = {PhaseOf(m)}
  BY <1>1, OnePhase
<1>6. PhasesOf(minute)' = {PhaseOf(m + 1)}
  <2>1. PICK k \in Int : k = minute'
    BY <1>1
  <2>2. PhasesOf(minute)' = PhasesOf(k)
    BY <2>1 DEF PhasesOf
  <2> QED BY <1>1, <2>1, <2>2, OnePhase
<1>7. CASE m \in {569, 690, 779, 900}
  <2>1. PhaseOf(m) # PhaseOf(m + 1) /\ left \in {0, 1}
    BY <1>3, <1>7 DEF PhaseOf
  <2> QED BY <1>5, <1>6, <2>1
<1>8. CASE m \notin {569, 690, 779, 900}
  <2>1. left > 0 /\ MinutesUntilNextBoundary(Market, m + 1) = {left - 1}
    BY <1>2, <1>3, <1>8, Countdown
  <2> QED BY <1>4, <2>1
<1> QED BY <1>7, <1>8

CountsDown ==
  Minute =>
    \A left \in MinutesUntilNextBoundary(Market, minute) :
      \/ left > 0 /\ MinutesUntilNextBoundary(Market, minute)' = {left - 1}
      \/ /\ left \in {0, 1}
         /\ PhasesOf(minute) # PhasesOf(minute)'

InDay == minute \in 0 .. 1439

(* Phases, entry windows and countdowns of a day tell the same boundaries  *)
(* (china-market/src/session.rs and strategy/src/session_filter.rs).       *)
THEOREM BoundariesAlwaysAgree == ClockSpec => BoundariesAgree
<1>1. ClockInit => InDay
  BY DEF ClockInit, InDay
<1>2. InDay /\ [ClockNext]_clockVars => InDay'
  BY DEF ClockNext, AddHoliday, AddMakeupDay, Minute, NextDay,
     clockVars, InDay
<1>3. InDay => PhasesPartitionTheDay
  BY MinutesPartition, WarmUpAssumption DEF WarmUpAssumption, InDay
<1>4. InDay /\ [ClockNext]_clockVars => [CountsDown]_clockVars
  BY MinuteCountsDown DEF CountsDown, InDay
<1>5. ClockSpec => []PhasesPartitionTheDay
  BY <1>1, <1>2, <1>3, PTL DEF ClockSpec
<1>6. ClockSpec => [][CountsDown]_clockVars
  BY <1>1, <1>2, <1>4, PTL DEF ClockSpec
<1>7. [][CountsDown]_clockVars => CountdownReachesBoundary
  BY PTL DEF CountdownReachesBoundary, CountsDown
<1> QED BY <1>5, <1>6, <1>7, PTL DEF BoundariesAgree

=============================================================================
