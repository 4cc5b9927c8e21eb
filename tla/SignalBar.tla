------------------------------ MODULE SignalBar ------------------------------
(***************************************************************************)
(* Signal bars and the entry bars that follow them                         *)
(* (pa-engine/src/signal_bar.rs and entry_bar.rs).  A context is the       *)
(* record PriceAction builds: what the bar closed into.                    *)
(***************************************************************************)
EXTENDS Trend

MinBodyPct == 30
MaxWrongTailPct == 30

(* Any active breakout, of either direction and however old, is a reason.  *)
FavorsBull(context) ==
  \/ context.trend \in BullStates
  \/ context.inRange /\ context.support # {}
  \/ context.climax /\ context.bearBars > 0
  \/ context.breakouts # <<>>

FavorsBear(context) ==
  \/ context.trend \in BearStates
  \/ context.inRange /\ context.resistance # {}
  \/ context.climax /\ context.bullBars > 0
  \/ context.breakouts # <<>>

(* A bear bar that closes in its upper half passes the first test. *)
IsBullSignalBar(b, context) ==
  /\ IsBull(b) \/ ClosesInUpperHalf(b)
  /\ AtLeast(Body(b), b, MinBodyPct)
  /\ AtMost(UpperTail(b), b, MaxWrongTailPct)
  /\ FavorsBull(context)

IsBearSignalBar(b, context) ==
  /\ IsBear(b) \/ ClosesInLowerHalf(b)
  /\ AtLeast(Body(b), b, MinBodyPct)
  /\ AtMost(LowerTail(b), b, MaxWrongTailPct)
  /\ FavorsBear(context)

IsSignalBar(b, context) == IsBullSignalBar(b, context) \/ IsBearSignalBar(b, context)

(* Points for the body, the tail against the signal, the trend and a level. *)
QualityScore(b, tail, withTrend, atLevel) ==
  (IF AtLeast(Body(b), b, 60) THEN 2 ELSE IF AtLeast(Body(b), b, 40) THEN 1 ELSE 0)
    + (IF AtMost(tail, b, 10) THEN 2 ELSE IF AtMost(tail, b, 20) THEN 1 ELSE 0)
    + (IF withTrend THEN 2 ELSE 0)
    + (IF atLevel THEN 1 ELSE 0)

QualityOf(score) == IF score >= 5 THEN "Strong" ELSE IF score >= 3 THEN "Moderate" ELSE "Weak"

BullSignalQuality(b, context) ==
  QualityOf(QualityScore(b, UpperTail(b), context.trend \in BullStates, context.support # {}))

BearSignalQuality(b, context) ==
  QualityOf(QualityScore(b, LowerTail(b), context.trend \in BearStates, context.resistance # {}))

(* A bar beyond the signal bar's extreme enters there, with the other      *)
(* extreme as its stop; a signal bar without a range gives no entry.       *)
BullEntry(b, signalBar) ==
  {[price |-> signalBar.high, stop |-> signalBar.low] :
     k \in {k \in {b} : k.high > signalBar.high /\ Span(signalBar) > 0}}

BearEntry(b, signalBar) ==
  {[price |-> signalBar.low, stop |-> signalBar.high] :
     k \in {k \in {b} : k.low < signalBar.low /\ Span(signalBar) > 0}}

IsEntryBar(b, signalBar) == BullEntry(b, signalBar) # {} \/ BearEntry(b, signalBar) # {}

=============================================================================
