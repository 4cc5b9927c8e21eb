------------------------------- MODULE Channel -------------------------------
(***************************************************************************)
(* The channel through the last two swing highs and the last two swing     *)
(* lows (pa-engine/src/channel.rs).  A slope is a fraction: a price change *)
(* over a positive number of bars.  No channel yet is the empty set.       *)
(***************************************************************************)
EXTENDS Bars

ChannelTypes == {"BullChannel", "BearChannel", "BroadChannel", "Wedge"}

LineThrough(p, q) ==
  [from |-> p, to |-> q,
   change |-> q.price - p.price,
   bars |-> IF q.index > p.index THEN q.index - p.index ELSE 1]

RisingLine(l) == l.change > 0
FallingLine(l) == l.change < 0

(* The slopes of two lines over a common number of bars. *)
SlopeOf(l, other) == l.change * other.bars

Steepest(upper, lower) ==
  Larger(Magnitude(SlopeOf(upper, lower)), Magnitude(SlopeOf(lower, upper)))

(* The steeper slope exceeds the other by more than three tenths of it. *)
NotParallel(upper, lower) ==
  10 * Magnitude(Magnitude(SlopeOf(upper, lower)) - Magnitude(SlopeOf(lower, upper)))
    > 3 * Steepest(upper, lower)

BothRise(upper, lower) == RisingLine(upper) /\ RisingLine(lower)
BothFall(upper, lower) == FallingLine(upper) /\ FallingLine(lower)

Converging(upper, lower) == FallingLine(upper) /\ RisingLine(lower)

(* Lines that diverge by that much are called a wedge as well. *)
ClassifyChannel(upper, lower) ==
  IF Converging(upper, lower) \/ NotParallel(upper, lower) THEN "Wedge"
  ELSE IF BothRise(upper, lower) THEN "BullChannel"
  ELSE IF BothFall(upper, lower) THEN "BearChannel"
  ELSE "BroadChannel"

(* Mixed or flat lines take the direction of the lower one. *)
ChannelDirection(upper, lower) ==
  IF BothFall(upper, lower) \/ ~ RisingLine(lower) THEN "Short" ELSE "Long"

ChannelOf(highs, lows) ==
  LET n     == Len(highs)
      m     == Len(lows)
      upper == LineThrough(highs[n - 1], highs[n])
      lower == LineThrough(lows[m - 1], lows[m])
  IN  [type      |-> ClassifyChannel(upper, lower),
       direction |-> ChannelDirection(upper, lower),
       upper     |-> upper,
       lower     |-> lower,
       bars      |-> Larger(0, highs[n].index - Smaller(lows[m - 1].index, highs[n - 1].index))]

UpdateChannel(channel, highs, lows) ==
  IF Len(highs) < 2 \/ Len(lows) < 2 THEN channel ELSE {ChannelOf(highs, lows)}

=============================================================================
