-------------------------------- MODULE Bars --------------------------------
(***************************************************************************)
(* One price bar and its geometry (core/src/bar.rs).  Prices are integers  *)
(* of a common unit; a ratio to the bar's range is compared with a number  *)
(* of hundredths by cross-multiplication, and is zero for a bar without a  *)
(* range, as the guards of body_ratio and its siblings make it.  A bar is  *)
(* identified by its place in its stream, which stands for its timestamp.  *)
(***************************************************************************)
EXTENDS Integers, SequencesExt

BarRecords == [open : Int, high : Int, low : Int, close : Int]

Magnitude(x) == IF x < 0 THEN - x ELSE x
Larger(x, y) == IF x > y THEN x ELSE y
Smaller(x, y) == IF x < y THEN x ELSE y

IsBull(b) == b.close > b.open
IsBear(b) == b.close < b.open

Body(b) == Magnitude(b.close - b.open)
Span(b) == b.high - b.low
UpperTail(b) == b.high - Larger(b.close, b.open)
LowerTail(b) == Smaller(b.close, b.open) - b.low

(* A part of the bar, as a ratio of its range, against pct hundredths. *)
AtLeast(part, b, pct) == IF Span(b) = 0 THEN pct <= 0 ELSE 100 * part >= pct * Span(b)
AtMost(part, b, pct) == IF Span(b) = 0 THEN pct >= 0 ELSE 100 * part <= pct * Span(b)

ClosesInUpperHalf(b) == 2 * b.close > b.high + b.low
ClosesInLowerHalf(b) == 2 * b.close < b.high + b.low

IsOutside(b, before) == b.high > before.high /\ b.low < before.low
IsInside(b, before) == b.high <= before.high /\ b.low >= before.low

(* A history of bounded length: the oldest entry makes room for a new one. *)
Remember(history, x, limit) ==
  LET all == Append(history, x)
  IN  SubSeq(all, Larger(1, Len(all) - limit + 1), Len(all))

(* The same when several entries come one after the other. *)
RememberAll(history, xs, limit) ==
  LET all == history \o xs
  IN  SubSeq(all, Larger(1, Len(all) - limit + 1), Len(all))

(* The entries of a list at the given places, in their order. *)
Selected(list, places) ==
  [k \in 1 .. Cardinality(places) |->
     list[CHOOSE i \in places : Cardinality({j \in places : j < i}) = k - 1]]

SumSeq(s) == FoldSeq(+, 0, s)

=============================================================================
