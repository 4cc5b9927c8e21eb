------------------------------- MODULE Pattern -------------------------------
(***************************************************************************)
(* Patterns of the last swing points (pa-engine/src/pattern.rs), found     *)
(* anew for every bar, in the order of the detector's four searches.  At   *)
(* most six are found, so the limit of twenty never cuts the list.         *)
(***************************************************************************)
EXTENDS Bars

(* Equal within three thousandths of their average. *)
SameLevel(p, q) ==
  /\ p.price + q.price # 0
  /\ 2000 * Magnitude(p.price - q.price) <= 3 * (p.price + q.price)

DoubleAt(kind, points) ==
  LET n == Len(points)
  IN  IF n >= 2 /\ SameLevel(points[n - 1], points[n])
      THEN <<[kind |-> kind, first |-> points[n - 1], second |-> points[n]]>>
      ELSE <<>>

Chronological(points) == \A i \in 1 .. Len(points) - 1 : points[i].index < points[i + 1].index

(* A move from start to end, then back to pullback; it is projected again  *)
(* from there.  sign is 1 for a move up and -1 for a move down.            *)
MeasuredMove(start, end, pullback, sign) ==
  LET leg == sign * (end.price - start.price)
  IN  IF Chronological(<<start, end, pullback>>) /\ leg > 0
      THEN <<[kind |-> "MeasuredMove", start |-> start, end |-> end, pullback |-> pullback,
              target |-> pullback.price + sign * leg]>>
      ELSE <<>>

(* Both sides alternate: the last two of one side, each followed by the    *)
(* last two of the other, the second leg starting on the trend's side of   *)
(* the first.                                                              *)
TwoLegs(p1, q1, p2, q2, direction, sign) ==
  IF Chronological(<<p1, q1, p2, q2>>) /\ sign * (p2.price - p1.price) > 0
  THEN <<[kind |-> "TwoLeggedPullback", direction |-> direction,
          first |-> <<p1, q1>>, second |-> <<p2, q2>>]>>
  ELSE <<>>

Patterns(highs, lows) ==
  LET n == Len(highs)
      m == Len(lows)
      bullMove == IF n >= 1 /\ m >= 2 THEN MeasuredMove(lows[m - 1], highs[n], lows[m], 1) ELSE <<>>
      bearMove == IF m >= 1 /\ n >= 2 THEN MeasuredMove(highs[n - 1], lows[m], highs[n], -1) ELSE <<>>
      legs == IF n >= 2 /\ m >= 2
              THEN TwoLegs(highs[n - 1], lows[m - 1], highs[n], lows[m], "Short", -1)
                     \o TwoLegs(lows[m - 1], highs[n - 1], lows[m], highs[n], "Long", 1)
              ELSE <<>>
  IN  DoubleAt("DoubleTop", highs) \o DoubleAt("DoubleBottom", lows) \o bullMove \o bearMove \o legs

=============================================================================
