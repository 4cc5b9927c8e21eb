---------------------------- MODULE TradingRange ----------------------------
(***************************************************************************)
(* Trading ranges (pa-engine/src/trading_range.rs): the highest high and   *)
(* lowest low of the last minBars bars.  A range is dropped when a bar     *)
(* closes more than a tenth of its width outside it.  The detector keeps   *)
(* the highs, lows and ranges of all bars it has seen; here, the bars.     *)
(***************************************************************************)
EXTENDS Bars

Ranges == [high : Int, low : Int, start : Nat, bars : Nat, tight : BOOLEAN]

NewRanges == [active |-> <<>>, seen |-> <<>>, index |-> 0]

Width(r) == r.high - r.low

(* A mistaken BrokenBy: only a close above the range breaks it. *)
BrokenAbove(r, b) == 10 * (b.close - r.high) > Width(r)

BrokenBy(r, b) ==
  \/ 10 * (b.close - r.high) > Width(r)
  \/ 10 * (r.low - b.close) > Width(r)

Highest(bars) == Max({bars[i].high : i \in DOMAIN bars})
Lowest(bars) == Min({bars[i].low : i \in DOMAIN bars})

(* At most three average bars wide; a share of seven tenths of the bars    *)
(* has to lie inside, which all of them do.                                *)
IsTight(window) ==
  LET total == SumSeq([i \in DOMAIN window |-> Span(window[i])])
  IN  total > 0 /\ (Highest(window) - Lowest(window)) * Len(window) <= 3 * total

RangeOf(window, index) ==
  [high |-> Highest(window), low |-> Lowest(window),
   start |-> Larger(0, index - Len(window)), bars |-> Len(window), tight |-> IsTight(window)]

(* Both edges within a fifth of the new range's width. *)
SameRange(old, new) ==
  /\ 5 * Magnitude(old.high - new.high) < Width(new)
  /\ 5 * Magnitude(old.low - new.low) < Width(new)

(* The latest range is moved to the new edges, and keeps its start, or the *)
(* new one is added.                                                       *)
AddRange(active, new) ==
  IF active # <<>> /\ SameRange(Last(active), new)
  THEN Append(Front(active), [new EXCEPT !.start = Last(active).start])
  ELSE Append(active, new)

UpdateRanges(d, b, state, minBars) ==
  LET seen   == Append(d.seen, b)
      kept   == Selected(d.active, {i \in DOMAIN d.active : ~ BrokenBy(d.active[i], b)})
      window == SubSeq(seen, Larger(1, Len(seen) - minBars + 1), Len(seen))
      looked == /\ state = "TradingRange"
                /\ Len(seen) >= minBars
                /\ Highest(window) > Lowest(window)
  IN  [active |-> IF looked THEN AddRange(kept, RangeOf(window, d.index)) ELSE kept,
       seen   |-> seen,
       index  |-> d.index + 1]

InTradingRange(d) == d.active # <<>>
CurrentRange(d) == IF d.active = <<>> THEN {} ELSE {Last(d.active)}

=============================================================================
