------------------------------- MODULE Ledger -------------------------------
(***************************************************************************)
(* What a backtest account promises, without orders, bars or a strategy:   *)
(* money is either cash, or invested in the one open position, or written  *)
(* off; it moves between these by opening and closing positions only;      *)
(* nothing is opened without the cash for it; and what was bought to hold  *)
(* (a Long) is sold on a later date than it was bought.                    *)
(***************************************************************************)
EXTENDS Integers

CONSTANTS
  Capital,   \* the money the account starts with, a natural number
  Amounts,   \* amounts of money, integers
  Dates      \* calendar dates, natural numbers

VARIABLES
  cash,
  invested,   \* entry value of the open position
  writtenOff, \* entry value of positions replaced by a later one
  earned,     \* realized profit, negative for a loss
  holding,    \* "none", "Long" or "Short"
  since,      \* date on which the open position was opened
  today

vars == <<cash, invested, writtenOff, earned, holding, since, today>>

Init ==
  /\ cash = Capital
  /\ invested = 0 /\ writtenOff = 0 /\ earned = 0
  /\ holding = "none" /\ since = 0
  /\ today = 0

(* Time passes; a new date may or may not have begun. *)
Wait ==
  /\ today' \in Dates
  /\ today' >= today
  /\ UNCHANGED <<cash, invested, writtenOff, earned, holding, since>>

(* Money for the new position leaves cash, which it may not overdraw; an   *)
(* earlier position is written off.                                        *)
Open ==
  /\ cash' \in Amounts
  /\ cash' >= 0
  /\ invested' = cash - cash'
  /\ writtenOff' = writtenOff + invested
  /\ holding' \in {"Long", "Short"}
  /\ since' = today
  /\ UNCHANGED <<earned, today>>

(* A closed position's entry value and its profit or loss return to cash. *)
Close ==
  /\ holding # "none"
  /\ holding = "Long" => today > since
  /\ earned' \in Amounts
  /\ cash' = cash + invested + (earned' - earned)
  /\ invested' = 0
  /\ holding' = "none" /\ since' = 0
  /\ UNCHANGED <<writtenOff, today>>

Next == Wait \/ Open \/ Close

Spec == Init /\ [][Next]_vars

-----------------------------------------------------------------------------

(* Amounts are whole numbers of the money unit. *)
AmountsOK ==
  /\ cash \in Int /\ invested \in Int /\ writtenOff \in Int /\ earned \in Int

(* No money appears or disappears: whatever was earned or lost is in cash, *)
(* in the position, or in the positions that a later fill overwrote.       *)
Conservation == cash + invested + writtenOff = Capital + earned

=============================================================================
