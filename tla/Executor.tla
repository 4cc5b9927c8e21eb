------------------------------ MODULE Executor ------------------------------
(***************************************************************************)
(* What an execution venue promises the order manager: the OrderExecutor   *)
(* trait (order-manager/src/executor.rs).  Orders rest at the venue until  *)
(* they are withdrawn or executed, at once or later, in one or several     *)
(* parts; each execution is announced by one fill event, and the events    *)
(* wait in a queue until they are polled.                                  *)
(***************************************************************************)
EXTENDS Integers, Sequences

CONSTANTS
  OrderIds,      \* identifiers of orders
  Quantities,    \* quantities an order may ask for
  Levels,        \* prices and stops of an order, together
  NoOrder        \* the venue does not hold the order

Resting == [left : Nat \ {0}, level : Levels]

ASSUME ExecutorAssumption ==
  /\ Quantities \subseteq Nat \ {0}
  /\ NoOrder \notin Resting

VARIABLES
  venue,   \* the part of each order that is still to be executed
  fills    \* fill events not yet polled

venueVars == <<venue, fills>>

Fill(id, n, partial) == [id |-> id, quantity |-> n, partial |-> partial]

FillEvents == [id : OrderIds, quantity : Nat \ {0}, partial : BOOLEAN]

VenueTypeOK ==
  /\ venue \in [OrderIds -> Resting \cup {NoOrder}]
  /\ fills \in Seq(FillEvents)

VenueInit ==
  /\ venue = [id \in OrderIds |-> NoOrder]
  /\ fills = <<>>

(* An order is accepted and rests. *)
Accept(id, quantity, level) ==
  /\ venue[id] = NoOrder
  /\ venue' = [venue EXCEPT ![id] = [left |-> quantity, level |-> level]]
  /\ UNCHANGED fills

(* A market order may be filled at once. *)
AcceptFilled(id, quantity) ==
  /\ venue[id] = NoOrder
  /\ fills' = Append(fills, Fill(id, quantity, FALSE))
  /\ UNCHANGED venue

Withdraw(id) ==
  /\ venue[id] # NoOrder
  /\ venue' = [venue EXCEPT ![id] = NoOrder]
  /\ UNCHANGED fills

Amend(id, level) ==
  /\ venue[id] # NoOrder
  /\ venue' = [venue EXCEPT ![id].level = level]
  /\ UNCHANGED fills

(* The market executes n units of a resting order. *)
Execute(id, n) ==
  /\ venue[id] # NoOrder
  /\ n \in 1 .. venue[id].left
  /\ fills' = Append(fills, Fill(id, n, n < venue[id].left))
  /\ venue' = [venue EXCEPT ![id] =
                 IF n = venue[id].left THEN NoOrder
                 ELSE [left |-> venue[id].left - n, level |-> venue[id].level]]

(* Polling returns the waiting events and empties the queue. *)
Drain ==
  /\ fills' = <<>>
  /\ UNCHANGED venue

VenueNext ==
  \/ \E id \in OrderIds, q \in Quantities :
       \/ AcceptFilled(id, q)
       \/ \E l \in Levels : Accept(id, q, l)
  \/ \E id \in OrderIds :
       \/ Withdraw(id)
       \/ \E l \in Levels : Amend(id, l)
       \/ venue[id] # NoOrder /\ \E n \in 1 .. venue[id].left : Execute(id, n)
  \/ Drain

VenueSpec == VenueInit /\ [][VenueNext]_venueVars

=============================================================================
