---------------------------- MODULE OrderManager ----------------------------
(***************************************************************************)
(* The order manager (order-manager/src/manager.rs) on top of any          *)
(* executor that keeps the contract of Executor.  The manager mirrors the  *)
(* venue: it knows an order as active until it is told of its end.         *)
(*                                                                         *)
(* The manager's methods take `&mut self`, so one runs at a time, but they *)
(* await the executor, and the venue executes resting orders at any time,  *)
(* between two methods and between two awaits of one.  A method is one     *)
(* step where the venue can do nothing meanwhile that the rest of the      *)
(* method would notice, and several where it can: polling takes the events *)
(* in one step and records one per step, cancelling all orders is one step *)
(* per order, in the hash map's order.                                     *)
(***************************************************************************)
EXTENDS Executor, Functions

CONSTANTS
  Securities,    \* securities that can be traded
  SecurityOf     \* the security of each order

Tracked ==
  [quantity : Quantities,
   filled   : Nat,
   level    : Levels,
   status   : {"Submitted", "PartiallyFilled"}]

ASSUME ManagerAssumption ==
  /\ SecurityOf \in [OrderIds -> Securities]
  /\ NoOrder \notin Tracked

VARIABLES
  active,    \* active_orders: what the manager knows of each active order
  history,   \* order_history: orders that ended
  inbox,     \* events taken by poll_fills and not yet recorded
  sweep      \* orders a cancel-all still has to try

managerVars == <<active, history, inbox, sweep>>
vars == <<venue, fills, active, history, inbox, sweep>>

Ended ==
  [id       : OrderIds,
   quantity : Quantities,
   filled   : Nat,
   status   : {"Filled", "Cancelled"}]

TypeOK ==
  /\ VenueTypeOK
  /\ active \in [OrderIds -> Tracked \cup {NoOrder}]
  /\ history \in Seq(Ended)
  /\ inbox \in Seq(FillEvents)
  /\ sweep \in SUBSET OrderIds

Active == {id \in OrderIds : active[id] # NoOrder}

InHistory(id) == \E i \in 1 .. Len(history) : history[i].id = id

(* No method is under way. *)
Idle == inbox = <<>> /\ sweep = {}

Init ==
  /\ VenueInit
  /\ active = [id \in OrderIds |-> NoOrder]
  /\ history = <<>>
  /\ inbox = <<>>
  /\ sweep = {}

-----------------------------------------------------------------------------
(* Operations.                                                             *)

(* A mistaken Conclude: the order is copied, not moved. *)
ConcludeCopy(id, filled, status) ==
  /\ history' = Append(history,
                  [id |-> id, quantity |-> active[id].quantity,
                   filled |-> filled, status |-> status])
  /\ UNCHANGED active

(* The order leaves the active map and enters the history. *)
Conclude(id, filled, status) ==
  /\ active' = [active EXCEPT ![id] = NoOrder]
  /\ history' = Append(history,
                  [id |-> id, quantity |-> active[id].quantity,
                   filled |-> filled, status |-> status])

(* The executor accepts the order, then it is tracked as active.  Only the *)
(* active orders are searched for a duplicate.  Callers build an order     *)
(* with Order::market, limit or stop, which draw a fresh id: an order that *)
(* ended is not submitted again.  A refusal changes nothing.               *)
SubmitOrder(id, quantity, level) ==
  /\ Idle
  /\ active[id] = NoOrder
  /\ ~InHistory(id)
  /\ \/ Accept(id, quantity, level)
     \/ AcceptFilled(id, quantity)
  /\ active' = [active EXCEPT ![id] =
                  [quantity |-> quantity, filled |-> 0, level |-> level,
                   status |-> "Submitted"]]
  /\ UNCHANGED <<history, inbox, sweep>>

(* A mistaken CancelOrder: the executor's refusal is ignored. *)
CancelRegardless(id) ==
  /\ Idle
  /\ active[id] # NoOrder
  /\ IF venue[id] = NoOrder THEN UNCHANGED venueVars ELSE Withdraw(id)
  /\ Conclude(id, active[id].filled, "Cancelled")
  /\ UNCHANGED <<inbox, sweep>>

(* A cancellation the executor refuses, because the order has been         *)
(* executed meanwhile, changes nothing.                                    *)
CancelOrder(id) ==
  /\ Idle
  /\ active[id] # NoOrder
  /\ Withdraw(id)
  /\ Conclude(id, active[id].filled, "Cancelled")
  /\ UNCHANGED <<inbox, sweep>>

ModifyOrder(id, level) ==
  /\ Idle
  /\ active[id] # NoOrder
  /\ Amend(id, level)
  /\ active' = [active EXCEPT ![id].level = level]
  /\ UNCHANGED <<history, inbox, sweep>>

(* The executor's events are taken. *)
PollFills ==
  /\ Idle
  /\ fills # <<>>
  /\ Drain
  /\ inbox' = fills
  /\ UNCHANGED <<active, history, sweep>>

(* A mistaken RecordPartial: the quantity of earlier fills is lost. *)
RecordLatest ==
  /\ inbox # <<>>
  /\ LET f == Head(inbox)
     IN  /\ f.partial
         /\ active[f.id] # NoOrder
         /\ active' = [active EXCEPT ![f.id].filled = f.quantity,
                                     ![f.id].status = "PartiallyFilled"]
  /\ inbox' = Tail(inbox)
  /\ UNCHANGED <<venue, fills, history, sweep>>

(* A partial fill: the order stays active. *)
RecordPartial ==
  /\ inbox # <<>>
  /\ LET f == Head(inbox)
     IN  /\ f.partial
         /\ active[f.id] # NoOrder
         /\ active' = [active EXCEPT ![f.id].filled = @ + f.quantity,
                                     ![f.id].status = "PartiallyFilled"]
  /\ inbox' = Tail(inbox)
  /\ UNCHANGED <<venue, fills, history, sweep>>

(* A mistaken RecordFilled: the last fill stands for all of them. *)
RecordFinalOnly ==
  /\ inbox # <<>>
  /\ LET f == Head(inbox)
     IN  /\ ~f.partial
         /\ active[f.id] # NoOrder
         /\ Conclude(f.id, f.quantity, "Filled")
  /\ inbox' = Tail(inbox)
  /\ UNCHANGED <<venue, fills, sweep>>

(* The fill that completes an order. *)
RecordFilled ==
  /\ inbox # <<>>
  /\ LET f == Head(inbox)
     IN  /\ ~f.partial
         /\ active[f.id] # NoOrder
         /\ Conclude(f.id, active[f.id].filled + f.quantity, "Filled")
  /\ inbox' = Tail(inbox)
  /\ UNCHANGED <<venue, fills, sweep>>

(* A fill of an order that is no longer active is returned to the caller   *)
(* and recorded nowhere.                                                   *)
PassOver ==
  /\ inbox # <<>>
  /\ active[Head(inbox).id] = NoOrder
  /\ inbox' = Tail(inbox)
  /\ UNCHANGED <<venue, fills, active, history, sweep>>

(* cancel_all_orders and cancel_all_for_security begin: the ids are        *)
(* collected before the first cancellation.                                *)
CancelAll(securities) ==
  /\ Idle
  /\ sweep' = {id \in Active : SecurityOf[id] \in securities}
  /\ sweep' # {}
  /\ UNCHANGED <<venue, fills, active, history, inbox>>

SweepCancel(id) ==
  /\ id \in sweep
  /\ Withdraw(id)
  /\ Conclude(id, active[id].filled, "Cancelled")
  /\ sweep' = sweep \ {id}
  /\ UNCHANGED inbox

(* "Best effort": the executor refuses, whether or not it holds the order, *)
(* and the sweep goes on.                                                  *)
SweepSkip(id) ==
  /\ id \in sweep
  /\ sweep' = sweep \ {id}
  /\ UNCHANGED <<venue, fills, active, history, inbox>>

(* The market executes a resting order while the manager does something    *)
(* else.                                                                   *)
VenueExecutes(id) ==
  /\ venue[id] # NoOrder
  /\ \E n \in 1 .. venue[id].left : Execute(id, n)
  /\ UNCHANGED managerVars

Next ==
  \/ \E id \in OrderIds, q \in Quantities, l \in Levels : SubmitOrder(id, q, l)
  \/ \E id \in OrderIds :
       \/ CancelOrder(id)
       \/ \E l \in Levels : ModifyOrder(id, l)
       \/ SweepCancel(id)
       \/ SweepSkip(id)
       \/ VenueExecutes(id)
  \/ PollFills
  \/ RecordPartial
  \/ RecordFilled
  \/ PassOver
  \/ CancelAll(Securities)
  \/ \E s \in Securities : CancelAll({s})

Spec == Init /\ [][Next]_vars

-----------------------------------------------------------------------------
(* Properties.                                                             *)

(* Fill events on their way to the manager's books, oldest first. *)
Unseen == inbox \o fills

FilledUnseen(id) ==
  \E i \in 1 .. Len(Unseen) : Unseen[i].id = id /\ ~Unseen[i].partial

(* The quantity of an order that a sequence of fill events reports. *)
QuantityIn(id, events) ==
  SumFunctionOnSet([i \in DOMAIN events |-> events[i].quantity],
                   {i \in DOMAIN events : events[i].id = id})

QuantityUnseen(id) == QuantityIn(id, Unseen)

QuantityLeft(id) == IF venue[id] = NoOrder THEN 0 ELSE venue[id].left

(* The manager's active map mirrors the venue, however the venue executes  *)
(* between the manager's calls: an order is active exactly when it rests   *)
(* at the venue or its completing fill is on its way, never both; the      *)
(* prices agree after every modification; and an order a cancel-all has    *)
(* collected is still active when the sweep reaches it.                    *)
KnowsVenue ==
  /\ \A id \in OrderIds :
       /\ active[id] # NoOrder <=> (venue[id] # NoOrder \/ FilledUnseen(id))
       /\ venue[id] # NoOrder =>
            /\ ~FilledUnseen(id)
            /\ active[id].level = venue[id].level
  /\ sweep \subseteq Active

(* No unit of an active order is lost or counted twice across partial      *)
(* fills: what is recorded, what is on its way and what still rests at the *)
(* venue add up to what was ordered (poll_fills adds up filled_quantity).  *)
QuantityAccounted ==
  \A id \in Active :
    active[id].filled + QuantityUnseen(id) + QuantityLeft(id)
      = active[id].quantity

(* What the history says of an order is true of its quantity: filled means *)
(* filled in full, over all its fills, and a cancelled order was not.      *)
HistoryIsHonest ==
  \A i \in 1 .. Len(history) :
    history[i].status = "Filled" <=> history[i].filled = history[i].quantity

(* An order ends once: cancellations, sweeps and fills that race for it    *)
(* never put it into the history twice, and no ended order is active.      *)
EndsOnce ==
  /\ \A i, j \in 1 .. Len(history) : history[i].id = history[j].id => i = j
  /\ \A id \in Active : ~InHistory(id)

(* "Poll the executor for fills, update order states" (manager.rs): every  *)
(* fill polled finds the order whose state it updates.                     *)
EveryFillRecorded == inbox # <<>> => Head(inbox).id \in Active

=============================================================================
