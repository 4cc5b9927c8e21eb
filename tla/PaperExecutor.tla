---------------------------- MODULE PaperExecutor ---------------------------
(***************************************************************************)
(* The paper trading executor (order-manager/src/paper.rs), which plays    *)
(* the venue: it holds limit and stop orders until a price triggers them   *)
(* and fills market orders at once.                                        *)
(*                                                                         *)
(* A price update fills every order it triggers, in the hash map's order:  *)
(* it is one step that finds them and one step per order, and no other     *)
(* method runs in between.  Prices are integers; fills are quoted in units *)
(* SlipUnit times finer, so that slippage is exact.  The clock is the CST  *)
(* date.                                                                   *)
(***************************************************************************)
EXTENDS Integers, Sequences

CONSTANTS
  OrderIds,
  Securities,
  Prices,        \* prices the market may quote
  Levels,        \* prices and stops an order may be modified to
  Requests,      \* orders callers submit
  LotSize,       \* min_lot_size of the market rules
  SlipUnit,      \* denominator of the slippage fraction
  SlippageBps,   \* its numerator
  NoOrder,       \* the id is not pending
  MaxDay,        \* bound: the last date
  MaxFills       \* bound: unpolled fills beyond which none is submitted

Directions == {"Long", "Short"}

Orders ==
  [security  : Securities,
   direction : Directions,
   type      : {"Market", "Limit", "Stop", "StopLimit"},
   quantity  : Nat,
   price     : SUBSET Levels,
   stop      : SUBSET Levels]

ASSUME PaperAssumption ==
  /\ Requests \subseteq Orders
  /\ NoOrder \notin Orders
  /\ NoOrder \notin [left : Nat, level : (SUBSET Levels) \X (SUBSET Levels)]
  /\ Prices \subseteq Nat
  /\ Levels \subseteq Nat
  /\ LotSize \in Nat
  /\ SlipUnit \in Nat \ {0}
  /\ SlippageBps \in 0 .. SlipUnit
  /\ MaxDay \in Nat
  /\ MaxFills \in Nat

VARIABLES
  pending,   \* pending_orders
  fills,     \* fill_queue
  prices,    \* current_prices: of each security, none or one
  longs,     \* long_positions: the opening date, none or one per security
  today,     \* the CST date of Utc::now()
  toFill     \* orders triggered by the price update under way

paperVars == <<pending, fills, prices, longs, today, toFill>>

FillEvents ==
  [id        : OrderIds,
   security  : Securities,
   direction : Directions,
   price     : Int,
   quantity  : Nat \ {0},
   partial   : {FALSE}]

PaperInit ==
  /\ pending = [id \in OrderIds |-> NoOrder]
  /\ fills = <<>>
  /\ prices = [s \in Securities |-> {}]
  /\ longs = [s \in Securities |-> {}]
  /\ today = 0
  /\ toFill = {}

-----------------------------------------------------------------------------
(* Helpers.                                                                *)

(* The market has come to the limit, or gone through the stop.             *)
ShouldTrigger(order, price) ==
  LET buy == order.direction = "Long"
  IN  CASE order.type = "Limit" ->
             \E limit \in order.price :
                IF buy THEN price <= limit ELSE price >= limit
        [] order.type \in {"Stop", "StopLimit"} ->
             \E stop \in order.stop :
                IF buy THEN price >= stop ELSE price <= stop
        [] order.type = "Market" -> FALSE

(* Slippage is always adverse. *)
ApplySlippage(price, direction) ==
  price * (IF direction = "Long" THEN SlipUnit + SlippageBps
                                 ELSE SlipUnit - SlippageBps)

(* T+1 for sells of a security with a Long registered, whole lots, and not *)
(* nothing.                                                                *)
ValidateOrder(order) ==
  /\ order.direction = "Short" => \A d \in longs[order.security] : today > d
  /\ LotSize > 0 => order.quantity % LotSize = 0
  /\ order.quantity # 0

(* The price of a market order: the last one known, or else the order's    *)
(* own, or else zero.                                                      *)
MarketPrice(order) ==
  LET known == prices[order.security]
  IN  CASE known # {} -> CHOOSE p \in known : TRUE
        [] known = {} /\ order.price # {} -> CHOOSE p \in order.price : TRUE
        [] OTHER -> 0

(* An order is filled in full at the given market price. *)
FillAt(id, order, price) ==
  fills' = Append(fills,
             [id |-> id, security |-> order.security,
              direction |-> order.direction,
              price |-> ApplySlippage(price, order.direction),
              quantity |-> order.quantity, partial |-> FALSE])

(* A given optional value replaces the old one. *)
Replaced(old, new) == IF new = {} THEN old ELSE new

-----------------------------------------------------------------------------
(* Operations.                                                             *)

(* No price update is under way. *)
Idle == toFill = {}

(* Accepted for submission: not pending, and valid. *)
Admitted(id, order) ==
  /\ Idle
  /\ Len(fills) < MaxFills
  /\ pending[id] = NoOrder
  /\ ValidateOrder(order)

SubmitMarket(id, order) ==
  /\ Admitted(id, order)
  /\ order.type = "Market"
  /\ UNCHANGED <<pending, prices, longs, today, toFill>>
  /\ FillAt(id, order, MarketPrice(order))

SubmitResting(id, order) ==
  /\ Admitted(id, order)
  /\ order.type # "Market"
  /\ pending' = [pending EXCEPT ![id] = order]
  /\ UNCHANGED <<fills, prices, longs, today, toFill>>

CancelOrder(id) ==
  /\ Idle
  /\ pending[id] # NoOrder
  /\ pending' = [pending EXCEPT ![id] = NoOrder]
  /\ UNCHANGED <<fills, prices, longs, today, toFill>>

ModifyOrder(id, newPrice, newStop) ==
  /\ Idle
  /\ pending[id] # NoOrder
  /\ pending' = [pending EXCEPT ![id].price = Replaced(@, newPrice),
                                ![id].stop = Replaced(@, newStop)]
  /\ UNCHANGED <<fills, prices, longs, today, toFill>>

PollFills ==
  /\ Idle
  /\ fills # <<>>
  /\ fills' = <<>>
  /\ UNCHANGED <<pending, prices, longs, today, toFill>>

(* A mistaken UpdatePrice: it stops at the first order it triggers. *)
UpdateFirst(security, price) ==
  /\ Idle
  /\ prices' = [prices EXCEPT ![security] = {price}]
  /\ LET triggered == {id \in OrderIds :
                         /\ pending[id] # NoOrder
                         /\ pending[id].security = security
                         /\ ShouldTrigger(pending[id], price)}
     IN  IF triggered = {} THEN toFill' = {}
         ELSE \E id \in triggered : toFill' = {id}
  /\ UNCHANGED <<pending, fills, longs, today>>

(* The price is noted and the orders it triggers are found. *)
UpdatePrice(security, price) ==
  /\ Idle
  /\ prices' = [prices EXCEPT ![security] = {price}]
  /\ toFill' = {id \in OrderIds :
                  /\ pending[id] # NoOrder
                  /\ pending[id].security = security
                  /\ ShouldTrigger(pending[id], price)}
  /\ UNCHANGED <<pending, fills, longs, today>>

(* A mistaken FillTriggered: the order stays pending. *)
FillAndKeep(id) ==
  /\ id \in toFill
  /\ toFill' = toFill \ {id}
  /\ UNCHANGED <<pending, prices, longs, today>>
  /\ FillAt(id, pending[id], MarketPrice(pending[id]))

(* One of the triggered orders: it leaves the pending ones and is filled   *)
(* at the price that triggered it.                                         *)
FillTriggered(id) ==
  /\ id \in toFill
  /\ toFill' = toFill \ {id}
  /\ pending' = [pending EXCEPT ![id] = NoOrder]
  /\ UNCHANGED <<prices, longs, today>>
  /\ FillAt(id, pending[id], MarketPrice(pending[id]))

(* The caller tells of a Long it has opened, at a past time or just now. *)
RegisterLong(security, date) ==
  /\ Idle
  /\ date \in 0 .. today
  /\ longs' = [longs EXCEPT ![security] = {date}]
  /\ UNCHANGED <<pending, fills, prices, today, toFill>>

UnregisterPosition(security) ==
  /\ Idle
  /\ longs' = [longs EXCEPT ![security] = {}]
  /\ UNCHANGED <<pending, fills, prices, today, toFill>>

(* The clock passes midnight. *)
NextDay ==
  /\ Idle
  /\ today < MaxDay
  /\ today' = today + 1
  /\ UNCHANGED <<pending, fills, prices, longs, toFill>>

Optional(S) == {{}} \cup {{x} : x \in S}

PaperNext ==
  \/ \E id \in OrderIds :
       \/ \E o \in Requests : SubmitMarket(id, o) \/ SubmitResting(id, o)
       \/ CancelOrder(id)
       \/ \E p, s \in Optional(Levels) : ModifyOrder(id, p, s)
       \/ FillTriggered(id)
  \/ PollFills
  \/ \E s \in Securities :
       \/ \E p \in Prices : UpdatePrice(s, p)
       \/ \E d \in 0 .. today : RegisterLong(s, d)
       \/ UnregisterPosition(s)
  \/ NextDay

PaperSpec == PaperInit /\ [][PaperNext]_paperVars

-----------------------------------------------------------------------------
(* Properties.                                                             *)

(* No triggered order is left behind: when the last order a price update   *)
(* fills is done, the update's price triggers no order of the security     *)
(* that is still pending.  (An order submitted or modified at a price that *)
(* already triggers it waits for the next update.)                         *)
TriggeredOrdersFill ==
  [][\A id \in toFill : toFill' = {} =>
       \A other \in OrderIds :
         /\ pending'[other] # NoOrder
         /\ pending'[other].security = pending[id].security
         => \A p \in prices[pending[id].security] :
              ~ShouldTrigger(pending'[other], p)]_paperVars

(* The executor keeps the contract the order manager relies on: an order   *)
(* rests until it is cancelled or filled, in full and once, each fill is   *)
(* announced once, and polling loses none.                                 *)
Contract ==
  INSTANCE Executor WITH
    Quantities <- {o.quantity : o \in Requests} \ {0},
    Levels <- (SUBSET Levels) \X (SUBSET Levels),
    venue <- [id \in OrderIds |->
                IF pending[id] = NoOrder THEN NoOrder
                ELSE [left |-> pending[id].quantity,
                      level |-> <<pending[id].price, pending[id].stop>>]],
    fills <- [i \in DOMAIN fills |->
                [id |-> fills[i].id, quantity |-> fills[i].quantity,
                 partial |-> fills[i].partial]]

ImplementsExecutor == Contract!VenueSpec

(* The fill a step announces, if it announces one. *)
NewFills == {fills'[i] : i \in Len(fills) + 1 .. Len(fills')}

(* "Market orders fill immediately at the current price" (paper.rs): only  *)
(* when there is one.                                                      *)
MarketOrdersFillAtMarket ==
  [][\A f \in NewFills : f.id \notin toFill => prices[f.security] # {}]_paperVars

(* "Shares bought today cannot be sold until the next trading day"         *)
(* (docs/user-guide.md): no sell fills on the date of the registered Long. *)
NoSameDaySale ==
  [][\A f \in NewFills :
       f.direction = "Short" => today \notin longs[f.security]]_paperVars

=============================================================================
