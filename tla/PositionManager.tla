--------------------------- MODULE PositionManager ---------------------------
(***************************************************************************)
(* The strategy's position manager (strategy/src/position_manager.rs): one *)
(* managed position for each security, with an exit at its stop or target, *)
(* T+1 and a stop that trails the swing points of the analyzer.            *)
(*                                                                         *)
(* The caller, here any legal one, adds positions, updates them with a     *)
(* price and the swing levels it knows, and removes them, over several     *)
(* days; it may leave a close request unanswered.  The history of a        *)
(* position since it was added is kept for the properties.                 *)
(***************************************************************************)
EXTENDS ManagedPosition

CONSTANTS
  Securities,
  Prices,      \* bound: prices of updates
  Levels,      \* bound: prices of swing points
  Openings,    \* bound: [direction, entry, stop, target, risk] of new positions
  MaxDate,     \* bound: dates are 1..MaxDate
  NoPosition   \* no position for the security (HashMap::get is None)

(* Every non-empty choice of swing levels has a highest and a lowest.      *)
ASSUME PositionManagerAssumption ==
  /\ Prices \subseteq Int
  /\ Levels \subseteq Int
  /\ \A S \in SUBSET Levels : S # {} =>
       /\ \E m \in S : \A n \in S : n <= m
       /\ \E m \in S : \A n \in S : n >= m
  /\ Openings \subseteq
       [direction : Directions, entry : Int, stop : Int, target : SUBSET Int, risk : Int]
  /\ MaxDate \in Nat \ {0}
  /\ NoPosition \notin ManagedPositions

VARIABLES
  positions,  \* PositionManager.positions
  requests,   \* the close requests the last call returned
  date,       \* the date of the caller's timestamps
  opening,    \* history: what the position was added with
  evaluated,  \* history: the prices at which its trail was looked at
  settled,    \* history: the prices at which it might have been closed
  asked       \* history: an update has asked for it to be closed

managerVars == <<positions, requests>>
historyVars == <<opening, evaluated, settled, asked>>
vars == <<managerVars, date, historyVars>>

Held == {s \in Securities : positions[s] # NoPosition}

Init ==
  /\ positions = [s \in Securities |-> NoPosition]
  /\ requests = {}
  /\ date = 1
  /\ opening = [s \in Securities |-> NoPosition]
  /\ evaluated = [s \in Securities |-> {}]
  /\ settled = [s \in Securities |-> {}]
  /\ asked = [s \in Securities |-> FALSE]

-----------------------------------------------------------------------------
OpenedPosition(o) ==
  [direction |-> o.direction, quantity |-> 1, entry |-> o.entry, current |-> o.entry,
   stop |-> o.stop, target |-> o.target, openedAt |-> date]

(* A mistaken AddPosition: the flags of an earlier position stay. *)
AddPositionKeepingTrail(s, o) ==
  /\ positions' = [positions EXCEPT ![s] =
       [position |-> OpenedPosition(o), risk |-> o.risk,
        trailing |-> positions[s] # NoPosition /\ positions[s].trailing]]
  /\ requests' = {}
  /\ opening' = [opening EXCEPT ![s] = o]
  /\ evaluated' = [evaluated EXCEPT ![s] = {}]
  /\ settled' = [settled EXCEPT ![s] = {}]
  /\ asked' = [asked EXCEPT ![s] = FALSE]
  /\ UNCHANGED date

(* add_position puts the position in place of any earlier one. *)
AddPosition(s, o) ==
  /\ positions' = [positions EXCEPT ![s] = Manage(OpenedPosition(o), o.risk)]
  /\ requests' = {}
  /\ opening' = [opening EXCEPT ![s] = o]
  /\ evaluated' = [evaluated EXCEPT ![s] = {}]
  /\ settled' = [settled EXCEPT ![s] = {}]
  /\ asked' = [asked EXCEPT ![s] = FALSE]
  /\ UNCHANGED date

RemovePosition(s) ==
  /\ positions' = [positions EXCEPT ![s] = NoPosition]
  /\ requests' = {}
  /\ UNCHANGED <<date, historyVars>>

(* update, for a security with a position: mark it, ask for its close at a *)
(* hit level if T+1 allows it, or else let it trail.                       *)
Update(s, price, lows, highs) ==
  LET m == positions[s]
      closes == WantsClose(m, price, date)
  IN  /\ s \in Held
      /\ positions' = [positions EXCEPT ![s] = Managed(m, price, lows, highs)]
      /\ requests' = IF closes THEN {s} ELSE {}
      /\ evaluated' = IF ExitLevelHit(m.position, price) THEN evaluated
                      ELSE [evaluated EXCEPT ![s] = @ \union {price}]
      /\ settled' = IF m.position.direction = "Short" \/ m.position.openedAt < date
                    THEN [settled EXCEPT ![s] = @ \union {price}]
                    ELSE settled
      /\ asked' = [asked EXCEPT ![s] = @ \/ closes]
      /\ UNCHANGED <<date, opening>>

(* An update of a security without a position returns no action. *)
UpdateNothing(s) ==
  /\ s \notin Held
  /\ requests' = {}
  /\ UNCHANGED <<positions, date, historyVars>>

(* close_all asks for every position, settled or not. *)
CloseAll ==
  /\ requests' = Held
  /\ UNCHANGED <<positions, date, historyVars>>

NextDay ==
  /\ date < MaxDate
  /\ date' = date + 1
  /\ UNCHANGED <<managerVars, historyVars>>

Next ==
  \/ \E s \in Securities, o \in Openings : AddPosition(s, o)
  \/ \E s \in Securities : RemovePosition(s)
  \/ \E s \in Securities, price \in Prices, lows, highs \in SUBSET Levels :
        Update(s, price, lows, highs)
  \/ \E s \in Securities : UpdateNothing(s)
  \/ CloseAll
  \/ NextDay

Spec == Init /\ [][Next]_vars

-----------------------------------------------------------------------------
TypeOK ==
  /\ positions \in [Securities -> ManagedPositions \union {NoPosition}]
  /\ requests \subseteq Securities
  /\ date \in 1 .. MaxDate
  /\ opening \in [Securities -> Openings \union {NoPosition}]
  /\ evaluated \in [Securities -> SUBSET Int]
  /\ settled \in [Securities -> SUBSET Int]
  /\ asked \in [Securities -> BOOLEAN]

(* A price at which the position was one unit of risk in profit. *)
EarnsItsRisk(o, price) == o.risk > 0 /\ Gain(o.direction, o.entry, price) >= o.risk

(* The stop of a position may only tighten, and does not move at all       *)
(* before the position has earned its initial risk once: across partial    *)
(* retreats, days under T+1 and unanswered close requests, and whatever    *)
(* swing points the analyzer offers.                                       *)
StopIsEarned ==
  \A s \in Held :
    LET m == positions[s]
        earned == \E price \in evaluated[s] : EarnsItsRisk(opening[s], price)
    IN  /\ Gain(m.position.direction, opening[s].stop, m.position.stop) >= 0
        /\ m.position.stop # opening[s].stop => earned
        /\ m.trailing <=> earned

(* No exit is missed: as long as nothing has asked for a position to be    *)
(* closed, no price at which it might have been sold was at its first stop *)
(* or beyond, or at its target; a level that was hit under T+1 counts      *)
(* again when the lock is off.                                             *)
NoMissedExit ==
  \A s \in Held : ~ asked[s] =>
    \A price \in settled[s] :
      /\ Gain(opening[s].direction, opening[s].stop, price) > 0
      /\ \A t \in opening[s].target : Gain(opening[s].direction, price, t) > 0

=============================================================================
