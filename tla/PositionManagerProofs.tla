------------------------ MODULE PositionManagerProofs ------------------------
(***************************************************************************)
(* That a managed position's stop is earned and no exit of it is missed,   *)
(* for every set of securities, prices, levels and openings.               *)
(***************************************************************************)
EXTENDS PositionManager, TLAPS

(* What the history of one position says of it, position by position.      *)
Matches(m, o) ==
  /\ m.position.direction = o.direction
  /\ m.position.entry = o.entry
  /\ m.position.target = o.target
  /\ m.risk = o.risk

Earned(o, seen) == \E price \in seen : EarnsItsRisk(o, price)

StopKept(m, o, seen) ==
  /\ Gain(m.position.direction, o.stop, m.position.stop) >= 0
  /\ m.position.stop # o.stop => Earned(o, seen)
  /\ m.trailing <=> Earned(o, seen)

ExitKept(o, prices) ==
  \A price \in prices :
    /\ Gain(o.direction, o.stop, price) > 0
    /\ \A t \in o.target : Gain(o.direction, price, t) > 0

(* The inductive invariant.  A position carries its opening with it; that  *)
(* its stop is never looser than the first one is what makes a price       *)
(* beyond the first stop hit the current one.                              *)
IInv ==
  /\ TypeOK
  /\ \A s \in Securities : positions[s] # NoPosition =>
       /\ opening[s] \in Openings
       /\ Matches(positions[s], opening[s])
       /\ StopKept(positions[s], opening[s], evaluated[s])
       /\ ~ asked[s] => ExitKept(opening[s], settled[s])

OpeningRecords ==
  [direction : Directions, entry : Int, stop : Int, target : SUBSET Int, risk : Int]

-----------------------------------------------------------------------------
(* A trailing stop is a price, and no looser than the stop it replaces.    *)
LEMMA TrailingStopTightens ==
  ASSUME NEW p \in Positions, NEW lows \in SUBSET Levels, NEW highs \in SUBSET Levels
  PROVE  /\ TrailingStop(p, lows, highs) \in Int
         /\ Gain(p.direction, p.stop, TrailingStop(p, lows, highs)) >= 0
<1> DEFINE levels == TrailCandidates(p, lows, highs)
<1>1. p.stop \in Int /\ p.direction \in Directions
  BY DEF Positions
<1>2. levels \in SUBSET Levels /\ Levels \subseteq Int
  BY PositionManagerAssumption DEF TrailCandidates
<1>3. CASE levels = {}
  <2>1. TrailingStop(p, lows, highs) = p.stop
    BY <1>3 DEF TrailingStop
  <2> QED BY <1>1, <2>1 DEF Gain
<1>4. CASE levels # {}
  <2> DEFINE Best(s) == \A t \in levels : IF p.direction = "Long" THEN t <= s ELSE t >= s
  <2>1. /\ \E m \in levels : \A n \in levels : n <= m
        /\ \E m \in levels : \A n \in levels : n >= m
    BY <1>2, <1>4, PositionManagerAssumption
  <2>2. \E s \in levels : Best(s)
    BY <2>1
  <2>3. TrailingStop(p, lows, highs) = CHOOSE s \in levels : Best(s)
    BY <1>4 DEF TrailingStop
  <2>4. TrailingStop(p, lows, highs) \in levels
    BY <2>2, <2>3
  <2>5. TrailingStop(p, lows, highs) \in Int
    BY <1>2, <2>4
  <2>6. IF p.direction = "Long" THEN TrailingStop(p, lows, highs) > p.stop
        ELSE TrailingStop(p, lows, highs) < p.stop
    BY <2>4 DEF TrailCandidates
  <2> QED BY <1>1, <2>5, <2>6 DEF Gain
<1> QED BY <1>3, <1>4

(* What an update leaves of a managed position and what it changes.        *)
LEMMA ManagedChanges ==
  ASSUME NEW m \in ManagedPositions, NEW price \in Int,
         NEW lows \in SUBSET Levels, NEW highs \in SUBSET Levels
  PROVE  LET n == Managed(m, price, lows, highs) IN
         /\ n \in ManagedPositions
         /\ n.position.direction = m.position.direction
         /\ n.position.entry = m.position.entry
         /\ n.position.target = m.position.target
         /\ n.risk = m.risk
         /\ Gain(m.position.direction, m.position.stop, n.position.stop) >= 0
         /\ ExitLevelHit(m.position, price) =>
              n.trailing = m.trailing /\ n.position.stop = m.position.stop
         /\ ~ ExitLevelHit(m.position, price) =>
              /\ n.trailing = TrailActive(m, price)
              /\ ~ n.trailing => n.position.stop = m.position.stop
<1> DEFINE n == Managed(m, price, lows, highs)
           p == UpdatePrice(m.position, price)
           on == TrailActive(m, price)
<1>1. /\ m.position \in Positions /\ m.risk \in Int /\ m.trailing \in BOOLEAN
      /\ m = [position |-> m.position, risk |-> m.risk, trailing |-> m.trailing]
  BY DEF ManagedPositions
<1>2. /\ p \in Positions /\ p.direction = m.position.direction
      /\ p.entry = m.position.entry /\ p.target = m.position.target
      /\ p.stop = m.position.stop
  BY <1>1 DEF UpdatePrice, Positions
<1>3. p.stop \in Int
  BY <1>2 DEF Positions
<1>4. on \in BOOLEAN
  BY <1>1 DEF TrailActive, Gain, Positions
<1>5. CASE ExitLevelHit(m.position, price)
  <2>1. n = [m EXCEPT !.position = p]
    BY <1>5 DEF Managed
  <2>2. /\ n.position = p /\ n.risk = m.risk /\ n.trailing = m.trailing
        /\ n \in ManagedPositions
    BY <1>1, <1>2, <2>1 DEF ManagedPositions
  <2>3. Gain(m.position.direction, m.position.stop, n.position.stop) >= 0
    BY <1>2, <1>3, <2>2 DEF Gain
  <2> QED BY <1>2, <1>5, <2>2, <2>3
<1>6. CASE ~ ExitLevelHit(m.position, price)
  <2> DEFINE q == IF on THEN [p EXCEPT !.stop = TrailingStop(p, lows, highs)] ELSE p
  <2>1. n = [m EXCEPT !.trailing = on, !.position = q]
    BY <1>6 DEF Managed
  <2>2. /\ TrailingStop(p, lows, highs) \in Int
        /\ Gain(p.direction, p.stop, TrailingStop(p, lows, highs)) >= 0
    BY <1>2, TrailingStopTightens
  <2>3. /\ q \in Positions /\ q.direction = m.position.direction
        /\ q.entry = m.position.entry /\ q.target = m.position.target
        /\ Gain(m.position.direction, m.position.stop, q.stop) >= 0
        /\ ~ on => q.stop = m.position.stop
    <3>1. CASE on
      <4>1. q = [p EXCEPT !.stop = TrailingStop(p, lows, highs)]
        BY <3>1
      <4>2. /\ q \in Positions /\ q.direction = p.direction /\ q.entry = p.entry
            /\ q.target = p.target /\ q.stop = TrailingStop(p, lows, highs)
        BY <1>2, <2>2, <4>1 DEF Positions
      <4> QED BY <1>2, <2>2, <3>1, <4>2
    <3>2. CASE ~ on
      <4>1. q = p
        BY <3>2
      <4>2. Gain(p.direction, p.stop, p.stop) >= 0
        BY <1>3 DEF Gain
      <4> QED BY <1>2, <3>2, <4>1, <4>2
    <3> QED BY <3>1, <3>2
  <2>4. /\ n.position = q /\ n.risk = m.risk /\ n.trailing = on
        /\ n \in ManagedPositions
    BY <1>1, <1>4, <2>1, <2>3 DEF ManagedPositions
  <2> QED BY <1>6, <2>3, <2>4
<1> QED BY <1>5, <1>6

(* A new position has its first stop, no trail and no history.             *)
LEMMA NewPositionMatches ==
  ASSUME NEW o \in OpeningRecords, date \in Int
  PROVE  LET m == Manage(OpenedPosition(o), o.risk) IN
         /\ m \in ManagedPositions /\ Matches(m, o)
         /\ StopKept(m, o, {}) /\ ExitKept(o, {})
<1> DEFINE m == Manage(OpenedPosition(o), o.risk)
<1>1. /\ OpenedPosition(o) \in Positions
      /\ OpenedPosition(o).direction = o.direction
      /\ OpenedPosition(o).entry = o.entry
      /\ OpenedPosition(o).target = o.target
      /\ OpenedPosition(o).stop = o.stop
  BY DEF OpenedPosition, Positions, OpeningRecords
<1>2. /\ m.position = OpenedPosition(o) /\ m.risk = o.risk /\ m.trailing = FALSE
      /\ m \in ManagedPositions
  BY <1>1 DEF Manage, ManagedPositions, OpeningRecords
<1>3. o.stop \in Int
  BY DEF OpeningRecords
<1>4. Gain(m.position.direction, o.stop, m.position.stop) >= 0
  BY <1>1, <1>2, <1>3 DEF Gain
<1> QED BY <1>1, <1>2, <1>4 DEF Matches, StopKept, ExitKept, Earned

(* An update keeps the stop earned: a hit level changes neither the stop   *)
(* nor the history of the trail, any other price may activate it.          *)
LEMMA UpdateKeepsStop ==
  ASSUME NEW m \in ManagedPositions, NEW o \in OpeningRecords, NEW seen \in SUBSET Int,
         NEW price \in Int, NEW lows \in SUBSET Levels, NEW highs \in SUBSET Levels,
         Matches(m, o), StopKept(m, o, seen)
  PROVE  LET n == Managed(m, price, lows, highs) IN
         /\ Matches(n, o)
         /\ ExitLevelHit(m.position, price) => StopKept(n, o, seen)
         /\ ~ ExitLevelHit(m.position, price) => StopKept(n, o, seen \union {price})
<1> DEFINE n == Managed(m, price, lows, highs)
<1>1. /\ n \in ManagedPositions
      /\ n.position.direction = m.position.direction
      /\ n.position.entry = m.position.entry
      /\ n.position.target = m.position.target
      /\ n.risk = m.risk
      /\ Gain(m.position.direction, m.position.stop, n.position.stop) >= 0
      /\ ExitLevelHit(m.position, price) =>
           n.trailing = m.trailing /\ n.position.stop = m.position.stop
      /\ ~ ExitLevelHit(m.position, price) =>
           /\ n.trailing = TrailActive(m, price)
           /\ ~ n.trailing => n.position.stop = m.position.stop
  BY ManagedChanges
<1> HIDE DEF n
<1>2. /\ m.position.stop \in Int /\ n.position.stop \in Int /\ o.stop \in Int
      /\ m.position.entry \in Int /\ o.risk \in Int
      /\ m.trailing \in BOOLEAN /\ n.trailing \in BOOLEAN
  BY <1>1 DEF ManagedPositions, Positions, OpeningRecords
<1>3. Matches(n, o)
  BY <1>1 DEF Matches
<1>4. Gain(n.position.direction, o.stop, n.position.stop) >= 0
  BY <1>1, <1>2 DEF StopKept, Gain
<1>5. TrailActive(m, price) <=> m.trailing \/ EarnsItsRisk(o, price)
  BY DEF TrailActive, EarnsItsRisk, Matches
<1>6. Earned(o, seen \union {price}) <=> Earned(o, seen) \/ EarnsItsRisk(o, price)
  BY DEF Earned
<1>7. ExitLevelHit(m.position, price) => StopKept(n, o, seen)
  BY <1>1, <1>4 DEF StopKept
<1>8. ASSUME ~ ExitLevelHit(m.position, price)
      PROVE  StopKept(n, o, seen \union {price})
  <2>1. n.trailing <=> Earned(o, seen \union {price})
    BY <1>1, <1>5, <1>6, <1>8 DEF StopKept
  <2>2. n.position.stop # o.stop => Earned(o, seen \union {price})
    BY <1>1, <1>2, <1>6, <1>8, <2>1 DEF StopKept
  <2> QED BY <1>4, <2>1, <2>2 DEF StopKept
<1> QED BY <1>3, <1>7, <1>8 DEF n

(* An update that may close the position and does not ask for it has seen  *)
(* a price inside the first stop and the target.                           *)
LEMMA QuietUpdateIsInside ==
  ASSUME NEW m \in ManagedPositions, NEW o \in OpeningRecords, NEW seen \in SUBSET Int,
         NEW price \in Int, Matches(m, o), StopKept(m, o, seen),
         ~ ExitLevelHit(m.position, price)
  PROVE  /\ Gain(o.direction, o.stop, price) > 0
         /\ \A t \in o.target : Gain(o.direction, price, t) > 0
<1>1. /\ m.position.stop \in Int /\ o.stop \in Int /\ o.direction \in Directions
      /\ o.target \in SUBSET Int
  BY DEF ManagedPositions, Positions, OpeningRecords
<1>2. /\ m.position.direction = o.direction /\ m.position.target = o.target
      /\ Gain(o.direction, o.stop, m.position.stop) >= 0
  BY DEF Matches, StopKept
<1>3. /\ ~ IsStopHit(m.position, price)
      /\ ~ IsTargetHit(m.position, price)
  BY DEF ExitLevelHit
<1>4. Gain(o.direction, o.stop, price) > 0
  BY <1>1, <1>2, <1>3 DEF IsStopHit, Gain, Directions
<1>5. \A t \in o.target : Gain(o.direction, price, t) > 0
  BY <1>1, <1>2, <1>3 DEF IsTargetHit, Gain, Directions
<1> QED BY <1>4, <1>5

-----------------------------------------------------------------------------
(* The manager starts without positions.                                   *)
LEMMA InitEstablishes == Init => IInv
  BY PositionManagerAssumption DEF Init, IInv, TypeOK

(* Adding a position starts its history.                                   *)
LEMMA AddKeeps ==
  ASSUME IInv, NEW s \in Securities, NEW o \in Openings, AddPosition(s, o)
  PROVE  IInv'
<1>1. o \in OpeningRecords /\ date \in Int
  BY PositionManagerAssumption DEF IInv, TypeOK, OpeningRecords
<1> DEFINE m == Manage(OpenedPosition(o), o.risk)
<1>2. m \in ManagedPositions /\ Matches(m, o) /\ StopKept(m, o, {}) /\ ExitKept(o, {})
  BY <1>1, NewPositionMatches
<1> HIDE DEF m
<1>3. /\ positions' = [positions EXCEPT ![s] = m]
      /\ opening' = [opening EXCEPT ![s] = o]
      /\ evaluated' = [evaluated EXCEPT ![s] = {}]
      /\ settled' = [settled EXCEPT ![s] = {}]
      /\ asked' = [asked EXCEPT ![s] = FALSE]
      /\ requests' = {} /\ date' = date
  BY DEF AddPosition, m
<1>4. TypeOK'
  BY <1>2, <1>3 DEF IInv, TypeOK
<1>5. ASSUME NEW r \in Securities, positions'[r] # NoPosition
      PROVE  /\ opening'[r] \in Openings
             /\ Matches(positions'[r], opening'[r])
             /\ StopKept(positions'[r], opening'[r], evaluated'[r])
             /\ ~ asked'[r] => ExitKept(opening'[r], settled'[r])
  <2>1. CASE r = s
    <3>1. /\ positions'[r] = m /\ opening'[r] = o /\ evaluated'[r] = {}
          /\ settled'[r] = {}
      BY <1>3, <2>1 DEF IInv, TypeOK
    <3> QED BY <1>2, <3>1
  <2>2. CASE r # s
    <3>1. /\ positions'[r] = positions[r] /\ opening'[r] = opening[r]
          /\ evaluated'[r] = evaluated[r] /\ settled'[r] = settled[r]
          /\ asked'[r] = asked[r]
      BY <1>3, <2>2 DEF IInv, TypeOK
    <3> QED BY <1>5, <3>1 DEF IInv
  <2> QED BY <2>1, <2>2
<1> QED BY <1>4, <1>5 DEF IInv

(* Removing one leaves the others.                                         *)
LEMMA RemoveKeeps ==
  ASSUME IInv, NEW s \in Securities, RemovePosition(s)
  PROVE  IInv'
<1>1. /\ positions' = [positions EXCEPT ![s] = NoPosition]
      /\ requests' = {} /\ UNCHANGED <<date, opening, evaluated, settled, asked>>
  BY DEF RemovePosition, historyVars
<1>2. TypeOK'
  BY <1>1 DEF IInv, TypeOK
<1>3. \A r \in Securities : positions'[r] # NoPosition => positions'[r] = positions[r]
  BY <1>1 DEF IInv, TypeOK
<1> QED BY <1>1, <1>2, <1>3 DEF IInv

(* Updating one keeps its stop earned and misses none of its exits.        *)
LEMMA UpdateKeeps ==
  ASSUME IInv, NEW s \in Securities, NEW price \in Prices,
         NEW lows \in SUBSET Levels, NEW highs \in SUBSET Levels,
         Update(s, price, lows, highs)
  PROVE  IInv'
<1> DEFINE m == positions[s]
           o == opening[s]
           n == Managed(m, price, lows, highs)
           hit == ExitLevelHit(m.position, price)
<1>1. /\ m # NoPosition /\ m \in ManagedPositions
      /\ price \in Int /\ o \in Openings /\ o \in OpeningRecords
      /\ evaluated[s] \in SUBSET Int /\ settled[s] \in SUBSET Int
      /\ asked[s] \in BOOLEAN
      /\ Matches(m, o) /\ StopKept(m, o, evaluated[s])
      /\ ~ asked[s] => ExitKept(o, settled[s])
  BY PositionManagerAssumption DEF IInv, TypeOK, Update, Held, OpeningRecords
<1>2. n \in ManagedPositions
  BY <1>1, ManagedChanges
<1>3. /\ Matches(n, o)
      /\ hit => StopKept(n, o, evaluated[s])
      /\ ~ hit => StopKept(n, o, evaluated[s] \union {price})
  BY <1>1, UpdateKeepsStop
<1>4. ~ hit => /\ Gain(o.direction, o.stop, price) > 0
               /\ \A t \in o.target : Gain(o.direction, price, t) > 0
  BY <1>1, QuietUpdateIsInside
<1>5. /\ positions' = [positions EXCEPT ![s] = n]
      /\ requests' = IF WantsClose(m, price, date) THEN {s} ELSE {}
      /\ evaluated' = IF hit THEN evaluated
                      ELSE [evaluated EXCEPT ![s] = @ \union {price}]
      /\ settled' = IF m.position.direction = "Short" \/ m.position.openedAt < date
                    THEN [settled EXCEPT ![s] = @ \union {price}]
                    ELSE settled
      /\ asked' = [asked EXCEPT ![s] = @ \/ WantsClose(m, price, date)]
      /\ date' = date /\ opening' = opening
  BY DEF Update
<1>6. WantsClose(m, price, date) <=> hit /\ ~ LockedByT1(m.position, date)
  BY DEF WantsClose
<1>7. m.position.direction = "Short" \/ m.position.openedAt < date
        => ~ LockedByT1(m.position, date)
  <2>1. m.position.direction = "Short" => ~ LockedByT1(m.position, date)
    BY DEF LockedByT1
  <2>2. m.position.openedAt < date => IsT1Settled(m.position, date)
    BY <1>1 DEF IsT1Settled, ManagedPositions, Positions, IInv, TypeOK
  <2> QED BY <2>1, <2>2 DEF LockedByT1
<1> HIDE DEF n, m, o, hit
<1>8. WantsClose(m, price, date) \in BOOLEAN
  BY DEF WantsClose
<1>9. TypeOK'
  <2>1. positions' \in [Securities -> ManagedPositions \union {NoPosition}]
    BY <1>2, <1>5 DEF IInv, TypeOK
  <2>2. evaluated' \in [Securities -> SUBSET Int] /\ settled' \in [Securities -> SUBSET Int]
    BY <1>1, <1>5 DEF IInv, TypeOK
  <2>3. asked' \in [Securities -> BOOLEAN]
    BY <1>1, <1>5, <1>8 DEF IInv, TypeOK
  <2>4. requests' \subseteq Securities
    BY <1>5 DEF IInv, TypeOK
  <2> QED BY <1>5, <2>1, <2>2, <2>3, <2>4 DEF IInv, TypeOK
<1>10. ASSUME NEW r \in Securities, positions'[r] # NoPosition
       PROVE  /\ opening'[r] \in Openings
              /\ Matches(positions'[r], opening'[r])
              /\ StopKept(positions'[r], opening'[r], evaluated'[r])
              /\ ~ asked'[r] => ExitKept(opening'[r], settled'[r])
  <2>1. CASE r = s
    <3>1. /\ positions'[r] = n /\ opening'[r] = o
      BY <1>5, <2>1 DEF IInv, TypeOK, o
    <3>2. evaluated'[r] = IF hit THEN evaluated[s] ELSE evaluated[s] \union {price}
      BY <1>5, <2>1 DEF IInv, TypeOK
    <3>3. StopKept(n, o, evaluated'[r])
      BY <1>3, <3>2
    <3>4. ~ asked'[r] => ExitKept(o, settled'[r])
      <4>1. SUFFICES ASSUME ~ asked'[r] PROVE ExitKept(o, settled'[r])
        OBVIOUS
      <4>2. ~ asked[s] /\ ~ WantsClose(m, price, date)
        BY <1>1, <1>5, <1>8, <2>1, <4>1 DEF IInv, TypeOK
      <4>3. CASE m.position.direction = "Short" \/ m.position.openedAt < date
        <5>1. settled'[r] = settled[s] \union {price}
          BY <1>5, <2>1, <4>3 DEF IInv, TypeOK
        <5>2. ~ hit
          BY <1>6, <1>7, <4>2, <4>3
        <5> QED BY <1>1, <1>4, <4>2, <5>1, <5>2 DEF ExitKept
      <4>4. CASE ~ (m.position.direction = "Short" \/ m.position.openedAt < date)
        <5>1. settled'[r] = settled[s]
          BY <1>5, <2>1, <4>4 DEF IInv, TypeOK
        <5> QED BY <1>1, <4>2, <5>1
      <4> QED BY <4>3, <4>4
    <3> QED BY <1>1, <1>3, <3>1, <3>3, <3>4
  <2>2. CASE r # s
    <3>1. /\ positions'[r] = positions[r] /\ opening'[r] = opening[r]
          /\ evaluated'[r] = evaluated[r] /\ settled'[r] = settled[r]
          /\ asked'[r] = asked[r]
      BY <1>5, <2>2 DEF IInv, TypeOK
    <3> QED BY <1>10, <3>1 DEF IInv
  <2> QED BY <2>1, <2>2
<1> QED BY <1>9, <1>10 DEF IInv

(* The other calls change neither positions nor their histories.           *)
LEMMA QuietKeeps ==
  ASSUME IInv, UNCHANGED <<positions, historyVars>>,
         requests' \subseteq Securities, date' \in 1 .. MaxDate
  PROVE  IInv'
  BY DEF IInv, TypeOK, historyVars

LEMMA NextKeeps == IInv /\ [Next]_vars => IInv'
<1> SUFFICES ASSUME IInv, [Next]_vars PROVE IInv'
  OBVIOUS
<1>1. CASE \E s \in Securities, o \in Openings : AddPosition(s, o)
  BY <1>1, AddKeeps
<1>2. CASE \E s \in Securities : RemovePosition(s)
  BY <1>2, RemoveKeeps
<1>3. CASE \E s \in Securities, price \in Prices, lows, highs \in SUBSET Levels :
             Update(s, price, lows, highs)
  BY <1>3, UpdateKeeps
<1>4. requests \subseteq Securities /\ date \in 1 .. MaxDate
  BY DEF IInv, TypeOK
<1>5. CASE \E s \in Securities : UpdateNothing(s)
  BY <1>4, <1>5, QuietKeeps DEF UpdateNothing
<1>6. CASE CloseAll
  BY <1>4, <1>6, QuietKeeps DEF CloseAll, Held
<1>7. CASE NextDay
  <2>1. date' \in 1 .. MaxDate
    BY <1>4, <1>7, PositionManagerAssumption DEF NextDay
  <2> QED BY <1>4, <1>7, <2>1, QuietKeeps DEF NextDay, managerVars
<1>8. CASE UNCHANGED vars
  BY <1>4, <1>8, QuietKeeps DEF vars, managerVars
<1> QED BY <1>1, <1>2, <1>3, <1>5, <1>6, <1>7, <1>8 DEF Next

-----------------------------------------------------------------------------
(* The inductive invariant holds throughout.                               *)
THEOREM ManagerInvariant == Spec => []IInv
  BY InitEstablishes, NextKeeps, PTL DEF Spec

(* A stop never loosens and moves only after the position was one unit of  *)
(* risk in profit, for every opening, price and choice of swing levels.    *)
THEOREM StopsAreEarned == Spec => []StopIsEarned
<1>1. IInv => StopIsEarned
  BY DEF IInv, StopIsEarned, Held, StopKept, Earned
<1> QED BY <1>1, ManagerInvariant, PTL

(* As long as nothing has asked for a position to be closed, no price at   *)
(* which it could have been was beyond its first stop or its target.       *)
THEOREM NoExitIsMissed == Spec => []NoMissedExit
<1>1. IInv => NoMissedExit
  BY DEF IInv, NoMissedExit, Held, ExitKept
<1> QED BY <1>1, ManagerInvariant, PTL

=============================================================================
