------------------------- MODULE PaperTradingProofs -------------------------
(***************************************************************************)
(* What is proved of trading on paper: of the sessions that are started    *)
(* and stopped, and of the executor that fills their orders.               *)
(*                                                                         *)
(* Sessions: safety for any number of them. Every step is one of two       *)
(* shapes: work that returns (Leave), or a change to one session that      *)
(* leaves the rest alone. The invariants speak of one session at a time,   *)
(* so each is proved for the session that moves.                           *)
(*                                                                         *)
(* Executor: a price leaves nothing pending that it triggers, and every    *)
(* step is one that the executor's contract allows.                        *)
(***************************************************************************)
EXTENDS Sessions, PaperExecutor, FiniteInduction

(* The steps by which a task's work returns. *)
Leaving(s) ==
  \/ task[s] = "connecting" /\ Leave(s, "error")
  \/ task[s] = "handshake" /\ Leave(s, "error")
  \/ task[s] = "subscribing" /\ Leave(s, "error")
  \/ task[s] = "looping" /\ cancel[s] /\ Leave(s, "ok")
  \/ task[s] \in {"fetching", "computing"} /\ \E r \in {"ok", "error"} : Leave(s, r)

(* The step of a session, by its shape. *)
Moves(s) ==
  \/ \E k \in Kinds : Start(s, k)
  \/ Stop(s) \/ HandshakeAccepted(s) \/ GatewayCloses(s)
  \/ KeepAliveFails(s) \/ ConnectTcp(s) \/ Subscribe(s)
  \/ Report(s) \/ Leaving(s)

(* Every step that is not a start, a stop, a report or an event of the     *)
(* connection has work return.                                             *)
LEMMA StepsOfASession ==
  ASSUME [Next]_vars
  PROVE  (\E s \in SessionIds : Moves(s)) \/ UNCHANGED vars
<1>1. CASE UNCHANGED vars
  BY <1>1
<1>2. ASSUME NEW s \in SessionIds,
             HandshakeRejected(s) \/ TaskStep(s)
      PROVE  ConnectTcp(s) \/ Subscribe(s) \/ Report(s) \/ Leaving(s)
  BY <1>2 DEF HandshakeRejected, TaskStep, ConnectRefused, HandshakeBroken,
              SubscribeFails, NoticeStop, Fetch, Compute, Leaving
<1> QED BY <1>1, <1>2 DEF Next, Request, StartPaperTrading, FetchData,
                          RunBacktest, Kinds, Gateway, Moves

-----------------------------------------------------------------------------
(* Types. *)

LEMMA LeavingTypes ==
  ASSUME TypeOK, NEW s \in SessionIds, Leaving(s)
  PROVE  TypeOK'
<1>1. PICK r \in {"ok", "error"} : Leave(s, r)
  BY DEF Leaving
<1> QED BY <1>1 DEF TypeOK, Leave, Goto, Working

(* Every variable of every session keeps its type (Sessions, TypeOK).      *)
THEOREM SessionsTypeCorrect == Spec => []TypeOK
<1>1. Init => TypeOK
  BY DEF Init, TypeOK, Kinds
<1>2. TypeOK /\ [Next]_vars => TypeOK'
  <2> SUFFICES ASSUME TypeOK, [Next]_vars PROVE TypeOK'
    OBVIOUS
  <2>1. ASSUME NEW s \in SessionIds, NEW k \in Kinds, Start(s, k) PROVE TypeOK'
    BY <2>1 DEF Start, Goto, TypeOK, Working
  <2>2. ASSUME NEW s \in SessionIds, Stop(s) PROVE TypeOK'
    <3>1. cancel' \in [SessionIds -> BOOLEAN]
      BY <2>2 DEF Stop, Signal, TypeOK
    <3> QED BY <2>2, <3>1 DEF Stop, Signal, TypeOK
  <2>3. ASSUME NEW s \in SessionIds, HandshakeAccepted(s) PROVE TypeOK'
    BY <2>3 DEF HandshakeAccepted, Goto, TypeOK, Working, Connected
  <2>4. ASSUME NEW s \in SessionIds, GatewayCloses(s) PROVE TypeOK'
    BY <2>4 DEF GatewayCloses, TypeOK
  <2>5. ASSUME NEW s \in SessionIds, KeepAliveFails(s) PROVE TypeOK'
    BY <2>5 DEF KeepAliveFails, TypeOK
  <2>6. ASSUME NEW s \in SessionIds, ConnectTcp(s) PROVE TypeOK'
    BY <2>6 DEF ConnectTcp, Goto, TypeOK, Working
  <2>7. ASSUME NEW s \in SessionIds, Subscribe(s) PROVE TypeOK'
    BY <2>7 DEF Subscribe, Goto, TypeOK, Working, Connected
  <2>8. ASSUME NEW s \in SessionIds, Report(s) PROVE TypeOK'
    BY <2>8 DEF Report, Outcome, Goto, TypeOK, Final
  <2>9. ASSUME NEW s \in SessionIds, Leaving(s) PROVE TypeOK'
    BY <2>9, LeavingTypes
  <2>10. CASE UNCHANGED vars
    BY <2>10 DEF vars, TypeOK
  <2> QED BY <2>1, <2>2, <2>3, <2>4, <2>5, <2>6, <2>7, <2>8, <2>9, <2>10,
             StepsOfASession DEF Moves
<1> QED BY <1>1, <1>2, PTL DEF Spec

-----------------------------------------------------------------------------
(* The invariant. A stopped session was asked to stop because its loop     *)
(* returned without error, and the loop does so only on a cancellation,    *)
(* which only a stop request sends; the status alone does not say where it *)
(* came from, so the invariant follows the cancellation on its way.        *)

Untouched(s) == status[s] = "absent" <=> task[s] = "none"
StatusTrue(s) ==
  /\ status[s] = "running" <=> task[s] \in Working
  /\ status[s] \in Final => status[s] = Outcome(s)
ResultKnown(s) == task[s] \in {"returning", "ended"} <=> result[s] # "none"
Asked(s) ==
  /\ cancel[s] => asked[s]
  /\ kind[s] = "paper" /\ result[s] = "ok" => asked[s]
RightWork(s) == task[s] \in {"fetching", "computing"} => kind[s] # "paper"
Tidy(s) ==
  /\ keepAlive[s] => task[s] \in Connected
  /\ link[s] # "none" => task[s] \in Connected \cup {"handshake"}

SessionOK(s) ==
  /\ Untouched(s) /\ StatusTrue(s) /\ ResultKnown(s)
  /\ Asked(s) /\ RightWork(s) /\ Tidy(s)

SessionsInv == TypeOK /\ \A s \in SessionIds : SessionOK(s)

(* A step of one session changes nothing of another. *)
OthersAlone(s) == \A o \in SessionIds \ {s} :
  /\ kind'[o] = kind[o] /\ status'[o] = status[o] /\ task'[o] = task[o]
  /\ result'[o] = result[o] /\ cancel'[o] = cancel[o] /\ asked'[o] = asked[o]
  /\ link'[o] = link[o] /\ keepAlive'[o] = keepAlive[o]

LEMMA OneMoves ==
  ASSUME TypeOK, NEW s \in SessionIds, Moves(s)
  PROVE  OthersAlone(s)
<1>1. ASSUME NEW k \in Kinds, Start(s, k) PROVE OthersAlone(s)
  BY <1>1 DEF TypeOK, OthersAlone, Start, Goto
<1>2. CASE Stop(s)
  BY <1>2 DEF TypeOK, OthersAlone, Stop, Signal
<1>3. CASE HandshakeAccepted(s)
  BY <1>3 DEF TypeOK, OthersAlone, HandshakeAccepted, Goto
<1>4. CASE GatewayCloses(s)
  BY <1>4 DEF TypeOK, OthersAlone, GatewayCloses
<1>5. CASE KeepAliveFails(s)
  BY <1>5 DEF TypeOK, OthersAlone, KeepAliveFails
<1>6. CASE ConnectTcp(s)
  BY <1>6 DEF TypeOK, OthersAlone, ConnectTcp, Goto
<1>7. CASE Subscribe(s)
  BY <1>7 DEF TypeOK, OthersAlone, Subscribe, Goto
<1>8. CASE Report(s)
  BY <1>8 DEF TypeOK, OthersAlone, Report, Goto
<1>9. CASE Leaving(s)
  <2>1. PICK r \in {"ok", "error"} : Leave(s, r)
    BY <1>9 DEF Leaving
  <2> QED BY <2>1 DEF TypeOK, OthersAlone, Leave, Goto
<1> QED BY <1>1, <1>2, <1>3, <1>4, <1>5, <1>6, <1>7, <1>8, <1>9 DEF Moves

LEMMA OthersKept ==
  ASSUME NEW s \in SessionIds, NEW o \in SessionIds \ {s},
         OthersAlone(s), SessionOK(o)
  PROVE  SessionOK(o)'
BY DEF OthersAlone, SessionOK, Untouched, StatusTrue, ResultKnown, Asked,
       RightWork, Tidy, Outcome

(* Work that returns: its connection goes with it, and only a cancelled    *)
(* loop returns without error from a paper session.                        *)
LEMMA LeavingKept ==
  ASSUME TypeOK, NEW s \in SessionIds, SessionOK(s), Leaving(s)
  PROVE  SessionOK(s)'
<1>1. PICK r \in {"ok", "error"} :
        /\ Leave(s, r)
        /\ r = "ok" => \/ task[s] = "looping" /\ cancel[s]
                       \/ task[s] \in {"fetching", "computing"}
  BY DEF Leaving
<1>2. task[s] \in Working \ {"returning"}
  BY DEF Leaving, Working, Connected
<1>3. /\ task'[s] = "returning" /\ result'[s] = r /\ link'[s] = "none"
      /\ keepAlive'[s] = FALSE /\ cancel'[s] = FALSE
      /\ kind' = kind /\ status' = status /\ asked' = asked
  BY <1>1 DEF Leave, Goto, TypeOK
<1>4. status[s] = "running" /\ task[s] # "none"
  BY <1>2 DEF SessionOK, StatusTrue, Working, Connected
<1>5. Untouched(s)'
  BY <1>3, <1>4 DEF Untouched
<1>6. StatusTrue(s)'
  BY <1>3, <1>4 DEF StatusTrue, Working, Final
<1>7. Asked(s)'
  BY <1>1, <1>3 DEF SessionOK, Asked, RightWork
<1>8. ResultKnown(s)' /\ RightWork(s)' /\ Tidy(s)'
  BY <1>1, <1>3 DEF ResultKnown, RightWork, Tidy
<1> QED BY <1>5, <1>6, <1>7, <1>8 DEF SessionOK

LEMMA MoverKept ==
  ASSUME TypeOK, NEW s \in SessionIds, SessionOK(s), Moves(s)
  PROVE  SessionOK(s)'
<1> USE DEF SessionOK, Untouched, StatusTrue, ResultKnown, Asked, RightWork,
            Tidy, Working, Connected, Final
<1>1. ASSUME NEW k \in Kinds, Start(s, k) PROVE SessionOK(s)'
  <2>1. /\ task[s] = "none" /\ status[s] = "absent"
        /\ task'[s] = IF k = "backtest" THEN "computing" ELSE "connecting"
        /\ kind'[s] = k /\ status'[s] = "running"
        /\ UNCHANGED <<result, cancel, asked, link, keepAlive>>
    BY <1>1 DEF Start, Goto, TypeOK
  <2> QED BY <2>1
<1>2. CASE Stop(s)
  <2>1. /\ asked'[s] = TRUE
        /\ UNCHANGED <<kind, status, task, result, link, keepAlive>>
    BY <1>2 DEF Stop, Signal, TypeOK
  <2> QED BY <2>1 DEF Outcome
<1>3. CASE HandshakeAccepted(s)
  <2>1. /\ task[s] = "handshake"
        /\ task'[s] = IF kind[s] = "paper" THEN "subscribing" ELSE "fetching"
        /\ UNCHANGED <<kind, status, result, cancel, asked, link>>
    BY <1>3 DEF HandshakeAccepted, Goto, TypeOK
  <2> QED BY <2>1
<1>4. CASE GatewayCloses(s)
  <2>1. /\ link[s] = "open"
        /\ UNCHANGED <<kind, status, task, result, cancel, asked, keepAlive>>
    BY <1>4 DEF GatewayCloses
  <2> QED BY <2>1 DEF Outcome
<1>5. CASE KeepAliveFails(s)
  <2>1. /\ keepAlive'[s] = FALSE
        /\ UNCHANGED <<kind, status, task, result, cancel, asked, link>>
    BY <1>5 DEF KeepAliveFails, TypeOK
  <2> QED BY <2>1 DEF Outcome
<1>6. CASE ConnectTcp(s)
  <2>1. /\ task[s] = "connecting" /\ task'[s] = "handshake"
        /\ UNCHANGED <<kind, status, result, cancel, asked, keepAlive>>
    BY <1>6 DEF ConnectTcp, Goto, TypeOK
  <2> QED BY <2>1
<1>7. CASE Subscribe(s)
  <2>1. /\ task[s] = "subscribing" /\ task'[s] = "looping"
        /\ UNCHANGED <<kind, status, result, cancel, asked, link, keepAlive>>
    BY <1>7 DEF Subscribe, Goto, TypeOK
  <2> QED BY <2>1
<1>8. CASE Report(s)
  <2>1. /\ task[s] = "returning" /\ task'[s] = "ended"
        /\ status'[s] = Outcome(s)
        /\ UNCHANGED <<kind, result, cancel, asked, link, keepAlive>>
    BY <1>8 DEF Report, Goto, TypeOK
  <2>2. Outcome(s)' = Outcome(s) /\ Outcome(s) \in Final
    BY <2>1 DEF Outcome
  <2> QED BY <2>1, <2>2
<1>9. CASE Leaving(s)
  BY <1>9, LeavingKept
<1> QED BY <1>1, <1>2, <1>3, <1>4, <1>5, <1>6, <1>7, <1>8, <1>9 DEF Moves

LEMMA SessionsInvariant == Spec => []SessionsInv
<1>1. Init => \A s \in SessionIds : SessionOK(s)
  BY DEF Init, SessionOK, Untouched, StatusTrue, ResultKnown, Asked,
         RightWork, Tidy, Working, Connected, Final
<1>2. TypeOK /\ (\A s \in SessionIds : SessionOK(s)) /\ [Next]_vars
        => (\A s \in SessionIds : SessionOK(s))'
  <2> SUFFICES ASSUME TypeOK, \A s \in SessionIds : SessionOK(s), [Next]_vars,
                      NEW o \in SessionIds
               PROVE  SessionOK(o)'
    OBVIOUS
  <2>1. ASSUME NEW s \in SessionIds, Moves(s) PROVE SessionOK(o)'
    BY <2>1, OneMoves, OthersKept, MoverKept
  <2>2. CASE UNCHANGED vars
    BY <2>2 DEF vars, SessionOK, Untouched, StatusTrue, ResultKnown, Asked,
                RightWork, Tidy, Outcome
  <2> QED BY <2>1, <2>2, StepsOfASession
<1> QED BY <1>1, <1>2, SessionsTypeCorrect, PTL DEF Spec, SessionsInv

-----------------------------------------------------------------------------
(* What follows. *)

(* Status requests are answered truthfully (Sessions, HonestStatus). *)
THEOREM StatusAlwaysHonest == Spec => []HonestStatus
<1>1. SessionsInv => HonestStatus
  <2> SUFFICES ASSUME SessionsInv, NEW s \in SessionIds, status[s] \in Final
               PROVE  result[s] # "none"
    BY DEF SessionsInv, SessionOK, StatusTrue, HonestStatus
  <2>1. task[s] = "ended"
    BY DEF SessionsInv, SessionOK, StatusTrue, Untouched, Final, TypeOK
  <2> QED BY <2>1 DEF SessionsInv, SessionOK, ResultKnown
<1> QED BY <1>1, SessionsInvariant, PTL

(* No paper session stops by itself (Sessions, StoppedOnlyOnRequest).      *)
THEOREM StopsAreRequested == Spec => []StoppedOnlyOnRequest
<1>1. SessionsInv /\ HonestStatus => StoppedOnlyOnRequest
  <2> SUFFICES ASSUME SessionsInv, HonestStatus,
                      NEW s \in SessionIds, status[s] = "stopped"
               PROVE  asked[s]
    BY DEF StoppedOnlyOnRequest
  <2>1. Outcome(s) = "stopped" /\ result[s] # "none"
    BY DEF HonestStatus, Final
  <2>2. kind[s] = "paper" /\ result[s] = "ok"
    BY <2>1 DEF Outcome, SessionsInv, TypeOK
  <2> QED BY <2>2 DEF SessionsInv, SessionOK, Asked
<1> QED BY <1>1, SessionsInvariant, StatusAlwaysHonest, PTL

(* Every status is true and earned (Sessions, StatusTellsTruth). *)
THEOREM StatusAlwaysTellsTruth == Spec => []StatusTellsTruth
BY StatusAlwaysHonest, StopsAreRequested, PTL DEF StatusTellsTruth

(* Connections end with the work they served (Sessions, NothingLingers).   *)
THEOREM NothingEverLingers == Spec => []NothingLingers
<1>1. SessionsInv => NothingLingers
  BY DEF SessionsInv, SessionOK, Tidy, NothingLingers
<1> QED BY <1>1, SessionsInvariant, PTL

(* A final status is final (Sessions, FinalStatusStable).                  *)
THEOREM FinalStatusIsFinal == Spec => FinalStatusStable
<1>1. SessionsInv /\ [Next]_vars =>
        [\A s \in SessionIds : status[s] \in Final => status'[s] = status[s]]_vars
  <2> SUFFICES ASSUME SessionsInv, [Next]_vars,
                      NEW o \in SessionIds, status[o] \in Final
               PROVE  status'[o] = status[o]
    OBVIOUS
  <2>1. task[o] = "ended"
    BY DEF SessionsInv, SessionOK, StatusTrue, Untouched, Final, TypeOK
  <2>2. ASSUME NEW s \in SessionIds, Moves(s) PROVE status'[o] = status[o]
    <3>1. CASE s # o
      BY <2>2, <3>1, OneMoves DEF OthersAlone, SessionsInv
    <3>2. CASE s = o
      BY <2>1, <2>2, <3>2 DEF Moves, Start, Stop, HandshakeAccepted, GatewayCloses,
         KeepAliveFails, ConnectTcp, Subscribe, Report, Leaving, Final
    <3> QED BY <3>1, <3>2
  <2>3. CASE UNCHANGED vars
    BY <2>3 DEF vars
  <2> QED BY <2>2, <2>3, StepsOfASession
<1> QED BY <1>1, SessionsInvariant, PTL DEF Spec, FinalStatusStable

-----------------------------------------------------------------------------
(* The paper executor fills what a price triggers and keeps the contract   *)
(* the order manager relies on.                                            *)

(* Quantities the executor admits.                                         *)
Sizes == {o.quantity : o \in Requests} \ {0}

Pended == {o \in Orders : o.quantity \in Sizes}

PaperTypeOK ==
  /\ pending \in [OrderIds -> Pended \cup {NoOrder}]
  /\ fills \in Seq(FillEvents)
  /\ prices \in [Securities -> SUBSET Prices]
  /\ longs \in [Securities -> SUBSET Nat]
  /\ today \in Nat
  /\ toFill \in SUBSET OrderIds

(* While a price update is under way, the orders still to fill are pending *)
(* orders of the security it is for, and no other pending order of that    *)
(* security is triggered by its price.                                     *)
UpdateKeepsTrack ==
  /\ \A id \in toFill : pending[id] # NoOrder
  /\ toFill # {} =>
       \E s \in Securities, p \in Prices :
         /\ prices[s] = {p}
         /\ \A id \in toFill : pending[id].security = s
         /\ \A other \in OrderIds \ toFill :
              pending[other] # NoOrder /\ pending[other].security = s
                => ~ShouldTrigger(pending[other], p)

PaperInv == PaperTypeOK /\ UpdateKeepsTrack

(* What fills is the order in full, at the price of a market order.        *)
FillOf(id, o) ==
  [id |-> id, security |-> o.security, direction |-> o.direction,
   price |-> ApplySlippage(MarketPrice(o), o.direction),
   quantity |-> o.quantity, partial |-> FALSE]

LEMMA FillAppends ==
  ASSUME prices \in [Securities -> SUBSET Prices],
         NEW id \in OrderIds, NEW o \in Pended,
         FillAt(id, o, MarketPrice(o))
  PROVE  /\ FillOf(id, o) \in FillEvents
         /\ fills' = Append(fills, FillOf(id, o))
<1> DEFINE m == MarketPrice(o)
           x == ApplySlippage(m, o.direction)
<1>1. /\ o.security \in Securities /\ o.direction \in Directions
      /\ o.quantity \in Nat \ {0} /\ o.price \in SUBSET Levels
  BY DEF Pended, Sizes, Orders
<1>2. m \in Int
  <2> DEFINE known == prices[o.security]
  <2>1. known \in SUBSET Nat /\ o.price \in SUBSET Nat
    BY <1>1, PaperAssumption DEF PaperAssumption
  <2>2. CASE known # {}
    <3>1. m = CHOOSE p \in known : TRUE
      BY <2>2 DEF MarketPrice
    <3> HIDE DEF known, m
    <3>2. m \in known
      BY <2>2, <3>1, Zenon
    <3> QED BY <2>1, <3>2
  <2>3. CASE known = {} /\ o.price # {}
    <3> DEFINE own == o.price
    <3>1. m = CHOOSE p \in own : TRUE
      BY <2>3 DEF MarketPrice
    <3>2. own # {} /\ own \in SUBSET Nat
      BY <2>1, <2>3
    <3> HIDE DEF own, m
    <3>3. m \in own
      BY <3>1, <3>2, Zenon
    <3> QED BY <3>2, <3>3
  <2>4. CASE known = {} /\ o.price = {}
    BY <2>4 DEF MarketPrice
  <2> QED BY <2>2, <2>3, <2>4
<1>3. x \in Int
  <2> HIDE DEF m
  <2>1. SlipUnit + SlippageBps \in Int /\ SlipUnit - SlippageBps \in Int
    BY PaperAssumption DEF PaperAssumption
  <2>2. \A i, j \in Int : i * j \in Int
    OBVIOUS
  <2> QED BY <1>2, <2>1, <2>2 DEF ApplySlippage
<1>4. fills' = Append(fills, FillOf(id, o))
  BY DEF FillAt, FillOf
<1> DEFINE e == [id |-> id, security |-> o.security, direction |-> o.direction,
                 price |-> x, quantity |-> o.quantity, partial |-> FALSE]
<1>5. FillOf(id, o) = e
  BY DEF FillOf
<1> HIDE DEF x
<1>6. e \in FillEvents
  BY <1>1, <1>3 DEF FillEvents
<1> QED BY <1>4, <1>5, <1>6

(* A given value replaces the old one by values of the same kind.          *)
LEMMA ReplacedOK ==
  ASSUME NEW old \in SUBSET Levels, NEW new \in Optional(Levels)
  PROVE  Replaced(old, new) \in SUBSET Levels
BY DEF Replaced, Optional

(* A modified order still asks for its quantity of its security, and is    *)
(* still pending.                                                          *)
Modified(o, p, s) ==
  [o EXCEPT !.price = Replaced(@, p), !.stop = Replaced(@, s)]

LEMMA ModifiedOK ==
  ASSUME NEW o \in Pended,
         NEW p \in Optional(Levels), NEW s \in Optional(Levels)
  PROVE  Modified(o, p, s) \in Pended /\ Modified(o, p, s).quantity = o.quantity
<1> DEFINE newPrice == Replaced(o.price, p)
           newStop == Replaced(o.stop, s)
           n == [o EXCEPT !.price = newPrice, !.stop = newStop]
<1>1. newPrice \in SUBSET Levels /\ newStop \in SUBSET Levels
  BY ReplacedOK DEF Pended, Orders
<1>2. Modified(o, p, s) = n
  BY DEF Modified
<1> HIDE DEF newPrice, newStop
<1>3. n \in Pended /\ n.quantity = o.quantity
  BY <1>1 DEF Pended, Orders
<1> QED BY <1>2, <1>3

(* Every step of the executor keeps the invariant.                         *)
LEMMA PaperInvStep ==
  ASSUME PaperInv, [PaperNext]_paperVars
  PROVE  PaperInv'
<1> USE DEF PaperInv
<1>1. ASSUME NEW id \in OrderIds, NEW o \in Requests, SubmitMarket(id, o)
      PROVE  PaperInv'
  <2>1. o \in Pended /\ o \in Orders
    BY <1>1, PaperAssumption DEF SubmitMarket, Admitted, ValidateOrder, PaperAssumption,
                Pended, Sizes
  <2>2. fills' \in Seq(FillEvents)
    <3>1. FillAt(id, o, MarketPrice(o))
      BY <1>1 DEF SubmitMarket
    <3> DEFINE E == FillEvents
               e == FillOf(id, o)
    <3>2. e \in E /\ fills' = Append(fills, e)
      BY <2>1, <3>1, FillAppends DEF PaperTypeOK
    <3>3. fills \in Seq(E)
      BY DEF PaperTypeOK
    <3> HIDE DEF E, e
    <3>4. fills' \in Seq(E)
      BY <3>2, <3>3
    <3> QED BY <3>4 DEF E
  <2>3. UNCHANGED <<pending, prices, longs, today, toFill>>
    BY <1>1 DEF SubmitMarket
  <2> QED BY <2>2, <2>3 DEF PaperTypeOK, UpdateKeepsTrack
<1>2. ASSUME NEW id \in OrderIds, NEW o \in Requests, SubmitResting(id, o)
      PROVE  PaperInv'
  <2>1. o \in Pended
    BY <1>2, PaperAssumption DEF SubmitResting, Admitted, ValidateOrder, PaperAssumption,
                Pended, Sizes
  <2>2. toFill' = {}
    BY <1>2 DEF SubmitResting, Admitted, Idle
  <2>3. /\ pending' = [pending EXCEPT ![id] = o]
        /\ UNCHANGED <<fills, prices, longs, today>>
    BY <1>2 DEF SubmitResting
  <2> QED BY <2>1, <2>2, <2>3 DEF PaperTypeOK, UpdateKeepsTrack
<1>3. ASSUME NEW id \in OrderIds, CancelOrder(id)
      PROVE  PaperInv'
  <2>1. toFill' = {}
    BY <1>3 DEF CancelOrder, Idle
  <2>2. /\ pending' = [pending EXCEPT ![id] = NoOrder]
        /\ UNCHANGED <<fills, prices, longs, today>>
    BY <1>3 DEF CancelOrder
  <2> QED BY <2>1, <2>2 DEF PaperTypeOK, UpdateKeepsTrack
<1>4. ASSUME NEW id \in OrderIds,
             NEW p \in Optional(Levels), NEW s \in Optional(Levels),
             ModifyOrder(id, p, s)
      PROVE  PaperInv'
  <2> DEFINE o == pending[id]
             n == Modified(o, p, s)
  <2>1. o \in Pended
    BY <1>4 DEF ModifyOrder, PaperTypeOK
  <2>2. n \in Pended
    BY <2>1, ModifiedOK
  <2>3. pending' = [pending EXCEPT ![id] = n]
    BY <1>4 DEF ModifyOrder, Modified
  <2>4. toFill' = {}
    BY <1>4 DEF ModifyOrder, Idle
  <2>5. UNCHANGED <<fills, prices, longs, today>>
    BY <1>4 DEF ModifyOrder
  <2> HIDE DEF o, n
  <2> QED BY <2>2, <2>3, <2>4, <2>5 DEF PaperTypeOK, UpdateKeepsTrack
<1>5. CASE PollFills
  <2>1. fills' = <<>> /\ UNCHANGED <<pending, prices, longs, today, toFill>>
    BY <1>5 DEF PollFills
  <2> QED BY <2>1 DEF PaperTypeOK, UpdateKeepsTrack
<1>6. ASSUME NEW s \in Securities, NEW p \in Prices, UpdatePrice(s, p)
      PROVE  PaperInv'
  <2>1. /\ prices' = [prices EXCEPT ![s] = {p}]
        /\ toFill' = {id \in OrderIds :
                        /\ pending[id] # NoOrder
                        /\ pending[id].security = s
                        /\ ShouldTrigger(pending[id], p)}
        /\ UNCHANGED <<pending, fills, longs, today>>
    BY <1>6 DEF UpdatePrice
  <2>2. PaperTypeOK'
    BY <2>1 DEF PaperTypeOK
  <2>3. prices'[s] = {p}
    BY <2>1 DEF PaperTypeOK
  <2>4. UpdateKeepsTrack'
    BY <2>1, <2>3 DEF UpdateKeepsTrack
  <2> QED BY <2>2, <2>4
<1>7. ASSUME NEW id \in OrderIds, FillTriggered(id)
      PROVE  PaperInv'
  <2> DEFINE o == pending[id]
  <2>1. /\ id \in toFill /\ toFill' = toFill \ {id}
        /\ pending' = [pending EXCEPT ![id] = NoOrder]
        /\ UNCHANGED <<prices, longs, today>>
        /\ FillAt(id, o, MarketPrice(o))
    BY <1>7 DEF FillTriggered
  <2>2. o \in Pended
    BY <2>1 DEF PaperTypeOK, UpdateKeepsTrack
  <2>3. fills' \in Seq(FillEvents)
    <3> HIDE DEF o
    <3> DEFINE E == FillEvents
               e == FillOf(id, o)
    <3>1. e \in E /\ fills' = Append(fills, e)
      BY <2>1, <2>2, FillAppends DEF PaperTypeOK
    <3>2. fills \in Seq(E)
      BY DEF PaperTypeOK
    <3> HIDE DEF E, e
    <3>3. fills' \in Seq(E)
      BY <3>1, <3>2
    <3> QED BY <3>3 DEF E
  <2>4. PaperTypeOK'
    BY <2>1, <2>3 DEF PaperTypeOK
  <2>5. \A other \in OrderIds : other # id => pending'[other] = pending[other]
    BY <2>1 DEF PaperTypeOK
  <2>6. pending'[id] = NoOrder
    BY <2>1 DEF PaperTypeOK
  <2>7. UpdateKeepsTrack'
    BY <2>1, <2>5, <2>6, SMTT(30) DEF UpdateKeepsTrack, PaperTypeOK
  <2> QED BY <2>4, <2>7
<1>8. ASSUME NEW s \in Securities, NEW d \in 0 .. today, RegisterLong(s, d)
      PROVE  PaperInv'
  <2>1. longs' = [longs EXCEPT ![s] = {d}] /\ UNCHANGED <<pending, fills, prices, today, toFill>>
    BY <1>8 DEF RegisterLong
  <2>2. d \in Nat
    BY DEF PaperTypeOK
  <2> QED BY <2>1, <2>2 DEF PaperTypeOK, UpdateKeepsTrack
<1>9. ASSUME NEW s \in Securities, UnregisterPosition(s)
      PROVE  PaperInv'
  <2>1. longs' = [longs EXCEPT ![s] = {}] /\ UNCHANGED <<pending, fills, prices, today, toFill>>
    BY <1>9 DEF UnregisterPosition
  <2> QED BY <2>1 DEF PaperTypeOK, UpdateKeepsTrack
<1>10. CASE NextDay
  <2>1. today' = today + 1 /\ UNCHANGED <<pending, fills, prices, longs, toFill>>
    BY <1>10 DEF NextDay
  <2> QED BY <2>1 DEF PaperTypeOK, UpdateKeepsTrack
<1>11. CASE UNCHANGED paperVars
  <2>1. UNCHANGED <<pending, fills, prices, longs, today, toFill>>
    BY <1>11 DEF paperVars
  <2> QED BY <2>1 DEF PaperTypeOK, UpdateKeepsTrack
<1> HIDE DEF PaperInv
<1> QED
  BY <1>1, <1>2, <1>3, <1>4, <1>5, <1>6, <1>7, <1>8, <1>9, <1>10, <1>11 DEF PaperNext

LEMMA PaperInvInit ==
  ASSUME PaperInit PROVE PaperInv
BY DEF PaperInit, PaperInv, PaperTypeOK, UpdateKeepsTrack

(* No order of a security is left pending that the price update which just *)
(* ended had triggered (update_price of order-manager/src/paper.rs): for   *)
(* any orders, prices, slippage and clock.                                 *)
THEOREM TriggeredOrdersAlwaysFill == PaperSpec => TriggeredOrdersFill
<1> DEFINE Step ==
             \A id \in toFill : toFill' = {} =>
               \A other \in OrderIds :
                 /\ pending'[other] # NoOrder
                 /\ pending'[other].security = pending[id].security
                 => \A p \in prices[pending[id].security] :
                      ~ShouldTrigger(pending'[other], p)
<1>1. ASSUME PaperInv, [PaperNext]_paperVars
      PROVE  [Step]_paperVars
  <2> SUFFICES ASSUME NEW id \in toFill, toFill' = {},
                      NEW other \in OrderIds,
                      pending'[other] # NoOrder,
                      pending'[other].security = pending[id].security,
                      NEW p \in prices[pending[id].security]
               PROVE  ~ShouldTrigger(pending'[other], p)
    OBVIOUS
  <2>1. PICK done \in OrderIds : FillTriggered(done)
    BY <1>1 DEF PaperNext, SubmitMarket, SubmitResting, Admitted,
                CancelOrder, ModifyOrder, PollFills, UpdatePrice,
                RegisterLong, UnregisterPosition, NextDay, Idle,
                paperVars
  <2>2. /\ done \in toFill /\ toFill \subseteq {done}
        /\ pending' = [pending EXCEPT ![done] = NoOrder]
    BY <2>1 DEF FillTriggered
  <2>3. id = done
    BY <2>2
  <2>4. other # done /\ pending'[other] = pending[other] /\ other \notin toFill
    BY <1>1, <2>2 DEF PaperInv, PaperTypeOK
  <2>5. PICK s \in Securities, q \in Prices :
          /\ prices[s] = {q}
          /\ pending[done].security = s
          /\ pending[other] # NoOrder /\ pending[other].security = s
               => ~ShouldTrigger(pending[other], q)
    BY <1>1, <2>2, <2>4 DEF PaperInv, UpdateKeepsTrack
  <2> QED BY <2>3, <2>4, <2>5
<1>2. PaperSpec => []PaperInv
  BY PaperInvInit, PaperInvStep, PTL DEF PaperSpec
<1> QED
  <2>1. PaperSpec => [][Step]_paperVars
    BY <1>1, <1>2, PTL DEF PaperSpec
  <2> QED BY <2>1 DEF TriggeredOrdersFill

(* What the contract sees of the executor: of a pending order its quantity *)
(* and its marks, of a fill no price.                                      *)
RestingOf(orders) ==
  [id \in OrderIds |->
     IF orders[id] = NoOrder THEN NoOrder
     ELSE [left |-> orders[id].quantity,
           level |-> <<orders[id].price, orders[id].stop>>]]

Announcements(events) ==
  [i \in DOMAIN events |->
     [id |-> events[i].id, quantity |-> events[i].quantity,
      partial |-> events[i].partial]]

(* Entering a new fill in the queue enters it in the contract's.           *)
LEMMA EventsAppend ==
  ASSUME NEW s \in Seq(FillEvents), NEW e \in FillEvents
  PROVE  Announcements(Append(s, e)) =
           Append(Announcements(s), [id |-> e.id, quantity |-> e.quantity, partial |-> e.partial])
<1> DEFINE View(f) == [id |-> f.id, quantity |-> f.quantity, partial |-> f.partial]
           n == Len(s)
           a == Announcements(s)
           b == Announcements(Append(s, e))
           V == {View(f) : f \in FillEvents}
<1>1. n \in Nat /\ DOMAIN s = 1 .. n
  OBVIOUS
<1>2. a = [i \in 1 .. n |-> View(s[i])]
  BY <1>1 DEF Announcements
<1>3. b = [i \in 1 .. n + 1 |-> View(Append(s, e)[i])]
  <2>1. DOMAIN Append(s, e) = 1 .. n + 1
    BY <1>1
  <2> HIDE DEF n
  <2> QED BY <2>1 DEF Announcements
<1>4. \A i \in 1 .. n : s[i] \in FillEvents /\ Append(s, e)[i] = s[i]
  BY <1>1
<1>5. Append(s, e)[n + 1] = e
  BY <1>1
<1> DEFINE x == View(e)
<1>6. x \in V /\ \A i \in 1 .. n : View(s[i]) \in V
  BY <1>4
<1> HIDE DEF n, a, b, View, V
<1>7. a \in Seq(V) /\ Len(a) = n
  BY <1>1, <1>2, <1>6
<1>8. Append(a, x) = [i \in 1 .. n + 1 |-> IF i = n + 1 THEN x ELSE a[i]]
  <2> HIDE DEF x
  <2> DEFINE c == Append(a, x)
  <2>1. c \in Seq(V) /\ Len(c) = n + 1
    BY <1>6, <1>7
  <2>2. \A i \in 1 .. n + 1 : c[i] = IF i = n + 1 THEN x ELSE a[i]
    BY <1>1, <1>6, <1>7
  <2> HIDE DEF c
  <2>3. c = [i \in 1 .. n + 1 |-> c[i]]
    BY <2>1
  <2>4. c = [i \in 1 .. n + 1 |-> IF i = n + 1 THEN x ELSE a[i]]
    BY <2>2, <2>3
  <2> QED BY <2>4 DEF c
<1>9. \A i \in 1 .. n + 1 : View(Append(s, e)[i]) = IF i = n + 1 THEN x ELSE a[i]
  <2> SUFFICES ASSUME NEW i \in 1 .. n + 1
               PROVE  View(Append(s, e)[i]) = IF i = n + 1 THEN x ELSE a[i]
    OBVIOUS
  <2>1. CASE i = n + 1
    BY <1>5, <2>1
  <2>2. CASE i # n + 1
    <3>1. i \in 1 .. n
      BY <1>1, <2>2
    <3> QED BY <1>2, <1>4, <2>2, <3>1
  <2> QED BY <2>1, <2>2
<1>10. b = Append(a, x)
  BY <1>3, <1>8, <1>9
<1> QED BY <1>10 DEF a, b, View, x

(* The venue's entry of an order, and of an order that changes.            *)
LEMMA RestingFacts ==
  ASSUME NEW orders \in [OrderIds -> Pended \cup {NoOrder}],
         NEW id \in OrderIds
  PROVE  /\ (RestingOf(orders)[id] = NoOrder) <=> (orders[id] = NoOrder)
         /\ orders[id] # NoOrder =>
              RestingOf(orders)[id] =
                [left |-> orders[id].quantity, level |-> <<orders[id].price, orders[id].stop>>]
<1>1. RestingOf(orders)[id] =
        IF orders[id] = NoOrder THEN NoOrder
        ELSE [left |-> orders[id].quantity, level |-> <<orders[id].price, orders[id].stop>>]
  BY DEF RestingOf
<1>2. ASSUME orders[id] # NoOrder
      PROVE  [left |-> orders[id].quantity, level |-> <<orders[id].price, orders[id].stop>>]
               # NoOrder
  <2> DEFINE q == orders[id].quantity
             p == orders[id].price
             s == orders[id].stop
             R == [left : Nat, level : (SUBSET Levels) \X (SUBSET Levels)]
  <2>1. q \in Nat /\ p \in SUBSET Levels /\ s \in SUBSET Levels
    BY <1>2 DEF Pended, Orders
  <2>2. NoOrder \notin R
    BY PaperAssumption DEF PaperAssumption
  <2> HIDE DEF q, p, s
  <2>3. [left |-> q, level |-> <<p, s>>] \in R
    BY <2>1
  <2> QED BY <2>2, <2>3 DEF q, p, s
<1> QED BY <1>1, <1>2

LEMMA RestingChanges ==
  ASSUME NEW orders \in [OrderIds -> Pended \cup {NoOrder}], NEW id \in OrderIds,
         NEW n \in Pended \cup {NoOrder}
  PROVE  RestingOf([orders EXCEPT ![id] = n]) =
           [RestingOf(orders) EXCEPT ![id] =
              IF n = NoOrder THEN NoOrder
              ELSE [left |-> n.quantity, level |-> <<n.price, n.stop>>]]
BY DEF RestingOf

(* Steps of the contract, in the executor's terms.                         *)
LevelPairs == (SUBSET Levels) \X (SUBSET Levels)

LEMMA AmendsInContract ==
  ASSUME NEW id \in OrderIds, NEW level \in LevelPairs, Contract!Amend(id, level)
  PROVE  Contract!VenueNext
BY DEF Contract!VenueNext, LevelPairs

Executable(id, n) ==
  RestingOf(pending)[id] # NoOrder /\ n \in 1 .. RestingOf(pending)[id].left

LEMMA ExecutesInContract ==
  ASSUME NEW id \in OrderIds, NEW n, Executable(id, n), Contract!Execute(id, n)
  PROVE  Contract!VenueNext
BY DEF Contract!VenueNext, RestingOf, Executable

(* Every step of the executor is a step of the contract, or one the        *)
(* contract does not see.                                                  *)
LEMMA PaperImplementsStep ==
  ASSUME PaperInv, [PaperNext]_paperVars
  PROVE  [Contract!VenueNext]_(Contract!venueVars)
<1> DEFINE held == RestingOf(pending)
           told == Announcements(fills)
<1>0. /\ Contract!venueVars = <<held, told>>
      /\ (Contract!venueVars)' = <<held', told'>>
  BY DEF Contract!venueVars, RestingOf, Announcements
<1>t. /\ pending \in [OrderIds -> Pended \cup {NoOrder}]
      /\ fills \in Seq(FillEvents)
      /\ prices \in [Securities -> SUBSET Prices]
      /\ toFill \in SUBSET OrderIds /\ \A id \in toFill : pending[id] # NoOrder
  BY DEF PaperInv, PaperTypeOK, UpdateKeepsTrack
<1>1. ASSUME NEW id \in OrderIds, NEW o \in Requests, SubmitMarket(id, o)
      PROVE  Contract!VenueNext
  <2>1. o \in Pended /\ o.quantity \in Sizes
    BY <1>1, PaperAssumption DEF SubmitMarket, Admitted, ValidateOrder, PaperAssumption,
                Pended, Sizes
  <2>2. held[id] = NoOrder
    BY <1>1, <1>t, RestingFacts DEF SubmitMarket, Admitted
  <2>3. told' = Append(told, [id |-> id, quantity |-> o.quantity, partial |-> FALSE])
    <3>1. FillAt(id, o, MarketPrice(o))
      BY <1>1 DEF SubmitMarket
    <3> DEFINE e == FillOf(id, o)
    <3>2. e \in FillEvents /\ fills' = Append(fills, e)
      BY <1>t, <2>1, <3>1, FillAppends
    <3>3. e.id = id /\ e.quantity = o.quantity /\ e.partial = FALSE
      BY DEF FillOf
    <3> HIDE DEF e
    <3> QED BY <1>t, <3>2, <3>3, EventsAppend
  <2>4. held' = held
    BY <1>1 DEF SubmitMarket
  <2>5. Contract!AcceptFilled(id, o.quantity)
    BY <2>2, <2>3, <2>4
    DEF Contract!AcceptFilled, Contract!Fill, RestingOf, Announcements
  <2> QED BY <2>1, <2>5 DEF Contract!VenueNext, Sizes
<1>2. ASSUME NEW id \in OrderIds, NEW o \in Requests, SubmitResting(id, o)
      PROVE  Contract!VenueNext
  <2> DEFINE level == <<o.price, o.stop>>
  <2>1. o \in Pended /\ o.quantity \in Sizes /\ o # NoOrder
    BY <1>2, PaperAssumption DEF SubmitResting, Admitted, ValidateOrder, PaperAssumption,
                Pended, Sizes
  <2>2. held[id] = NoOrder
    BY <1>2, <1>t, RestingFacts DEF SubmitResting, Admitted
  <2>3. pending' = [pending EXCEPT ![id] = o] /\ fills' = fills
    BY <1>2 DEF SubmitResting
  <2>4. held' = [held EXCEPT ![id] = [left |-> o.quantity, level |-> level]]
    BY <1>t, <2>1, <2>3, RestingChanges
  <2>5. told' = told
    BY <2>3
  <2>6. level \in (SUBSET Levels) \X (SUBSET Levels)
    BY <2>1 DEF Pended, Orders
  <2> HIDE DEF level
  <2>7. Contract!Accept(id, o.quantity, level)
    BY <2>2, <2>4, <2>5 DEF Contract!Accept, RestingOf, Announcements
  <2> QED BY <2>1, <2>6, <2>7 DEF Contract!VenueNext, Sizes
<1>3. ASSUME NEW id \in OrderIds, CancelOrder(id)
      PROVE  Contract!VenueNext
  <2>1. held[id] # NoOrder
    BY <1>3, <1>t, RestingFacts DEF CancelOrder
  <2>2. pending' = [pending EXCEPT ![id] = NoOrder] /\ fills' = fills
    BY <1>3 DEF CancelOrder
  <2>3. held' = [held EXCEPT ![id] = NoOrder]
    BY <1>t, <2>2, RestingChanges
  <2>4. told' = told
    BY <2>2
  <2>5. Contract!Withdraw(id)
    BY <2>1, <2>3, <2>4 DEF Contract!Withdraw, RestingOf, Announcements
  <2> QED BY <2>5 DEF Contract!VenueNext
<1>4. ASSUME NEW id \in OrderIds,
             NEW p \in Optional(Levels), NEW s \in Optional(Levels),
             ModifyOrder(id, p, s)
      PROVE  Contract!VenueNext
  <2> DEFINE o == pending[id]
             n == Modified(o, p, s)
             level == <<n.price, n.stop>>
  <2>1. o \in Pended /\ o # NoOrder
    BY <1>4, <1>t DEF ModifyOrder
  <2>2. n \in Pended /\ n.quantity = o.quantity
    <3> HIDE DEF o
    <3> QED BY <2>1, ModifiedOK
  <2>3. pending' = [pending EXCEPT ![id] = n] /\ fills' = fills
    BY <1>4 DEF ModifyOrder, Modified
  <2>4. n # NoOrder /\ level \in LevelPairs
    <3> HIDE DEF n
    <3> QED BY <2>2, PaperAssumption DEF Pended, Orders, PaperAssumption, LevelPairs
  <2>5. held[id] # NoOrder /\ held[id] = [left |-> o.quantity, level |-> <<o.price, o.stop>>]
    BY <1>t, <2>1, RestingFacts
  <2>6. held' = [held EXCEPT ![id] = [left |-> o.quantity, level |-> level]]
    <3> HIDE DEF n, o
    <3>1. held' = RestingOf([pending EXCEPT ![id] = n])
      BY <2>3
    <3>2. RestingOf([pending EXCEPT ![id] = n]) =
            [held EXCEPT ![id] = IF n = NoOrder THEN NoOrder
                                 ELSE [left |-> n.quantity, level |-> <<n.price, n.stop>>]]
      BY <1>t, <2>2, RestingChanges, ZenonT(30)
    <3>3. held' = [held EXCEPT ![id] = [left |-> n.quantity, level |-> level]]
      BY <2>4, <3>1, <3>2
    <3> QED BY <2>2, <3>3
  <2>7. [held EXCEPT ![id].level = level]
          = [held EXCEPT ![id] = [left |-> o.quantity, level |-> level]]
    <3> DEFINE q == o.quantity
               marks == <<o.price, o.stop>>
               x == held[id]
    <3>1. x = [left |-> q, level |-> marks]
      BY <2>5
    <3> HIDE DEF held, o, level, q, marks, x
    <3>2. [x EXCEPT !.level = level] = [left |-> q, level |-> level]
      BY <3>1
    <3> QED BY <3>2 DEF q, x
  <2>8. told' = told
    BY <2>3
  <2> HIDE DEF level, n, o
  <2>9. PICK l \in LevelPairs : l = level
    BY <2>4
  <2>10. Contract!Amend(id, l)
    BY <2>5, <2>6, <2>7, <2>8, <2>9 DEF Contract!Amend, RestingOf, Announcements
  <2> QED BY <2>10, AmendsInContract
<1>5. CASE PollFills
  <2>1. fills' = <<>> /\ pending' = pending
    BY <1>5 DEF PollFills
  <2>2. held' = held
    BY <2>1
  <2>3. told' = <<>>
    BY <2>1 DEF Announcements
  <2>4. Contract!Drain
    BY <2>2, <2>3 DEF Contract!Drain, RestingOf, Announcements
  <2> QED BY <2>4 DEF Contract!VenueNext
<1>6. ASSUME NEW id \in OrderIds, FillTriggered(id)
      PROVE  Contract!VenueNext
  <2> DEFINE o == pending[id]
             q == o.quantity
             level == <<o.price, o.stop>>
  <2>1. /\ id \in toFill
        /\ pending' = [pending EXCEPT ![id] = NoOrder]
        /\ FillAt(id, o, MarketPrice(o))
    BY <1>6 DEF FillTriggered
  <2>2. o \in Pended /\ o # NoOrder /\ q \in Nat \ {0}
    BY <1>t, <2>1 DEF Pended, Sizes, Orders
  <2>3. held[id] # NoOrder /\ held[id] = [left |-> q, level |-> level]
    BY <1>t, <2>2, RestingFacts
  <2>4. told' = Append(told, [id |-> id, quantity |-> q, partial |-> FALSE])
    <3> HIDE DEF o
    <3> DEFINE e == FillOf(id, o)
    <3>1. e \in FillEvents /\ fills' = Append(fills, e)
      BY <1>t, <2>1, <2>2, FillAppends
    <3>2. e.id = id /\ e.quantity = o.quantity /\ e.partial = FALSE
      BY DEF FillOf
    <3> HIDE DEF e
    <3> QED BY <1>t, <3>1, <3>2, EventsAppend
  <2>5. held' = [held EXCEPT ![id] = NoOrder]
    BY <1>t, <2>1, RestingChanges
  <2> HIDE DEF o, q, level
  <2>6. held[id].left = q
    <3> HIDE DEF held
    <3> QED BY <2>3
  <2>7. PICK n \in Nat : n = q
    BY <2>2
  <2>8. n \in 1 .. held[id].left /\ n = held[id].left /\ ~ (n < held[id].left)
    <3> HIDE DEF held
    <3> QED BY <2>2, <2>6, <2>7
  <2>9. told' = Append(told, Contract!Fill(id, n, n < held[id].left))
    <3> HIDE DEF held, told
    <3>1. (n < held[id].left) = FALSE
      BY <2>8
    <3> QED BY <2>4, <2>7, <3>1 DEF Contract!Fill
  <2>10. held' = [held EXCEPT ![id] =
                    IF n = held[id].left THEN NoOrder
                    ELSE [left |-> held[id].left - n, level |-> held[id].level]]
    <3> HIDE DEF held
    <3> QED BY <2>5, <2>8
  <2>11. Contract!Execute(id, n)
    BY <2>3, <2>8, <2>9, <2>10 DEF Contract!Execute, RestingOf, Announcements
  <2>12. Executable(id, n)
    BY <2>3, <2>8 DEF Executable
  <2> QED BY <2>11, <2>12, ExecutesInContract
<1>7. ASSUME UNCHANGED <<pending, fills>>
      PROVE  UNCHANGED Contract!venueVars
  BY <1>0, <1>7
<1>8. ASSUME NEW s \in Securities, NEW p \in Prices, UpdatePrice(s, p)
      PROVE  UNCHANGED <<pending, fills>>
  BY <1>8 DEF UpdatePrice
<1>9. ASSUME NEW s \in Securities, NEW d \in 0 .. today, RegisterLong(s, d)
      PROVE  UNCHANGED <<pending, fills>>
  BY <1>9 DEF RegisterLong
<1>10. ASSUME NEW s \in Securities, UnregisterPosition(s)
       PROVE  UNCHANGED <<pending, fills>>
  BY <1>10 DEF UnregisterPosition
<1>11. ASSUME NextDay
       PROVE  UNCHANGED <<pending, fills>>
  BY <1>11 DEF NextDay
<1>12. ASSUME UNCHANGED paperVars
       PROVE  UNCHANGED <<pending, fills>>
  BY <1>12 DEF paperVars
<1> QED
  BY <1>1, <1>2, <1>3, <1>4, <1>5, <1>6, <1>7, <1>8, <1>9, <1>10, <1>11, <1>12 DEF PaperNext

(* The paper executor implements the contract the manager relies on.  An   *)
(* order rests until it is cancelled or filled, in full and once, each     *)
(* fill is announced once, and polling loses none.                         *)
THEOREM PaperKeepsContract == PaperSpec => ImplementsExecutor
<1>1. PaperInit => Contract!VenueInit
  <2> SUFFICES ASSUME PaperInit PROVE Contract!VenueInit
    OBVIOUS
  <2>1. pending = [id \in OrderIds |-> NoOrder] /\ fills = <<>>
    BY DEF PaperInit
  <2> QED BY <2>1 DEF Contract!VenueInit
<1>2. PaperSpec => []PaperInv
  BY PaperInvInit, PaperInvStep, PTL DEF PaperSpec
<1> QED
  BY <1>1, <1>2, PaperImplementsStep, PTL
  DEF PaperSpec, ImplementsExecutor, Contract!VenueSpec

=============================================================================
