------------------------- MODULE OrderManagerProofs -------------------------
(***************************************************************************)
(* The order manager mirrors the venue, ends every order once and loses no *)
(* unit of one, for any number of orders, quantities, prices and           *)
(* securities.                                                             *)
(*                                                                         *)
(* The invariants need each other.  An order the venue withdraws has to be *)
(* active for the history entry to have its type; it is active because the *)
(* manager knows the venue, and that needs every order to be announced as  *)
(* filled only once (FilledAtMostOnce).  The accounts need more: the event *)
(* that completes an order is its last (LastCompletes), so nothing is on   *)
(* its way when the order ends as filled, and no event is of an order the  *)
(* manager never had (Announced), so a new order starts with nothing on    *)
(* its way.                                                                *)
(***************************************************************************)
EXTENDS OrderManager, FiniteInduction

(* A completing fill of the order is in the sequence. *)
HasFinal(id, s) == \E i \in 1 .. Len(s) : s[i].id = id /\ ~s[i].partial

FinalUnique(s) ==
  \A i, j \in 1 .. Len(s) :
    s[i].id = s[j].id /\ ~s[i].partial /\ ~s[j].partial => i = j

(* At most one completing fill of an order is on its way. *)
FilledAtMostOnce == FinalUnique(Unseen)

(* Fills are not recorded while a cancel-all is under way, nor the other   *)
(* way round.                                                              *)
OneMethod == inbox = <<>> \/ sweep = {}

-----------------------------------------------------------------------------
(* Sequences of fill events.                                               *)

(* A new event keeps the type. *)
LEMMA AppendType ==
  ASSUME NEW s \in Seq(FillEvents), NEW e \in FillEvents
  PROVE  Append(s, e) \in Seq(FillEvents)
OBVIOUS

(* A new event at the end completes its own order and no other. *)
LEMMA AppendFinal ==
  ASSUME NEW s \in Seq(FillEvents), NEW e \in FillEvents, NEW id
  PROVE  HasFinal(id, Append(s, e)) <=>
           HasFinal(id, s) \/ (e.id = id /\ ~e.partial)
<1>1. /\ Len(Append(s, e)) = Len(s) + 1
      /\ \A i \in 1 .. Len(s) : Append(s, e)[i] = s[i]
      /\ Append(s, e)[Len(s) + 1] = e
      /\ Len(s) \in Nat
  OBVIOUS
<1>2. QED  BY <1>1, Z3 DEF HasFinal

(* It keeps completing fills unique if its order had none before. *)
LEMMA AppendUnique ==
  ASSUME NEW s \in Seq(FillEvents), NEW e \in FillEvents,
         FinalUnique(s), e.partial \/ ~HasFinal(e.id, s)
  PROVE  FinalUnique(Append(s, e))
<1>1. /\ Len(Append(s, e)) = Len(s) + 1
      /\ \A i \in 1 .. Len(s) : Append(s, e)[i] = s[i]
      /\ Append(s, e)[Len(s) + 1] = e
      /\ Len(s) \in Nat
  OBVIOUS
<1>2. QED  BY <1>1, Z3 DEF FinalUnique, HasFinal

(* What is left after the first event is taken. *)
LEMMA TailFinal ==
  ASSUME NEW s \in Seq(FillEvents), s # <<>>, FinalUnique(s)
  PROVE  /\ FinalUnique(Tail(s))
         /\ \A id : HasFinal(id, Tail(s)) =>
                      HasFinal(id, s) /\ (Head(s).partial \/ Head(s).id # id)
         /\ \A id : HasFinal(id, s) =>
                      \/ HasFinal(id, Tail(s))
                      \/ Head(s).id = id /\ ~Head(s).partial
<1>1. /\ Len(s) \in Nat \ {0}
      /\ Len(Tail(s)) = Len(s) - 1
      /\ \A i \in 1 .. Len(s) - 1 : Tail(s)[i] = s[i + 1]
      /\ Head(s) = s[1]
  OBVIOUS
<1>2. FinalUnique(Tail(s))
  <2> SUFFICES ASSUME NEW i \in 1 .. Len(Tail(s)), NEW j \in 1 .. Len(Tail(s)),
                      Tail(s)[i].id = Tail(s)[j].id,
                      ~Tail(s)[i].partial, ~Tail(s)[j].partial
               PROVE  i = j
    BY DEF FinalUnique
  <2>1. /\ i + 1 \in 1 .. Len(s) /\ j + 1 \in 1 .. Len(s)
        /\ Tail(s)[i] = s[i + 1] /\ Tail(s)[j] = s[j + 1]
    BY <1>1
  <2>2. i + 1 = j + 1
    BY <2>1 DEF FinalUnique
  <2>3. QED  BY <2>2, <1>1
<1>3. ASSUME NEW id, HasFinal(id, Tail(s))
      PROVE  HasFinal(id, s) /\ (Head(s).partial \/ Head(s).id # id)
  <2>1. PICK i \in 1 .. Len(Tail(s)) : Tail(s)[i].id = id /\ ~Tail(s)[i].partial
    BY <1>3 DEF HasFinal
  <2>2. /\ i + 1 \in 1 .. Len(s) /\ i + 1 # 1 /\ 1 \in 1 .. Len(s)
        /\ s[i + 1].id = id /\ ~s[i + 1].partial
    BY <1>1, <2>1
  <2>3. HasFinal(id, s)
    BY <2>2 DEF HasFinal
  <2>4. Head(s).partial \/ Head(s).id # id
    BY <1>1, <2>2 DEF FinalUnique
  <2>5. QED  BY <2>3, <2>4
<1>4. ASSUME NEW id, HasFinal(id, s), ~HasFinal(id, Tail(s))
      PROVE  Head(s).id = id /\ ~Head(s).partial
  <2>1. PICK i \in 1 .. Len(s) : s[i].id = id /\ ~s[i].partial
    BY <1>4 DEF HasFinal
  <2>2. CASE i = 1
    BY <1>1, <2>1, <2>2
  <2>3. CASE i # 1
    <3>1. /\ i - 1 \in 1 .. Len(Tail(s))
          /\ Tail(s)[i - 1] = s[i]
      BY <1>1, <2>3
    <3>2. HasFinal(id, Tail(s))
      BY <2>1, <3>1 DEF HasFinal
    <3>3. QED  BY <1>4, <3>2
  <2>4. QED  BY <2>2, <2>3
<1>5. QED  BY <1>2, <1>3, <1>4

(* Recording the first event of the inbox takes the first one on its way. *)
LEMMA TailOfBoth ==
  ASSUME NEW s \in Seq(FillEvents), NEW t \in Seq(FillEvents), s # <<>>
  PROVE  /\ Tail(s) \o t = Tail(s \o t)
         /\ Head(s \o t) = Head(s)
         /\ s \o t \in Seq(FillEvents)
         /\ s \o t # <<>>
<1>1. s \o t \in Seq(FillEvents) /\ s \o t # <<>> /\ Head(s \o t) = Head(s)
  OBVIOUS
<1>2. Tail(s) \o t = Tail(s \o t)
  <2>1. Tail(s) \o t \in Seq(FillEvents) /\ Tail(s \o t) \in Seq(FillEvents)
    BY <1>1
  <2>2. /\ Len(Tail(s) \o t) = Len(s) - 1 + Len(t)
        /\ Len(Tail(s \o t)) = Len(s) - 1 + Len(t)
        /\ Len(s) \in Nat \ {0} /\ Len(t) \in Nat
    BY <1>1
  <2>3. ASSUME NEW i \in 1 .. Len(s) - 1 + Len(t)
        PROVE  (Tail(s) \o t)[i] = Tail(s \o t)[i]
    <3>1. Tail(s \o t)[i] = (s \o t)[i + 1]
      BY <1>1, <2>2
    <3>2. QED  BY <3>1, <2>2
  <2>4. QED  BY <2>1, <2>2, <2>3
<1>3. QED  BY <1>1, <1>2

(* An announced fill joins those on their way at the end. *)
LEMMA AppendOfBoth ==
  ASSUME NEW s \in Seq(FillEvents), NEW t \in Seq(FillEvents),
         NEW e \in FillEvents
  PROVE  s \o Append(t, e) = Append(s \o t, e)
OBVIOUS

-----------------------------------------------------------------------------
(* Types.                                                                  *)

(* An order with a further partial fill is still an active order.          *)
LEMMA PartialType ==
  ASSUME NEW t \in Tracked, NEW n \in Nat
  PROVE  [t EXCEPT !.filled = @ + n, !.status = "PartiallyFilled"] \in Tracked
<1>1. [t EXCEPT !.filled = @ + n] \in Tracked
  BY DEF Tracked
<1>2. [t EXCEPT !.filled = @ + n, !.status = "PartiallyFilled"]
        = [[t EXCEPT !.filled = @ + n] EXCEPT !.status = "PartiallyFilled"]
  BY DEF Tracked
<1>3. QED  BY <1>1, <1>2 DEF Tracked

LEMMA TypeInit == Init => TypeOK
BY ExecutorAssumption DEF Init, VenueInit, TypeOK, VenueTypeOK

(* Every step keeps the types, given that what rests is active. *)
LEMMA TypeStep ==
  ASSUME TypeOK, KnowsVenue, [Next]_vars
  PROVE  TypeOK'
<1> USE ExecutorAssumption, ManagerAssumption DEF TypeOK, VenueTypeOK
<1>0. \A id \in OrderIds :
        /\ venue[id] # NoOrder => venue[id] \in Resting
        /\ active[id] # NoOrder => active[id] \in Tracked
        /\ venue[id] # NoOrder => active[id] # NoOrder
  BY DEF KnowsVenue
<1>1. ASSUME NEW id \in OrderIds, NEW q \in Quantities, NEW l \in Levels,
             SubmitOrder(id, q, l)
      PROVE  TypeOK'
  <2>1. active' \in [OrderIds -> Tracked \cup {NoOrder}]
    BY <1>1 DEF SubmitOrder, Tracked
  <2>2. VenueTypeOK'
    <3>1. CASE Accept(id, q, l)
      BY <3>1 DEF Accept, Resting
    <3>2. CASE AcceptFilled(id, q)
      <4>1. Fill(id, q, FALSE) \in FillEvents
        BY DEF Fill, FillEvents
      <4>2. fills' = Append(fills, Fill(id, q, FALSE)) /\ venue' = venue
        BY <3>2 DEF AcceptFilled
      <4>3. Append(fills, Fill(id, q, FALSE)) \in Seq(FillEvents)
        BY <4>1, AppendType, Zenon
      <4>4. QED  BY <4>2, <4>3
    <3>3. QED  BY <1>1, <3>1, <3>2 DEF SubmitOrder
  <2>3. QED  BY <1>1, <2>1, <2>2 DEF SubmitOrder
<1>2. ASSUME NEW id \in OrderIds, CancelOrder(id)
      PROVE  TypeOK'
  BY <1>0, <1>2 DEF CancelOrder, Withdraw, Conclude, Tracked, Ended
<1>3. ASSUME NEW id \in OrderIds, NEW l \in Levels, ModifyOrder(id, l)
      PROVE  TypeOK'
  BY <1>0, <1>3, ZenonT(30) DEF ModifyOrder, Amend, Tracked, Resting
<1>4. ASSUME NEW id \in OrderIds, SweepCancel(id)
      PROVE  TypeOK'
  BY <1>0, <1>4 DEF SweepCancel, Withdraw, Conclude, Tracked, Ended
<1>5. ASSUME NEW id \in OrderIds, SweepSkip(id)
      PROVE  TypeOK'
  BY <1>5 DEF SweepSkip
<1>6. ASSUME NEW id \in OrderIds, VenueExecutes(id)
      PROVE  TypeOK'
  <2>1. PICK n \in 1 .. venue[id].left : Execute(id, n)
    BY <1>6 DEF VenueExecutes
  <2>2. venue[id] \in Resting
    BY <1>0, <2>1 DEF Execute
  <2>3. Fill(id, n, n < venue[id].left) \in FillEvents
    BY <2>2 DEF Fill, FillEvents, Resting
  <2>4. (IF n = venue[id].left THEN NoOrder
         ELSE [left |-> venue[id].left - n, level |-> venue[id].level]) \in Resting \cup {NoOrder}
    BY <2>2 DEF Resting
  <2>5. fills' \in Seq(FillEvents)
    <3>1. fills' = Append(fills, Fill(id, n, n < venue[id].left))
      BY <2>1 DEF Execute
    <3>2. Append(fills, Fill(id, n, n < venue[id].left)) \in Seq(FillEvents)
      BY <2>3, AppendType, Zenon
    <3>3. QED  BY <3>1, <3>2
  <2>6. venue' \in [OrderIds -> Resting \cup {NoOrder}]
    BY <2>1, <2>4 DEF Execute
  <2>7. QED  BY <1>6, <2>5, <2>6 DEF VenueExecutes, managerVars
<1>7. CASE PollFills
  BY <1>7 DEF PollFills, Drain
<1>8. CASE RecordPartial
  <2>1. Head(inbox) \in FillEvents /\ Tail(inbox) \in Seq(FillEvents)
    BY <1>8 DEF RecordPartial
  <2> DEFINE f == Head(inbox)
             more == [active[f.id] EXCEPT !.filled = @ + f.quantity,
                                          !.status = "PartiallyFilled"]
  <2>2. f.id \in OrderIds /\ f.quantity \in Nat
    BY <2>1 DEF FillEvents
  <2>3. active[f.id] \in Tracked
    BY <1>0, <1>8, <2>2 DEF RecordPartial
  <2>4. more \in Tracked
    BY <2>2, <2>3, PartialType
  <2>5. active' = [active EXCEPT ![f.id] = more]
    BY <1>8, <2>2, <2>3 DEF RecordPartial, Tracked
  <2> HIDE DEF f, more
  <2>6. active' \in [OrderIds -> Tracked \cup {NoOrder}]
    BY <2>2, <2>4, <2>5
  <2>7. QED  BY <1>8, <2>1, <2>6 DEF RecordPartial
<1>9. CASE RecordFilled
  <2>1. Head(inbox) \in FillEvents /\ Tail(inbox) \in Seq(FillEvents)
    BY <1>9 DEF RecordFilled
  <2>2. QED
    BY <1>0, <1>9, <2>1 DEF RecordFilled, Conclude, Tracked, Ended, FillEvents
<1>10. CASE PassOver
  BY <1>10 DEF PassOver
<1>11. ASSUME NEW S, CancelAll(S)
       PROVE  TypeOK'
  BY <1>11 DEF CancelAll, Active
<1>12. CASE UNCHANGED vars
  BY <1>12 DEF vars
<1>13. QED
  BY <1>1, <1>2, <1>3, <1>4, <1>5, <1>6, <1>7, <1>8, <1>9, <1>10, <1>11, <1>12
     DEF Next

-----------------------------------------------------------------------------
(* The mirror.                                                             *)

(* What KnowsVenue says of one order. *)
Mirrors(id) ==
  /\ active[id] # NoOrder <=> (venue[id] # NoOrder \/ HasFinal(id, Unseen))
  /\ venue[id] # NoOrder =>
       /\ ~HasFinal(id, Unseen)
       /\ active[id].level = venue[id].level

LEMMA KnowsVenueIsMirrors ==
  KnowsVenue <=> (\A id \in OrderIds : Mirrors(id)) /\ sweep \subseteq Active
BY DEF KnowsVenue, Mirrors, FilledUnseen, HasFinal

LEMMA UnseenType == TypeOK => Unseen \in Seq(FillEvents)
BY DEF TypeOK, VenueTypeOK, Unseen

LEMMA MirrorInit == Init => KnowsVenue /\ FilledAtMostOnce /\ EndsOnce
<1> SUFFICES ASSUME Init PROVE KnowsVenue /\ FilledAtMostOnce /\ EndsOnce
  OBVIOUS
<1>1. Len(Unseen) = 0 /\ Len(history) = 0
  BY DEF Init, VenueInit, Unseen
<1>2. \A i \in 1 .. Len(Unseen) : FALSE
  BY <1>1
<1>3. KnowsVenue
  BY <1>2 DEF KnowsVenue, FilledUnseen, Init, VenueInit, Active
<1>4. FilledAtMostOnce
  BY <1>2 DEF FilledAtMostOnce, FinalUnique
<1>5. EndsOnce
  BY <1>1 DEF EndsOnce, InHistory, Active, Init
<1>6. QED  BY <1>3, <1>4, <1>5

(* A step that announces no fill and moves no order leaves every order it  *)
(* does not name as it was.                                                *)
LEMMA OthersMirror ==
  ASSUME NEW id \in OrderIds, Mirrors(id),
         venue'[id] = venue[id], active'[id] = active[id],
         HasFinal(id, Unseen)' <=> HasFinal(id, Unseen)
  PROVE  Mirrors(id)'
BY DEF Mirrors

(* Each step keeps the manager's picture of the venue. *)
LEMMA MirrorStep ==
  ASSUME TypeOK, TypeOK', KnowsVenue, FilledAtMostOnce, OneMethod, [Next]_vars
  PROVE  KnowsVenue' /\ FilledAtMostOnce'
<1>a. /\ Unseen \in Seq(FillEvents)
      /\ \A id \in OrderIds : Mirrors(id)
      /\ sweep \subseteq Active
  BY UnseenType, KnowsVenueIsMirrors
<1>b. KnowsVenue' <=> (\A id \in OrderIds : Mirrors(id)') /\ sweep' \subseteq Active'
  BY DEF KnowsVenue, Mirrors, FilledUnseen, HasFinal
<1>c. \A id \in OrderIds :
        /\ venue[id] # NoOrder => venue[id] \in Resting
        /\ active[id] # NoOrder => active[id] \in Tracked
  BY DEF TypeOK, VenueTypeOK
<1>d. venue \in [OrderIds -> Resting \cup {NoOrder}]
      /\ active \in [OrderIds -> Tracked \cup {NoOrder}]
      /\ fills \in Seq(FillEvents) /\ inbox \in Seq(FillEvents)
  BY DEF TypeOK, VenueTypeOK
<1>1. ASSUME NEW id \in OrderIds, NEW q \in Quantities, NEW l \in Levels,
             SubmitOrder(id, q, l)
      PROVE  KnowsVenue' /\ FilledAtMostOnce'
  <2>1. /\ active[id] = NoOrder /\ venue[id] = NoOrder
        /\ ~HasFinal(id, Unseen)
        /\ active' = [active EXCEPT ![id] =
                        [quantity |-> q, filled |-> 0, level |-> l,
                         status |-> "Submitted"]]
        /\ inbox' = inbox /\ sweep' = {}
    BY <1>1, <1>a DEF SubmitOrder, Mirrors, Idle
  <2>2. active'[id].level = l /\ active'[id] # NoOrder
    <3>1. [quantity |-> q, filled |-> 0, level |-> l, status |-> "Submitted"]
            \in Tracked
      BY DEF Tracked
    <3>2. QED  BY <1>d, <2>1, <3>1, ManagerAssumption
  <2>3. CASE Accept(id, q, l)
    <3>1. Unseen' = Unseen
      BY <2>1, <2>3 DEF Accept, Unseen
    <3>2. venue'[id] # NoOrder /\ venue'[id].level = l
      <4>1. [left |-> q, level |-> l] \in Resting
        BY ExecutorAssumption DEF Resting
      <4>2. QED  BY <1>d, <2>3, <4>1, ExecutorAssumption DEF Accept
    <3>3. Mirrors(id)'
      BY <2>1, <2>2, <3>1, <3>2 DEF Mirrors
    <3>4. \A o \in OrderIds \ {id} : Mirrors(o)'
      BY <1>a, <1>d, <2>1, <2>3, <3>1, OthersMirror DEF Accept
    <3>5. QED
      BY <1>b, <2>1, <3>1, <3>3, <3>4 DEF FilledAtMostOnce
  <2>4. CASE AcceptFilled(id, q)
    <3> DEFINE e == [id |-> id, quantity |-> q, partial |-> FALSE]
    <3>1. e \in FillEvents
      BY ExecutorAssumption DEF FillEvents
    <3>2. Unseen' = Append(Unseen, e)
      <4>1. fills' = Append(fills, e)
        BY <2>4 DEF AcceptFilled, Fill
      <4>2. inbox \o Append(fills, e) = Append(inbox \o fills, e)
        BY <1>d, <3>1, AppendOfBoth
      <4>3. QED  BY <2>1, <4>1, <4>2 DEF Unseen
    <3>3. e.id = id /\ ~e.partial
      OBVIOUS
    <3> HIDE DEF e
    <3>4. \A o : HasFinal(o, Unseen)' <=> HasFinal(o, Unseen) \/ o = id
      <4>1. \A o : HasFinal(o, Append(Unseen, e)) <=>
                     HasFinal(o, Unseen) \/ (e.id = o /\ ~e.partial)
        BY <1>a, <3>1, AppendFinal
      <4>2. QED  BY <3>2, <3>3, <4>1 DEF HasFinal
    <3>5. FilledAtMostOnce'
      BY <1>a, <2>1, <3>1, <3>2, <3>3, AppendUnique DEF FilledAtMostOnce
    <3>6. Mirrors(id)'
      BY <2>1, <2>2, <2>4, <3>4 DEF Mirrors, AcceptFilled
    <3>7. \A o \in OrderIds \ {id} : Mirrors(o)'
      BY <1>a, <1>d, <2>1, <2>4, <3>4, OthersMirror DEF AcceptFilled
    <3>8. QED
      BY <1>b, <2>1, <3>5, <3>6, <3>7
  <2>5. QED  BY <1>1, <2>3, <2>4 DEF SubmitOrder
<1>2. ASSUME NEW id \in OrderIds, Withdraw(id), inbox' = inbox,
             Conclude(id, active[id].filled, "Cancelled"),
             sweep' \subseteq sweep \ {id}
      PROVE  KnowsVenue' /\ FilledAtMostOnce'
  <2>1. /\ Unseen' = Unseen
        /\ venue[id] # NoOrder
        /\ venue' = [venue EXCEPT ![id] = NoOrder]
        /\ active' = [active EXCEPT ![id] = NoOrder]
    BY <1>2 DEF Withdraw, Conclude, Unseen
  <2>2. Mirrors(id)'
    BY <1>a, <1>d, <2>1 DEF Mirrors
  <2>3. \A o \in OrderIds \ {id} : Mirrors(o)'
    BY <1>a, <1>d, <2>1, OthersMirror
  <2>4. sweep' \subseteq Active'
    BY <1>2, <1>a, <1>d, <2>1 DEF Active
  <2>5. QED  BY <1>b, <2>1, <2>2, <2>3, <2>4 DEF FilledAtMostOnce
<1>3. ASSUME NEW id \in OrderIds, CancelOrder(id)
      PROVE  KnowsVenue' /\ FilledAtMostOnce'
  BY <1>2, <1>3 DEF CancelOrder, Idle
<1>4. ASSUME NEW id \in OrderIds, SweepCancel(id)
      PROVE  KnowsVenue' /\ FilledAtMostOnce'
  BY <1>2, <1>4 DEF SweepCancel
<1>5. ASSUME NEW id \in OrderIds, NEW l \in Levels, ModifyOrder(id, l)
      PROVE  KnowsVenue' /\ FilledAtMostOnce'
  <2>1. /\ Unseen' = Unseen /\ sweep' = {}
        /\ venue[id] \in Resting /\ active[id] \in Tracked
        /\ venue' = [venue EXCEPT ![id].level = l]
        /\ active' = [active EXCEPT ![id].level = l]
    BY <1>5, <1>c DEF ModifyOrder, Amend, Unseen, Idle
  <2>2. /\ venue'[id].level = l /\ venue'[id] \in Resting
        /\ active'[id].level = l /\ active'[id] \in Tracked
    BY <1>d, <2>1 DEF Resting, Tracked
  <2>3. /\ venue[id] # NoOrder /\ venue'[id] # NoOrder
        /\ active[id] # NoOrder /\ active'[id] # NoOrder
    BY <2>1, <2>2, ExecutorAssumption, ManagerAssumption
  <2>4. Mirrors(id)'
    BY <1>a, <2>1, <2>2, <2>3 DEF Mirrors
  <2>5. \A o \in OrderIds \ {id} : Mirrors(o)'
    BY <1>a, <1>d, <2>1, OthersMirror
  <2>6. QED  BY <1>b, <2>1, <2>4, <2>5 DEF FilledAtMostOnce
<1>6. ASSUME NEW id \in OrderIds, VenueExecutes(id)
      PROVE  KnowsVenue' /\ FilledAtMostOnce'
  <2>1. PICK n \in 1 .. venue[id].left : Execute(id, n)
    BY <1>6 DEF VenueExecutes
  <2> DEFINE e == Fill(id, n, n < venue[id].left)
  <2>2. /\ venue[id] # NoOrder /\ venue[id] \in Resting
        /\ active[id] # NoOrder /\ ~HasFinal(id, Unseen)
        /\ active[id].level = venue[id].level
        /\ active' = active /\ inbox' = inbox /\ sweep' = sweep
    BY <1>6, <1>a, <1>c, <2>1 DEF Execute, VenueExecutes, managerVars, Mirrors
  <2>3. e \in FillEvents
    BY <2>2 DEF Fill, FillEvents, Resting
  <2>4. e.id = id /\ (e.partial <=> n < venue[id].left)
    BY DEF Fill
  <2>5. fills' = Append(fills, e)
    BY <2>1 DEF Execute
  <2> HIDE DEF e
  <2>6. Unseen' = Append(Unseen, e)
    BY <1>d, <2>2, <2>3, <2>5, AppendOfBoth DEF Unseen
  <2>7. FilledAtMostOnce'
    BY <1>a, <2>2, <2>3, <2>4, <2>6, AppendUnique DEF FilledAtMostOnce
  <2>8. \A o : HasFinal(o, Unseen)' <=>
                 HasFinal(o, Unseen) \/ (o = id /\ ~e.partial)
    <3>1. \A o : HasFinal(o, Append(Unseen, e)) <=>
                   HasFinal(o, Unseen) \/ (e.id = o /\ ~e.partial)
      BY <1>a, <2>3, AppendFinal
    <3>2. QED  BY <2>4, <2>6, <3>1 DEF HasFinal
  <2>9. venue' = [venue EXCEPT ![id] =
                    IF n = venue[id].left THEN NoOrder
                    ELSE [left |-> venue[id].left - n,
                          level |-> venue[id].level]]
    BY <2>1 DEF Execute
  <2>10. Mirrors(id)'
    <3>1. CASE n = venue[id].left
      <4>1. venue'[id] = NoOrder /\ ~e.partial
        BY <1>d, <2>2, <2>4, <2>9, <3>1 DEF Resting
      <4>2. QED  BY <2>2, <2>8, <4>1 DEF Mirrors
    <3>2. CASE n # venue[id].left
      <4>1. [left |-> venue[id].left - n, level |-> venue[id].level] \in Resting
        BY <2>2, <3>2 DEF Resting
      <4>2. venue'[id] # NoOrder /\ venue'[id].level = venue[id].level
        BY <1>d, <2>9, <3>2, <4>1, ExecutorAssumption
      <4>3. e.partial
        BY <2>2, <2>4, <3>2 DEF Resting
      <4>4. QED  BY <2>2, <2>8, <4>2, <4>3 DEF Mirrors
    <3>3. QED  BY <3>1, <3>2
  <2>11. \A o \in OrderIds \ {id} : Mirrors(o)'
    BY <1>a, <1>d, <2>2, <2>8, <2>9, OthersMirror
  <2>12. sweep' \subseteq Active'
    BY <1>a, <2>2 DEF Active
  <2>13. QED  BY <1>b, <2>7, <2>10, <2>11, <2>12
<1>7. CASE PollFills
  <2>1. /\ inbox = <<>> /\ inbox' = fills /\ fills' = <<>>
        /\ venue' = venue /\ active' = active /\ sweep' = sweep
    BY <1>7 DEF PollFills, Drain, Idle
  <2>2. Unseen' = Unseen
    <3>1. fills \o <<>> = fills /\ <<>> \o fills = fills
      BY <1>d
    <3>2. QED  BY <2>1, <3>1 DEF Unseen
  <2>3. \A o \in OrderIds : Mirrors(o)'
    BY <1>a, <2>1, <2>2 DEF Mirrors
  <2>4. QED  BY <1>a, <1>b, <2>1, <2>2, <2>3 DEF FilledAtMostOnce, Active
<1>8. ASSUME inbox # <<>>, inbox' = Tail(inbox), UNCHANGED <<venue, fills, sweep>>
      PROVE  /\ FilledAtMostOnce'
             /\ Head(inbox) \in FillEvents
             /\ \A o : HasFinal(o, Unseen)' =>
                   HasFinal(o, Unseen) /\ (Head(inbox).partial \/ Head(inbox).id # o)
             /\ \A o : HasFinal(o, Unseen) =>
                   \/ HasFinal(o, Unseen)'
                   \/ Head(inbox).id = o /\ ~Head(inbox).partial
  <2>1. /\ Unseen' = Tail(Unseen) /\ Unseen # <<>>
        /\ Head(Unseen) = Head(inbox)
    BY <1>8, <1>d, TailOfBoth DEF Unseen
  <2>2. Head(inbox) \in FillEvents
    BY <1>8, <1>d
  <2>3. /\ FinalUnique(Tail(Unseen))
        /\ \A o : HasFinal(o, Tail(Unseen)) =>
                     HasFinal(o, Unseen)
                     /\ (Head(Unseen).partial \/ Head(Unseen).id # o)
        /\ \A o : HasFinal(o, Unseen) =>
                     \/ HasFinal(o, Tail(Unseen))
                     \/ Head(Unseen).id = o /\ ~Head(Unseen).partial
    BY <1>a, <2>1, TailFinal DEF FilledAtMostOnce
  <2>4. \A o : HasFinal(o, Unseen)' <=> HasFinal(o, Tail(Unseen))
    BY <2>1 DEF HasFinal
  <2>5. QED  BY <2>1, <2>2, <2>3, <2>4 DEF FilledAtMostOnce
<1>9. CASE RecordPartial
  <2> DEFINE f == Head(inbox)
  <2>1. /\ inbox # <<>> /\ inbox' = Tail(inbox)
        /\ venue' = venue /\ fills' = fills /\ sweep' = sweep
        /\ f.partial /\ active[f.id] # NoOrder
        /\ active' = [active EXCEPT ![f.id].filled = @ + f.quantity,
                                    ![f.id].status = "PartiallyFilled"]
    BY <1>9 DEF RecordPartial
  <2>2. /\ FilledAtMostOnce' /\ f.id \in OrderIds
        /\ \A o : HasFinal(o, Unseen)' <=> HasFinal(o, Unseen)
    BY <1>8, <2>1 DEF FillEvents
  <2>3. active[f.id] \in Tracked
    BY <1>c, <2>1, <2>2
  <2>4. /\ active'[f.id] # NoOrder
        /\ active'[f.id].level = active[f.id].level
        /\ \A o \in OrderIds \ {f.id} : active'[o] = active[o]
    <3>1. f.quantity \in Nat
      BY <1>8, <2>1 DEF FillEvents
    <3> DEFINE more == [active[f.id] EXCEPT !.filled = @ + f.quantity,
                                            !.status = "PartiallyFilled"]
    <3>2. more \in Tracked
      BY <2>3, <3>1, PartialType
    <3>3. more.level = active[f.id].level
      BY <2>3 DEF Tracked
    <3>4. active' = [active EXCEPT ![f.id] = more]
      BY <2>1, <2>2, <2>3, <1>d DEF Tracked
    <3> HIDE DEF more, f
    <3>5. QED  BY <1>d, <2>2, <3>2, <3>3, <3>4, ManagerAssumption
  <2> HIDE DEF f
  <2>5. \A o \in OrderIds : Mirrors(o)'
    BY <1>a, <2>1, <2>2, <2>4 DEF Mirrors
  <2>6. sweep' \subseteq Active'
    BY <1>a, <2>1, <2>4 DEF Active
  <2>7. QED  BY <1>b, <2>2, <2>5, <2>6
<1>10. CASE RecordFilled
  <2>0. PICK f \in FillEvents : f = Head(inbox)
    BY <1>10, <1>d DEF RecordFilled
  <2>1. /\ inbox # <<>> /\ inbox' = Tail(inbox)
        /\ venue' = venue /\ fills' = fills /\ sweep' = {}
        /\ ~f.partial /\ active[f.id] # NoOrder
        /\ active' = [active EXCEPT ![f.id] = NoOrder]
    BY <1>10, <2>0 DEF RecordFilled, Conclude, OneMethod
  <2>2. /\ FilledAtMostOnce' /\ f.id \in OrderIds
        /\ ~HasFinal(f.id, Unseen)'
        /\ \A o \in OrderIds \ {f.id} :
             HasFinal(o, Unseen)' <=> HasFinal(o, Unseen)
    <3>1. UNCHANGED <<venue, fills, sweep>>
      BY <1>10 DEF RecordFilled
    <3>2. f \in FillEvents /\ FilledAtMostOnce'
      BY <1>8, <2>0, <2>1, <3>1
    <3>3. \A o : HasFinal(o, Unseen)' => HasFinal(o, Unseen) /\ f.id # o
      BY <1>8, <2>0, <2>1, <3>1
    <3>4. \A o : HasFinal(o, Unseen) => HasFinal(o, Unseen)' \/ f.id = o
      BY <1>8, <2>0, <2>1, <3>1
    <3>5. f.id \in OrderIds
      BY <2>0 DEF FillEvents
    <3>6. QED  BY <3>2, <3>3, <3>4, <3>5
  <2>3. HasFinal(f.id, Unseen)
    <3>1. /\ Unseen # <<>> /\ Head(Unseen) = f
      BY <1>d, <2>0, <2>1, TailOfBoth DEF Unseen
    <3>2. 1 \in 1 .. Len(Unseen) /\ Unseen[1] = f
      BY <1>a, <3>1
    <3>3. QED  BY <2>1, <3>2 DEF HasFinal
  <2>4. Mirrors(f.id)'
    BY <1>a, <1>d, <2>1, <2>2, <2>3 DEF Mirrors
  <2>5. \A o \in OrderIds \ {f.id} : Mirrors(o)'
    BY <1>a, <1>d, <2>1, <2>2, OthersMirror
  <2>6. QED  BY <1>b, <2>1, <2>2, <2>4, <2>5
<1>11. CASE PassOver
  <2>1. /\ inbox # <<>> /\ inbox' = Tail(inbox)
        /\ venue' = venue /\ fills' = fills /\ sweep' = sweep
        /\ active' = active /\ active[Head(inbox).id] = NoOrder
    BY <1>11 DEF PassOver
  <2>2. /\ FilledAtMostOnce' /\ Head(inbox).id \in OrderIds
        /\ \A o : HasFinal(o, Unseen)' => HasFinal(o, Unseen)
        /\ \A o \in OrderIds \ {Head(inbox).id} :
             HasFinal(o, Unseen)' <=> HasFinal(o, Unseen)
    BY <1>8, <2>1 DEF FillEvents
  <2>3. ~HasFinal(Head(inbox).id, Unseen)
    BY <1>a, <2>1, <2>2 DEF Mirrors
  <2>4. \A o \in OrderIds : HasFinal(o, Unseen)' <=> HasFinal(o, Unseen)
    BY <2>2, <2>3
  <2>5. \A o \in OrderIds : Mirrors(o)'
    BY <1>a, <2>1, <2>4, OthersMirror
  <2>6. QED  BY <1>a, <1>b, <2>1, <2>2, <2>5 DEF Active
<1>12. ASSUME NEW S, CancelAll(S)
       PROVE  KnowsVenue' /\ FilledAtMostOnce'
  <2>1. /\ Unseen' = Unseen /\ venue' = venue /\ active' = active
        /\ sweep' \subseteq Active
    BY <1>12 DEF CancelAll, Unseen
  <2>2. \A o \in OrderIds : Mirrors(o)'
    BY <1>a, <2>1 DEF Mirrors
  <2>3. QED  BY <1>b, <2>1, <2>2 DEF FilledAtMostOnce, Active
<1>13. ASSUME NEW id \in OrderIds, SweepSkip(id)
       PROVE  KnowsVenue' /\ FilledAtMostOnce'
  <2>1. /\ Unseen' = Unseen /\ venue' = venue /\ active' = active
        /\ sweep' \subseteq sweep
    BY <1>13 DEF SweepSkip, Unseen
  <2>2. \A o \in OrderIds : Mirrors(o)'
    BY <1>a, <2>1 DEF Mirrors
  <2>3. QED  BY <1>a, <1>b, <2>1, <2>2 DEF FilledAtMostOnce, Active
<1>14. CASE UNCHANGED vars
  <2>1. /\ Unseen' = Unseen /\ venue' = venue /\ active' = active
        /\ sweep' = sweep
    BY <1>14 DEF vars, Unseen
  <2>2. \A o \in OrderIds : Mirrors(o)'
    BY <1>a, <2>1 DEF Mirrors
  <2>3. QED  BY <1>a, <1>b, <2>1, <2>2 DEF FilledAtMostOnce, Active
<1>15. QED
  BY <1>1, <1>3, <1>4, <1>5, <1>6, <1>7, <1>9, <1>10, <1>11, <1>12, <1>13, <1>14
     DEF Next

LEMMA OneMethodStep == OneMethod /\ [Next]_vars => OneMethod'
<1> SUFFICES ASSUME OneMethod, [Next]_vars PROVE OneMethod'
  OBVIOUS
<1> USE DEF OneMethod
<1>1. ASSUME NEW id \in OrderIds, NEW q \in Quantities, NEW l \in Levels,
             SubmitOrder(id, q, l)
      PROVE  OneMethod'
  BY <1>1 DEF SubmitOrder
<1>2. ASSUME NEW id \in OrderIds,
             \/ CancelOrder(id)
             \/ \E l \in Levels : ModifyOrder(id, l)
             \/ SweepCancel(id)
             \/ SweepSkip(id)
             \/ VenueExecutes(id)
      PROVE  OneMethod'
  BY <1>2 DEF CancelOrder, ModifyOrder, SweepCancel, SweepSkip, VenueExecutes,
              managerVars
<1>3. ASSUME PollFills \/ (\E S : CancelAll(S)) PROVE OneMethod'
  BY <1>3 DEF PollFills, CancelAll, Idle
<1>4. ASSUME RecordPartial \/ RecordFilled \/ PassOver PROVE OneMethod'
  BY <1>4 DEF RecordPartial, RecordFilled, PassOver
<1>5. CASE UNCHANGED vars
  BY <1>5 DEF vars
<1>6. QED  BY <1>1, <1>2, <1>3, <1>4, <1>5 DEF Next

(* The history. *)

(* An active order enters the history, for the first time. *)
LEMMA ConcludeEndsOnce ==
  ASSUME TypeOK, EndsOnce, NEW id \in OrderIds, active[id] # NoOrder,
         NEW filled, NEW status, Conclude(id, filled, status)
  PROVE  EndsOnce'
<1> DEFINE e == [id |-> id, quantity |-> active[id].quantity,
                 filled |-> filled, status |-> status]
<1>1. /\ history' = Append(history, e)
      /\ active' = [active EXCEPT ![id] = NoOrder]
      /\ ~InHistory(id)
  BY DEF Conclude, EndsOnce, Active
<1>2. /\ Len(history) \in Nat
      /\ Len(history') = Len(history) + 1
      /\ \A i \in 1 .. Len(history) : history'[i] = history[i]
      /\ history'[Len(history) + 1] = e
  BY <1>1 DEF TypeOK
<1>3. e.id = id
  OBVIOUS
<1> HIDE DEF e
<1>4. \A i \in 1 .. Len(history) : history[i].id # id
  BY <1>1 DEF InHistory
<1>5. ASSUME NEW i \in 1 .. Len(history'), NEW j \in 1 .. Len(history'),
             history'[i].id = history'[j].id
      PROVE  i = j
  <2>1. CASE i \in 1 .. Len(history) /\ j \in 1 .. Len(history)
    BY <1>2, <1>5, <2>1 DEF EndsOnce
  <2>2. CASE i = Len(history) + 1 /\ j \in 1 .. Len(history)
    BY <1>2, <1>3, <1>4, <1>5, <2>2
  <2>3. CASE j = Len(history) + 1 /\ i \in 1 .. Len(history)
    BY <1>2, <1>3, <1>4, <1>5, <2>3
  <2>4. QED  BY <1>2, <2>1, <2>2, <2>3
<1>6. ASSUME NEW o \in OrderIds, active'[o] # NoOrder
      PROVE  ~InHistory(o)'
  <2>1. o # id /\ o \in Active
    BY <1>1, <1>6 DEF TypeOK, Active
  <2>2. \A i \in 1 .. Len(history) : history[i].id # o
    BY <2>1 DEF EndsOnce, InHistory
  <2>3. ASSUME NEW i \in 1 .. Len(history')
        PROVE  history'[i].id # o
    <3>1. CASE i \in 1 .. Len(history)
      BY <1>2, <2>2, <3>1
    <3>2. CASE i = Len(history) + 1
      BY <1>2, <1>3, <2>1, <3>2
    <3>3. QED  BY <1>2, <3>1, <3>2
  <2>4. QED  BY <2>3 DEF InHistory
<1>7. QED  BY <1>5, <1>6 DEF EndsOnce, Active

(* An order that is still active, or newly so, is not in the history.      *)
LEMMA EndsOnceStep ==
  ASSUME TypeOK, KnowsVenue, EndsOnce, [Next]_vars
  PROVE  EndsOnce'
<1>1. ASSUME history' = history,
             \A o \in OrderIds : active'[o] # NoOrder =>
                                  active[o] # NoOrder \/ ~InHistory(o)
      PROVE  EndsOnce'
  BY <1>1 DEF EndsOnce, Active, InHistory
<1>2. active \in [OrderIds -> Tracked \cup {NoOrder}]
  BY DEF TypeOK
<1>3. ASSUME NEW id \in OrderIds, NEW q \in Quantities, NEW l \in Levels,
             SubmitOrder(id, q, l)
      PROVE  EndsOnce'
  <2>1. /\ history' = history /\ ~InHistory(id)
        /\ \A o \in OrderIds \ {id} : active'[o] = active[o]
    BY <1>2, <1>3 DEF SubmitOrder
  <2>2. QED  BY <1>1, <2>1
<1>4. ASSUME NEW id \in OrderIds, CancelOrder(id) \/ SweepCancel(id)
      PROVE  EndsOnce'
  <2>1. venue[id] # NoOrder /\ Conclude(id, active[id].filled, "Cancelled")
    BY <1>4 DEF CancelOrder, SweepCancel, Withdraw
  <2>2. active[id] # NoOrder
    BY <2>1 DEF KnowsVenue
  <2>3. QED  BY <2>1, <2>2, ConcludeEndsOnce
<1>5. ASSUME NEW id \in OrderIds, NEW l \in Levels, ModifyOrder(id, l)
      PROVE  EndsOnce'
  <2>1. /\ history' = history /\ active[id] # NoOrder
        /\ \A o \in OrderIds \ {id} : active'[o] = active[o]
    BY <1>2, <1>5 DEF ModifyOrder
  <2>2. QED  BY <1>1, <2>1
<1>6. CASE RecordFilled
  <2>1. Head(inbox) \in FillEvents
    BY <1>6 DEF RecordFilled, TypeOK
  <2>2. Head(inbox).id \in OrderIds
    BY <2>1 DEF FillEvents
  <2>3. /\ active[Head(inbox).id] # NoOrder
        /\ Conclude(Head(inbox).id,
                    active[Head(inbox).id].filled + Head(inbox).quantity,
                    "Filled")
    BY <1>6 DEF RecordFilled
  <2>4. QED  BY <2>2, <2>3, ConcludeEndsOnce
<1>7. CASE RecordPartial
  <2>1. Head(inbox) \in FillEvents
    BY <1>7 DEF RecordPartial, TypeOK
  <2>2. Head(inbox).id \in OrderIds
    BY <2>1 DEF FillEvents
  <2>3. /\ history' = history /\ active[Head(inbox).id] # NoOrder
        /\ \A o \in OrderIds \ {Head(inbox).id} : active'[o] = active[o]
    BY <1>2, <1>7, <2>2 DEF RecordPartial
  <2>4. QED  BY <1>1, <2>3
<1>8. ASSUME \/ PollFills \/ PassOver \/ UNCHANGED vars
             \/ \E S : CancelAll(S)
             \/ \E id \in OrderIds : SweepSkip(id) \/ VenueExecutes(id)
      PROVE  EndsOnce'
  <2>1. history' = history /\ active' = active
    BY <1>8 DEF PollFills, PassOver, vars, CancelAll, SweepSkip, VenueExecutes,
                managerVars
  <2>2. QED  BY <1>1, <2>1
<1>9. QED
  BY <1>3, <1>4, <1>5, <1>6, <1>7, <1>8 DEF Next

-----------------------------------------------------------------------------
(* The quantity an order's events report.                                  *)

EventsOf(id, s) == {i \in DOMAIN s : s[i].id = id}

QuantityAt(s) == [i \in DOMAIN s |-> s[i].quantity]

LEMMA EventsFinite ==
  ASSUME NEW s \in Seq(FillEvents), NEW id
  PROVE  /\ IsFiniteSet(EventsOf(id, s))
         /\ \A i \in EventsOf(id, s) : QuantityAt(s)[i] \in Nat
<1>1. DOMAIN s = 1 .. Len(s) /\ Len(s) \in Nat
  OBVIOUS
<1>2. IsFiniteSet(DOMAIN s)
  BY <1>1, FS_Interval
<1>3. EventsOf(id, s) \subseteq DOMAIN s
  BY DEF EventsOf
<1>4. IsFiniteSet(EventsOf(id, s))
  BY <1>2, <1>3, FS_Subset
<1>5. ASSUME NEW i \in DOMAIN s PROVE QuantityAt(s)[i] \in Nat
  <2>1. s[i] \in FillEvents /\ QuantityAt(s)[i] = s[i].quantity
    BY <1>1 DEF QuantityAt
  <2>2. QED  BY <2>1 DEF FillEvents
<1>6. QED  BY <1>3, <1>4, <1>5

LEMMA QuantityType ==
  ASSUME NEW s \in Seq(FillEvents), NEW id
  PROVE  QuantityIn(id, s) \in Nat
<1>1. QuantityIn(id, s) = SumFunctionOnSet(QuantityAt(s), EventsOf(id, s))
  BY DEF QuantityIn, QuantityAt, EventsOf
<1>2. QED  BY <1>1, EventsFinite, SumNat

(* An order without events. *)
LEMMA QuantityNone ==
  ASSUME NEW s, NEW id, \A i \in DOMAIN s : s[i].id # id
  PROVE  QuantityIn(id, s) = 0
<1>1. EventsOf(id, s) = {}
  BY DEF EventsOf
<1>2. QuantityIn(id, s) = SumFunctionOnSet(QuantityAt(s), EventsOf(id, s))
  BY DEF QuantityIn, QuantityAt, EventsOf
<1>3. QED  BY <1>1, <1>2, SumEmpty

(* A new event adds its quantity to its own order. *)
LEMMA QuantityAppend ==
  ASSUME NEW s \in Seq(FillEvents), NEW e \in FillEvents, NEW id
  PROVE  QuantityIn(id, Append(s, e))
           = QuantityIn(id, s) + (IF e.id = id THEN e.quantity ELSE 0)
<1> DEFINE n == Len(s) + 1
           t == Append(s, e)
<1>1. /\ DOMAIN s = 1 .. Len(s) /\ Len(s) \in Nat
      /\ DOMAIN t = 1 .. n
      /\ \A i \in 1 .. Len(s) : t[i] = s[i]
      /\ t[n] = e
  OBVIOUS
<1>2. t \in Seq(FillEvents)
  BY AppendType
<1> HIDE DEF t
<1>3. \A i \in EventsOf(id, s) : QuantityAt(t)[i] = QuantityAt(s)[i]
  BY <1>1 DEF EventsOf, QuantityAt
<1>4. SumFunctionOnSet(QuantityAt(t), EventsOf(id, s))
        = SumFunctionOnSet(QuantityAt(s), EventsOf(id, s))
  BY <1>3, EventsFinite, SumCongruence
<1>5. /\ QuantityIn(id, s) = SumFunctionOnSet(QuantityAt(s), EventsOf(id, s))
      /\ QuantityIn(id, t) = SumFunctionOnSet(QuantityAt(t), EventsOf(id, t))
  BY DEF QuantityIn, QuantityAt, EventsOf
<1>6. QuantityAt(t)[n] = e.quantity
  BY <1>1 DEF QuantityAt
<1>7. CASE e.id = id
  <2>1. EventsOf(id, t) = EventsOf(id, s) \cup {n} /\ n \notin EventsOf(id, s)
    BY <1>1, <1>7 DEF EventsOf
  <2>2. \A i \in EventsOf(id, s) \cup {n} : QuantityAt(t)[i] \in Int
    BY <1>2, <2>1, EventsFinite
  <2>3. SumFunctionOnSet(QuantityAt(t), EventsOf(id, s) \cup {n})
          = QuantityAt(t)[n] + SumFunctionOnSet(QuantityAt(t), EventsOf(id, s))
    <3> HIDE DEF n
    <3>1. QED  BY <2>1, <2>2, EventsFinite, SumAdd
  <2>4. QuantityIn(id, s) \in Nat /\ e.quantity \in Nat
    BY QuantityType DEF FillEvents
  <2>5. QED  BY <1>4, <1>5, <1>6, <1>7, <2>1, <2>3, <2>4 DEF t
<1>8. CASE e.id # id
  <2>1. EventsOf(id, t) = EventsOf(id, s)
    BY <1>1, <1>8 DEF EventsOf
  <2>2. QuantityIn(id, s) \in Nat
    BY QuantityType
  <2>3. QED  BY <1>4, <1>5, <1>8, <2>1, <2>2 DEF t
<1>9. QED  BY <1>7, <1>8

(* The first event is what its order's quantity loses when it is taken. *)
LEMMA QuantityTail ==
  ASSUME NEW s \in Seq(FillEvents), s # <<>>, NEW id
  PROVE  QuantityIn(id, s)
           = (IF Head(s).id = id THEN Head(s).quantity ELSE 0)
               + QuantityIn(id, Tail(s))
<1> DEFINE t == Tail(s)
           Later == EventsOf(id, s) \ {1}
<1>1. /\ Len(s) \in Nat \ {0}
      /\ DOMAIN s = 1 .. Len(s) /\ DOMAIN t = 1 .. Len(s) - 1
      /\ \A i \in 1 .. Len(s) - 1 : t[i] = s[i + 1]
      /\ Head(s) = s[1]
      /\ t \in Seq(FillEvents)
  OBVIOUS
<1> HIDE DEF t
<1>2. /\ QuantityIn(id, s) = SumFunctionOnSet(QuantityAt(s), EventsOf(id, s))
      /\ QuantityIn(id, t) = SumFunctionOnSet(QuantityAt(t), EventsOf(id, t))
  BY DEF QuantityIn, QuantityAt, EventsOf
<1>3. Later \in SUBSET Nat /\ IsFiniteSet(Later)
  <2>1. EventsOf(id, s) \subseteq Nat
    BY <1>1 DEF EventsOf
  <2>2. IsFiniteSet(EventsOf(id, s))
    BY EventsFinite
  <2>3. IsFiniteSet(EventsOf(id, s) \ {1})
    BY <2>2, FS_Difference
  <2>4. QED  BY <2>1, <2>3
<1>4. {i - 1 : i \in Later} = EventsOf(id, t)
  <2>1. ASSUME NEW i \in Later PROVE i - 1 \in EventsOf(id, t)
    BY <1>1 DEF EventsOf
  <2>2. ASSUME NEW j \in EventsOf(id, t) PROVE j + 1 \in Later /\ (j + 1) - 1 = j
    BY <1>1 DEF EventsOf
  <2> HIDE DEF Later
  <2>3. QED  BY <2>1, <2>2
<1>5. \A i \in Later : QuantityAt(s)[i] \in Int /\ QuantityAt(t)[i - 1] = QuantityAt(s)[i]
  <2>1. ASSUME NEW i \in Later
        PROVE  QuantityAt(s)[i] \in Int /\ QuantityAt(t)[i - 1] = QuantityAt(s)[i]
    <3>1. i \in EventsOf(id, s) /\ i \in 2 .. Len(s)
      BY <1>1 DEF EventsOf
    <3>2. QuantityAt(s)[i] \in Int
      BY <3>1, EventsFinite
    <3>3. i - 1 \in DOMAIN t /\ t[i - 1] = s[i] /\ i \in DOMAIN s
      BY <1>1, <3>1
    <3>4. QED  BY <3>2, <3>3 DEF QuantityAt
  <2>2. QED  BY <2>1
<1> HIDE DEF Later
<1>6. SumFunctionOnSet(QuantityAt(s), Later) = QuantityIn(id, t)
  BY <1>2, <1>3, <1>4, <1>5, SumShift
<1>7. QuantityIn(id, t) \in Nat
  BY <1>1, QuantityType
<1>8. CASE Head(s).id = id
  <2>1. 1 \in EventsOf(id, s) /\ QuantityAt(s)[1] = Head(s).quantity
    BY <1>1, <1>8 DEF EventsOf, QuantityAt
  <2>2. \A i \in EventsOf(id, s) : QuantityAt(s)[i] \in Int
    BY EventsFinite
  <2>3. SumFunctionOnSet(QuantityAt(s), EventsOf(id, s))
          = QuantityAt(s)[1] + SumFunctionOnSet(QuantityAt(s), EventsOf(id, s) \ {1})
    BY <2>1, <2>2, EventsFinite, SumRemove
  <2>4. QED  BY <1>2, <1>6, <1>8, <2>1, <2>3 DEF Later, t
<1>9. CASE Head(s).id # id
  <2>1. Later = EventsOf(id, s)
    BY <1>1, <1>9 DEF Later, EventsOf
  <2>2. QED  BY <1>2, <1>6, <1>7, <1>9, <2>1 DEF t
<1>10. QED  BY <1>8, <1>9

-----------------------------------------------------------------------------
(* The accounts.                                                           *)

(* An order's last event is the one that completes it. *)
LastCompletes(s) ==
  \A i, j \in DOMAIN s : i < j /\ s[i].id = s[j].id => s[i].partial

(* Every event on its way is of an order the manager has books for. *)
Announced ==
  \A i \in DOMAIN Unseen :
    active[Unseen[i].id] # NoOrder \/ InHistory(Unseen[i].id)

(* The accounts of one order. *)
Accounted(id) ==
  active[id] # NoOrder =>
    active[id].filled + QuantityIn(id, Unseen) + QuantityLeft(id)
      = active[id].quantity

AccountsInv ==
  /\ \A id \in OrderIds : Accounted(id)
  /\ LastCompletes(Unseen)
  /\ Announced
  /\ HistoryIsHonest

LEMMA LastAppend ==
  ASSUME NEW s \in Seq(FillEvents), NEW e \in FillEvents,
         LastCompletes(s), ~HasFinal(e.id, s)
  PROVE  LastCompletes(Append(s, e))
<1>1. /\ DOMAIN Append(s, e) = 1 .. Len(s) + 1 /\ DOMAIN s = 1 .. Len(s)
      /\ \A i \in 1 .. Len(s) : Append(s, e)[i] = s[i]
      /\ Append(s, e)[Len(s) + 1] = e
      /\ Len(s) \in Nat
  OBVIOUS
<1>2. QED  BY <1>1, Z3 DEF LastCompletes, HasFinal

(* Taking the first event leaves no event behind of an order it completed. *)
LEMMA LastTail ==
  ASSUME NEW s \in Seq(FillEvents), s # <<>>, LastCompletes(s)
  PROVE  /\ LastCompletes(Tail(s))
         /\ ~Head(s).partial =>
              \A i \in DOMAIN Tail(s) : Tail(s)[i].id # Head(s).id
         /\ \A i \in DOMAIN Tail(s) : \E j \in DOMAIN s : Tail(s)[i] = s[j]
<1>1. /\ Len(s) \in Nat \ {0} /\ DOMAIN s = 1 .. Len(s)
      /\ DOMAIN Tail(s) = 1 .. Len(s) - 1
      /\ \A i \in 1 .. Len(s) - 1 : Tail(s)[i] = s[i + 1]
      /\ Head(s) = s[1]
  OBVIOUS
<1>2. ASSUME NEW i \in DOMAIN Tail(s)
      PROVE  Tail(s)[i] = s[i + 1] /\ i + 1 \in DOMAIN s /\ i \in Int /\ 1 < i + 1
  BY <1>1
<1>3. LastCompletes(Tail(s))
  <2> SUFFICES ASSUME NEW i \in DOMAIN Tail(s), NEW j \in DOMAIN Tail(s),
                      i < j, Tail(s)[i].id = Tail(s)[j].id
               PROVE  Tail(s)[i].partial
    BY DEF LastCompletes
  <2>1. i + 1 < j + 1
    BY <1>2
  <2>2. QED  BY <1>2, <2>1 DEF LastCompletes
<1>4. ASSUME ~Head(s).partial, NEW i \in DOMAIN Tail(s)
      PROVE  Tail(s)[i].id # Head(s).id
  BY <1>1, <1>2, <1>4 DEF LastCompletes
<1>5. QED  BY <1>2, <1>3, <1>4

(* The books of an order are kept: it stays active or is in the history.   *)
Books(id) == active[id] # NoOrder \/ InHistory(id)

(* An order that ends with honest figures keeps the history honest.        *)
LEMMA ConcludeHonestly ==
  ASSUME TypeOK, HistoryIsHonest, NEW id \in OrderIds, active[id] # NoOrder,
         NEW filled, NEW status, Conclude(id, filled, status),
         status = "Filled" <=> filled = active[id].quantity
  PROVE  /\ HistoryIsHonest'
         /\ active' = [active EXCEPT ![id] = NoOrder]
         /\ \A o \in OrderIds : Books(o) => Books(o)'
<1> DEFINE e == [id |-> id, quantity |-> active[id].quantity,
                 filled |-> filled, status |-> status]
<1>1. /\ history' = Append(history, e)
      /\ active' = [active EXCEPT ![id] = NoOrder]
  BY DEF Conclude
<1>2. e.id = id /\ (e.status = "Filled" <=> e.filled = e.quantity)
  OBVIOUS
<1> HIDE DEF e
<1>3. /\ Len(history) \in Nat
      /\ Len(history') = Len(history) + 1
      /\ \A i \in 1 .. Len(history) : history'[i] = history[i]
      /\ history'[Len(history) + 1] = e
  BY <1>1 DEF TypeOK
<1>4. HistoryIsHonest'
  <2>1. ASSUME NEW i \in 1 .. Len(history')
        PROVE  history'[i].status = "Filled" <=>
                 history'[i].filled = history'[i].quantity
    <3>1. CASE i \in 1 .. Len(history)
      BY <1>3, <3>1 DEF HistoryIsHonest
    <3>2. CASE i = Len(history) + 1
      BY <1>2, <1>3, <3>2
    <3>3. QED  BY <1>3, <3>1, <3>2
  <2>2. QED  BY <2>1 DEF HistoryIsHonest
<1>5. ASSUME NEW o \in OrderIds, Books(o) PROVE Books(o)'
  <2>1. CASE o = id
    <3>1. InHistory(o)'
      BY <1>2, <1>3, <2>1 DEF InHistory
    <3>2. QED  BY <3>1 DEF Books
  <2>2. CASE o # id /\ InHistory(o)
    <3>1. InHistory(o)'
      BY <1>3, <2>2 DEF InHistory
    <3>2. QED  BY <3>1 DEF Books
  <2>3. CASE o # id /\ active[o] # NoOrder
    BY <1>1, <2>3 DEF Books, TypeOK
  <2>4. QED  BY <1>5, <2>1, <2>2, <2>3 DEF Books
<1>6. QED  BY <1>1, <1>4, <1>5

(* A step that changes neither an order's books, nor what rests, nor what  *)
(* its events report.                                                      *)
LEMMA OthersAccounted ==
  ASSUME NEW id \in OrderIds, Accounted(id),
         active'[id] = active[id], venue'[id] = venue[id],
         QuantityIn(id, Unseen') = QuantityIn(id, Unseen)
  PROVE  Accounted(id)'
BY DEF Accounted, QuantityLeft

(* No event appears but by the venue's doing. *)
LEMMA AnnouncedKept ==
  ASSUME Announced, Unseen \in Seq(FillEvents),
         \A o \in OrderIds : Books(o) => Books(o)',
         \A i \in DOMAIN Unseen' : \E j \in DOMAIN Unseen : Unseen'[i] = Unseen[j]
  PROVE  Announced'
<1>1. ASSUME NEW i \in DOMAIN Unseen', NEW o, o = Unseen'[i].id PROVE Books(o)'
  <2>1. PICK j \in DOMAIN Unseen : Unseen'[i] = Unseen[j]
    OBVIOUS
  <2>2. Unseen[j] \in FillEvents
    OBVIOUS
  <2>3. o \in OrderIds
    BY <1>1, <2>1, <2>2 DEF FillEvents
  <2>4. Books(o)
    BY <1>1, <2>1 DEF Announced, Books
  <2>5. QED  BY <2>3, <2>4
<1>2. QED  BY <1>1 DEF Announced, Books, InHistory

LEMMA AnnouncedMore ==
  ASSUME Announced, Unseen \in Seq(FillEvents), NEW e \in FillEvents,
         Unseen' = Append(Unseen, e), Books(e.id)',
         \A o \in OrderIds : Books(o) => Books(o)'
  PROVE  Announced'
<1>1. /\ DOMAIN Append(Unseen, e) = 1 .. Len(Unseen) + 1
      /\ DOMAIN Unseen = 1 .. Len(Unseen)
      /\ \A i \in 1 .. Len(Unseen) : Append(Unseen, e)[i] = Unseen[i]
      /\ Append(Unseen, e)[Len(Unseen) + 1] = e
      /\ Len(Unseen) \in Nat
  OBVIOUS
<1>2. ASSUME NEW i \in DOMAIN Unseen', NEW o, o = Unseen'[i].id PROVE Books(o)'
  <2>1. CASE i \in 1 .. Len(Unseen)
    <3>1. Unseen'[i] = Unseen[i] /\ Unseen[i] \in FillEvents
      BY <1>1, <2>1
    <3>2. o \in OrderIds
      BY <1>2, <3>1 DEF FillEvents
    <3>3. Books(o)
      BY <1>1, <1>2, <2>1, <3>1 DEF Announced, Books
    <3>4. QED  BY <3>2, <3>3
  <2>2. CASE i = Len(Unseen) + 1
    <3>1. o = e.id
      BY <1>1, <1>2, <2>2
    <3>2. QED  BY <3>1
  <2>3. QED  BY <1>1, <1>2, <2>1, <2>2
<1>3. QED  BY <1>2 DEF Announced, Books, InHistory

LEMMA AccountsInit == Init => AccountsInv
<1> SUFFICES ASSUME Init PROVE AccountsInv
  OBVIOUS
<1>1. DOMAIN Unseen = {} /\ Len(history) = 0
  BY DEF Init, VenueInit, Unseen
<1>2. \A id \in OrderIds : Accounted(id)
  BY DEF Accounted, Init
<1>3. LastCompletes(Unseen) /\ Announced
  BY <1>1 DEF LastCompletes, Announced
<1>4. HistoryIsHonest
  BY <1>1 DEF HistoryIsHonest
<1>5. QED  BY <1>2, <1>3, <1>4 DEF AccountsInv

(* Every step keeps the accounts: what an action takes from one of the     *)
(* three places it puts into another.                                      *)
LEMMA AccountsStep ==
  ASSUME TypeOK, TypeOK', KnowsVenue, OneMethod, AccountsInv, [Next]_vars
  PROVE  AccountsInv'
<1>a. /\ Unseen \in Seq(FillEvents)
      /\ \A id \in OrderIds : Mirrors(id)
      /\ \A id \in OrderIds : Accounted(id)
      /\ LastCompletes(Unseen) /\ Announced /\ HistoryIsHonest
  BY UnseenType, KnowsVenueIsMirrors DEF AccountsInv
<1>b. \A id \in OrderIds :
        /\ venue[id] # NoOrder => venue[id] \in Resting
        /\ active[id] # NoOrder => active[id] \in Tracked
  BY DEF TypeOK, VenueTypeOK
<1>c. /\ venue \in [OrderIds -> Resting \cup {NoOrder}]
      /\ active \in [OrderIds -> Tracked \cup {NoOrder}]
      /\ fills \in Seq(FillEvents) /\ inbox \in Seq(FillEvents)
  BY DEF TypeOK, VenueTypeOK
<1>d. \A id : QuantityIn(id, Unseen) \in Nat
  BY <1>a, QuantityType
<1>e. ASSUME \A id \in OrderIds : Accounted(id)', LastCompletes(Unseen'),
             Announced', HistoryIsHonest'
      PROVE  AccountsInv'
  BY <1>e DEF AccountsInv
<1>i. \A id : QuantityIn(id, Unseen') \in Nat
  <2>1. Unseen' \in Seq(FillEvents)
    BY DEF TypeOK, VenueTypeOK, Unseen
  <2>2. QED  BY <2>1, QuantityType
(* The three ways the events on their way change. *)
<1>f. ASSUME Unseen' = Unseen, \A o \in OrderIds : Books(o) => Books(o)'
      PROVE  LastCompletes(Unseen') /\ Announced'
  <2>1. \A i \in DOMAIN Unseen' : \E j \in DOMAIN Unseen : Unseen'[i] = Unseen[j]
    BY <1>f
  <2>2. QED  BY <1>a, <1>f, <2>1, AnnouncedKept
<1>g. ASSUME NEW e \in FillEvents, fills' = Append(fills, e), inbox' = inbox,
             ~HasFinal(e.id, Unseen), Books(e.id)',
             \A o \in OrderIds : Books(o) => Books(o)'
      PROVE  /\ LastCompletes(Unseen') /\ Announced'
             /\ \A o : QuantityIn(o, Unseen')
                         = QuantityIn(o, Unseen)
                             + (IF e.id = o THEN e.quantity ELSE 0)
  <2>1. Unseen' = Append(Unseen, e)
    <3>1. inbox \o Append(fills, e) = Append(inbox \o fills, e)
      BY <1>c, AppendOfBoth
    <3>2. QED  BY <1>g, <3>1 DEF Unseen
  <2>2. LastCompletes(Unseen')
    BY <1>a, <1>g, <2>1, LastAppend
  <2>3. Announced'
    BY <1>a, <1>g, <2>1, AnnouncedMore
  <2>4. \A o : QuantityIn(o, Append(Unseen, e))
                 = QuantityIn(o, Unseen) + (IF e.id = o THEN e.quantity ELSE 0)
    BY <1>a, QuantityAppend
  <2>5. QED  BY <2>1, <2>2, <2>3, <2>4
<1>h. ASSUME inbox # <<>>, inbox' = Tail(inbox), fills' = fills,
             \A o \in OrderIds : Books(o) => Books(o)'
      PROVE  /\ Head(inbox) \in FillEvents
             /\ LastCompletes(Unseen') /\ Announced'
             /\ \A o : QuantityIn(o, Unseen)
                         = (IF Head(inbox).id = o THEN Head(inbox).quantity ELSE 0)
                             + QuantityIn(o, Unseen')
             /\ ~Head(inbox).partial => QuantityIn(Head(inbox).id, Unseen') = 0
  <2>1. /\ Unseen' = Tail(Unseen) /\ Unseen # <<>>
        /\ Head(Unseen) = Head(inbox)
    BY <1>h, <1>c, TailOfBoth DEF Unseen
  <2>2. /\ LastCompletes(Tail(Unseen))
        /\ ~Head(Unseen).partial =>
             \A i \in DOMAIN Tail(Unseen) : Tail(Unseen)[i].id # Head(Unseen).id
        /\ \A i \in DOMAIN Tail(Unseen) :
             \E j \in DOMAIN Unseen : Tail(Unseen)[i] = Unseen[j]
    BY <1>a, <2>1, LastTail
  <2>3. Announced'
    BY <1>a, <1>h, <2>1, <2>2, AnnouncedKept
  <2>4. \A o : QuantityIn(o, Unseen)
                 = (IF Head(Unseen).id = o THEN Head(Unseen).quantity ELSE 0)
                     + QuantityIn(o, Tail(Unseen))
    BY <1>a, <2>1, QuantityTail
  <2>5. ASSUME ~Head(inbox).partial
        PROVE  QuantityIn(Head(inbox).id, Tail(Unseen)) = 0
    BY <2>1, <2>2, <2>5, QuantityNone
  <2>6. Head(inbox) \in FillEvents
    BY <1>h, <1>c
  <2>7. QED  BY <2>1, <2>2, <2>3, <2>4, <2>5, <2>6
<1>1. ASSUME NEW id \in OrderIds, NEW q \in Quantities, NEW l \in Levels,
             SubmitOrder(id, q, l)
      PROVE  AccountsInv'
  <2> DEFINE book == [quantity |-> q, filled |-> 0, level |-> l,
                      status |-> "Submitted"]
  <2>1. /\ active[id] = NoOrder /\ ~InHistory(id) /\ venue[id] = NoOrder
        /\ ~HasFinal(id, Unseen)
        /\ active' = [active EXCEPT ![id] = book]
        /\ inbox' = inbox /\ history' = history
        /\ q \in Nat \ {0}
    BY <1>1, <1>a, ExecutorAssumption DEF SubmitOrder, Mirrors
  <2>2. /\ active'[id] = book
        /\ \A o \in OrderIds \ {id} : active'[o] = active[o]
    BY <1>c, <2>1
  <2>3. book # NoOrder /\ book.filled = 0 /\ book.quantity = q
    <3>1. book \in Tracked
      BY DEF Tracked
    <3>2. QED  BY <3>1, ManagerAssumption
  <2> HIDE DEF book
  <2>4. QuantityIn(id, Unseen) = 0
    <3>1. \A i \in DOMAIN Unseen : Unseen[i].id # id
      BY <1>a, <2>1 DEF Announced
    <3>2. QED  BY <3>1, QuantityNone
  <2>5. \A o \in OrderIds : Books(o) => Books(o)'
    BY <2>1, <2>2, <2>3 DEF Books, InHistory
  <2>6. HistoryIsHonest'
    BY <1>a, <2>1 DEF HistoryIsHonest
  <2>7. CASE Accept(id, q, l)
    <3>1. /\ fills' = fills /\ Unseen' = Unseen
          /\ venue' = [venue EXCEPT ![id] = [left |-> q, level |-> l]]
      BY <2>1, <2>7 DEF Accept, Unseen
    <3>2. /\ venue'[id] # NoOrder /\ venue'[id].left = q
          /\ \A o \in OrderIds \ {id} : venue'[o] = venue[o]
      <4>1. [left |-> q, level |-> l] \in Resting
        BY <2>1 DEF Resting
      <4>2. QED  BY <1>c, <3>1, <4>1, ExecutorAssumption
    <3>3. Accounted(id)'
      BY <2>1, <2>2, <2>3, <2>4, <3>1, <3>2 DEF Accounted, QuantityLeft
    <3>4. \A o \in OrderIds \ {id} : Accounted(o)'
      BY <1>a, <2>2, <3>1, <3>2, OthersAccounted
    <3>5. QED  BY <1>e, <1>f, <2>5, <2>6, <3>1, <3>3, <3>4
  <2>8. CASE AcceptFilled(id, q)
    <3>1. PICK e \in FillEvents : e = Fill(id, q, FALSE)
      BY <2>1 DEF Fill, FillEvents
    <3>2. /\ e.id = id /\ e.quantity = q
          /\ fills' = Append(fills, e) /\ venue' = venue
      BY <2>8, <3>1 DEF AcceptFilled, Fill
    <3>3. Books(id)'
      BY <2>2, <2>3 DEF Books
    <3>4. /\ LastCompletes(Unseen') /\ Announced'
          /\ QuantityIn(id, Unseen') = QuantityIn(id, Unseen) + q
          /\ \A o \in OrderIds \ {id} :
               QuantityIn(o, Unseen') = QuantityIn(o, Unseen) + 0
      BY <1>g, <2>1, <2>5, <3>2, <3>3
    <3>5. Accounted(id)'
      BY <2>1, <2>2, <2>3, <2>4, <3>2, <3>4 DEF Accounted, QuantityLeft
    <3>6. \A o \in OrderIds \ {id} : Accounted(o)'
      BY <1>a, <1>d, <2>2, <3>2, <3>4, OthersAccounted
    <3>7. QED  BY <1>e, <2>6, <3>4, <3>5, <3>6
  <2>9. QED  BY <1>1, <2>7, <2>8 DEF SubmitOrder
<1>2. ASSUME NEW id \in OrderIds, CancelOrder(id) \/ SweepCancel(id)
      PROVE  AccountsInv'
  <2>1. /\ venue[id] # NoOrder /\ venue' = [venue EXCEPT ![id] = NoOrder]
        /\ Unseen' = Unseen /\ active[id] # NoOrder
        /\ Conclude(id, active[id].filled, "Cancelled")
    BY <1>2, <1>a DEF CancelOrder, SweepCancel, Withdraw, Unseen, Mirrors
  <2>2. active[id].filled # active[id].quantity
    <3>1. venue[id].left \in Nat \ {0} /\ active[id].filled \in Nat
      BY <1>b, <2>1 DEF Resting, Tracked
    <3>2. active[id].filled + QuantityIn(id, Unseen) + venue[id].left
            = active[id].quantity
      BY <1>a, <2>1 DEF Accounted, QuantityLeft
    <3>3. QuantityIn(id, Unseen) \in Nat
      BY <1>d
    <3>4. QED  BY <3>1, <3>2, <3>3
  <2>3. /\ HistoryIsHonest'
        /\ active' = [active EXCEPT ![id] = NoOrder]
        /\ \A o \in OrderIds : Books(o) => Books(o)'
    <3>1. "Cancelled" = "Filled" <=> active[id].filled = active[id].quantity
      BY <2>2
    <3>2. QED  BY <1>a, <2>1, <3>1, ConcludeHonestly
  <2>4. Accounted(id)'
    BY <1>c, <2>3 DEF Accounted
  <2>5. \A o \in OrderIds \ {id} : Accounted(o)'
    BY <1>a, <1>c, <2>1, <2>3, OthersAccounted
  <2>6. QED  BY <1>e, <1>f, <2>1, <2>3, <2>4, <2>5
<1>3. ASSUME NEW id \in OrderIds, NEW l \in Levels, ModifyOrder(id, l)
      PROVE  AccountsInv'
  <2>1. /\ Unseen' = Unseen /\ history' = history
        /\ venue[id] \in Resting /\ active[id] \in Tracked
        /\ venue' = [venue EXCEPT ![id].level = l]
        /\ active' = [active EXCEPT ![id].level = l]
    BY <1>3, <1>b DEF ModifyOrder, Amend, Unseen
  <2>2. /\ venue'[id].left = venue[id].left /\ venue'[id] \in Resting
        /\ active'[id].filled = active[id].filled
        /\ active'[id].quantity = active[id].quantity
        /\ active'[id] \in Tracked
    BY <1>c, <2>1 DEF Resting, Tracked
  <2>3. /\ venue[id] # NoOrder /\ venue'[id] # NoOrder
        /\ active[id] # NoOrder /\ active'[id] # NoOrder
    BY <2>1, <2>2, ExecutorAssumption, ManagerAssumption
  <2>4. Accounted(id)'
    BY <1>a, <2>1, <2>2, <2>3 DEF Accounted, QuantityLeft
  <2>5. \A o \in OrderIds \ {id} : Accounted(o)'
    BY <1>a, <1>c, <2>1, OthersAccounted
  <2>6. \A o \in OrderIds : Books(o) => Books(o)'
    BY <1>c, <2>1, <2>3 DEF Books, InHistory
  <2>7. HistoryIsHonest'
    BY <1>a, <2>1 DEF HistoryIsHonest
  <2>8. QED  BY <1>e, <1>f, <2>1, <2>4, <2>5, <2>6, <2>7
<1>4. ASSUME NEW id \in OrderIds, VenueExecutes(id)
      PROVE  AccountsInv'
  <2>1. PICK n \in 1 .. venue[id].left : Execute(id, n)
    BY <1>4 DEF VenueExecutes
  <2>2. /\ venue[id] # NoOrder /\ venue[id] \in Resting
        /\ active[id] # NoOrder /\ active[id] \in Tracked
        /\ ~HasFinal(id, Unseen)
        /\ active' = active /\ inbox' = inbox /\ history' = history
    BY <1>4, <1>a, <1>b, <2>1 DEF Execute, Mirrors, VenueExecutes, managerVars
  <2>3. venue[id].left \in Nat \ {0} /\ n \in Nat \ {0}
    BY <2>2 DEF Resting
  <2>4. PICK e \in FillEvents : e = Fill(id, n, n < venue[id].left)
    <3>1. Fill(id, n, n < venue[id].left) \in FillEvents
      BY <2>3 DEF Fill, FillEvents
    <3>2. QED  BY <3>1
  <2>5. /\ e.id = id /\ e.quantity = n /\ fills' = Append(fills, e)
        /\ venue' = [venue EXCEPT ![id] =
                       IF n = venue[id].left THEN NoOrder
                       ELSE [left |-> venue[id].left - n,
                             level |-> venue[id].level]]
    BY <2>1, <2>4 DEF Execute, Fill
  <2>6. \A o \in OrderIds : Books(o) <=> Books(o)'
    BY <2>2 DEF Books, InHistory
  <2>7. Books(id)'
    BY <2>2, <2>6 DEF Books
  <2>8. /\ LastCompletes(Unseen') /\ Announced'
        /\ QuantityIn(id, Unseen') = QuantityIn(id, Unseen) + n
        /\ \A o \in OrderIds \ {id} :
             QuantityIn(o, Unseen') = QuantityIn(o, Unseen) + 0
    BY <1>g, <2>2, <2>5, <2>6, <2>7
  <2>9. QuantityLeft(id)' = QuantityLeft(id) - n
    <3>1. CASE n = venue[id].left
      <4>1. venue'[id] = NoOrder
        BY <1>c, <2>5, <3>1
      <4>2. QED  BY <2>2, <2>3, <3>1, <4>1 DEF QuantityLeft
    <3>2. CASE n # venue[id].left
      <4>1. [left |-> venue[id].left - n, level |-> venue[id].level] \in Resting
        BY <2>2, <2>3, <3>2 DEF Resting
      <4>2. venue'[id] # NoOrder /\ venue'[id].left = venue[id].left - n
        BY <1>c, <2>5, <3>2, <4>1, ExecutorAssumption
      <4>3. QED  BY <2>2, <4>2 DEF QuantityLeft
    <3>3. QED  BY <3>1, <3>2
  <2>10. Accounted(id)'
    <3>1. /\ active[id].filled \in Nat /\ active[id].quantity \in Int
          /\ QuantityIn(id, Unseen) \in Nat
          /\ QuantityLeft(id) \in Nat
      <4>1. active[id].filled \in Nat /\ active[id].quantity \in Nat
        <5>1. active[id].filled \in Nat /\ active[id].quantity \in Quantities
          BY <2>2, Zenon DEF Tracked
        <5>2. QED  BY <5>1, ExecutorAssumption
      <4>2. QuantityLeft(id) \in Nat
        BY <2>3 DEF QuantityLeft
      <4>3. QED  BY <1>d, <4>1, <4>2
    <3>2. active[id].filled + QuantityIn(id, Unseen) + QuantityLeft(id)
            = active[id].quantity
      BY <1>a, <2>2 DEF Accounted
    <3>3. active[id].filled + (QuantityIn(id, Unseen) + n) + (QuantityLeft(id) - n)
            = active[id].quantity
      BY <2>3, <3>1, <3>2
    <3>4. QED  BY <2>2, <2>8, <2>9, <3>3 DEF Accounted
  <2>11. \A o \in OrderIds \ {id} : Accounted(o)'
    BY <1>a, <1>c, <1>d, <2>2, <2>5, <2>8, OthersAccounted
  <2>12. HistoryIsHonest'
    BY <1>a, <2>2 DEF HistoryIsHonest
  <2>13. QED  BY <1>e, <2>8, <2>10, <2>11, <2>12
<1>5. CASE RecordPartial
  <2>0. PICK f \in FillEvents : f = Head(inbox)
    BY <1>5, <1>c DEF RecordPartial
  <2>1. /\ inbox # <<>> /\ inbox' = Tail(inbox)
        /\ venue' = venue /\ fills' = fills /\ history' = history
        /\ active[f.id] # NoOrder
        /\ active' = [active EXCEPT ![f.id].filled = @ + f.quantity,
                                    ![f.id].status = "PartiallyFilled"]
    BY <1>5, <2>0 DEF RecordPartial
  <2>2. f.id \in OrderIds /\ f.quantity \in Nat
    BY DEF FillEvents
  <2>3. active[f.id] \in Tracked
    BY <1>b, <2>1, <2>2
  <2>4. /\ active'[f.id] # NoOrder
        /\ active'[f.id].filled = active[f.id].filled + f.quantity
        /\ active'[f.id].quantity = active[f.id].quantity
        /\ \A o \in OrderIds \ {f.id} : active'[o] = active[o]
    <3> DEFINE more == [active[f.id] EXCEPT !.filled = @ + f.quantity,
                                            !.status = "PartiallyFilled"]
    <3>1. more \in Tracked
      BY <2>2, <2>3, PartialType
    <3>2. /\ more.filled = active[f.id].filled + f.quantity
          /\ more.quantity = active[f.id].quantity
      BY <2>3 DEF Tracked
    <3>3. active' = [active EXCEPT ![f.id] = more]
      BY <2>1, <2>2, <2>3, <1>c DEF Tracked
    <3> HIDE DEF more
    <3>4. QED  BY <1>c, <2>2, <3>1, <3>2, <3>3, ManagerAssumption
  <2>5. \A o \in OrderIds : Books(o) => Books(o)'
    BY <2>1, <2>4 DEF Books, InHistory
  <2>6. /\ LastCompletes(Unseen') /\ Announced'
        /\ QuantityIn(f.id, Unseen) = f.quantity + QuantityIn(f.id, Unseen')
        /\ \A o \in OrderIds \ {f.id} :
             QuantityIn(o, Unseen) = 0 + QuantityIn(o, Unseen')
    BY <1>h, <2>0, <2>1, <2>5
  <2>7. \A o : QuantityIn(o, Unseen') \in Nat
    BY <1>i
  <2>8. Accounted(f.id)'
    <3> DEFINE filled == active[f.id].filled
               left == QuantityLeft(f.id)
               unseen == QuantityIn(f.id, Unseen')
    <3>1. filled + (f.quantity + unseen) + left = active[f.id].quantity
      BY <1>a, <2>1, <2>2, <2>6 DEF Accounted
    <3>2. filled \in Nat /\ unseen \in Nat /\ left \in Nat
      BY <1>b, <2>2, <2>3, <2>7 DEF Tracked, QuantityLeft, Resting
    <3>3. left' = left
      BY <2>1 DEF QuantityLeft
    <3> HIDE DEF filled, left, unseen
    <3>4. (filled + f.quantity) + unseen + left = active[f.id].quantity
      BY <2>2, <3>1, <3>2
    <3>5. QED  BY <2>4, <3>3, <3>4 DEF Accounted, filled, left, unseen
  <2>9. \A o \in OrderIds \ {f.id} : Accounted(o)'
    <3>1. \A o \in OrderIds \ {f.id} : QuantityIn(o, Unseen') = QuantityIn(o, Unseen)
      BY <2>6, <2>7
    <3>2. QED  BY <1>a, <2>1, <2>4, <3>1, OthersAccounted
  <2>10. HistoryIsHonest'
    BY <1>a, <2>1 DEF HistoryIsHonest
  <2>11. QED  BY <1>e, <2>2, <2>6, <2>8, <2>9, <2>10
<1>6. CASE RecordFilled
  <2>0. PICK f \in FillEvents : f = Head(inbox)
    BY <1>6, <1>c DEF RecordFilled
  <2>1. /\ inbox # <<>> /\ inbox' = Tail(inbox)
        /\ venue' = venue /\ fills' = fills
        /\ ~f.partial /\ active[f.id] # NoOrder
        /\ Conclude(f.id, active[f.id].filled + f.quantity, "Filled")
    BY <1>6, <2>0 DEF RecordFilled
  <2>2. f.id \in OrderIds /\ f.quantity \in Nat
    BY DEF FillEvents
  <2>3. active[f.id].filled + f.quantity = active[f.id].quantity
    <3>1. /\ Unseen' = Tail(Unseen) /\ Unseen # <<>> /\ Head(Unseen) = f
      BY <1>c, <2>0, <2>1, TailOfBoth DEF Unseen
    <3>2. QuantityIn(f.id, Tail(Unseen)) = 0
      <4>1. \A i \in DOMAIN Tail(Unseen) : Tail(Unseen)[i].id # f.id
        BY <1>a, <2>1, <3>1, LastTail
      <4>2. QED  BY <4>1, QuantityNone
    <3>3. QuantityIn(f.id, Unseen) = f.quantity + 0
      BY <1>a, <3>1, <3>2, QuantityTail
    <3>4. QuantityLeft(f.id) = 0
      <4>1. 1 \in 1 .. Len(Unseen) /\ Unseen[1] = f
        BY <1>a, <3>1
      <4>2. HasFinal(f.id, Unseen)
        BY <2>1, <4>1 DEF HasFinal
      <4>3. QED  BY <1>a, <2>2, <4>2 DEF Mirrors, QuantityLeft
    <3>5. active[f.id].filled + (f.quantity + 0) + 0 = active[f.id].quantity
      BY <1>a, <2>1, <2>2, <3>3, <3>4 DEF Accounted
    <3>6. active[f.id].filled \in Nat
      BY <1>b, <2>1, <2>2 DEF Tracked
    <3>7. QED  BY <2>2, <3>5, <3>6
  <2>4. /\ HistoryIsHonest'
        /\ active' = [active EXCEPT ![f.id] = NoOrder]
        /\ \A o \in OrderIds : Books(o) => Books(o)'
    BY <1>a, <2>1, <2>2, <2>3, ConcludeHonestly
  <2>5. /\ LastCompletes(Unseen') /\ Announced'
        /\ \A o \in OrderIds \ {f.id} :
             QuantityIn(o, Unseen) = 0 + QuantityIn(o, Unseen')
    BY <1>h, <2>0, <2>1, <2>4
  <2>6. \A o : QuantityIn(o, Unseen') \in Nat
    BY <1>i
  <2>7. Accounted(f.id)'
    BY <1>c, <2>2, <2>4 DEF Accounted
  <2>8. \A o \in OrderIds \ {f.id} : Accounted(o)'
    BY <1>a, <1>c, <2>1, <2>2, <2>4, <2>5, <2>6, OthersAccounted
  <2>9. QED  BY <1>e, <2>4, <2>5, <2>7, <2>8
<1>7. CASE PassOver
  <2>0. PICK f \in FillEvents : f = Head(inbox)
    BY <1>7, <1>c DEF PassOver
  <2>1. /\ inbox # <<>> /\ inbox' = Tail(inbox)
        /\ venue' = venue /\ fills' = fills /\ history' = history
        /\ active' = active /\ active[f.id] = NoOrder
    BY <1>7, <2>0 DEF PassOver
  <2>2. \A o \in OrderIds : Books(o) => Books(o)'
    BY <2>1 DEF Books, InHistory
  <2>3. /\ LastCompletes(Unseen') /\ Announced'
        /\ \A o \in OrderIds \ {f.id} :
             QuantityIn(o, Unseen) = 0 + QuantityIn(o, Unseen')
    BY <1>h, <2>0, <2>1, <2>2
  <2>4. \A o : QuantityIn(o, Unseen') \in Nat
    BY <1>i
  <2>5. Accounted(f.id)'
    BY <2>1 DEF Accounted
  <2>6. \A o \in OrderIds \ {f.id} : Accounted(o)'
    BY <1>a, <2>1, <2>3, <2>4, OthersAccounted
  <2>7. HistoryIsHonest'
    BY <1>a, <2>1 DEF HistoryIsHonest
  <2>8. QED  BY <1>e, <2>3, <2>5, <2>6, <2>7
<1>8. ASSUME \/ PollFills \/ UNCHANGED vars
             \/ \E S : CancelAll(S)
             \/ \E id \in OrderIds : SweepSkip(id)
      PROVE  AccountsInv'
  <2>1. /\ venue' = venue /\ active' = active /\ history' = history
        /\ inbox' \o fills' = inbox \o fills
    <3>1. CASE PollFills
      <4>1. fills \o <<>> = fills /\ <<>> \o fills = fills
        BY <1>c
      <4>2. QED  BY <3>1, <4>1 DEF PollFills, Drain, Idle
    <3>2. QED  BY <1>8, <3>1 DEF vars, CancelAll, SweepSkip
  <2>2. Unseen' = Unseen
    BY <2>1 DEF Unseen
  <2>3. \A o \in OrderIds : Books(o) => Books(o)'
    BY <2>1 DEF Books, InHistory
  <2>4. \A o \in OrderIds : Accounted(o)'
    BY <1>a, <2>1, <2>2, OthersAccounted
  <2>5. HistoryIsHonest'
    BY <1>a, <2>1 DEF HistoryIsHonest
  <2>6. QED  BY <1>e, <1>f, <2>2, <2>3, <2>4, <2>5
<1>9. QED
  BY <1>1, <1>2, <1>3, <1>4, <1>5, <1>6, <1>7, <1>8 DEF Next

-----------------------------------------------------------------------------
(* Results.                                                                *)

(* All of it together is inductive. *)
ManagerInv ==
  /\ TypeOK /\ KnowsVenue /\ FilledAtMostOnce /\ OneMethod /\ EndsOnce
  /\ AccountsInv

(* The inductive invariant holds: manager and venue mirror each other.     *)
THEOREM ManagerInvariant == Spec => []ManagerInv
<1>1. Init => ManagerInv
  BY TypeInit, MirrorInit, AccountsInit DEF ManagerInv, Init, OneMethod
<1>2. ManagerInv /\ [Next]_vars => ManagerInv'
  BY TypeStep, MirrorStep, OneMethodStep, EndsOnceStep, AccountsStep
     DEF ManagerInv
<1>3. QED  BY <1>1, <1>2, PTL DEF Spec

(* The manager's books have their types: in particular no order is ever    *)
(* recorded in the history without having been active.                     *)
THEOREM ManagerTypeCorrect == Spec => []TypeOK
<1>1. ManagerInv => TypeOK
  BY DEF ManagerInv
<1>2. QED  BY <1>1, ManagerInvariant, PTL

(* The manager mirrors the venue: active exactly while the order rests     *)
(* there or its completing fill is under way, at the same prices.          *)
THEOREM ManagerKnowsVenue == Spec => []KnowsVenue
<1>1. ManagerInv => KnowsVenue
  BY DEF ManagerInv
<1>2. QED  BY <1>1, ManagerInvariant, PTL

(* No race of cancellations, sweeps and fills ends an order twice.         *)
THEOREM OrdersEndOnce == Spec => []EndsOnce
<1>1. ManagerInv => EndsOnce
  BY DEF ManagerInv
<1>2. QED  BY <1>1, ManagerInvariant, PTL

(* Over any number of partial fills, no unit of an active order is lost or *)
(* counted twice.                                                          *)
THEOREM QuantityAlwaysAccounted == Spec => []QuantityAccounted
<1>1. ManagerInv => QuantityAccounted
  BY DEF ManagerInv, AccountsInv, Accounted, QuantityAccounted, QuantityUnseen,
         Active
<1>2. QED  BY <1>1, ManagerInvariant, PTL

(* Every order the history calls filled was filled in full, and no order   *)
(* it calls cancelled was.                                                 *)
THEOREM HistoryAlwaysHonest == Spec => []HistoryIsHonest
<1>1. ManagerInv => HistoryIsHonest
  BY DEF ManagerInv, AccountsInv
<1>2. QED  BY <1>1, ManagerInvariant, PTL

(* The contract the manager relies on is all it does to its executor.      *)
ExecutorContract == VenueSpec

(* Every step of the manager is a step of that contract, or leaves the     *)
(* venue alone.                                                            *)
THEOREM ManagerUsesContract == Spec => ExecutorContract
<1>1. Init => VenueInit
  BY DEF Init
<1>2. [Next]_vars => [VenueNext]_venueVars
  BY DEF Next, vars, VenueNext, venueVars, SubmitOrder, CancelOrder, ModifyOrder,
         SweepCancel, SweepSkip, VenueExecutes, PollFills, RecordPartial,
         RecordFilled, PassOver, CancelAll
<1>3. QED  BY <1>1, <1>2, PTL DEF Spec, ExecutorContract, VenueSpec

=============================================================================
