--------------------------- MODULE SlotLedgerProofs ---------------------------
(***************************************************************************)
(* Proofs about SlotLedger, for any number of deliveries, venues, finitely *)
(* many applications and any capacities.                                   *)
(***************************************************************************)
EXTENDS SlotLedger, FiniteSetTheorems, TLAPS

InTransaction == { "insert", "commit" }

Placed(v) == { a \in Apps : VenueOf[a] = v /\ reservation[a] # None }

Occupied(v) == IF Holders(v) = {} THEN 0 ELSE 1

\* The row lock: one transaction per venue has a seat counted and not decided.
LockExclusive ==
  \A d, e \in Deliveries :
    /\ pc[d] \in InTransaction
    /\ pc[e] \in InTransaction
    /\ Venue(d) = Venue(e)
    => d = e

\* A delivery past the venue look-up has a venue.
HasVenue ==
  \A d \in Deliveries :
    pc[d] \in { "prior", "seat", "raced", "insert", "commit" } => Venue(d) \in Venues

\* A delivery that won the insert has no committed rival.
WinnerIsFirst == \A d \in Deliveries : pc[d] = "commit" => ~Reserved(d)

SeatsCounted == \A v \in Venues : count[v] = Cardinality(Placed(v)) + Occupied(v)

IInv ==
  /\ TypeOK
  /\ LockExclusive
  /\ HasVenue
  /\ WinnerIsFirst
  /\ SeatsCounted
  /\ CapacityRespected
  /\ OneTicketPerApplication

\* The reservations at a venue are finitely many.
LEMMA PlacedFinite ==
  ASSUME NEW v
  PROVE  IsFiniteSet(Placed(v)) /\ Cardinality(Placed(v)) \in Nat
<1>1. Placed(v) \in SUBSET Apps
  BY DEF Placed
<1>2. IsFiniteSet(Placed(v))
  BY <1>1, FS_Subset, SlotAssumption
<1>. QED
  BY <1>2, FS_CardinalityType

\* A set without two distinct members has cardinality zero or one.
LEMMA AtMostOne ==
  ASSUME NEW S, \A x, y \in S : x = y
  PROVE  Cardinality(S) = IF S = {} THEN 0 ELSE 1
<1>1. CASE S = {}
  BY <1>1, FS_EmptySet
<1>2. CASE S # {}
  <2>1. PICK x \in S : TRUE
    BY <1>2
  <2>2. S = {x}
    BY <2>1
  <2>. QED
    BY <1>2, <2>2, FS_Singleton
<1>. QED
  BY <1>1, <1>2

\* Nothing is reserved, counted or announced at the start.
LEMMA InitInv == Init => IInv
<1>. SUFFICES ASSUME Init PROVE IInv
  OBVIOUS
<1>1. TypeOK
  BY SlotAssumption DEF Init, TypeOK, Steps
<1>2. LockExclusive /\ HasVenue /\ WinnerIsFirst /\ OneTicketPerApplication
  BY DEF Init, LockExclusive, HasVenue, WinnerIsFirst, OneTicketPerApplication,
         InTransaction
<1>3. SeatsCounted
  <2>1. \A v : Placed(v) = {}
    BY DEF Init, Placed
  <2>2. \A v : Holders(v) = {}
    BY DEF Init, Holders
  <2>. QED
    BY <2>1, <2>2, FS_EmptySet DEF SeatsCounted, Occupied, Init
<1>4. CapacityRespected
  BY SlotAssumption DEF Init, CapacityRespected
<1>. QED
  BY <1>1, <1>2, <1>3, <1>4 DEF IInv

\* A step that neither enters nor leaves the transaction, counts no seat and
\* announces at most the ticket of record preserves the invariant.
LEMMA QuietStep ==
  ASSUME IInv, NEW d \in Deliveries, NEW s \in Steps,
         pc' = [pc EXCEPT ![d] = s],
         outcome' \in [Deliveries -> Outcomes \cup { None }],
         count' = count, reservation' = reservation,
         invited' = invited
           \/ (Reserved(d) /\ invited' = invited \cup { <<AppOf[d], reservation[AppOf[d]]>> }),
         pc[d] \in InTransaction <=> s \in InTransaction,
         s \in { "prior", "seat", "raced", "insert", "commit" } => Venue(d) \in Venues,
         s = "commit" => ~Reserved(d)
  PROVE  IInv'
<1>1. AppOf[d] \in Apps
  BY SlotAssumption
<1>2. TypeOK'
  <2>1. pc' \in [Deliveries -> Steps]
    BY DEF IInv, TypeOK
  <2>2. reservation[AppOf[d]] \in Deliveries \cup { None }
    BY <1>1 DEF IInv, TypeOK
  <2>3. invited' \subseteq Apps \X Deliveries
    <3>1. CASE invited' = invited
      BY <3>1 DEF IInv, TypeOK
    <3>2. CASE Reserved(d) /\ invited' = invited \cup { <<AppOf[d], reservation[AppOf[d]]>> }
      BY <3>2, <2>2, <1>1 DEF IInv, TypeOK, Reserved
    <3>. QED
      BY <3>1, <3>2
  <2>. QED
    BY <2>1, <2>3 DEF IInv, TypeOK
<1>3. \A e \in Deliveries : pc'[e] \in InTransaction <=> pc[e] \in InTransaction
  BY DEF IInv, TypeOK
<1>4. LockExclusive'
  BY <1>3 DEF IInv, LockExclusive, Venue
<1>5. HasVenue' /\ WinnerIsFirst'
  BY DEF IInv, TypeOK, HasVenue, WinnerIsFirst, Venue, Reserved
<1>6. SeatsCounted'
  <2>1. \A v : Holders(v)' = Holders(v)
    BY <1>3 DEF Holders, InTransaction, Venue
  <2>2. \A v : Placed(v)' = Placed(v)
    BY DEF Placed
  <2>. QED
    BY <2>1, <2>2 DEF IInv, SeatsCounted, Occupied
<1>7. CapacityRespected'
  BY DEF IInv, CapacityRespected
<1>8. OneTicketPerApplication'
  BY <1>1 DEF IInv, OneTicketPerApplication
<1>. QED
  BY <1>2, <1>4, <1>5, <1>6, <1>7, <1>8 DEF IInv

\* Ending with the ticket of record is a quiet step outside the transaction.
LEMMA AnswersFromRecord ==
  ASSUME IInv, NEW d \in Deliveries, Reserved(d), AlreadyAssigned(d),
         count' = count, reservation' = reservation,
         pc[d] \notin InTransaction
  PROVE  IInv'
<1>1. outcome' \in [Deliveries -> Outcomes \cup { None }]
  BY DEF AlreadyAssigned, End, IInv, TypeOK, Outcomes
<1>2. invited' = invited \cup { <<AppOf[d], reservation[AppOf[d]]>> }
  BY DEF AlreadyAssigned, End
<1>. QED
  BY <1>1, <1>2, QuietStep DEF AlreadyAssigned, End, Steps, InTransaction

\* Counting a seat: the lock is free, so the new holder is the only one.
LEMMA CountsSeat ==
  ASSUME IInv, NEW d \in Deliveries, ReserveSeat(d), SeatFree(Venue(d))
  PROVE  IInv'
<1>. DEFINE u == Venue(d)
<1>1. u \in Venues
  BY DEF IInv, HasVenue, ReserveSeat
<1>2. /\ pc' = [pc EXCEPT ![d] = "insert"]
      /\ count' = [count EXCEPT ![u] = @ + 1]
      /\ UNCHANGED <<outcome, invited, reservation>>
      /\ Holders(u) = {}
  BY DEF ReserveSeat, GoTo
<1>3. TypeOK'
  BY <1>1, <1>2 DEF IInv, TypeOK, Steps
<1>4. \A e \in Deliveries : pc'[e] = IF e = d THEN "insert" ELSE pc[e]
  BY <1>2 DEF IInv, TypeOK
<1>5. LockExclusive'
  BY <1>2, <1>4 DEF IInv, LockExclusive, InTransaction, Holders, Venue
<1>6. HasVenue' /\ WinnerIsFirst'
  BY <1>1, <1>2, <1>4 DEF IInv, HasVenue, WinnerIsFirst, Venue, Reserved
<1>7. SeatsCounted'
  <2>1. Holders(u)' # {}
    BY <1>4 DEF Holders, Venue
  <2>2. \A v \in Venues : v # u => Holders(v)' = Holders(v)
    BY <1>4 DEF Holders, Venue
  <2>3. \A v : Placed(v)' = Placed(v)
    BY <1>2 DEF Placed
  <2>4. count[u] = Cardinality(Placed(u))
    BY <1>1, <1>2, PlacedFinite DEF IInv, SeatsCounted, Occupied
  <2>5. \A v \in Venues : count'[v] = IF v = u THEN count[v] + 1 ELSE count[v]
    BY <1>2 DEF IInv, TypeOK
  <2>6. ASSUME NEW v \in Venues
        PROVE  count'[v] = Cardinality(Placed(v)') + Occupied(v)'
    <3>1. CASE v = u
      BY <3>1, <2>1, <2>3, <2>4, <2>5 DEF Occupied
    <3>2. CASE v # u
      BY <3>2, <2>2, <2>3, <2>5 DEF IInv, SeatsCounted, Occupied
    <3>. QED
      BY <3>1, <3>2
  <2>. QED
    BY <2>6 DEF SeatsCounted
<1>8. CapacityRespected'
  <2>1. \A v \in Venues : count'[v] = IF v = u THEN count[v] + 1 ELSE count[v]
    BY <1>2 DEF IInv, TypeOK
  <2>2. \A v \in Venues : count[v] \in Nat /\ (Capacity[v] # None => Capacity[v] \in Nat)
    BY SlotAssumption DEF IInv, TypeOK
  <2>3. Capacity[u] # None => count[u] < Capacity[u]
    BY DEF SeatFree
  <2>. QED
    BY <1>1, <2>1, <2>2, <2>3 DEF IInv, CapacityRespected
<1>9. OneTicketPerApplication'
  BY <1>2 DEF IInv, OneTicketPerApplication
<1>. QED
  BY <1>3, <1>5, <1>6, <1>7, <1>8, <1>9 DEF IInv

\* Leaving the transaction without a reservation gives the seat back.
LEMMA GivesSeatBack ==
  ASSUME IInv, NEW d \in Deliveries, NEW s \in { "done", "idle" },
         pc[d] \in InTransaction,
         pc' = [pc EXCEPT ![d] = s],
         outcome' \in [Deliveries -> Outcomes \cup { None }],
         count' = [count EXCEPT ![Venue(d)] = @ - 1],
         reservation' = reservation,
         invited' = invited
           \/ (Reserved(d) /\ invited' = invited \cup { <<AppOf[d], reservation[AppOf[d]]>> })
  PROVE  IInv'
<1>. DEFINE u == Venue(d)
<1>1. u \in Venues /\ AppOf[d] \in Apps
  BY SlotAssumption DEF IInv, HasVenue, InTransaction
<1>2. \A e \in Deliveries : pc'[e] = IF e = d THEN s ELSE pc[e]
  BY DEF IInv, TypeOK
<1>3. \A v \in Venues : count'[v] = IF v = u THEN count[v] - 1 ELSE count[v]
  BY DEF IInv, TypeOK
<1>4. Holders(u) # {} /\ Holders(u)' = {}
  BY <1>1, <1>2 DEF IInv, LockExclusive, Holders, InTransaction, Venue
<1>5. \A v \in Venues : v # u => Holders(v)' = Holders(v)
  BY <1>2 DEF Holders, Venue, InTransaction
<1>6. \A v : Placed(v)' = Placed(v)
  BY DEF Placed
<1>7. count[u] = Cardinality(Placed(u)) + 1 /\ Cardinality(Placed(u)) \in Nat
  BY <1>1, <1>4, PlacedFinite DEF IInv, SeatsCounted, Occupied
<1>8. TypeOK'
  <2>1. pc' \in [Deliveries -> Steps]
    BY DEF IInv, TypeOK, Steps
  <2>2. count' \in [Venues -> Nat]
    BY <1>1, <1>7 DEF IInv, TypeOK
  <2>3. reservation[AppOf[d]] \in Deliveries \cup { None }
    BY <1>1 DEF IInv, TypeOK
  <2>4. invited' \subseteq Apps \X Deliveries
    <3>1. CASE invited' = invited
      BY <3>1 DEF IInv, TypeOK
    <3>2. CASE Reserved(d) /\ invited' = invited \cup { <<AppOf[d], reservation[AppOf[d]]>> }
      BY <3>2, <2>3, <1>1 DEF IInv, TypeOK, Reserved
    <3>. QED
      BY <3>1, <3>2
  <2>. QED
    BY <2>1, <2>2, <2>4 DEF IInv, TypeOK
<1>9. LockExclusive'
  BY <1>2 DEF IInv, LockExclusive, InTransaction, Venue
<1>10. HasVenue' /\ WinnerIsFirst'
  BY <1>2 DEF IInv, HasVenue, WinnerIsFirst, Venue, Reserved
<1>11. SeatsCounted'
  <2>1. ASSUME NEW v \in Venues
        PROVE  count'[v] = Cardinality(Placed(v)') + Occupied(v)'
    <3>1. CASE v = u
      BY <3>1, <1>1, <1>3, <1>4, <1>6, <1>7 DEF Occupied
    <3>2. CASE v # u
      BY <3>2, <1>3, <1>5, <1>6 DEF IInv, SeatsCounted, Occupied
    <3>. QED
      BY <3>1, <3>2
  <2>. QED
    BY <2>1 DEF SeatsCounted
<1>12. CapacityRespected'
  <2>1. \A v \in Venues : count[v] \in Nat /\ count'[v] <= count[v]
    BY <1>3 DEF IInv, TypeOK
  <2>2. \A v \in Venues : Capacity[v] # None => Capacity[v] \in Nat
    BY SlotAssumption
  <2>3. \A v \in Venues : count'[v] \in Nat
    BY <1>8 DEF TypeOK
  <2>. QED
    BY <2>1, <2>2, <2>3 DEF IInv, CapacityRespected
<1>13. OneTicketPerApplication'
  BY <1>1 DEF IInv, OneTicketPerApplication
<1>. QED
  BY <1>8, <1>9, <1>10, <1>11, <1>12, <1>13 DEF IInv

\* Committing turns the seat of the holder into the seat of the reservation.
LEMMA CommitsSeat ==
  ASSUME IInv, NEW d \in Deliveries, CommitReservation(d)
  PROVE  IInv'
<1>. DEFINE u == Venue(d)
            a == AppOf[d]
<1>1. u \in Venues /\ a \in Apps /\ u = VenueOf[a]
  BY SlotAssumption DEF IInv, HasVenue, CommitReservation, Venue
<1>2. /\ pc[d] = "commit"
      /\ pc' = [pc EXCEPT ![d] = "done"]
      /\ outcome' = [outcome EXCEPT ![d] = "ASSIGNED"]
      /\ count' = count
      /\ reservation' = [reservation EXCEPT ![a] = d]
      /\ invited' = invited \cup { <<a, d>> }
  BY DEF CommitReservation, End
<1>3. reservation[a] = None
  BY <1>2 DEF IInv, WinnerIsFirst, Reserved
<1>4. \A e \in Deliveries : pc'[e] = IF e = d THEN "done" ELSE pc[e]
  BY <1>2 DEF IInv, TypeOK
<1>5. \A b \in Apps : reservation'[b] = IF b = a THEN d ELSE reservation[b]
  BY <1>2 DEF IInv, TypeOK
<1>6. d # None
  BY SlotAssumption
<1>7. TypeOK'
  <2>1. pc' \in [Deliveries -> Steps] /\ outcome' \in [Deliveries -> Outcomes \cup { None }]
    BY <1>2 DEF IInv, TypeOK, Steps, Outcomes
  <2>2. reservation' \in [Apps -> Deliveries \cup { None }] /\ count' \in [Venues -> Nat]
    BY <1>1, <1>2 DEF IInv, TypeOK
  <2>3. invited' \subseteq Apps \X Deliveries
    BY <1>1, <1>2 DEF IInv, TypeOK
  <2>. QED
    BY <2>1, <2>2, <2>3 DEF TypeOK
<1>8. LockExclusive' /\ HasVenue'
  BY <1>4 DEF IInv, LockExclusive, HasVenue, InTransaction, Venue
<1>9. WinnerIsFirst'
  <2>. SUFFICES ASSUME NEW e \in Deliveries, pc'[e] = "commit"
                PROVE  reservation'[AppOf[e]] = None
    BY DEF WinnerIsFirst, Reserved
  <2>1. e # d /\ pc[e] = "commit" /\ AppOf[e] \in Apps
    BY <1>4, SlotAssumption
  <2>2. AppOf[e] # a
    BY <2>1, <1>2 DEF IInv, LockExclusive, InTransaction, Venue
  <2>. QED
    BY <2>1, <2>2, <1>5 DEF IInv, WinnerIsFirst, Reserved
<1>10. SeatsCounted'
  <2>1. Holders(u) # {} /\ Holders(u)' = {}
    BY <1>1, <1>2, <1>4 DEF IInv, LockExclusive, Holders, InTransaction, Venue
  <2>2. \A v \in Venues : v # u => Holders(v)' = Holders(v)
    BY <1>2, <1>4 DEF Holders, Venue
  <2>3. Placed(u)' = Placed(u) \cup {a} /\ a \notin Placed(u)
    BY <1>1, <1>3, <1>5, <1>6 DEF Placed
  <2>4. \A v \in Venues : v # u => Placed(v)' = Placed(v)
    BY <1>1, <1>5 DEF Placed
  <2>5. Cardinality(Placed(u)') = Cardinality(Placed(u)) + 1
    BY <2>3, PlacedFinite, FS_AddElement
  <2>6. Cardinality(Placed(u)) \in Nat
    BY PlacedFinite
  <2>7. ASSUME NEW v \in Venues
        PROVE  count'[v] = Cardinality(Placed(v)') + Occupied(v)'
    <3>1. CASE v = u
      BY <3>1, <1>1, <1>2, <2>1, <2>5, <2>6 DEF IInv, SeatsCounted, Occupied
    <3>2. CASE v # u
      BY <3>2, <1>2, <2>2, <2>4 DEF IInv, SeatsCounted, Occupied
    <3>. QED
      BY <3>1, <3>2
  <2>. QED
    BY <2>7 DEF SeatsCounted
<1>11. CapacityRespected'
  BY <1>2 DEF IInv, CapacityRespected
<1>12. OneTicketPerApplication'
  <2>1. ASSUME NEW m \in invited PROVE reservation'[m[1]] = m[2]
    <3>1. reservation[m[1]] = m[2] /\ m[1] \in Apps /\ m[2] \in Deliveries
      BY <2>1 DEF IInv, OneTicketPerApplication, TypeOK
    <3>2. m[1] # a
      BY <3>1, <1>3, SlotAssumption
    <3>. QED
      BY <3>1, <3>2, <1>5
  <2>2. reservation'[a] = d
    BY <1>1, <1>5
  <2>. QED
    BY <1>2, <2>1, <2>2 DEF OneTicketPerApplication
<1>. QED
  BY <1>7, <1>8, <1>9, <1>10, <1>11, <1>12 DEF IInv

\* Every step of a delivery, and every failure, preserves the invariant.
LEMMA StepInv ==
  ASSUME IInv, NEW d \in Deliveries, Advance(d) \/ Fail(d)
  PROVE  IInv'
<1>. USE DEF GoTo
<1>0. outcome \in [Deliveries -> Outcomes \cup { None }]
  BY DEF IInv, TypeOK
<1>1. CASE Deliver(d)
  BY <1>0, <1>1, QuietStep DEF Deliver, Steps, InTransaction
<1>2. CASE FindReservation(d)
  <2>1. CASE Reserved(d)
    BY <1>2, <2>1, AnswersFromRecord DEF FindReservation, InTransaction
  <2>2. CASE ~Reserved(d)
    BY <1>0, <1>2, <2>2, QuietStep DEF FindReservation, Steps, InTransaction
  <2>. QED
    BY <2>1, <2>2
<1>3. CASE ReadVenue(d)
  <2>1. CASE Venue(d) = None
    <3>1. outcome' \in [Deliveries -> Outcomes \cup { None }] /\ invited' = invited
      BY <1>0, <1>3, <2>1 DEF ReadVenue, End, Outcomes
    <3>. QED
      BY <1>3, <2>1, <3>1, QuietStep DEF ReadVenue, End, Steps, InTransaction
  <2>2. CASE Venue(d) # None
    <3>1. Venue(d) \in Venues
      BY <2>2, SlotAssumption DEF Venue
    <3>. QED
      BY <1>0, <1>3, <2>2, <3>1, QuietStep DEF ReadVenue, Steps, InTransaction
  <2>. QED
    BY <2>1, <2>2
<1>4. CASE ReadPrior(d)
  <2>1. CASE Reserved(d)
    BY <1>4, <2>1, AnswersFromRecord DEF ReadPrior, InTransaction
  <2>2. CASE ~Reserved(d)
    <3>1. Venue(d) \in Venues
      BY <1>4 DEF ReadPrior, IInv, HasVenue
    <3>. QED
      BY <1>0, <1>4, <2>2, <3>1, QuietStep DEF ReadPrior, Steps, InTransaction
  <2>. QED
    BY <2>1, <2>2
<1>5. CASE ReserveSeat(d)
  <2>1. CASE SeatFree(Venue(d))
    BY <1>5, <2>1, CountsSeat
  <2>2. CASE ~SeatFree(Venue(d))
    <3>1. Venue(d) \in Venues
      BY <1>5 DEF ReserveSeat, IInv, HasVenue
    <3>. QED
      BY <1>0, <1>5, <2>2, <3>1, QuietStep DEF ReserveSeat, Steps, InTransaction
  <2>. QED
    BY <2>1, <2>2
<1>6. CASE ReadRaced(d)
  <2>1. CASE Reserved(d)
    BY <1>6, <2>1, AnswersFromRecord DEF ReadRaced, InTransaction
  <2>2. CASE ~Reserved(d)
    <3>1. outcome' \in [Deliveries -> Outcomes \cup { None }] /\ invited' = invited
      BY <1>0, <1>6, <2>2 DEF ReadRaced, End, Outcomes
    <3>. QED
      BY <1>6, <2>2, <3>1, QuietStep DEF ReadRaced, End, Steps, InTransaction
  <2>. QED
    BY <2>1, <2>2
<1>7. CASE InsertReservation(d)
  <2>1. CASE Reserved(d)
    <3>1. /\ outcome' \in [Deliveries -> Outcomes \cup { None }]
          /\ invited' = invited \cup { <<AppOf[d], reservation[AppOf[d]]>> }
      BY <1>0, <1>7, <2>1 DEF InsertReservation, AlreadyAssigned, End, Outcomes
    <3>. QED
      BY <1>7, <2>1, <3>1, GivesSeatBack
      DEF InsertReservation, AlreadyAssigned, End, InTransaction
  <2>2. CASE ~Reserved(d)
    <3>1. Venue(d) \in Venues
      BY <1>7 DEF InsertReservation, IInv, HasVenue
    <3>. QED
      BY <1>0, <1>7, <2>2, <3>1, QuietStep DEF InsertReservation, Steps, InTransaction
  <2>. QED
    BY <2>1, <2>2
<1>8. CASE CommitReservation(d)
  BY <1>8, CommitsSeat
<1>9. CASE Fail(d)
  <2>1. CASE pc[d] \in InTransaction
    <3>1. \A v \in Venues : d \in Holders(v) <=> v = Venue(d)
      BY <2>1 DEF Holders, InTransaction
    <3>2. count' = [count EXCEPT ![Venue(d)] = @ - 1]
      BY <1>9, <3>1 DEF Fail, IInv, TypeOK
    <3>. QED
      BY <1>0, <1>9, <2>1, <3>2, GivesSeatBack DEF Fail
  <2>2. CASE pc[d] \notin InTransaction
    <3>1. \A v \in Venues : d \notin Holders(v)
      BY <2>2 DEF Holders, InTransaction
    <3>2. count' = count
      BY <1>9, <3>1 DEF Fail, IInv, TypeOK
    <3>. QED
      BY <1>0, <1>9, <2>2, <3>2, QuietStep DEF Fail, Steps, InTransaction
  <2>. QED
    BY <2>1, <2>2
<1>. QED
  BY <1>1, <1>2, <1>3, <1>4, <1>5, <1>6, <1>7, <1>8, <1>9 DEF Advance

\* Stuttering preserves the invariant.
LEMMA StutterInv ==
  ASSUME IInv, UNCHANGED vars
  PROVE  IInv'
<1>1. \A v : Holders(v)' = Holders(v) /\ Placed(v)' = Placed(v)
  BY DEF vars, Holders, Placed, Venue
<1>2. SeatsCounted'
  BY <1>1 DEF IInv, SeatsCounted, Occupied, vars
<1>. QED
  BY <1>2 DEF IInv, vars, TypeOK, LockExclusive, HasVenue, WinnerIsFirst, Reserved,
              Venue, CapacityRespected, OneTicketPerApplication

\* The inductive invariant holds throughout every behaviour of the scheduler.
THEOREM Invariance == Spec => []IInv
<1>1. IInv /\ [Next]_vars => IInv'
  BY StepInv, StutterInv DEF Next
<1>. QED
  BY <1>1, InitInv, PTL DEF Spec

\* The counters, the reservations and the announcements are always well typed:
\* in particular no release takes a counter below zero, so the guard of
\* release_campaign_venue_seat never raises.
THEOREM TypeCorrect == Spec => []TypeOK
<1>1. IInv => TypeOK
  BY DEF IInv
<1>. QED
  BY <1>1, Invariance, PTL

\* No interleaving of deliveries and rollbacks overbooks a venue.
THEOREM NeverOverbooked == Spec => []CapacityRespected
<1>1. IInv => CapacityRespected
  BY DEF IInv
<1>. QED
  BY <1>1, Invariance, PTL

\* registered_count is exact: races, lost inserts and rollbacks neither leak
\* nor lose a seat.
THEOREM SeatsExact == Spec => []SeatsMatchReservations
<1>1. IInv => SeatsMatchReservations
  <2>. SUFFICES ASSUME IInv, NEW v \in Venues
                PROVE  count[v] = Cardinality(Placed(v)) + Cardinality(Holders(v))
    BY DEF SeatsMatchReservations, Placed
  <2>1. \A d, e \in Holders(v) : d = e
    BY DEF IInv, LockExclusive, Holders, InTransaction
  <2>2. Cardinality(Holders(v)) = Occupied(v)
    BY <2>1, AtMostOne DEF Occupied
  <2>. QED
    BY <2>2 DEF IInv, SeatsCounted
<1>. QED
  BY <1>1, Invariance, PTL

\* The counter is exact and below the capacity, for any venues, capacities and
\* deliveries.
THEOREM ExactSeats == Spec => []SeatsAreExact
<1>1. CapacityRespected /\ SeatsMatchReservations => SeatsAreExact
  BY DEF SeatsAreExact
<1>. QED
  BY <1>1, NeverOverbooked, SeatsExact, PTL

\* Every invitation ever announced for an application carries the one ticket
\* its reservation records.
THEOREM OneInvitation == Spec => []OneTicketPerApplication
<1>1. IInv => OneTicketPerApplication
  BY DEF IInv
<1>. QED
  BY <1>1, Invariance, PTL

\* A clearance is answered NO_CAPACITY only while its application has no seat: a
\* delivery that lost the last seat to its own twin answers with the twin's ticket.
THEOREM FullForTheUnplaced == Spec => FullOnlyForTheUnplaced
<1>1. ASSUME IInv, NEW d \in Deliveries, NEW e \in Deliveries, Advance(e) \/ Fail(e),
             outcome'[d] = "NO_CAPACITY", outcome[d] # "NO_CAPACITY"
      PROVE  ~Reserved(d)
  <2>1. outcome \in [Deliveries -> Outcomes \cup { None }]
    BY <1>1 DEF IInv, TypeOK
  <2>2. ASSUME NEW kind, kind # "NO_CAPACITY", outcome' = [outcome EXCEPT ![e] = kind]
        PROVE  FALSE
    BY <1>1, <2>1, <2>2
  <2>3. outcome' # outcome
    BY <1>1
  <2>4. ReadRaced(e)
    <3>1. ~Deliver(e) /\ ~ReserveSeat(e) /\ ~Fail(e)
      BY <2>3 DEF Deliver, ReserveSeat, Fail, GoTo
    <3>2. ~FindReservation(e) /\ ~ReadPrior(e) /\ ~InsertReservation(e)
      BY <2>2, <2>3 DEF FindReservation, ReadPrior, InsertReservation, AlreadyAssigned, End, GoTo
    <3>3. ~ReadVenue(e) /\ ~CommitReservation(e)
      BY <2>2, <2>3 DEF ReadVenue, CommitReservation, End, GoTo
    <3>. QED
      BY <1>1, <3>1, <3>2, <3>3 DEF Advance
  <2>5. ~Reserved(e) /\ outcome' = [outcome EXCEPT ![e] = "NO_CAPACITY"]
    BY <2>2, <2>4 DEF ReadRaced, AlreadyAssigned, End
  <2>6. d = e
    BY <1>1, <2>1, <2>5
  <2>. QED
    BY <2>5, <2>6
<1>2. ASSUME IInv, [Next]_vars
      PROVE  [\A d \in Deliveries :
                outcome'[d] = "NO_CAPACITY" /\ outcome[d] # "NO_CAPACITY" => ~Reserved(d)]_vars
  BY <1>1, <1>2 DEF Next
<1>. QED
  BY <1>2, Invariance, PTL DEF Spec, FullOnlyForTheUnplaced
=============================================================================
