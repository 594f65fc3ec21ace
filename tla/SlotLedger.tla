----------------------------- MODULE SlotLedger -----------------------------
(***************************************************************************)
(* scheduling-service: concurrent deliveries of clearances compete for the *)
(* seats of the exam venues (assign-slot.service.ts, the slot ledger and   *)
(* the seat functions of rls/0027).                                        *)
(*                                                                         *)
(* Clearances are delivered at least once and by several consumers, so two *)
(* deliveries of one clearance may run side by side.  Every statement is a *)
(* step; reserve() is one transaction that holds the venue's row from the  *)
(* seat it counted until it ends.  A campaign's sessions are configured    *)
(* while it is a draft, before any clearance exists, so the venues and     *)
(* their capacities are constants here.                                    *)
(*                                                                         *)
(* The ticket that a delivery mints is identified with the delivery.       *)
(***************************************************************************)
EXTENDS Integers, FiniteSets

CONSTANTS
  Deliveries,  \* deliveries of APPLICATION_ELIGIBILITY_CLEARED
  Apps,        \* the applications they clear
  AppOf,       \* the application of each delivery
  Venues,      \* active venues
  VenueOf,     \* the venue of the applicant's home district, or None
  Capacity,    \* capacity_limit of each venue, or None when unbounded
  None

ASSUME SlotAssumption ==
  /\ IsFiniteSet(Apps)
  /\ AppOf \in [Deliveries -> Apps]
  /\ VenueOf \in [Apps -> Venues \cup { None }]
  /\ Capacity \in [Venues -> (Nat \ {0}) \cup { None }]
  /\ None \notin Deliveries \cup Venues \cup Nat

VARIABLES
  pc,           \* the next statement of each delivery
  outcome,      \* how assign() ended
  count,        \* registered_count of each venue
  reservation,  \* the ticket of each application in slot_reservations
  invited       \* SLOT_ASSIGNED events handed to the transport: <<application, ticket>>

vars == <<pc, outcome, count, reservation, invited>>

Steps == { "idle", "find", "venue", "prior", "seat", "raced", "insert", "commit", "done" }
Outcomes == { "ASSIGNED", "ALREADY_ASSIGNED", "NO_VENUE", "NO_CAPACITY" }

Venue(d) == VenueOf[AppOf[d]]

\* Deliveries whose transaction holds the row of venue v, with a seat counted.
Holders(v) == { d \in Deliveries : pc[d] \in { "insert", "commit" } /\ Venue(d) = v }

Reserved(d) == reservation[AppOf[d]] # None

Init ==
  /\ pc = [d \in Deliveries |-> "idle"]
  /\ outcome = [d \in Deliveries |-> None]
  /\ count = [v \in Venues |-> 0]
  /\ reservation = [a \in Apps |-> None]
  /\ invited = {}

GoTo(d, step) ==
  /\ pc' = [pc EXCEPT ![d] = step]
  /\ UNCHANGED <<outcome, invited>>

\* assign() ends and the consumer acknowledges; tickets are the announcements
\* dispatched on the way out.
End(d, kind, tickets) ==
  /\ pc' = [pc EXCEPT ![d] = "done"]
  /\ outcome' = [outcome EXCEPT ![d] = kind]
  /\ invited' = invited \cup ({ AppOf[d] } \X tickets)

\* The decision of record is announced again, verbatim.
AlreadyAssigned(d) == End(d, "ALREADY_ASSIGNED", { reservation[AppOf[d]] })

----------------------------------------------------------------------------
(* The steps of one delivery *)

Deliver(d) ==
  /\ pc[d] = "idle"
  /\ GoTo(d, "find")
  /\ UNCHANGED <<count, reservation>>

\* Mutant: a redelivery mints and announces a ticket of its own (before ADR-026).
MutFindReservation(d) ==
  /\ pc[d] = "find"
  /\ IF Reserved(d) THEN End(d, "ASSIGNED", {d}) ELSE GoTo(d, "venue")
  /\ UNCHANGED <<count, reservation>>

\* 0. Decided before?
FindReservation(d) ==
  /\ pc[d] = "find"
  /\ IF Reserved(d) THEN AlreadyAssigned(d) ELSE GoTo(d, "venue")
  /\ UNCHANGED <<count, reservation>>

\* Mutant: a district without a venue is an error, and so retried forever.
MutReadVenue(d) ==
  /\ pc[d] = "venue"
  /\ IF Venue(d) = None THEN GoTo(d, "find") ELSE GoTo(d, "prior")
  /\ UNCHANGED <<count, reservation>>

\* The venue of the home district.  Without one (or without a district) the
\* placement is deferred; otherwise a ticket is minted.
ReadVenue(d) ==
  /\ pc[d] = "venue"
  /\ IF Venue(d) = None THEN End(d, "NO_VENUE", {}) ELSE GoTo(d, "prior")
  /\ UNCHANGED <<count, reservation>>

\* reserve(), 1. Already decided.
ReadPrior(d) ==
  /\ pc[d] = "prior"
  /\ IF Reserved(d) THEN AlreadyAssigned(d) ELSE GoTo(d, "seat")
  /\ UNCHANGED <<count, reservation>>

\* The conditional update's predicate.
SeatFree(v) == Capacity[v] = None \/ count[v] < Capacity[v]

\* reserve(), 2. Count a seat.  The update waits for the row lock.
ReserveSeat(d) ==
  /\ pc[d] = "seat"
  /\ Holders(Venue(d)) = {}
  /\ IF SeatFree(Venue(d))
       THEN GoTo(d, "insert") /\ count' = [count EXCEPT ![Venue(d)] = @ + 1]
       ELSE GoTo(d, "raced") /\ UNCHANGED count
  /\ UNCHANGED reservation

\* Mutant: a full venue is full for everybody.
MutReadRaced(d) ==
  /\ pc[d] = "raced"
  /\ End(d, "NO_CAPACITY", {})
  /\ UNCHANGED <<count, reservation>>

\* No seat: full, unless a concurrent delivery of this clearance took the last.
ReadRaced(d) ==
  /\ pc[d] = "raced"
  /\ IF Reserved(d) THEN AlreadyAssigned(d) ELSE End(d, "NO_CAPACITY", {})
  /\ UNCHANGED <<count, reservation>>

\* Mutant: the seat of the losing delivery is not given back.
MutInsertReservation(d) ==
  /\ pc[d] = "insert"
  /\ IF Reserved(d) THEN AlreadyAssigned(d) ELSE GoTo(d, "commit")
  /\ UNCHANGED <<count, reservation>>

\* reserve(), 3. Insert the reservation.  On conflict the seat is released,
\* the row still locked, and the winner's ticket is the answer.
InsertReservation(d) ==
  /\ pc[d] = "insert"
  /\ IF Reserved(d)
       THEN AlreadyAssigned(d) /\ count' = [count EXCEPT ![Venue(d)] = @ - 1]
       ELSE GoTo(d, "commit") /\ UNCHANGED count
  /\ UNCHANGED reservation

\* reserve(), 4. Stage SLOT_ASSIGNED and commit.
CommitReservation(d) ==
  /\ pc[d] = "commit"
  /\ reservation' = [reservation EXCEPT ![AppOf[d]] = d]
  /\ End(d, "ASSIGNED", {d})
  /\ UNCHANGED count

\* A fault or a crash: the transaction is rolled back and the clearance, not
\* acknowledged, is delivered again.
Fail(d) ==
  /\ pc[d] \notin { "idle", "done" }
  /\ GoTo(d, "idle")
  /\ count' = [v \in Venues |-> IF d \in Holders(v) THEN count[v] - 1 ELSE count[v]]
  /\ UNCHANGED reservation

Advance(d) ==
  \/ Deliver(d) \/ FindReservation(d) \/ ReadVenue(d) \/ ReadPrior(d)
  \/ ReserveSeat(d) \/ ReadRaced(d) \/ InsertReservation(d) \/ CommitReservation(d)

Next == \E d \in Deliveries : Advance(d) \/ Fail(d)

Spec == Init /\ [][Next]_vars

\* Consumers keep working; a waiter of the venue row is served in turn (the
\* row-lock queue is first come, first served), hence strong fairness.
FairSpec == Spec /\ \A d \in Deliveries : SF_vars(Advance(d))

----------------------------------------------------------------------------
(* Properties *)

\* Control state, counters and reservations keep their types.
TypeOK ==
  /\ pc \in [Deliveries -> Steps]
  /\ outcome \in [Deliveries -> Outcomes \cup { None }]
  /\ count \in [Venues -> Nat]
  /\ reservation \in [Apps -> Deliveries \cup { None }]
  /\ invited \subseteq Apps \X Deliveries

\* No venue is ever overbooked, uncommitted seats included.
CapacityRespected ==
  \A v \in Venues : Capacity[v] # None => count[v] <= Capacity[v]

\* The counter neither leaks nor loses a seat: it is the number of committed
\* reservations at the venue plus the seat of the transaction that holds the
\* row, after races, lost inserts and rollbacks.
SeatsMatchReservations ==
  \A v \in Venues :
    count[v] = Cardinality({ a \in Apps : VenueOf[a] = v /\ reservation[a] # None })
                 + Cardinality(Holders(v))

\* An applicant never holds two invitations (ADR-026): every SLOT_ASSIGNED
\* announced for an application carries the ticket of its reservation.
OneTicketPerApplication ==
  \A m \in invited : reservation[m[1]] = m[2]

\* A clearance answered NO_CAPACITY belongs to an application that had no seat
\* then: the delivery that lost the last seat to its own twin is not told that
\* the venue is full.
FullOnlyForTheUnplaced ==
  [][\A d \in Deliveries :
       outcome'[d] = "NO_CAPACITY" /\ outcome[d] # "NO_CAPACITY" => ~Reserved(d)]_vars

\* Every clearance is answered, unless its handler keeps failing.
EveryClearanceAnswered ==
  \A d \in Deliveries : []<><<Fail(d)>>_vars \/ <>(pc[d] = "done")

\* The counter of a venue is exact, and never above its capacity.
SeatsAreExact == CapacityRespected /\ SeatsMatchReservations
=============================================================================
