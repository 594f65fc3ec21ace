---------------------------- MODULE Applications ----------------------------
(***************************************************************************)
(* application-service as the single writer of application state, and the  *)
(* messages that drive it.                                                 *)
(*                                                                         *)
(* Every handler of the service is one database transaction that reads the *)
(* application row FOR UPDATE, so every handler is one action.  What is    *)
(* not atomic is the messaging around it:                                  *)
(*                                                                         *)
(*   - outbox holds the events staged inside a transaction; the relay or   *)
(*     the dispatcher publishes them later, at least once;                 *)
(*   - unsent holds the events a handler publishes directly after its      *)
(*     commit; a crash or a broker refusal in between loses them;          *)
(*   - inbox holds the deliveries a consumer group has not yet             *)
(*     acknowledged.  A handler may run without acknowledging: that is a   *)
(*     redelivery to come (rebalance, retry, dead-letter replay).          *)
(*                                                                         *)
(* Vetting verdicts, document verdicts and captured scores come from other *)
(* services and may arrive at any time, in any order and repeatedly: they  *)
(* are inputs.  Of the append-only status history a row keeps what the     *)
(* code reads back from it.                                                *)
(***************************************************************************)
EXTENDS Lifecycle, FiniteSets

CONSTANTS
  Apps,              \* applications that may be filed
  Citizens,          \* natural persons
  CitizenOf,         \* the applicant of each application
  AgencyOf,          \* the agency whose schema holds each application
  Campaigns,         \* recruitment campaigns
  CampaignOf,        \* the campaign each application is filed in
  LegacyCampaigns,   \* campaigns left EXAMINATION_ACTIVE by earlier releases
  EndingCampaigns,   \* campaigns an administrator may close and complete
  Officers,          \* officers who may act
  OfficerAgency,     \* the agency of each officer
  AgeVerdicts, AcademicVerdicts, CriminalVerdicts,  \* verdicts that arrive
  ForensicsLanes,    \* document verdicts that arrive
  WalkInOpen,        \* whether a walk-in campaign is open
  ClearanceContentReviewAdmitsToExam,
  FinalDecisionExcludesMedicalReviewer,
  AcceptExcludesFinalDecider,
  ClearanceReviewExcludesAccepter,
  None

Agencies == { "RDF", "RNP", "RCS" }

ASSUME ConstantsAssumption ==
  /\ CitizenOf \in [Apps -> Citizens]
  /\ AgencyOf \in [Apps -> Agencies]
  /\ CampaignOf \in [Apps -> Campaigns]
  /\ LegacyCampaigns \subseteq Campaigns
  /\ EndingCampaigns \subseteq Campaigns
  /\ OfficerAgency \in [Officers -> Agencies]
  /\ AgeVerdicts \subseteq GateStatuses
  /\ AcademicVerdicts \subseteq GateStatuses
  /\ CriminalVerdicts \subseteq CriminalStatuses
  /\ ForensicsLanes \subseteq { "GREEN", "AMBER", "RED" }
  /\ WalkInOpen \in BOOLEAN
  /\ ClearanceContentReviewAdmitsToExam \in BOOLEAN
  /\ FinalDecisionExcludesMedicalReviewer \in BOOLEAN
  /\ AcceptExcludesFinalDecider \in BOOLEAN
  /\ ClearanceReviewExcludesAccepter \in BOOLEAN
  /\ None \notin Statuses \cup Agencies \cup Officers \cup { "SYSTEM" }

VARIABLES
  row,      \* the application rows, all agencies
  lock,     \* cross_agency_locked_by_agency of each citizen's identity row
  outbox,   \* staged events not yet stamped published
  unsent,   \* events committed handlers have still to publish themselves
  inbox,    \* deliveries not yet acknowledged, as <<consumer group, application>>
  reserved, \* applications with a row in scheduling's slot_reservations
  campaignStatus  \* status of each row of recruitment_campaigns

vars == <<row, lock, outbox, unsent, inbox, reserved, campaignStatus>>

\* A campaign that is published and not cancelled: a draft takes no application,
\* and a campaign with an application is never cancelled.
CampaignStatuses ==
  { "REGISTRATION_OPEN", "REGISTRATION_CLOSED", "EXAMINATION_ACTIVE", "COMPLETED" }

\* The campaign of the application can still hold an exam.
CanHoldExam(a) == campaignStatus[CampaignOf[a]] \in CampaignStatuses \ { "COMPLETED" }

Topics == { "CLEARED", "SLOT_ASSIGNED", "NOTIFICATION_DELIVERED", "ACCEPTED" }

Groups == { "scheduling", "application-slot", "notification",
            "application-notification", "application-accepted" }

\* The consumer groups subscribed to each topic.
Subscribers ==
  [ CLEARED |-> { "scheduling" },
    SLOT_ASSIGNED |-> { "application-slot", "notification" },
    NOTIFICATION_DELIVERED |-> { "application-notification" },
    ACCEPTED |-> { "application-accepted" } ]

Announce(topic, a) == Subscribers[topic] \X {a}

Acknowledge(m, ack) == IF ack THEN inbox \ {m} ELSE inbox

\* A row of <agency>_ops.applications with what later reads of its history
\* return: heldFrom is from_status of the latest entry into
\* ADJUDICATION_REVIEW, intoMedicalBy is performed_by of the latest entry into
\* MEDICAL_REVIEW, acceptedBy is performed_by of the entry into ACCEPTED.
\* medicalBy (who carried out the medical review) and dismissed (the
\* disqualifying flags on the row when an officer last lifted an adjudication
\* hold) are history variables: no guard reads them.
Row ==
  [ status : Statuses \cup { "ABSENT" }, walkIn : BOOLEAN,
    age : GateStatuses, academic : GateStatuses, nesaReview : BOOLEAN,
    criminal : CriminalStatuses, slot : BOOLEAN,
    resolvedDims : SUBSET VettingDimensions, resolvers : SUBSET Officers,
    heldFrom : Statuses \cup { None },
    intoMedicalBy : Officers \cup { "SYSTEM", None },
    finalBy : Officers \cup { None }, acceptedBy : Officers \cup { None },
    medicalBy : Officers \cup { None },
    dismissed : SUBSET (Dimensions \X (GateStatuses \cup CriminalStatuses)) ]

NewRow ==
  [ status |-> "ABSENT", walkIn |-> FALSE, age |-> "PENDING",
    academic |-> "PENDING", nesaReview |-> FALSE, criminal |-> "PENDING",
    slot |-> FALSE, resolvedDims |-> {}, resolvers |-> {}, heldFrom |-> None,
    intoMedicalBy |-> None, finalBy |-> None, acceptedBy |-> None,
    medicalBy |-> None, dismissed |-> {} ]

Filed(a) == row[a].status # "ABSENT"
Live(a) == Filed(a) /\ row[a].status \notin Terminal

\* Mutant: only the accepting agency's own schema is searched.
MutSiblings(a) ==
  { b \in Apps \ {a} : CitizenOf[b] = CitizenOf[a] /\ AgencyOf[b] = AgencyOf[a] }

\* The other applications of the applicant, in every agency.
Siblings(a) == { b \in Apps \ {a} : CitizenOf[b] = CitizenOf[a] }

\* Write the status and append the history entry (from, to, performed_by).
\* Nothing is appended when the status stays.
Move(r, to, by) ==
  [r EXCEPT !.status = to,
            !.heldFrom = IF to = "ADJUDICATION_REVIEW" /\ r.status # to
                           THEN r.status ELSE @,
            !.intoMedicalBy = IF to = "MEDICAL_REVIEW" /\ r.status # to
                                THEN by ELSE @]

\* An application event that announces a transition INTO green, and only that.
ClearedEvent(a, to) ==
  IF to = "DOCUMENT_REVIEW_GREEN" /\ row[a].status # to
    THEN { <<"CLEARED", a>> } ELSE {}

\* clearedToGreen: an officer's CLEAR that leaves the row at green announces
\* it, also when the row was green before.
ClearedByOfficer(a, to) ==
  IF to = "DOCUMENT_REVIEW_GREEN" THEN { <<"CLEARED", a>> } ELSE {}

\* contentOnly as both repositories read it: FALSE unless the policy is on.
ContentOnlyReadings == IF ClearanceContentReviewAdmitsToExam THEN BOOLEAN ELSE { FALSE }

Init ==
  /\ row = [a \in Apps |-> NewRow]
  /\ lock = [c \in Citizens |-> None]
  /\ outbox = {}
  /\ unsent = {}
  /\ inbox = {}
  /\ reserved = {}
  /\ campaignStatus = [c \in Campaigns |->
       IF c \in LegacyCampaigns THEN "EXAMINATION_ACTIVE" ELSE "REGISTRATION_OPEN"]

----------------------------------------------------------------------------
(* The front doors *)

FileApplication(a) ==
  /\ campaignStatus[CampaignOf[a]] = "REGISTRATION_OPEN"
  /\ row[a].status = "ABSENT"
  /\ row' = [row EXCEPT ![a].status = "SUBMITTED"]
  /\ UNCHANGED <<lock, outbox, unsent, inbox, reserved, campaignStatus>>

\* The walk-in lane exists in rdf_ops only.
CreateWalkInApplication(a) ==
  /\ WalkInOpen
  /\ CanHoldExam(a)
  /\ AgencyOf[a] = "RDF"
  /\ row[a].status = "ABSENT"
  /\ row' = [row EXCEPT ![a].status = "WALK_IN_REGISTERED", ![a].walkIn = TRUE]
  /\ UNCHANGED <<lock, outbox, unsent, inbox, reserved, campaignStatus>>

VetOnSite(a) ==
  /\ row[a].status = "WALK_IN_REGISTERED"
  /\ row[a].age # "PENDING"
  /\ row' = [row EXCEPT ![a] =
       Move(@, IF row[a].age = "ELIGIBLE"
                 THEN "WALK_IN_ON_SITE_VETTING" ELSE "WALK_IN_REJECTED", "SYSTEM")]
  /\ UNCHANGED <<lock, outbox, unsent, inbox, reserved, campaignStatus>>

----------------------------------------------------------------------------
(* The campaign's life: neither command looks at the applications on file *)

CloseRegistration(c) ==
  /\ c \in EndingCampaigns
  /\ campaignStatus[c] = "REGISTRATION_OPEN"
  /\ campaignStatus' = [campaignStatus EXCEPT ![c] = "REGISTRATION_CLOSED"]
  /\ UNCHANGED <<row, lock, outbox, unsent, inbox, reserved>>

CompleteCampaign(c) ==
  /\ c \in EndingCampaigns
  /\ campaignStatus[c] \in { "REGISTRATION_CLOSED", "EXAMINATION_ACTIVE" }
  /\ campaignStatus' = [campaignStatus EXCEPT ![c] = "COMPLETED"]
  /\ UNCHANGED <<row, lock, outbox, unsent, inbox, reserved>>

----------------------------------------------------------------------------
(* Projections of other services' events *)

\* applyVettingResult: new is the row with one dimension's column replaced.
ApplyVettingResult(a, dim, new, contentOnly) ==
  LET to == DeriveStatus(row[a].status, new, contentOnly)
  IN  /\ Filed(a)
      /\ ~DecidedByHuman(row[a].resolvedDims, dim)
      /\ new # row[a] \/ to # row[a].status
      /\ row' = [row EXCEPT ![a] = Move(new, to, "SYSTEM")]
      /\ outbox' = outbox \cup ClearedEvent(a, to)
      /\ UNCHANGED <<lock, unsent, inbox, reserved, campaignStatus>>

ApplyAgeVerdict(a) ==
  \E v \in AgeVerdicts, c \in ContentOnlyReadings :
    ApplyVettingResult(a, "AGE", [row[a] EXCEPT !.age = v], c)

\* Only a PENDING verdict carries NESA_REVIEW_REQUIRED as its failure code.
ApplyAcademicVerdict(a) ==
  \E v \in AcademicVerdicts, n \in BOOLEAN, c \in ContentOnlyReadings :
    /\ n => v = "PENDING"
    /\ ApplyVettingResult(a, "ACADEMIC",
         [row[a] EXCEPT !.academic = v, !.nesaReview = n], c)

ApplyCriminalVerdict(a) ==
  \E v \in CriminalVerdicts, c \in ContentOnlyReadings :
    ApplyVettingResult(a, "CRIMINAL", [row[a] EXCEPT !.criminal = v], c)

\* A slot is assignable from green only; the same assignment again, or a row
\* that moved on, changes nothing and is acknowledged all the same.
ApplySlotAssignment(a, ack) ==
  LET m == <<"application-slot", a>>
  IN  /\ m \in inbox
      /\ row' = IF row[a].status = "DOCUMENT_REVIEW_GREEN"
                  THEN [row EXCEPT ![a] =
                         [Move(@, "SLOT_ASSIGNED", "SYSTEM") EXCEPT !.slot = TRUE]]
                  ELSE row
      /\ inbox' = Acknowledge(m, ack)
      /\ UNCHANGED <<lock, outbox, unsent, reserved, campaignStatus>>

\* Mutant: a report about any row with a slot schedules it again.
MutApplyNotificationDelivery(a, ack) ==
  LET m == <<"application-notification", a>>
  IN  /\ m \in inbox
      /\ row' = IF row[a].slot /\ Live(a) /\ row[a].status # "ADJUDICATION_REVIEW"
                  THEN [row EXCEPT ![a] =
                         Move(@, "PHYSICAL_TEST_SCHEDULED", "SYSTEM")]
                  ELSE row
      /\ inbox' = Acknowledge(m, ack)
      /\ UNCHANGED <<lock, outbox, unsent, reserved, campaignStatus>>

ApplyNotificationDelivery(a, ack) ==
  LET m == <<"application-notification", a>>
  IN  /\ m \in inbox
      /\ row' = IF row[a].status = "SLOT_ASSIGNED"
                  THEN [row EXCEPT ![a] =
                         Move(@, "PHYSICAL_TEST_SCHEDULED", "SYSTEM")]
                  ELSE row
      /\ inbox' = Acknowledge(m, ack)
      /\ UNCHANGED <<lock, outbox, unsent, reserved, campaignStatus>>

\* What the transaction reads of the other tables on exam day: an unresolved
\* capture conflict, an established identity, the score the event names.
FieldFacts == [conflict : BOOLEAN, identified : BOOLEAN, scored : BOOLEAN]

ApplyPhysicalTestComplete(a) ==
  \E f \in FieldFacts :
    /\ row[a].status = IF row[a].walkIn THEN "WALK_IN_ON_SITE_VETTING"
                                        ELSE "PHYSICAL_TEST_SCHEDULED"
    /\ ~f.conflict
    /\ row[a].walkIn \/ f.identified
    /\ f.scored
    /\ row' = [row EXCEPT ![a] =
         Move(@, IF row[a].walkIn THEN "WALK_IN_PHYSICAL_TEST"
                                  ELSE "PHYSICAL_TEST_COMPLETE", "SYSTEM")]
    /\ UNCHANGED <<lock, outbox, unsent, inbox, reserved, campaignStatus>>

ApplyForensicsRouting(a) ==
  \E lane \in ForensicsLanes :
    LET to == ForensicsTarget(row[a].status, lane)
    IN  /\ Filed(a)
        /\ row[a].status \notin { "REJECTED", "WITHDRAWN", "ACCEPTED" }
        /\ to # row[a].status
        /\ row' = [row EXCEPT ![a] = Move(@, to, "SYSTEM")]
        /\ UNCHANGED <<lock, outbox, unsent, inbox, reserved, campaignStatus>>

\* The acceptance retires every other live application of the citizen, in all
\* agencies, in one transaction.
WithdrawSiblings(a, ack) ==
  LET m == <<"application-accepted", a>>
  IN  /\ m \in inbox
      /\ row' = [b \in Apps |->
           IF b \in Siblings(a) /\ Live(b)
             THEN Move(row[b], "WITHDRAWN", "SYSTEM") ELSE row[b]]
      /\ inbox' = Acknowledge(m, ack)
      /\ UNCHANGED <<lock, outbox, unsent, reserved, campaignStatus>>

----------------------------------------------------------------------------
(* The applicant and the officers *)

WithdrawOwn(a) ==
  /\ Live(a)
  /\ row' = [row EXCEPT ![a] = Move(@, "WITHDRAWN", "APPLICANT")]
  /\ UNCHANGED <<lock, outbox, unsent, inbox, reserved, campaignStatus>>

\* An officer's database role reaches the rows of the officer's own agency.
ActsOn(o, a) == OfficerAgency[o] = AgencyOf[a]

MedicalReview(a, o) ==
  \E fit \in BOOLEAN :
    /\ ActsOn(o, a)
    /\ row[a].status \in { "PHYSICAL_TEST_COMPLETE", "WALK_IN_PHYSICAL_TEST" }
    /\ row' = [row EXCEPT ![a] =
         [Move(@, IF fit THEN "MEDICAL_REVIEW" ELSE "REJECTED", o)
            EXCEPT !.medicalBy = o]]
    /\ UNCHANGED <<lock, outbox, unsent, inbox, reserved, campaignStatus>>

\* Mutant: the final decision may be signed by whoever entered the stage.
MutFinalDecision(a, o) ==
  \E shortlist \in BOOLEAN :
    /\ ActsOn(o, a)
    /\ row[a].status = "MEDICAL_REVIEW"
    /\ row' = [row EXCEPT ![a] =
         [Move(@, IF shortlist THEN "FINAL_SHORTLIST" ELSE "REJECTED", o)
            EXCEPT !.finalBy = o]]
    /\ UNCHANGED <<lock, outbox, unsent, inbox, reserved, campaignStatus>>

FinalDecision(a, o) ==
  \E shortlist \in BOOLEAN :
    /\ ActsOn(o, a)
    /\ row[a].status = "MEDICAL_REVIEW"
    /\ FinalDecisionExcludesMedicalReviewer => row[a].intoMedicalBy # o
    /\ row' = [row EXCEPT ![a] =
         [Move(@, IF shortlist THEN "FINAL_SHORTLIST" ELSE "REJECTED", o)
            EXCEPT !.finalBy = o]]
    /\ UNCHANGED <<lock, outbox, unsent, inbox, reserved, campaignStatus>>

\* Mutant: the vetting-hold resolvers are forgotten.
MutAcceptSeparated(a, o) == AcceptExcludesFinalDecider => row[a].finalBy # o

\* Neither (by policy) the final decider nor a resolver of a vetting hold.
AcceptSeparated(a, o) ==
  /\ AcceptExcludesFinalDecider => row[a].finalBy # o
  /\ ClearanceReviewExcludesAccepter => o \notin row[a].resolvers

\* Mutant: only a lock of another application of the same agency refuses.
MutAcceptLockFree(a) == lock[CitizenOf[a]] # AgencyOf[a]

\* The citizen's identity row, the one cell all agencies contend on, is free.
AcceptLockFree(a) == lock[CitizenOf[a]] = None

Accept(a, o) ==
  LET citizen == CitizenOf[a]
  IN  /\ ActsOn(o, a)
      /\ row[a].status = "FINAL_SHORTLIST"
      /\ AdjudicationLanes(row[a]) = {}
      /\ AcceptSeparated(a, o)
      /\ AcceptLockFree(a)
      /\ lock' = [lock EXCEPT ![citizen] = AgencyOf[a]]
      /\ row' = [row EXCEPT ![a] =
           [Move(@, "ACCEPTED", o) EXCEPT !.acceptedBy = o]]
      /\ unsent' = unsent \cup { <<"ACCEPTED", a>> }
      /\ UNCHANGED <<outbox, inbox, reserved, campaignStatus>>

\* adjudicate, decision REJECT: the lane named must be one the row is held in.
AdjudicateReject(a, o) ==
  \E lane \in AdjudicationLanes(row[a]) :
    /\ ActsOn(o, a)
    /\ Filed(a)
    /\ row' = [row EXCEPT ![a] = Move(@, "REJECTED", o)]
    /\ UNCHANGED <<lock, outbox, unsent, inbox, reserved, campaignStatus>>

\* adjudicate, decision CLEAR, lane DOCUMENT, on an amber document hold: the
\* vetting evidence decides where the row lands.
ClearAmber(a, o) ==
  \E c \in ContentOnlyReadings :
    LET to == DeriveStatus("SUBMITTED", row[a], c)
    IN  /\ ActsOn(o, a)
        /\ row[a].status = "DOCUMENT_REVIEW_AMBER"
        /\ row' = [row EXCEPT ![a] = Move(@, to, o)]
        /\ unsent' = unsent \cup ClearedByOfficer(a, to)
        /\ UNCHANGED <<lock, outbox, inbox, reserved, campaignStatus>>

\* adjudicate, decision CLEAR, lane DOCUMENT, on a late-disqualification hold:
\* the stage the row held when the flag arrived is restored from the history.
ClearAdjudication(a, o) ==
  LET to == row[a].heldFrom
  IN  /\ ActsOn(o, a)
      /\ row[a].status = "ADJUDICATION_REVIEW"
      /\ to \notin { None, "ADJUDICATION_REVIEW" }
      /\ row' = [row EXCEPT ![a] =
           [Move(@, to, o) EXCEPT !.dismissed = HardFlags(row[a])]]
      /\ unsent' = unsent \cup ClearedByOfficer(a, to)
      /\ UNCHANGED <<lock, outbox, inbox, reserved, campaignStatus>>

\* adjudicate, decision CLEAR, lane CRIMINAL or ACADEMIC: record the verdict
\* and the resolution; the status moves unless another hold still blocks it.
ClearDimension(a, o, dim) ==
  \E c \in ContentOnlyReadings :
    LET new == [(IF dim = "CRIMINAL"
                   THEN [row[a] EXCEPT !.criminal = "CLEARED"]
                   ELSE [row[a] EXCEPT !.academic = "ELIGIBLE"])
                  EXCEPT !.resolvedDims = @ \cup {dim},
                         !.resolvers = @ \cup {o}]
        blocking == { l \in AdjudicationLanes(row[a]) \ {dim} :
                        ~(l = "CRIMINAL" /\ c) }
        to == IF blocking # {} THEN row[a].status
              ELSE DeriveStatus(row[a].status, new, c)
    IN  /\ ActsOn(o, a)
        /\ Filed(a)
        /\ dim \in AdjudicationLanes(row[a])
        /\ row' = [row EXCEPT ![a] = Move(new, to, o)]
        /\ unsent' = unsent \cup ClearedByOfficer(a, to)
        /\ UNCHANGED <<lock, outbox, inbox, reserved, campaignStatus>>

----------------------------------------------------------------------------
(* Messaging, scheduling and notification around the rows *)

\* The relay (or the dispatcher) publishes a staged event; without the stamp
\* the row stays pending and is published again.
PublishStaged(m, stamped) ==
  /\ m \in outbox
  /\ inbox' = inbox \cup Announce(m[1], m[2])
  /\ outbox' = IF stamped THEN outbox \ {m} ELSE outbox
  /\ UNCHANGED <<row, lock, unsent, reserved, campaignStatus>>

\* The handler publishes after its commit, without the outbox.
PublishDirect(m) ==
  /\ m \in unsent
  /\ inbox' = inbox \cup Announce(m[1], m[2])
  /\ unsent' = unsent \ {m}
  /\ UNCHANGED <<row, lock, outbox, reserved, campaignStatus>>

\* The process dies, or the broker refuses, between the commit and the publish.
LosePublish(m) ==
  /\ m \in unsent
  /\ unsent' = unsent \ {m}
  /\ UNCHANGED <<row, lock, outbox, inbox, reserved, campaignStatus>>

\* Mutant: the sweep looks for rows that already have a slot.
MutReannounceStalledClearance(a) ==
  /\ row[a].status = "DOCUMENT_REVIEW_GREEN"
  /\ row[a].slot
  /\ CanHoldExam(a)
  /\ outbox' = outbox \cup { <<"CLEARED", a>> }
  /\ UNCHANGED <<row, lock, unsent, inbox, reserved, campaignStatus>>

\* The sweep re-announces a clearance stalled at green without a slot, while
\* the campaign can hold an exam.
ReannounceStalledClearance(a) ==
  /\ row[a].status = "DOCUMENT_REVIEW_GREEN"
  /\ ~row[a].slot
  /\ CanHoldExam(a)
  /\ outbox' = outbox \cup { <<"CLEARED", a>> }
  /\ UNCHANGED <<row, lock, unsent, inbox, reserved, campaignStatus>>

\* scheduling-service places the applicant, or re-announces the reservation it
\* already holds.
AssignSlot(a, ack) ==
  LET m == <<"scheduling", a>>
  IN  /\ m \in inbox
      /\ reserved' = reserved \cup {a}
      /\ inbox' = Acknowledge(m, ack) \cup Announce("SLOT_ASSIGNED", a)
      /\ UNCHANGED <<row, lock, outbox, unsent, campaignStatus>>

\* No venue for the district, or the venue is full: the event is spent.
DeferSlot(a) ==
  /\ a \notin reserved
  /\ <<"scheduling", a>> \in inbox
  /\ inbox' = inbox \ { <<"scheduling", a>> }
  /\ UNCHANGED <<row, lock, outbox, unsent, reserved, campaignStatus>>

\* notification-service reports the invitation whatever became of the SMS.
DeliverInvitation(a, ack) ==
  LET m == <<"notification", a>>
  IN  /\ m \in inbox
      /\ inbox' = Acknowledge(m, ack) \cup Announce("NOTIFICATION_DELIVERED", a)
      /\ UNCHANGED <<row, lock, outbox, unsent, reserved, campaignStatus>>

----------------------------------------------------------------------------
Next ==
  \/ \E a \in Apps :
       \/ FileApplication(a) \/ CreateWalkInApplication(a) \/ VetOnSite(a)
       \/ ApplyAgeVerdict(a) \/ ApplyAcademicVerdict(a) \/ ApplyCriminalVerdict(a)
       \/ ApplyPhysicalTestComplete(a) \/ ApplyForensicsRouting(a)
       \/ WithdrawOwn(a) \/ ReannounceStalledClearance(a) \/ DeferSlot(a)
  \/ \E a \in Apps, ack \in BOOLEAN :
       \/ ApplySlotAssignment(a, ack) \/ ApplyNotificationDelivery(a, ack)
       \/ WithdrawSiblings(a, ack) \/ AssignSlot(a, ack)
       \/ DeliverInvitation(a, ack)
  \/ \E a \in Apps, o \in Officers :
       \/ MedicalReview(a, o) \/ FinalDecision(a, o) \/ Accept(a, o)
       \/ AdjudicateReject(a, o) \/ ClearAmber(a, o) \/ ClearAdjudication(a, o)
  \/ \E a \in Apps, o \in Officers, dim \in VettingDimensions :
       ClearDimension(a, o, dim)
  \/ \E m \in outbox, stamped \in BOOLEAN : PublishStaged(m, stamped)
  \/ \E m \in unsent : PublishDirect(m) \/ LosePublish(m)
  \/ \E c \in Campaigns : CloseRegistration(c) \/ CompleteCampaign(c)

Spec == Init /\ [][Next]_vars

\* scheduling-service answers a clearance: a placement or a deferral.
AnswerClearance(a) == AssignSlot(a, TRUE) \/ DeferSlot(a)

\* Obliged to run: the relay and the sweep (both on timers), the consumers of
\* a delivery that stays owed until it is acknowledged, and the publish of a
\* handler whose process survives.  Nothing obliges scheduling to find a seat,
\* nor an administrator to keep a campaign from ending or to end it.
Fairness ==
  /\ \A a \in Apps :
       /\ WF_vars(ReannounceStalledClearance(a))
       /\ WF_vars(AnswerClearance(a))
       /\ WF_vars(ApplySlotAssignment(a, TRUE))
       /\ WF_vars(DeliverInvitation(a, TRUE))
       /\ WF_vars(ApplyNotificationDelivery(a, TRUE))
       /\ WF_vars(WithdrawSiblings(a, TRUE))
  /\ \A m \in Topics \X Apps :
       WF_vars(PublishStaged(m, TRUE)) /\ WF_vars(PublishDirect(m))

FairSpec == Spec /\ Fairness

----------------------------------------------------------------------------
(* Properties *)

\* The rows, the locks and the messages have the types of their columns.
TypeOK ==
  /\ row \in [Apps -> Row]
  /\ lock \in [Citizens -> Agencies \cup { None }]
  /\ outbox \subseteq { "CLEARED" } \X Apps
  /\ unsent \subseteq { "CLEARED", "ACCEPTED" } \X Apps
  /\ inbox \subseteq Groups \X Apps
  /\ reserved \subseteq Apps
  /\ campaignStatus \in [Campaigns -> CampaignStatuses]

\* One citizen, one acceptance, platform-wide (ADR-014): the identity row is
\* locked exactly by the agency that accepted the citizen, and no two
\* applications of one citizen are ever accepted, in whichever order the
\* officers of the agencies act.
OneAcceptancePerCitizen ==
  /\ \A a \in Apps : row[a].status = "ACCEPTED" =>
       lock[CitizenOf[a]] = AgencyOf[a]
  /\ \A a, b \in Apps :
       /\ row[a].status = "ACCEPTED"
       /\ row[b].status = "ACCEPTED"
       /\ CitizenOf[a] = CitizenOf[b]
       => a = b
  /\ \A c \in Citizens : lock[c] # None =>
       \E a \in Apps : CitizenOf[a] = c /\ row[a].status = "ACCEPTED"

\* A person's decision outranks a machine's (ADR-051): once an officer resolved
\* a held dimension, no later verdict, redelivery or replay changes it.
HumanDecisionStands ==
  \A a \in Apps :
    /\ "CRIMINAL" \in row[a].resolvedDims => row[a].criminal = "CLEARED"
    /\ "ACADEMIC" \in row[a].resolvedDims => row[a].academic = "ELIGIBLE"

\* No disqualifying verdict is carried forward unseen (ADR-011, fail-closed):
\* a live row outside the adjudication hold carries only flags that were on it
\* when an officer last lifted that hold.
NoUnseenFlag ==
  \A a \in Apps :
    Live(a) /\ row[a].status # "ADJUDICATION_REVIEW"
      => HardFlags(row[a]) \subseteq row[a].dismissed

\* Four eyes on accept (ADR-051): the officer who enlists an applicant is none
\* of those who resolved a vetting hold of the application.
AccepterDidNotResolve ==
  ClearanceReviewExcludesAccepter =>
    \A a \in Apps : row[a].status = "ACCEPTED" =>
      row[a].acceptedBy \notin row[a].resolvers

\* A digital application is put on the adjudication hold only after it was
\* cleared, and the stage an officer's CLEAR restores is one it really held in
\* flight: never a vetting rung, a hold or a terminal status.
HoldRestoresInFlightStage ==
  \A a \in Apps :
    row[a].status = "ADJUDICATION_REVIEW" /\ ~row[a].walkIn =>
      row[a].slot /\ row[a].heldFrom \in
        { "SLOT_ASSIGNED", "PHYSICAL_TEST_SCHEDULED", "PHYSICAL_TEST_COMPLETE",
          "MEDICAL_REVIEW", "FINAL_SHORTLIST" }

\* A walk-in keeps its own entry ramp (ADR-012): no evidence, hold or restore
\* puts it on the digital ladder, and the slot lane never fires for it.
WalkInKeepsItsLane ==
  \A a \in Apps : row[a].walkIn =>
    /\ ~row[a].slot
    /\ a \notin reserved
    /\ row[a].status \notin
         { "SUBMITTED", "ACADEMIC_VETTING", "CRIMINAL_CLEARANCE",
           "DOCUMENT_REVIEW_GREEN", "DOCUMENT_REVIEW_AMBER", "SLOT_ASSIGNED",
           "PHYSICAL_TEST_SCHEDULED", "PHYSICAL_TEST_COMPLETE" }

\* Out of order or redelivered events never take a digital application back;
\* only an officer's CLEAR of a hold does (ADR-006).
OnlyAClearStepsBack ==
  \A a \in Apps :
    /\ Filed(a) /\ ~row[a].walkIn
    /\ StageRank[row'[a].status] < StageRank[row[a].status]
    => /\ row[a].status \in { "DOCUMENT_REVIEW_AMBER", "ADJUDICATION_REVIEW" }
       /\ \E o \in Officers : ClearAmber(a, o) \/ ClearAdjudication(a, o)

\* An acceptance, a rejection or a withdrawal is never undone: not by a late
\* verdict, a replayed event, another application's acceptance or an officer.
DecisionIsFinal ==
  \A a \in Apps :
    row[a].status \in { "ACCEPTED", "REJECTED", "WITHDRAWN" }
      => row'[a].status = row[a].status

\* The lifecycle runs one way: a step back is an officer's CLEAR, and from a
\* decision there is none.
LifecycleIsOneWay == [][OnlyAClearStepsBack /\ DecisionIsFinal]_vars

\* Four eyes on the final decision (ADR-031): the officer who carried out the
\* medical review signs it only after another officer lifted an adjudication
\* hold placed on that very stage, whose CLEAR is then its latest entry.
MedicalReviewerNeedsAClear ==
  [][FinalDecisionExcludesMedicalReviewer =>
       \A a \in Apps :
         /\ row'[a].finalBy # row[a].finalBy
         /\ row'[a].finalBy = row[a].medicalBy
         => /\ row[a].heldFrom = "MEDICAL_REVIEW"
            /\ row[a].intoMedicalBy \in Officers \ { row[a].medicalBy }]_vars

\* A cleared applicant is not left waiting at green for want of a message: a
\* lost announcement, a crash or a spent clearance event is healed by the
\* sweep.  Two exceptions: scheduling answers again and again that there is no
\* seat, or the campaign is completed, which no waiting row prevents and after
\* which the sweep passes the row by for ever.
GreenIsPlaced ==
  \A a \in Apps :
    \/ []<><<DeferSlot(a)>>_vars
    \/ (row[a].status = "DOCUMENT_REVIEW_GREEN"
          ~> row[a].status # "DOCUMENT_REVIEW_GREEN" \/ ~CanHoldExam(a))

\* One acceptance retires everything else (ADR-017): once the acceptance has
\* reached the broker, every sibling that is live then ends, in all agencies.
AcceptanceRetiresSiblings ==
  \A a, b \in Apps :
    a # b /\ CitizenOf[a] = CitizenOf[b] =>
      (<<"application-accepted", a>> \in inbox /\ Live(b)) ~> ~Live(b)

\* Digital and walk-in applications stay in their lanes, also through a hold and
\* its CLEAR.
LanesAreKept == HoldRestoresInFlightStage /\ WalkInKeepsItsLane
=============================================================================
