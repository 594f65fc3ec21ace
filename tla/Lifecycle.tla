----------------------------- MODULE Lifecycle -----------------------------
(***************************************************************************)
(* The pure lifecycle policy of application-service: the order of the      *)
(* application statuses, the status that a set of verdicts justifies       *)
(* (deriveApplicationStatus), the holds an officer can decide              *)
(* (adjudicationLanes) and the rule that a person's decision outranks a    *)
(* machine's (decidedByHuman).  No state: every operator is a function of  *)
(* one row.                                                                *)
(***************************************************************************)
EXTENDS Naturals

\* APPLICATION_STATUSES in declaration order; the position is the rank.
StageRank ==
  [ DRAFT |-> 0, SUBMITTED |-> 1, ACADEMIC_VETTING |-> 2,
    CRIMINAL_CLEARANCE |-> 3, DOCUMENT_REVIEW_GREEN |-> 4,
    DOCUMENT_REVIEW_AMBER |-> 5, SLOT_ASSIGNED |-> 6,
    PHYSICAL_TEST_SCHEDULED |-> 7, PHYSICAL_TEST_COMPLETE |-> 8,
    MEDICAL_REVIEW |-> 9, FINAL_SHORTLIST |-> 10, ACCEPTED |-> 11,
    ADJUDICATION_REVIEW |-> 12, REJECTED |-> 13, WITHDRAWN |-> 14,
    WALK_IN_REGISTERED |-> 15, WALK_IN_ON_SITE_VETTING |-> 16,
    WALK_IN_PHYSICAL_TEST |-> 17, WALK_IN_REJECTED |-> 18 ]

Statuses ==
  { "DRAFT", "SUBMITTED", "ACADEMIC_VETTING", "CRIMINAL_CLEARANCE",
    "DOCUMENT_REVIEW_GREEN", "DOCUMENT_REVIEW_AMBER", "SLOT_ASSIGNED",
    "PHYSICAL_TEST_SCHEDULED", "PHYSICAL_TEST_COMPLETE", "MEDICAL_REVIEW",
    "FINAL_SHORTLIST", "ACCEPTED", "ADJUDICATION_REVIEW", "REJECTED",
    "WITHDRAWN", "WALK_IN_REGISTERED", "WALK_IN_ON_SITE_VETTING",
    "WALK_IN_PHYSICAL_TEST", "WALK_IN_REJECTED" }

\* Statuses the projection never moves away from.
Terminal == { "REJECTED", "WITHDRAWN", "ACCEPTED", "WALK_IN_REJECTED" }

\* The verdicts each vetting dimension can carry.
GateStatuses == { "PENDING", "ELIGIBLE", "INELIGIBLE" }
CriminalHardFail ==
  { "FLAGGED_CONVICTION", "FLAGGED_PROSECUTION", "FLAGGED_DISMISSED" }
CriminalStatuses == { "PENDING", "CLEARED", "UNDER_REVIEW" } \cup CriminalHardFail

\* The three dimensions of a row's evidence, and the ones an officer resolves.
Dimensions == { "AGE", "ACADEMIC", "CRIMINAL" }
VettingDimensions == { "ACADEMIC", "CRIMINAL" }

AtOrPast(s, t) == StageRank[s] >= StageRank[t]

\* isHardFail, dimension by dimension: the flags that disqualify evidence e.
HardFlags(e) ==
       (IF e.age = "INELIGIBLE" THEN { <<"AGE", e.age>> } ELSE {})
  \cup (IF e.academic = "INELIGIBLE" THEN { <<"ACADEMIC", e.academic>> } ELSE {})
  \cup (IF e.criminal \in CriminalHardFail
          THEN { <<"CRIMINAL", e.criminal>> } ELSE {})

\* Mutant: the age gate is left out of the hard fails.
MutIsHardFail(e) == e.academic = "INELIGIBLE" \/ e.criminal \in CriminalHardFail

\* isHardFail
IsHardFail(e) ==
  \/ e.age = "INELIGIBLE"
  \/ e.academic = "INELIGIBLE"
  \/ e.criminal \in CriminalHardFail

\* criminalAllowsScheduling: contentOnly says that the only open question is
\* the content of an authentic certificate AND the policy
\* CLEARANCE_CONTENT_REVIEW_ADMITS_TO_EXAM lets the exam go ahead meanwhile.
CriminalAllowsScheduling(e, contentOnly) ==
  e.criminal = "CLEARED" \/ (contentOnly /\ e.criminal = "UNDER_REVIEW")

AllGatesPassed(e, contentOnly) ==
  /\ e.age = "ELIGIBLE"
  /\ e.academic = "ELIGIBLE"
  /\ CriminalAllowsScheduling(e, contentOnly)

\* Where a disqualifying verdict lands: autonomously rejected while early, a
\* human hold once the applicant was cleared.
HardFailTarget(current) ==
  IF current = "WALK_IN_REGISTERED" THEN "WALK_IN_REJECTED"
  ELSE IF \/ current \in { "WALK_IN_ON_SITE_VETTING", "WALK_IN_PHYSICAL_TEST" }
          \/ AtOrPast(current, "SLOT_ASSIGNED")
    THEN "ADJUDICATION_REVIEW"
    ELSE "REJECTED"

\* The furthest rung of the vetting ladder that the evidence justifies.
Candidate(current, e, contentOnly) ==
  IF AllGatesPassed(e, contentOnly) THEN "DOCUMENT_REVIEW_GREEN"
  ELSE IF e.criminal # "PENDING" THEN "CRIMINAL_CLEARANCE"
  ELSE IF e.academic # "PENDING" THEN "ACADEMIC_VETTING"
  ELSE current

\* deriveApplicationStatus
DeriveStatus(current, e, contentOnly) ==
  LET candidate == Candidate(current, e, contentOnly)
  IN  IF current \in Terminal THEN current
      ELSE IF IsHardFail(e) THEN HardFailTarget(current)
      ELSE IF StageRank[candidate] > StageRank[current] THEN candidate
      ELSE current

\* Mutant: green already counts as past the slot.
MutForensicsTargetEarly(s, lane) ==
  IF lane = "GREEN" THEN s
  ELSE IF AtOrPast(s, "DOCUMENT_REVIEW_GREEN") THEN "ADJUDICATION_REVIEW"
  ELSE IF lane = "RED" THEN "REJECTED" ELSE "DOCUMENT_REVIEW_AMBER"

\* Where a document verdict sends a row at status s (applyForensicsRouting).
ForensicsTarget(s, lane) ==
  IF lane = "GREEN" THEN s
  ELSE IF AtOrPast(s, "SLOT_ASSIGNED") THEN "ADJUDICATION_REVIEW"
  ELSE IF lane = "RED" THEN "REJECTED"
  ELSE IF AtOrPast(s, "DOCUMENT_REVIEW_AMBER") THEN s
  ELSE "DOCUMENT_REVIEW_AMBER"

\* adjudicationLanes: the holds an officer can decide on this row.
AdjudicationLanes(r) ==
  IF r.status \in Terminal THEN {}
  ELSE   (IF r.status \in { "DOCUMENT_REVIEW_AMBER", "ADJUDICATION_REVIEW" }
            THEN { "DOCUMENT" } ELSE {})
    \cup (IF r.criminal = "UNDER_REVIEW" THEN { "CRIMINAL" } ELSE {})
    \cup (IF r.academic = "PENDING" /\ r.nesaReview THEN { "ACADEMIC" } ELSE {})

\* Mutant: only the criminal lane's decisions are honoured.
MutDecidedByHuman(resolvedDims, dim) == dim = "CRIMINAL" /\ dim \in resolvedDims

\* decidedByHuman
DecidedByHuman(resolvedDims, dim) == dim # "AGE" /\ dim \in resolvedDims
=============================================================================
