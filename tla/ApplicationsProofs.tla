------------------------- MODULE ApplicationsProofs -------------------------
(***************************************************************************)
(* What application-service promises: theorems about the rows of its       *)
(* applications, and about the front door that files them.                 *)
(***************************************************************************)
EXTENDS Applications, Submission, TLAPS

(***************************************************************************)
(* Theorems about Applications, for every set of applications, citizens    *)
(* and officers and every policy setting.                                  *)
(*                                                                         *)
(* The safety invariants are not inductive alone: an officer's CLEAR       *)
(* restores whatever stage the history names, and filing brings a row to   *)
(* life with whatever it carries.  RowInv states them for every row, filed *)
(* or not, and adds what makes a restore harmless: a hold is never taken   *)
(* from an accepted row.                                                   *)
(***************************************************************************)
\* An officer's resolution of a dimension is still on the row.
ResolutionsStand(r) ==
  /\ "CRIMINAL" \in r.resolvedDims => r.criminal = "CLEARED"
  /\ "ACADEMIC" \in r.resolvedDims => r.academic = "ELIGIBLE"

\* The flags of a row that is neither closed nor on the adjudication hold were
\* all dismissed by an officer.
FlagsSeen(r) ==
  r.status \notin Terminal \cup { "ADJUDICATION_REVIEW" }
    => HardFlags(r) \subseteq r.dismissed

\* The accepting officer resolved nothing on the row.
FourEyes(r) ==
  ClearanceReviewExcludesAccepter /\ r.status = "ACCEPTED"
    => r.acceptedBy \notin r.resolvers

RowInv(r) ==
  /\ ResolutionsStand(r)
  /\ FlagsSeen(r)
  /\ FourEyes(r)
  /\ r.heldFrom # "ACCEPTED"

\* Everything but the rows.
MessagesOK ==
  /\ lock \in [Citizens -> Agencies \cup { None }]
  /\ outbox \subseteq { "CLEARED" } \X Apps
  /\ unsent \subseteq { "CLEARED", "ACCEPTED" } \X Apps
  /\ inbox \subseteq Groups \X Apps
  /\ reserved \subseteq Apps

RowsOK == row \in [Apps -> Row] /\ \A a \in Apps : RowInv(row[a])

\* The inductive invariant.
IInv == RowsOK /\ MessagesOK /\ OneAcceptancePerCitizen

----------------------------------------------------------------------------
(* Facts about the operators *)

\* The policy returns statuses of the enumeration, never announces an
\* acceptance of its own, leaves a terminal row alone and sends every
\* disqualified row to a human hold or a closed status.
LEMMA DeriveFacts ==
  ASSUME NEW s \in Statuses, NEW e \in Row, NEW c \in BOOLEAN
  PROVE  /\ DeriveStatus(s, e, c) \in Statuses
         /\ DeriveStatus(s, e, c) = "ACCEPTED" => s = "ACCEPTED"
         /\ s \in Terminal => DeriveStatus(s, e, c) = s
         /\ IsHardFail(e) =>
              DeriveStatus(s, e, c) \in Terminal \cup { "ADJUDICATION_REVIEW" }
<1>1. /\ HardFailTarget(s) \in { "WALK_IN_REJECTED", "ADJUDICATION_REVIEW", "REJECTED" }
      /\ Candidate(s, e, c) \in { "DOCUMENT_REVIEW_GREEN", "CRIMINAL_CLEARANCE",
                                  "ACADEMIC_VETTING", s }
  BY DEF HardFailTarget, Candidate
<1>2. \/ s \in Terminal /\ DeriveStatus(s, e, c) = s
      \/ s \notin Terminal /\ IsHardFail(e) /\ DeriveStatus(s, e, c) = HardFailTarget(s)
      \/ s \notin Terminal /\ ~IsHardFail(e)
           /\ DeriveStatus(s, e, c) \in { Candidate(s, e, c), s }
  BY DEF DeriveStatus
<1> QED BY <1>1, <1>2 DEF Statuses, Terminal

\* HardFlags is empty exactly when isHardFail says no.
LEMMA HardFlagsFacts ==
  ASSUME NEW e \in Row
  PROVE  /\ HardFlags(e) \subseteq Dimensions \X (GateStatuses \cup CriminalStatuses)
         /\ ~IsHardFail(e) => HardFlags(e) = {}
<1>1. e.age \in GateStatuses /\ e.academic \in GateStatuses /\ e.criminal \in CriminalStatuses
  BY DEF Row
<1> QED BY <1>1 DEF HardFlags, IsHardFail, Dimensions

\* What Move writes, and what it leaves alone.
LEMMA MoveFacts ==
  ASSUME NEW r \in Row, NEW to \in Statuses, NEW by,
         r.status \in Statuses,
         to = "MEDICAL_REVIEW" => by \in Officers \cup { "SYSTEM" }
  PROVE  LET m == Move(r, to, by)
         IN  /\ m \in Row
             /\ m.status = to
             /\ m.heldFrom = "ACCEPTED" =>
                  \/ r.heldFrom = "ACCEPTED"
                  \/ r.status = "ACCEPTED" /\ to = "ADJUDICATION_REVIEW"
             /\ m.age = r.age /\ m.academic = r.academic /\ m.criminal = r.criminal
             /\ m.resolvedDims = r.resolvedDims /\ m.resolvers = r.resolvers
             /\ m.acceptedBy = r.acceptedBy /\ m.dismissed = r.dismissed
<1> DEFINE m == Move(r, to, by)
           held == IF to = "ADJUDICATION_REVIEW" /\ r.status # to
                     THEN r.status ELSE r.heldFrom
           into == IF to = "MEDICAL_REVIEW" /\ r.status # to
                     THEN by ELSE r.intoMedicalBy
<1>1. m = [r EXCEPT !.status = to, !.heldFrom = held, !.intoMedicalBy = into]
  BY DEF Move
<1>2. /\ held \in Statuses \cup { None }
      /\ into \in Officers \cup { "SYSTEM", None }
      /\ held = "ACCEPTED" =>
           r.heldFrom = "ACCEPTED" \/ (r.status = "ACCEPTED" /\ to = "ADJUDICATION_REVIEW")
  BY DEF Row
<1>3. m \in Row
  <2> HIDE DEF m, held, into
  <2> QED BY <1>1, <1>2 DEF Row
<1>4. /\ m.status = to /\ m.heldFrom = held
      /\ m.age = r.age /\ m.academic = r.academic /\ m.criminal = r.criminal
      /\ m.resolvedDims = r.resolvedDims /\ m.resolvers = r.resolvers
      /\ m.acceptedBy = r.acceptedBy /\ m.dismissed = r.dismissed
  <2> HIDE DEF m, held, into
  <2> QED BY <1>1 DEF Row
<1> QED BY <1>2, <1>3, <1>4

\* A row stays good when a handler moves it: to a closed status or the hold
\* from anywhere, to any other stage from a stage that is neither.
LEMMA MoveKeepsRowInv ==
  ASSUME NEW r \in Row, NEW to \in Statuses, NEW by,
         RowInv(r), r.status \in Statuses,
         to = "MEDICAL_REVIEW" => by \in Officers \cup { "SYSTEM" },
         to # "ACCEPTED", r.status # "ACCEPTED",
         \/ to \in Terminal \cup { "ADJUDICATION_REVIEW" }
         \/ r.status \notin Terminal \cup { "ADJUDICATION_REVIEW" }
  PROVE  Move(r, to, by) \in Row /\ RowInv(Move(r, to, by))
<1> DEFINE m == Move(r, to, by)
<1>1. /\ m \in Row /\ m.status = to /\ m.heldFrom # "ACCEPTED"
      /\ m.age = r.age /\ m.academic = r.academic /\ m.criminal = r.criminal
      /\ m.resolvedDims = r.resolvedDims /\ m.resolvers = r.resolvers
      /\ m.acceptedBy = r.acceptedBy /\ m.dismissed = r.dismissed
  BY MoveFacts DEF RowInv
<1> HIDE DEF m
<1>2. HardFlags(m) = HardFlags(r)
  BY <1>1 DEF HardFlags
<1>3. ResolutionsStand(m) /\ FlagsSeen(m) /\ FourEyes(m)
  BY <1>1, <1>2 DEF RowInv, ResolutionsStand, FlagsSeen, FourEyes
<1> QED BY <1>1, <1>3 DEF RowInv, m

\* Replacing one row by a good one that is accepted exactly when the old one
\* was keeps the invariant.
LEMMA RowUpdate ==
  ASSUME IInv, NEW a \in Apps, NEW r \in Row, RowInv(r),
         row' = [row EXCEPT ![a] = r], lock' = lock, MessagesOK',
         r.status = "ACCEPTED" <=> row[a].status = "ACCEPTED"
  PROVE  IInv'
<1>1. row' \in [Apps -> Row]
  BY DEF IInv, RowsOK
<1>2. \A b \in Apps : row'[b] = IF b = a THEN r ELSE row[b]
  BY DEF IInv, RowsOK
<1>3. RowsOK'
  BY <1>1, <1>2 DEF IInv, RowsOK
<1>4. \A b \in Apps : row'[b].status = "ACCEPTED" <=> row[b].status = "ACCEPTED"
  BY <1>2
<1>5. OneAcceptancePerCitizen'
  BY <1>4 DEF IInv, OneAcceptancePerCitizen
<1> QED BY <1>3, <1>5 DEF IInv

\* The handlers that only send or acknowledge messages keep the invariant.
LEMMA MessagesUpdate ==
  ASSUME IInv, UNCHANGED <<row, lock>>, MessagesOK'
  PROVE  IInv'
  BY DEF IInv, RowsOK, RowInv, ResolutionsStand, FlagsSeen, FourEyes,
         OneAcceptancePerCitizen

\* A handler that moves one row and touches no lock.
LEMMA MoveUpdate ==
  ASSUME IInv, NEW a \in Apps, NEW to \in Statuses, NEW by,
         to = "MEDICAL_REVIEW" => by \in Officers \cup { "SYSTEM" },
         row[a].status \in Statuses,
         row' = [row EXCEPT ![a] = Move(row[a], to, by)], lock' = lock, MessagesOK',
         to # "ACCEPTED", row[a].status # "ACCEPTED",
         \/ to \in Terminal \cup { "ADJUDICATION_REVIEW" }
         \/ row[a].status \notin Terminal \cup { "ADJUDICATION_REVIEW" }
  PROVE  IInv'
<1>1. row[a] \in Row /\ RowInv(row[a])
  BY DEF IInv, RowsOK
<1>2. Move(row[a], to, by) \in Row /\ RowInv(Move(row[a], to, by))
  BY <1>1, MoveKeepsRowInv
<1>3. Move(row[a], to, by).status = to
  BY <1>1, MoveFacts
<1> QED BY <1>2, <1>3, RowUpdate

----------------------------------------------------------------------------
(* One lemma per group of actions *)

\* The front doors.
LEMMA FilingKeepsIInv ==
  ASSUME IInv, NEW a \in Apps,
         FileApplication(a) \/ CreateWalkInApplication(a) \/ VetOnSite(a)
  PROVE  IInv'
<1>1. row[a] \in Row /\ RowInv(row[a]) /\ MessagesOK
  BY DEF IInv, RowsOK
<1>2. ASSUME UNCHANGED <<lock, outbox, unsent, inbox, reserved>> PROVE MessagesOK'
  BY <1>1, <1>2 DEF MessagesOK
<1>3. ASSUME NEW s \in { "SUBMITTED", "WALK_IN_REGISTERED" }, NEW w \in BOOLEAN,
             row[a].status = "ABSENT",
             row' = [row EXCEPT ![a] = [row[a] EXCEPT !.status = s, !.walkIn = w]],
             UNCHANGED <<lock, outbox, unsent, inbox, reserved>>
      PROVE  IInv'
  <2> DEFINE r == [row[a] EXCEPT !.status = s, !.walkIn = w]
  <2>0. s \in Statuses
    BY DEF Statuses
  <2>1. /\ r \in Row /\ r.status = s /\ r.heldFrom = row[a].heldFrom
        /\ r.age = row[a].age /\ r.academic = row[a].academic
        /\ r.criminal = row[a].criminal /\ r.dismissed = row[a].dismissed
        /\ r.resolvedDims = row[a].resolvedDims
    BY <1>1, <2>0 DEF Row
  <2> HIDE DEF r
  <2>2. HardFlags(r) = HardFlags(row[a])
    BY <2>1 DEF HardFlags
  <2>3. RowInv(r)
    BY <1>1, <1>3, <2>1, <2>2
    DEF RowInv, ResolutionsStand, FlagsSeen, FourEyes, Terminal
  <2> QED BY <1>2, <1>3, <2>1, <2>3, RowUpdate DEF r
<1>4. CASE FileApplication(a)
  <2>1. row[a] = [row[a] EXCEPT !.walkIn = row[a].walkIn] /\ row[a].walkIn \in BOOLEAN
    BY <1>1 DEF Row
  <2>2. row' = [row EXCEPT ![a] = [row[a] EXCEPT !.status = "SUBMITTED",
                                                 !.walkIn = row[a].walkIn]]
    BY <1>1, <1>4, <2>1, ZenonT(60) DEF FileApplication, Row
  <2> QED BY <1>3, <1>4, <2>1, <2>2 DEF FileApplication
<1>5. CASE CreateWalkInApplication(a)
  <2>1. row' = [row EXCEPT ![a] = [row[a] EXCEPT !.status = "WALK_IN_REGISTERED",
                                                 !.walkIn = TRUE]]
    BY <1>1, <1>5 DEF CreateWalkInApplication, IInv, RowsOK
  <2> QED BY <1>3, <1>5, <2>1 DEF CreateWalkInApplication
<1>6. CASE VetOnSite(a)
  <2>1. PICK to \in { "WALK_IN_ON_SITE_VETTING", "WALK_IN_REJECTED" } :
          row' = [row EXCEPT ![a] = Move(row[a], to, "SYSTEM")]
    BY <1>6 DEF VetOnSite
  <2> QED BY <1>2, <1>6, <2>1, MoveUpdate DEF VetOnSite, Statuses, Terminal
<1> QED BY <1>4, <1>5, <1>6

\* A verdict: the new evidence lands either on a row it does not disqualify,
\* or on a closed or held one; a dimension an officer resolved is not touched.
LEMMA VettingKeepsIInv ==
  ASSUME IInv, NEW a \in Apps, NEW dim \in Dimensions, NEW new \in Row,
         NEW c \in BOOLEAN, ApplyVettingResult(a, dim, new, c),
         new.status = row[a].status, new.heldFrom = row[a].heldFrom,
         new.resolvedDims = row[a].resolvedDims, new.resolvers = row[a].resolvers,
         new.acceptedBy = row[a].acceptedBy, new.dismissed = row[a].dismissed,
         dim # "CRIMINAL" => new.criminal = row[a].criminal,
         dim # "ACADEMIC" => new.academic = row[a].academic
  PROVE  IInv'
<1> DEFINE to == DeriveStatus(row[a].status, new, c)
           m == Move(new, to, "SYSTEM")
<1>1. row[a] \in Row /\ RowInv(row[a]) /\ MessagesOK /\ row[a].status \in Statuses
  BY DEF IInv, RowsOK, ApplyVettingResult, Filed, Row
<1>2. /\ row' = [row EXCEPT ![a] = m] /\ lock' = lock /\ MessagesOK'
      /\ ~DecidedByHuman(row[a].resolvedDims, dim)
  BY <1>1 DEF ApplyVettingResult, MessagesOK, ClearedEvent
<1>3. /\ to \in Statuses
      /\ to = "ACCEPTED" => row[a].status = "ACCEPTED"
      /\ row[a].status \in Terminal => to = row[a].status
      /\ IsHardFail(new) => to \in Terminal \cup { "ADJUDICATION_REVIEW" }
  BY <1>1, DeriveFacts
<1> HIDE DEF to
<1>4. /\ m \in Row /\ m.status = to /\ m.heldFrom # "ACCEPTED"
      /\ m.age = new.age /\ m.academic = new.academic /\ m.criminal = new.criminal
      /\ m.resolvedDims = new.resolvedDims /\ m.resolvers = new.resolvers
      /\ m.acceptedBy = new.acceptedBy /\ m.dismissed = new.dismissed
  BY <1>1, <1>3, MoveFacts DEF RowInv, Terminal
<1> HIDE DEF m
<1>5. ResolutionsStand(m)
  BY <1>1, <1>2, <1>4 DEF RowInv, ResolutionsStand, DecidedByHuman
<1>6. FlagsSeen(m)
  <2>1. HardFlags(m) = HardFlags(new)
    BY <1>4 DEF HardFlags
  <2>2. ~IsHardFail(new) => HardFlags(new) = {}
    BY HardFlagsFacts
  <2> QED BY <1>3, <1>4, <2>1, <2>2 DEF FlagsSeen
<1>7. FourEyes(m)
  BY <1>1, <1>3, <1>4 DEF RowInv, FourEyes
<1>8. m.status = "ACCEPTED" <=> row[a].status = "ACCEPTED"
  BY <1>3, <1>4 DEF Terminal
<1>9. RowInv(m)
  BY <1>4, <1>5, <1>6, <1>7 DEF RowInv
<1> QED BY <1>2, <1>4, <1>8, <1>9, RowUpdate

\* The three verdict consumers.
LEMMA VerdictsKeepIInv ==
  ASSUME IInv, NEW a \in Apps,
         ApplyAgeVerdict(a) \/ ApplyAcademicVerdict(a) \/ ApplyCriminalVerdict(a)
  PROVE  IInv'
<1>1. row[a] \in Row /\ ContentOnlyReadings \subseteq BOOLEAN
  BY DEF IInv, RowsOK, ContentOnlyReadings
<1>2. CASE ApplyAgeVerdict(a)
  <2>1. PICK v \in AgeVerdicts, c \in ContentOnlyReadings :
          ApplyVettingResult(a, "AGE", [row[a] EXCEPT !.age = v], c)
    BY <1>2 DEF ApplyAgeVerdict
  <2> DEFINE new == [row[a] EXCEPT !.age = v]
  <2>2. /\ new \in Row /\ new.status = row[a].status /\ new.heldFrom = row[a].heldFrom
        /\ new.resolvedDims = row[a].resolvedDims /\ new.resolvers = row[a].resolvers
        /\ new.acceptedBy = row[a].acceptedBy /\ new.dismissed = row[a].dismissed
        /\ new.criminal = row[a].criminal /\ new.academic = row[a].academic
    BY <1>1, ConstantsAssumption DEF Row
  <2> HIDE DEF new
  <2>3. ApplyVettingResult(a, "AGE", new, c) /\ c \in BOOLEAN /\ "AGE" \in Dimensions
    BY <1>1, <2>1 DEF new, Dimensions
  <2> QED BY <2>2, <2>3, VettingKeepsIInv
<1>3. CASE ApplyAcademicVerdict(a)
  <2>1. PICK v \in AcademicVerdicts, n \in BOOLEAN, c \in ContentOnlyReadings :
          ApplyVettingResult(a, "ACADEMIC",
            [row[a] EXCEPT !.academic = v, !.nesaReview = n], c)
    BY <1>3 DEF ApplyAcademicVerdict
  <2> DEFINE new == [row[a] EXCEPT !.academic = v, !.nesaReview = n]
  <2>2. /\ new \in Row /\ new.status = row[a].status /\ new.heldFrom = row[a].heldFrom
        /\ new.resolvedDims = row[a].resolvedDims /\ new.resolvers = row[a].resolvers
        /\ new.acceptedBy = row[a].acceptedBy /\ new.dismissed = row[a].dismissed
        /\ new.criminal = row[a].criminal
    BY <1>1, ConstantsAssumption DEF Row
  <2> HIDE DEF new
  <2>3. /\ ApplyVettingResult(a, "ACADEMIC", new, c)
        /\ c \in BOOLEAN /\ "ACADEMIC" \in Dimensions
    BY <1>1, <2>1 DEF new, Dimensions
  <2> QED BY <2>2, <2>3, VettingKeepsIInv
<1>4. CASE ApplyCriminalVerdict(a)
  <2>1. PICK v \in CriminalVerdicts, c \in ContentOnlyReadings :
          ApplyVettingResult(a, "CRIMINAL", [row[a] EXCEPT !.criminal = v], c)
    BY <1>4 DEF ApplyCriminalVerdict
  <2> DEFINE new == [row[a] EXCEPT !.criminal = v]
  <2>2. /\ new \in Row /\ new.status = row[a].status /\ new.heldFrom = row[a].heldFrom
        /\ new.resolvedDims = row[a].resolvedDims /\ new.resolvers = row[a].resolvers
        /\ new.acceptedBy = row[a].acceptedBy /\ new.dismissed = row[a].dismissed
        /\ new.academic = row[a].academic
    BY <1>1, ConstantsAssumption DEF Row
  <2> HIDE DEF new
  <2>3. /\ ApplyVettingResult(a, "CRIMINAL", new, c)
        /\ c \in BOOLEAN /\ "CRIMINAL" \in Dimensions
    BY <1>1, <2>1 DEF new, Dimensions
  <2> QED BY <2>2, <2>3, VettingKeepsIInv
<1> QED BY <1>2, <1>3, <1>4

\* The consumers of the slot and notification lanes.
LEMMA SlotLaneKeepsIInv ==
  ASSUME IInv, NEW a \in Apps, NEW ack \in BOOLEAN,
         ApplySlotAssignment(a, ack) \/ ApplyNotificationDelivery(a, ack)
  PROVE  IInv'
<1>1. row \in [Apps -> Row] /\ row[a] \in Row /\ RowInv(row[a]) /\ MessagesOK
  BY DEF IInv, RowsOK
<1>2. MessagesOK' /\ lock' = lock
  BY <1>1 DEF ApplySlotAssignment, ApplyNotificationDelivery, MessagesOK, Acknowledge
<1>3. CASE row' = row
  BY <1>2, <1>3, MessagesUpdate
<1>4. CASE ApplySlotAssignment(a, ack) /\ row' # row
  <2> DEFINE m == Move(row[a], "SLOT_ASSIGNED", "SYSTEM")
             r == [m EXCEPT !.slot = TRUE]
  <2>1. /\ row[a].status = "DOCUMENT_REVIEW_GREEN"
        /\ row' = [row EXCEPT ![a] = r]
    BY <1>4 DEF ApplySlotAssignment
  <2>2. m \in Row /\ RowInv(m) /\ m.status = "SLOT_ASSIGNED"
    BY <1>1, <2>1, MoveKeepsRowInv, MoveFacts DEF Statuses, Terminal
  <2> HIDE DEF m
  <2>3. /\ r \in Row /\ r.status = m.status /\ r.heldFrom = m.heldFrom
        /\ r.age = m.age /\ r.academic = m.academic /\ r.criminal = m.criminal
        /\ r.resolvedDims = m.resolvedDims /\ r.resolvers = m.resolvers
        /\ r.acceptedBy = m.acceptedBy /\ r.dismissed = m.dismissed
    BY <2>2 DEF Row
  <2> HIDE DEF r
  <2>4. HardFlags(r) = HardFlags(m)
    BY <2>3 DEF HardFlags
  <2>5. RowInv(r)
    BY <2>2, <2>3, <2>4 DEF RowInv, ResolutionsStand, FlagsSeen, FourEyes
  <2> QED BY <1>2, <2>1, <2>2, <2>3, <2>5, RowUpdate
<1>5. CASE ApplyNotificationDelivery(a, ack) /\ row' # row
  <2>1. /\ row[a].status = "SLOT_ASSIGNED"
        /\ row' = [row EXCEPT ![a] = Move(row[a], "PHYSICAL_TEST_SCHEDULED", "SYSTEM")]
    BY <1>5 DEF ApplyNotificationDelivery
  <2> QED BY <1>2, <2>1, MoveUpdate DEF Statuses, Terminal
<1> QED BY <1>3, <1>4, <1>5

\* Exam day, document verdicts and withdrawals by the applicant.
LEMMA ProjectionsKeepIInv ==
  ASSUME IInv, NEW a \in Apps,
         \/ ApplyPhysicalTestComplete(a) \/ ApplyForensicsRouting(a)
         \/ WithdrawOwn(a)
  PROVE  IInv'
<1>1. row[a] \in Row /\ RowInv(row[a]) /\ MessagesOK
  BY DEF IInv, RowsOK
<1>2. MessagesOK' /\ lock' = lock
  BY <1>1 DEF ApplyPhysicalTestComplete, ApplyForensicsRouting, WithdrawOwn, MessagesOK
<1>3. CASE ApplyPhysicalTestComplete(a)
  <2>1. PICK to \in { "WALK_IN_PHYSICAL_TEST", "PHYSICAL_TEST_COMPLETE" } :
          row' = [row EXCEPT ![a] = Move(row[a], to, "SYSTEM")]
    BY <1>3 DEF ApplyPhysicalTestComplete
  <2>2. row[a].status \in { "WALK_IN_ON_SITE_VETTING", "PHYSICAL_TEST_SCHEDULED" }
    BY <1>3 DEF ApplyPhysicalTestComplete
  <2> QED BY <1>2, <2>1, <2>2, MoveUpdate DEF Statuses, Terminal
<1>4. CASE ApplyForensicsRouting(a)
  <2>1. PICK lane \in ForensicsLanes :
          /\ row[a].status \in Statuses
          /\ row[a].status # "ACCEPTED"
          /\ ForensicsTarget(row[a].status, lane) # row[a].status
          /\ row[a].status \notin { "REJECTED", "WITHDRAWN", "ACCEPTED" }
          /\ row' = [row EXCEPT ![a] =
               Move(row[a], ForensicsTarget(row[a].status, lane), "SYSTEM")]
    BY <1>1, <1>4 DEF ApplyForensicsRouting, Filed, Row
  <2> DEFINE to == ForensicsTarget(row[a].status, lane)
  <2>2. to \in { "ADJUDICATION_REVIEW", "REJECTED", "DOCUMENT_REVIEW_AMBER" }
    BY <2>1 DEF ForensicsTarget
  <2>3. to = "DOCUMENT_REVIEW_AMBER" =>
          row[a].status \notin Terminal \cup { "ADJUDICATION_REVIEW" }
    <3>1. SUFFICES ASSUME to = "DOCUMENT_REVIEW_AMBER"
                   PROVE  row[a].status \notin { "WALK_IN_REJECTED", "ADJUDICATION_REVIEW" }
      BY <2>1 DEF Terminal
    <3>2. ~AtOrPast(row[a].status, "SLOT_ASSIGNED")
      BY <2>1, <3>1 DEF ForensicsTarget
    <3> QED BY <3>2 DEF AtOrPast, StageRank
  <2> HIDE DEF to
  <2>4. row' = [row EXCEPT ![a] = Move(row[a], to, "SYSTEM")]
    BY <2>1 DEF to
  <2> QED BY <1>2, <2>1, <2>2, <2>3, <2>4, MoveUpdate DEF Statuses, Terminal
<1>5. CASE WithdrawOwn(a)
  BY <1>1, <1>2, <1>5, MoveUpdate DEF WithdrawOwn, Live, Filed, Row, Statuses, Terminal
<1> QED BY <1>3, <1>4, <1>5

\* The acceptance consumer: every sibling it touches ends withdrawn.
LEMMA SiblingsKeepIInv ==
  ASSUME IInv, NEW a \in Apps, NEW ack \in BOOLEAN, WithdrawSiblings(a, ack)
  PROVE  IInv'
<1> DEFINE hit(b) == b \in Siblings(a) /\ Live(b)
<1>1. /\ row \in [Apps -> Row]
      /\ row' = [b \in Apps |-> IF hit(b) THEN Move(row[b], "WITHDRAWN", "SYSTEM")
                                          ELSE row[b]]
      /\ lock' = lock /\ MessagesOK'
  BY DEF IInv, RowsOK, WithdrawSiblings, MessagesOK, Acknowledge
<1>2. ASSUME NEW b \in Apps, hit(b)
      PROVE  /\ row'[b] \in Row /\ RowInv(row'[b]) /\ row'[b].status = "WITHDRAWN"
             /\ row[b].status # "ACCEPTED"
  <2>1. /\ row[b] \in Row /\ RowInv(row[b]) /\ row[b].status \in Statuses \ Terminal
        /\ row'[b] = Move(row[b], "WITHDRAWN", "SYSTEM")
    BY <1>1, <1>2 DEF IInv, RowsOK, Live, Filed, Row
  <2> QED BY <2>1, MoveKeepsRowInv, MoveFacts DEF Statuses, Terminal
<1>3. \A b \in Apps : ~hit(b) => row'[b] = row[b]
  BY <1>1
<1> HIDE DEF hit
<1>4. RowsOK'
  BY <1>1, <1>2, <1>3 DEF IInv, RowsOK
<1>5. \A b \in Apps : row'[b].status = "ACCEPTED" <=> row[b].status = "ACCEPTED"
  BY <1>2, <1>3
<1>6. OneAcceptancePerCitizen'
  BY <1>1, <1>5 DEF IInv, OneAcceptancePerCitizen
<1> QED BY <1>1, <1>4, <1>6 DEF IInv

\* Medical review, final decision, rejection of a hold and clearing of an
\* amber hold: the officer moves one row.
LEMMA OfficerMovesKeepIInv ==
  ASSUME IInv, NEW a \in Apps, NEW o \in Officers,
         \/ MedicalReview(a, o) \/ FinalDecision(a, o)
         \/ AdjudicateReject(a, o) \/ ClearAmber(a, o)
  PROVE  IInv'
<1>1. row[a] \in Row /\ RowInv(row[a]) /\ MessagesOK
  BY DEF IInv, RowsOK
<1>2. MessagesOK' /\ lock' = lock
  BY <1>1 DEF MedicalReview, FinalDecision, AdjudicateReject, ClearAmber,
              ClearedByOfficer, MessagesOK
<1>3. ASSUME NEW to \in Statuses, NEW r \in Row, to # "ACCEPTED",
             row[a].status \in Statuses \ (Terminal \cup { "ADJUDICATION_REVIEW" }),
             r \in { [Move(row[a], to, o) EXCEPT !.medicalBy = o],
                     [Move(row[a], to, o) EXCEPT !.finalBy = o] },
             row' = [row EXCEPT ![a] = r]
      PROVE  IInv'
  <2> DEFINE m == Move(row[a], to, o)
  <2>1. m \in Row /\ RowInv(m) /\ m.status = to
    BY <1>1, <1>3, MoveKeepsRowInv, MoveFacts DEF Terminal
  <2>2. r \in { [m EXCEPT !.medicalBy = o], [m EXCEPT !.finalBy = o] }
    BY <1>3
  <2> HIDE DEF m
  <2>3. /\ r.status = m.status /\ r.heldFrom = m.heldFrom
        /\ r.age = m.age /\ r.academic = m.academic /\ r.criminal = m.criminal
        /\ r.resolvedDims = m.resolvedDims /\ r.resolvers = m.resolvers
        /\ r.acceptedBy = m.acceptedBy /\ r.dismissed = m.dismissed
    BY <2>1, <2>2 DEF Row
  <2>4. HardFlags(r) = HardFlags(m)
    BY <2>3 DEF HardFlags
  <2>5. RowInv(r)
    BY <2>1, <2>3, <2>4 DEF RowInv, ResolutionsStand, FlagsSeen, FourEyes
  <2> QED BY <1>2, <1>3, <2>1, <2>3, <2>5, RowUpdate DEF Terminal
<1>4. CASE MedicalReview(a, o)
  <2>1. PICK to \in { "MEDICAL_REVIEW", "REJECTED" } :
          row' = [row EXCEPT ![a] = [Move(row[a], to, o) EXCEPT !.medicalBy = o]]
    BY <1>4 DEF MedicalReview
  <2>2. row[a].status \in { "PHYSICAL_TEST_COMPLETE", "WALK_IN_PHYSICAL_TEST" }
    BY <1>4 DEF MedicalReview
  <2>3. Move(row[a], to, o) \in Row
    BY <1>1, <2>2, MoveFacts DEF Statuses
  <2>4. [Move(row[a], to, o) EXCEPT !.medicalBy = o] \in Row
    BY <2>3 DEF Row
  <2> QED BY <1>3, <2>1, <2>2, <2>4 DEF Statuses, Terminal
<1>5. CASE FinalDecision(a, o)
  <2>1. PICK to \in { "FINAL_SHORTLIST", "REJECTED" } :
          row' = [row EXCEPT ![a] = [Move(row[a], to, o) EXCEPT !.finalBy = o]]
    BY <1>5 DEF FinalDecision
  <2>2. row[a].status = "MEDICAL_REVIEW"
    BY <1>5 DEF FinalDecision
  <2>3. Move(row[a], to, o) \in Row
    BY <1>1, <2>2, MoveFacts DEF Statuses
  <2>4. [Move(row[a], to, o) EXCEPT !.finalBy = o] \in Row
    BY <2>3 DEF Row
  <2> QED BY <1>3, <2>1, <2>2, <2>4 DEF Statuses, Terminal
<1>6. CASE AdjudicateReject(a, o)
  <2>1. /\ row' = [row EXCEPT ![a] = Move(row[a], "REJECTED", o)]
        /\ row[a].status \in Statuses \ Terminal
    BY <1>1, <1>6 DEF AdjudicateReject, AdjudicationLanes, Filed, Row
  <2> QED BY <1>2, <2>1, MoveUpdate DEF Statuses, Terminal
<1>7. CASE ClearAmber(a, o)
  <2>1. PICK c \in ContentOnlyReadings :
          row' = [row EXCEPT ![a] = Move(row[a], DeriveStatus("SUBMITTED", row[a], c), o)]
    BY <1>7 DEF ClearAmber
  <2>2. c \in BOOLEAN /\ row[a].status = "DOCUMENT_REVIEW_AMBER"
    BY <1>7, <2>1 DEF ContentOnlyReadings, ClearAmber
  <2> DEFINE to == DeriveStatus("SUBMITTED", row[a], c)
  <2>3. to \in Statuses /\ to # "ACCEPTED"
    BY <1>1, <2>2, DeriveFacts DEF Statuses
  <2>4. row' = [row EXCEPT ![a] = Move(row[a], to, o)]
    BY <2>1
  <2> HIDE DEF to
  <2> QED BY <1>2, <2>2, <2>3, <2>4, MoveUpdate DEF Statuses, Terminal
<1> QED BY <1>4, <1>5, <1>6, <1>7

\* Accept: the lock was free, so no application of the citizen was accepted
\* before, and the accepting officer is checked against the resolvers.
LEMMA AcceptKeepsIInv ==
  ASSUME IInv, NEW a \in Apps, NEW o \in Officers, Accept(a, o)
  PROVE  IInv'
<1> DEFINE m == Move(row[a], "ACCEPTED", o)
           r == [m EXCEPT !.acceptedBy = o]
<1>1. /\ row \in [Apps -> Row] /\ row[a] \in Row /\ RowInv(row[a])
      /\ MessagesOK /\ OneAcceptancePerCitizen
  BY DEF IInv, RowsOK
<1>2. /\ row[a].status = "FINAL_SHORTLIST"
      /\ ClearanceReviewExcludesAccepter => o \notin row[a].resolvers
      /\ lock[CitizenOf[a]] = None
      /\ lock' = [lock EXCEPT ![CitizenOf[a]] = AgencyOf[a]]
      /\ row' = [row EXCEPT ![a] = r]
  BY DEF Accept, AcceptSeparated, AcceptLockFree
<1>3. /\ CitizenOf[a] \in Citizens /\ AgencyOf[a] \in Agencies
      /\ \A b \in Apps : CitizenOf[b] \in Citizens /\ AgencyOf[b] # None
  BY ConstantsAssumption
<1>4. MessagesOK'
  BY <1>1, <1>2, <1>3 DEF Accept, MessagesOK
<1>5. /\ m \in Row /\ m.status = "ACCEPTED" /\ m.heldFrom # "ACCEPTED"
      /\ m.age = row[a].age /\ m.academic = row[a].academic
      /\ m.criminal = row[a].criminal /\ m.resolvedDims = row[a].resolvedDims
      /\ m.resolvers = row[a].resolvers
  BY <1>1, <1>2, MoveFacts DEF RowInv, Statuses
<1> HIDE DEF m
<1>6. /\ r \in Row /\ r.status = m.status /\ r.heldFrom = m.heldFrom
      /\ r.academic = m.academic /\ r.criminal = m.criminal
      /\ r.resolvedDims = m.resolvedDims /\ r.resolvers = m.resolvers
      /\ r.acceptedBy = o
  BY <1>5 DEF Row
<1> HIDE DEF r
<1>7. RowInv(r)
  BY <1>1, <1>2, <1>5, <1>6 DEF RowInv, ResolutionsStand, FlagsSeen, FourEyes, Terminal
<1>8. /\ row' \in [Apps -> Row]
      /\ \A b \in Apps : row'[b] = IF b = a THEN r ELSE row[b]
  BY <1>1, <1>2, <1>6
<1>9. RowsOK'
  BY <1>7, <1>8 DEF IInv, RowsOK
<1>10. \A b \in Apps : row'[b].status = "ACCEPTED" <=> b = a \/ row[b].status = "ACCEPTED"
  BY <1>5, <1>6, <1>8
<1>11. \A b \in Apps : row[b].status = "ACCEPTED" => CitizenOf[b] # CitizenOf[a]
  BY <1>1, <1>2, <1>3 DEF OneAcceptancePerCitizen
<1>12. \A c \in Citizens :
         lock'[c] = IF c = CitizenOf[a] THEN AgencyOf[a] ELSE lock[c]
  BY <1>1, <1>2 DEF MessagesOK
<1>13. OneAcceptancePerCitizen'
  BY <1>1, <1>3, <1>10, <1>11, <1>12 DEF OneAcceptancePerCitizen
<1> QED BY <1>4, <1>9, <1>13 DEF IInv

\* Lifting an adjudication hold restores a stage that was never ACCEPTED, and
\* everything that disqualifies the row is recorded as dismissed.
LEMMA ClearAdjudicationKeepsIInv ==
  ASSUME IInv, NEW a \in Apps, NEW o \in Officers, ClearAdjudication(a, o)
  PROVE  IInv'
<1> DEFINE to == row[a].heldFrom
           m == Move(row[a], to, o)
           r == [m EXCEPT !.dismissed = HardFlags(row[a])]
<1>1. row[a] \in Row /\ RowInv(row[a]) /\ MessagesOK
  BY DEF IInv, RowsOK
<1>2. /\ row[a].status = "ADJUDICATION_REVIEW" /\ to # None
      /\ row' = [row EXCEPT ![a] = r] /\ lock' = lock /\ MessagesOK'
  BY <1>1 DEF ClearAdjudication, ClearedByOfficer, MessagesOK
<1>3. to \in Statuses /\ to # "ACCEPTED"
  BY <1>1, <1>2 DEF RowInv, Row
<1> HIDE DEF to
<1>4. /\ m \in Row /\ m.status = to /\ m.heldFrom # "ACCEPTED"
      /\ m.age = row[a].age /\ m.academic = row[a].academic
      /\ m.criminal = row[a].criminal /\ m.resolvedDims = row[a].resolvedDims
  BY <1>1, <1>2, <1>3, MoveFacts DEF RowInv, Statuses
<1> HIDE DEF m
<1>5. HardFlags(row[a]) \subseteq Dimensions \X (GateStatuses \cup CriminalStatuses)
  BY <1>1, HardFlagsFacts
<1>6. /\ r \in Row /\ r.status = m.status /\ r.heldFrom = m.heldFrom
      /\ r.age = m.age /\ r.academic = m.academic /\ r.criminal = m.criminal
      /\ r.resolvedDims = m.resolvedDims /\ r.dismissed = HardFlags(row[a])
  BY <1>4, <1>5 DEF Row
<1> HIDE DEF r
<1>7. HardFlags(r) = HardFlags(row[a])
  BY <1>4, <1>6 DEF HardFlags
<1>8. RowInv(r)
  BY <1>1, <1>3, <1>4, <1>6, <1>7 DEF RowInv, ResolutionsStand, FlagsSeen, FourEyes
<1> QED BY <1>2, <1>3, <1>4, <1>6, <1>8, RowUpdate

\* Resolving a vetting hold: the dimension gets the passing verdict, so the
\* row has no flag it did not have before, and a row on the adjudication hold
\* stays there (its DOCUMENT lane blocks).
LEMMA ClearDimensionKeepsIInv ==
  ASSUME IInv, NEW a \in Apps, NEW o \in Officers, NEW dim \in VettingDimensions,
         ClearDimension(a, o, dim)
  PROVE  IInv'
<1> DEFINE base == IF dim = "CRIMINAL" THEN [row[a] EXCEPT !.criminal = "CLEARED"]
                                       ELSE [row[a] EXCEPT !.academic = "ELIGIBLE"]
           new == [base EXCEPT !.resolvedDims = @ \cup {dim},
                               !.resolvers = @ \cup {o}]
           blocking(c) == { l \in AdjudicationLanes(row[a]) \ {dim} :
                              ~(l = "CRIMINAL" /\ c) }
           to(c) == IF blocking(c) # {} THEN row[a].status
                    ELSE DeriveStatus(row[a].status, new, c)
<1>1. row[a] \in Row /\ RowInv(row[a]) /\ MessagesOK
  BY DEF IInv, RowsOK
<1>2. PICK c \in ContentOnlyReadings :
        /\ row' = [row EXCEPT ![a] = Move(new, to(c), o)]
        /\ unsent' = unsent \cup ClearedByOfficer(a, to(c))
        /\ dim \in AdjudicationLanes(row[a])
        /\ Filed(a)
        /\ UNCHANGED <<lock, outbox, inbox, reserved>>
  BY DEF ClearDimension
<1>3. c \in BOOLEAN /\ row[a].status \in Statuses \ Terminal
  BY <1>1, <1>2 DEF ContentOnlyReadings, AdjudicationLanes, Filed, Row
<1>4. /\ base \in Row /\ base.status = row[a].status /\ base.heldFrom = row[a].heldFrom
      /\ base.resolvedDims = row[a].resolvedDims /\ base.resolvers = row[a].resolvers
      /\ base.dismissed = row[a].dismissed /\ base.age = row[a].age
      /\ base.criminal = (IF dim = "CRIMINAL" THEN "CLEARED" ELSE row[a].criminal)
      /\ base.academic = (IF dim = "CRIMINAL" THEN row[a].academic ELSE "ELIGIBLE")
  BY <1>1 DEF Row, CriminalStatuses, GateStatuses
<1> HIDE DEF base
<1>5. /\ new \in Row /\ new.status = base.status /\ new.heldFrom = base.heldFrom
      /\ new.resolvedDims = base.resolvedDims \cup {dim}
      /\ new.dismissed = base.dismissed /\ new.age = base.age
      /\ new.criminal = base.criminal /\ new.academic = base.academic
  BY <1>4 DEF Row
<1> HIDE DEF new
<1>6. /\ to(c) \in Statuses /\ to(c) # "ACCEPTED"
      /\ \/ to(c) = row[a].status
         \/ IsHardFail(new) => to(c) \in Terminal \cup { "ADJUDICATION_REVIEW" }
  BY <1>3, <1>5, DeriveFacts DEF Terminal
<1>7. row[a].status = "ADJUDICATION_REVIEW" => to(c) = "ADJUDICATION_REVIEW"
  <2>1. row[a].status = "ADJUDICATION_REVIEW" => "DOCUMENT" \in blocking(c)
    BY <1>3 DEF AdjudicationLanes, VettingDimensions
  <2> QED BY <2>1
<1> DEFINE t == to(c)
           m == Move(new, t, o)
<1>8. MessagesOK'
  BY <1>1, <1>2 DEF MessagesOK, ClearedByOfficer
<1>9. row' = [row EXCEPT ![a] = m]
  BY <1>2
<1>10. /\ t \in Statuses /\ t # "ACCEPTED"
       /\ row[a].status = "ADJUDICATION_REVIEW" => t = "ADJUDICATION_REVIEW"
       /\ t = row[a].status \/ (IsHardFail(new) => t \in Terminal \cup { "ADJUDICATION_REVIEW" })
  BY <1>6, <1>7
<1> HIDE DEF t
<1>11. /\ m \in Row /\ m.status = t /\ m.heldFrom # "ACCEPTED"
       /\ m.age = new.age /\ m.academic = new.academic /\ m.criminal = new.criminal
       /\ m.resolvedDims = new.resolvedDims /\ m.dismissed = new.dismissed
  BY <1>1, <1>3, <1>4, <1>5, <1>10, MoveFacts DEF RowInv, Terminal
<1> HIDE DEF m
<1>12. ResolutionsStand(m)
  BY <1>1, <1>4, <1>5, <1>11 DEF RowInv, ResolutionsStand, VettingDimensions
<1>13. HardFlags(m) \subseteq HardFlags(row[a]) /\ HardFlags(m) = HardFlags(new)
  BY <1>4, <1>5, <1>11 DEF HardFlags, CriminalHardFail
<1>14. FlagsSeen(m)
  <2>1. SUFFICES ASSUME t \notin Terminal \cup { "ADJUDICATION_REVIEW" }
                 PROVE  HardFlags(m) \subseteq m.dismissed
    BY <1>11 DEF FlagsSeen
  <2>2. HardFlags(row[a]) \subseteq row[a].dismissed
    BY <1>1, <1>3, <1>10, <2>1 DEF RowInv, FlagsSeen
  <2> QED BY <1>4, <1>5, <1>11, <1>13, <2>2
<1>15. RowInv(m)
  BY <1>10, <1>11, <1>12, <1>14 DEF RowInv, FourEyes
<1> QED BY <1>2, <1>3, <1>8, <1>9, <1>10, <1>11, <1>15, RowUpdate DEF Terminal

\* Publishing, losing, re-announcing and the two downstream services change
\* messages only.
LEMMA MessagingKeepsIInv ==
  ASSUME IInv,
         \/ \E a \in Apps : ReannounceStalledClearance(a) \/ DeferSlot(a)
         \/ \E a \in Apps, ack \in BOOLEAN : AssignSlot(a, ack) \/ DeliverInvitation(a, ack)
         \/ \E m \in outbox, stamped \in BOOLEAN : PublishStaged(m, stamped)
         \/ \E m \in unsent : PublishDirect(m) \/ LosePublish(m)
  PROVE  IInv'
<1>1. MessagesOK
  BY DEF IInv
<1>2. \A topic \in Topics : Subscribers[topic] \subseteq Groups
  BY DEF Topics, Subscribers, Groups
<1>3. \A topic \in Topics, a \in Apps : Announce(topic, a) \subseteq Groups \X Apps
  BY <1>2 DEF Announce
<1>4. ASSUME NEW m, m \in outbox \/ m \in unsent
      PROVE  m[1] \in Topics /\ m[2] \in Apps
  BY <1>1, <1>4 DEF MessagesOK, Topics
<1>5. CASE \E a \in Apps : ReannounceStalledClearance(a) \/ DeferSlot(a)
  BY <1>1, <1>5, MessagesUpdate DEF ReannounceStalledClearance, DeferSlot, MessagesOK
<1>6. CASE \E a \in Apps, ack \in BOOLEAN : AssignSlot(a, ack) \/ DeliverInvitation(a, ack)
  <2>1. PICK a \in Apps, ack \in BOOLEAN : AssignSlot(a, ack) \/ DeliverInvitation(a, ack)
    BY <1>6
  <2>2. /\ Announce("SLOT_ASSIGNED", a) \subseteq Groups \X Apps
        /\ Announce("NOTIFICATION_DELIVERED", a) \subseteq Groups \X Apps
    BY <1>3 DEF Topics
  <2> QED BY <1>1, <2>1, <2>2, MessagesUpdate
          DEF AssignSlot, DeliverInvitation, Acknowledge, MessagesOK
<1>7. CASE \E m \in outbox, stamped \in BOOLEAN : PublishStaged(m, stamped)
  BY <1>1, <1>3, <1>4, <1>7, MessagesUpdate DEF PublishStaged, MessagesOK
<1>8. CASE \E m \in unsent : PublishDirect(m) \/ LosePublish(m)
  BY <1>1, <1>3, <1>4, <1>8, MessagesUpdate DEF PublishDirect, LosePublish, MessagesOK
<1> QED BY <1>5, <1>6, <1>7, <1>8

----------------------------------------------------------------------------
(* The theorems *)

\* The initial state satisfies the invariant: nothing is filed or locked.
LEMMA InitIInv == Init => IInv
<1> SUFFICES ASSUME Init PROVE IInv
  OBVIOUS
<1>1. NewRow \in Row /\ NewRow.status = "ABSENT" /\ NewRow.heldFrom = None
  BY DEF NewRow, Row, GateStatuses, CriminalStatuses
<1>2. NewRow.resolvedDims = {} /\ HardFlags(NewRow) = {} /\ None # "ACCEPTED"
  BY ConstantsAssumption DEF NewRow, HardFlags, CriminalHardFail, Statuses
<1>3. RowInv(NewRow)
  BY <1>1, <1>2 DEF RowInv, ResolutionsStand, FlagsSeen, FourEyes
<1>4. \A a \in Apps : row[a] = NewRow
  BY DEF Init
<1>5. RowsOK
  BY <1>1, <1>3, <1>4 DEF Init, RowsOK
<1>6. MessagesOK
  BY DEF Init, MessagesOK
<1>7. OneAcceptancePerCitizen
  BY <1>1, <1>4 DEF Init, OneAcceptancePerCitizen
<1> QED BY <1>5, <1>6, <1>7 DEF IInv

\* Every handler of the service and every step of the messaging keeps it.
LEMMA NextIInv == IInv /\ [Next]_vars => IInv'
<1> SUFFICES ASSUME IInv, [Next]_vars PROVE IInv'
  OBVIOUS
<1>1. CASE UNCHANGED vars
  BY <1>1, MessagesUpdate DEF vars, IInv, MessagesOK
<1>2. ASSUME NEW a \in Apps,
             \/ FileApplication(a) \/ CreateWalkInApplication(a) \/ VetOnSite(a)
             \/ ApplyAgeVerdict(a) \/ ApplyAcademicVerdict(a) \/ ApplyCriminalVerdict(a)
             \/ ApplyPhysicalTestComplete(a) \/ ApplyForensicsRouting(a)
             \/ WithdrawOwn(a) \/ ReannounceStalledClearance(a) \/ DeferSlot(a)
      PROVE  IInv'
  BY <1>2, FilingKeepsIInv, VerdictsKeepIInv, ProjectionsKeepIInv, MessagingKeepsIInv
<1>3. ASSUME NEW a \in Apps, NEW ack \in BOOLEAN,
             \/ ApplySlotAssignment(a, ack) \/ ApplyNotificationDelivery(a, ack)
             \/ WithdrawSiblings(a, ack) \/ AssignSlot(a, ack)
             \/ DeliverInvitation(a, ack)
      PROVE  IInv'
  BY <1>3, SlotLaneKeepsIInv, SiblingsKeepIInv, MessagingKeepsIInv
<1>4. ASSUME NEW a \in Apps, NEW o \in Officers,
             \/ MedicalReview(a, o) \/ FinalDecision(a, o) \/ Accept(a, o)
             \/ AdjudicateReject(a, o) \/ ClearAmber(a, o) \/ ClearAdjudication(a, o)
      PROVE  IInv'
  BY <1>4, OfficerMovesKeepIInv, AcceptKeepsIInv, ClearAdjudicationKeepsIInv
<1>5. ASSUME NEW a \in Apps, NEW o \in Officers, NEW dim \in VettingDimensions,
             ClearDimension(a, o, dim)
      PROVE  IInv'
  BY <1>5, ClearDimensionKeepsIInv
<1>6. CASE \/ \E m \in outbox, stamped \in BOOLEAN : PublishStaged(m, stamped)
           \/ \E m \in unsent : PublishDirect(m) \/ LosePublish(m)
  BY <1>6, MessagingKeepsIInv
<1>7. CASE \E c \in Campaigns : CloseRegistration(c) \/ CompleteCampaign(c)
  BY <1>7, MessagesUpdate DEF CloseRegistration, CompleteCampaign, IInv, MessagesOK
<1> QED BY <1>1, <1>2, <1>3, <1>4, <1>5, <1>6, <1>7 DEF Next

\* The inductive invariant holds in every reachable state.
THEOREM Invariance == Spec => []IInv
<1> QED BY InitIInv, NextIInv, PTL DEF Spec

\* No handler of an application moves its campaign: only the administrators'
\* two commands do.
LEMMA OnlyTheCampaignMoves ==
  ASSUME [Next]_vars
  PROVE  \/ UNCHANGED campaignStatus
         \/ \E c \in Campaigns : CloseRegistration(c) \/ CompleteCampaign(c)
<1>1. ASSUME NEW a \in Apps, NEW dim, NEW new, NEW c, ApplyVettingResult(a, dim, new, c)
      PROVE  UNCHANGED campaignStatus
  BY <1>1 DEF ApplyVettingResult
<1>2. ASSUME NEW a \in Apps,
             \/ FileApplication(a) \/ CreateWalkInApplication(a) \/ VetOnSite(a)
             \/ ApplyAgeVerdict(a) \/ ApplyAcademicVerdict(a) \/ ApplyCriminalVerdict(a)
             \/ ApplyPhysicalTestComplete(a) \/ ApplyForensicsRouting(a)
             \/ WithdrawOwn(a) \/ ReannounceStalledClearance(a) \/ DeferSlot(a)
      PROVE  UNCHANGED campaignStatus
  BY <1>1, <1>2 DEF FileApplication, CreateWalkInApplication, VetOnSite, ApplyAgeVerdict,
     ApplyAcademicVerdict, ApplyCriminalVerdict, ApplyPhysicalTestComplete,
     ApplyForensicsRouting, WithdrawOwn, ReannounceStalledClearance, DeferSlot
<1>3. ASSUME NEW a \in Apps, NEW ack \in BOOLEAN,
             \/ ApplySlotAssignment(a, ack) \/ ApplyNotificationDelivery(a, ack)
             \/ WithdrawSiblings(a, ack) \/ AssignSlot(a, ack) \/ DeliverInvitation(a, ack)
      PROVE  UNCHANGED campaignStatus
  BY <1>3 DEF ApplySlotAssignment, ApplyNotificationDelivery, WithdrawSiblings, AssignSlot,
     DeliverInvitation
<1>4. ASSUME NEW a \in Apps, NEW o \in Officers,
             \/ MedicalReview(a, o) \/ FinalDecision(a, o) \/ Accept(a, o)
             \/ AdjudicateReject(a, o) \/ ClearAmber(a, o) \/ ClearAdjudication(a, o)
      PROVE  UNCHANGED campaignStatus
  BY <1>4 DEF MedicalReview, FinalDecision, Accept, AdjudicateReject, ClearAmber, ClearAdjudication
<1>5. ASSUME NEW a \in Apps, NEW o \in Officers, NEW dim \in VettingDimensions,
             ClearDimension(a, o, dim)
      PROVE  UNCHANGED campaignStatus
  BY <1>5 DEF ClearDimension
<1>6. CASE \/ \E m \in outbox, stamped \in BOOLEAN : PublishStaged(m, stamped)
           \/ \E m \in unsent : PublishDirect(m) \/ LosePublish(m)
  BY <1>6 DEF PublishStaged, PublishDirect, LosePublish
<1> QED BY <1>2, <1>3, <1>4, <1>5, <1>6 DEF Next, vars

\* Rows, locks, messages and campaigns keep the types of their columns in every
\* interleaving of handlers and deliveries.
THEOREM TypeCorrect == Spec => []TypeOK
<1> DEFINE CampaignOK == campaignStatus \in [Campaigns -> CampaignStatuses]
<1>1. Init => CampaignOK
  BY DEF Init, CampaignStatuses
<1>2. CampaignOK /\ [Next]_vars => CampaignOK'
  BY OnlyTheCampaignMoves DEF CloseRegistration, CompleteCampaign, CampaignStatuses
<1>3. IInv /\ CampaignOK => TypeOK
  BY DEF IInv, RowsOK, MessagesOK, TypeOK
<1> QED BY <1>1, <1>2, <1>3, Invariance, PTL DEF Spec

\* However many agencies and officers act concurrently, a citizen is accepted
\* at most once and the identity lock names the agency that accepted.
THEOREM AcceptedOnce == Spec => []OneAcceptancePerCitizen
<1>1. IInv => OneAcceptancePerCitizen
  BY DEF IInv
<1> QED BY <1>1, Invariance, PTL

\* An officer's resolution of a vetting hold survives every later verdict,
\* redelivery and replay.
THEOREM ResolutionSurvives == Spec => []HumanDecisionStands
<1>1. IInv => HumanDecisionStands
  BY DEF IInv, RowsOK, RowInv, ResolutionsStand, HumanDecisionStands
<1> QED BY <1>1, Invariance, PTL

\* No disqualifying verdict travels forward on a live application unless an
\* officer lifted a hold with that flag on the row.
THEOREM FlagsAreSeen == Spec => []NoUnseenFlag
<1>1. IInv => NoUnseenFlag
  BY DEF IInv, RowsOK, RowInv, FlagsSeen, NoUnseenFlag, Live
<1> QED BY <1>1, Invariance, PTL

\* With the four-eyes policy on, no officer enlists an applicant whose vetting
\* hold that officer resolved.
THEOREM AcceptedByAnother == Spec => []AccepterDidNotResolve
<1>1. IInv => AccepterDidNotResolve
  BY DEF IInv, RowsOK, RowInv, FourEyes, AccepterDidNotResolve
<1> QED BY <1>1, Invariance, PTL

----------------------------------------------------------------------------
(* The edges of the lifecycle *)

\* On the vetting ladder, on the way through the exam, and the walk-in ramp.
Early == { "SUBMITTED", "ACADEMIC_VETTING", "CRIMINAL_CLEARANCE",
           "DOCUMENT_REVIEW_GREEN", "DOCUMENT_REVIEW_AMBER" }
InFlight == { "SLOT_ASSIGNED", "PHYSICAL_TEST_SCHEDULED", "PHYSICAL_TEST_COMPLETE",
              "MEDICAL_REVIEW", "FINAL_SHORTLIST" }
Ramp == { "WALK_IN_REGISTERED", "WALK_IN_ON_SITE_VETTING", "WALK_IN_PHYSICAL_TEST",
          "WALK_IN_REJECTED" }

\* The stages a filed application is ever at.
Stages == Early \cup InFlight \cup Ramp
            \cup { "ACCEPTED", "ADJUDICATION_REVIEW", "REJECTED", "WITHDRAWN" }

\* Every move a handler makes but an officer's CLEAR of a document hold.
Edge(s, to) ==
  \/ s \in Early /\ to \in Early /\ StageRank[s] < StageRank[to]
  \/ s \in Stages \ Terminal /\ to \in { "REJECTED", "WITHDRAWN" }
  \/ s \in InFlight \cup Ramp /\ to = "ADJUDICATION_REVIEW"
  \/ <<s, to>> \in { <<"DOCUMENT_REVIEW_GREEN", "SLOT_ASSIGNED">>,
                      <<"SLOT_ASSIGNED", "PHYSICAL_TEST_SCHEDULED">>,
                      <<"PHYSICAL_TEST_SCHEDULED", "PHYSICAL_TEST_COMPLETE">>,
                      <<"PHYSICAL_TEST_COMPLETE", "MEDICAL_REVIEW">>,
                      <<"MEDICAL_REVIEW", "FINAL_SHORTLIST">>,
                      <<"FINAL_SHORTLIST", "ACCEPTED">>,
                      <<"WALK_IN_REGISTERED", "WALK_IN_ON_SITE_VETTING">>,
                      <<"WALK_IN_REGISTERED", "WALK_IN_REJECTED">>,
                      <<"WALK_IN_ON_SITE_VETTING", "WALK_IN_PHYSICAL_TEST">>,
                      <<"WALK_IN_PHYSICAL_TEST", "MEDICAL_REVIEW">> }

LEMMA RankFacts ==
  /\ StageRank["SUBMITTED"] = 1 /\ StageRank["ACADEMIC_VETTING"] = 2
  /\ StageRank["CRIMINAL_CLEARANCE"] = 3 /\ StageRank["DOCUMENT_REVIEW_GREEN"] = 4
  /\ StageRank["DOCUMENT_REVIEW_AMBER"] = 5 /\ StageRank["SLOT_ASSIGNED"] = 6
  /\ StageRank["PHYSICAL_TEST_SCHEDULED"] = 7 /\ StageRank["PHYSICAL_TEST_COMPLETE"] = 8
  /\ StageRank["MEDICAL_REVIEW"] = 9 /\ StageRank["FINAL_SHORTLIST"] = 10
  /\ StageRank["ACCEPTED"] = 11 /\ StageRank["ADJUDICATION_REVIEW"] = 12
  /\ StageRank["REJECTED"] = 13 /\ StageRank["WITHDRAWN"] = 14
  /\ StageRank["WALK_IN_REGISTERED"] = 15 /\ StageRank["WALK_IN_ON_SITE_VETTING"] = 16
  /\ StageRank["WALK_IN_PHYSICAL_TEST"] = 17 /\ StageRank["WALK_IN_REJECTED"] = 18
BY DEF StageRank

\* The verdict projection follows an edge, and none into a stage of an officer
\* or of the exam.
LEMMA DeriveFollowsEdges ==
  ASSUME NEW s \in Stages, NEW e \in Row, NEW c \in BOOLEAN, NEW to,
         to = DeriveStatus(s, e, c)
  PROVE  \/ to = s
         \/ /\ Edge(s, to)
            /\ to \in { "ACADEMIC_VETTING", "CRIMINAL_CLEARANCE", "DOCUMENT_REVIEW_GREEN",
                        "ADJUDICATION_REVIEW", "REJECTED", "WALK_IN_REJECTED" }
<1>1. CASE s \in Terminal
  BY <1>1 DEF DeriveStatus
<1>2. CASE s \notin Terminal /\ IsHardFail(e)
  <2>1. to = HardFailTarget(s)
    BY <1>2 DEF DeriveStatus
  <2> QED BY <1>2, <2>1, RankFacts
          DEF HardFailTarget, AtOrPast, Edge, Stages, Early, InFlight, Ramp, Terminal
<1>3. CASE s \notin Terminal /\ ~IsHardFail(e)
  <2> DEFINE k == Candidate(s, e, c)
  <2>1. k \in { "DOCUMENT_REVIEW_GREEN", "CRIMINAL_CLEARANCE", "ACADEMIC_VETTING", s }
    BY DEF Candidate
  <2>2. to = s \/ (to = k /\ StageRank[k] > StageRank[s])
    BY <1>3 DEF DeriveStatus
  <2> HIDE DEF k
  <2> QED BY <2>1, <2>2, RankFacts DEF Edge, Stages, Early, InFlight, Ramp, Terminal
<1> QED BY <1>1, <1>2, <1>3

\* So does the routing of a document verdict.
LEMMA ForensicsFollowsEdges ==
  ASSUME NEW s \in Stages, NEW lane, s \notin { "REJECTED", "WITHDRAWN", "ACCEPTED" },
         NEW to, to = ForensicsTarget(s, lane)
  PROVE  \/ to = s
         \/ Edge(s, to) /\ to \in { "DOCUMENT_REVIEW_AMBER", "ADJUDICATION_REVIEW", "REJECTED" }
BY RankFacts DEF ForensicsTarget, AtOrPast, Edge, Stages, Early, InFlight, Ramp, Terminal

\* Off the walk-in ramp an edge never leads back, and none leads out of a decision.
LEMMA EdgesGoForward ==
  ASSUME NEW s, NEW to, Edge(s, to)
  PROVE  /\ s \in Stages /\ to \in Stages /\ s # to
         /\ s \notin Ramp => StageRank[s] < StageRank[to]
         /\ s \notin { "ACCEPTED", "REJECTED", "WITHDRAWN" }
BY RankFacts DEF Edge, Stages, Early, InFlight, Ramp, Terminal

----------------------------------------------------------------------------
(* What a step does to a row's place in the lifecycle *)

\* The columns and the history that tell where a row stands are as they were.
Stays(r, r2) ==
  /\ r2.status = r.status /\ r2.walkIn = r.walkIn /\ r2.slot = r.slot
  /\ r2.heldFrom = r.heldFrom /\ r2.intoMedicalBy = r.intoMedicalBy
  /\ r2.medicalBy = r.medicalBy /\ r2.finalBy = r.finalBy

Enters(r, r2) ==
  /\ r.status = "ABSENT" /\ r2.slot = r.slot /\ r2.finalBy = r.finalBy
  /\ \/ r2.status = "SUBMITTED" /\ r2.walkIn = r.walkIn
     \/ r2.status = "WALK_IN_REGISTERED" /\ r2.walkIn

\* A move along an edge: the hold remembers its stage, the slot lane sets the
\* slot, the medical reviewer enters the stage, and who takes the final decision
\* is not (by policy) who entered it.
Follows(r, r2) ==
  /\ Edge(r.status, r2.status) /\ r2.walkIn = r.walkIn
  /\ r2.heldFrom = IF r2.status = "ADJUDICATION_REVIEW" THEN r.status ELSE r.heldFrom
  /\ r2.slot = (r.slot \/ r2.status = "SLOT_ASSIGNED")
  /\ r2.status = "PHYSICAL_TEST_COMPLETE" => ~r.walkIn
  /\ r2.status = "MEDICAL_REVIEW" => r2.intoMedicalBy \in Officers /\ r2.medicalBy = r2.intoMedicalBy
  /\ r2.finalBy # r.finalBy =>
       /\ r.status = "MEDICAL_REVIEW" /\ r2.finalBy \in Officers
       /\ FinalDecisionExcludesMedicalReviewer => r.intoMedicalBy # r2.finalBy
       /\ r2.medicalBy = r.medicalBy

\* An officer's CLEAR of a document hold.
Lifts(r, r2) ==
  /\ r2.walkIn = r.walkIn /\ r2.slot = r.slot /\ r2.heldFrom = r.heldFrom
  /\ r2.medicalBy = r.medicalBy /\ r2.finalBy = r.finalBy
  /\ \/ /\ r.status = "DOCUMENT_REVIEW_AMBER"
        /\ r2.status \in { "SUBMITTED", "ACADEMIC_VETTING", "CRIMINAL_CLEARANCE",
                           "DOCUMENT_REVIEW_GREEN", "REJECTED" }
     \/ /\ r.status = "ADJUDICATION_REVIEW" /\ r2.status = r.heldFrom
        /\ r2.status \in Statuses \ { "ADJUDICATION_REVIEW" }
        /\ r2.status = "MEDICAL_REVIEW" => r2.intoMedicalBy \in Officers

\* A filed row is at a stage of its lane.  A digital row past green has a slot;
\* the hold was taken from a stage of the lane.
LaneOK(r) ==
  /\ r.status \in Stages \cup { "ABSENT" }
  /\ r.status = "ABSENT" => ~r.walkIn /\ ~r.slot
  /\ ~r.walkIn =>
       /\ r.status \notin Ramp
       /\ r.status \in InFlight \cup { "ACCEPTED", "ADJUDICATION_REVIEW" } => r.slot
       /\ r.status = "ADJUDICATION_REVIEW" => r.heldFrom \in InFlight
  /\ r.walkIn =>
       /\ ~r.slot
       /\ r.status \notin Early \cup { "SLOT_ASSIGNED", "PHYSICAL_TEST_SCHEDULED",
                                       "PHYSICAL_TEST_COMPLETE" }
       /\ r.status = "ADJUDICATION_REVIEW" =>
            r.heldFrom \in Ramp \cup { "MEDICAL_REVIEW", "FINAL_SHORTLIST" }

\* Whoever entered the medical stage last carried the review out, or lifted a
\* hold placed on that stage.
MedicalOK(r) ==
  r.status = "MEDICAL_REVIEW" =>
    /\ r.intoMedicalBy \in Officers
    /\ r.intoMedicalBy # r.medicalBy => r.heldFrom = "MEDICAL_REVIEW"

\* The lanes are closed under all of it.
LEMMA StepsKeepLane ==
  ASSUME NEW r \in Row, NEW r2 \in Row, LaneOK(r), MedicalOK(r),
         Stays(r, r2) \/ Enters(r, r2) \/ Follows(r, r2) \/ Lifts(r, r2)
  PROVE  LaneOK(r2) /\ MedicalOK(r2)
<1>1. CASE Stays(r, r2)
  BY <1>1 DEF Stays, LaneOK, MedicalOK
<1>2. CASE Enters(r, r2)
  BY <1>2 DEF Enters, LaneOK, MedicalOK, Stages, Early, InFlight, Ramp
<1>3. CASE Follows(r, r2)
  <2>1. Edge(r.status, r2.status) /\ r2.status \in Stages
    BY <1>3, EdgesGoForward DEF Follows
  <2>2. LaneOK(r2)
    <3>1. CASE r.walkIn
      BY <1>3, <2>1, <3>1 DEF Follows, LaneOK, Edge, Stages, Early, InFlight, Ramp, Terminal
    <3>2. CASE ~r.walkIn
      BY <1>3, <2>1, <3>2 DEF Follows, LaneOK, Edge, Stages, Early, InFlight, Ramp, Terminal
    <3> QED BY <3>1, <3>2
  <2>3. MedicalOK(r2)
    BY <1>3 DEF Follows, MedicalOK
  <2> QED BY <2>2, <2>3
<1>4. CASE Lifts(r, r2)
  BY <1>4 DEF Lifts, LaneOK, MedicalOK, Stages, Early, InFlight, Ramp
<1> QED BY <1>1, <1>2, <1>3, <1>4

\* The columns that Move writes and the ones it leaves alone.
LEMMA MoveTrack ==
  ASSUME NEW r \in Row, NEW to, NEW by, NEW m, m = Move(r, to, by)
  PROVE  /\ m.status = to /\ m.walkIn = r.walkIn /\ m.slot = r.slot
         /\ m.medicalBy = r.medicalBy /\ m.finalBy = r.finalBy
         /\ m.heldFrom = IF to = "ADJUDICATION_REVIEW" /\ r.status # to THEN r.status ELSE r.heldFrom
         /\ m.intoMedicalBy = IF to = "MEDICAL_REVIEW" /\ r.status # to THEN by ELSE r.intoMedicalBy
BY DEF Move, Row

\* A handler that moves a row along an edge to a stage other than the slot, the
\* exam and the medical review, whatever else it wrote before.
LEMMA MoveFollows ==
  ASSUME NEW r \in Row, NEW new \in Row, Stays(r, new), NEW to, NEW by,
         to = r.status \/ Edge(r.status, to),
         to = r.status \/ to \notin { "SLOT_ASSIGNED", "PHYSICAL_TEST_COMPLETE", "MEDICAL_REVIEW" },
         NEW m, m = Move(new, to, by)
  PROVE  Stays(r, m) \/ Follows(r, m)
<1>1. /\ m.status = to /\ m.walkIn = new.walkIn /\ m.slot = new.slot
      /\ m.medicalBy = new.medicalBy /\ m.finalBy = new.finalBy
      /\ m.heldFrom = IF to = "ADJUDICATION_REVIEW" /\ new.status # to THEN new.status ELSE new.heldFrom
      /\ m.intoMedicalBy = IF to = "MEDICAL_REVIEW" /\ new.status # to THEN by ELSE new.intoMedicalBy
  BY MoveTrack
<1>2. r.slot \in BOOLEAN
  BY DEF Row
<1>3. CASE to = r.status
  BY <1>1, <1>3 DEF Stays
<1>4. CASE to # r.status
  BY <1>1, <1>2, <1>4 DEF Stays, Follows
<1> QED BY <1>3, <1>4

----------------------------------------------------------------------------
(* One lemma per group of actions: every row makes such a step *)

RowStep(b) ==
  \/ Stays(row[b], row'[b]) \/ Enters(row[b], row'[b]) \/ Follows(row[b], row'[b])
  \/ /\ Lifts(row[b], row'[b])
     /\ \E o \in Officers : ClearAmber(b, o) \/ ClearAdjudication(b, o)

LanesOK == \A a \in Apps : LaneOK(row[a])

\* A row that is not written stays, and the one that is written is what was
\* written.
LEMMA OneRowSteps ==
  ASSUME row \in [Apps -> Row], NEW a \in Apps, NEW r, row' = [row EXCEPT ![a] = r],
         Stays(row[a], r) \/ Enters(row[a], r) \/ Follows(row[a], r),
         NEW b \in Apps
  PROVE  RowStep(b)
<1>1. row'[b] = IF b = a THEN r ELSE row[b]
  OBVIOUS
<1>2. CASE b = a
  BY <1>1, <1>2 DEF RowStep
<1>3. CASE b # a
  BY <1>1, <1>3 DEF RowStep, Stays
<1> QED BY <1>2, <1>3

LEMMA UnwrittenRowsStay ==
  ASSUME row' = row, NEW b \in Apps
  PROVE  RowStep(b)
BY DEF RowStep, Stays

LEMMA FilingSteps ==
  ASSUME IInv, LanesOK, NEW a \in Apps, NEW b \in Apps,
         FileApplication(a) \/ CreateWalkInApplication(a) \/ VetOnSite(a)
  PROVE  RowStep(b)
<1>1. row \in [Apps -> Row] /\ row[a] \in Row
  BY DEF IInv, RowsOK
<1>2. CASE FileApplication(a)
  <2> DEFINE r == [row[a] EXCEPT !.status = "SUBMITTED"]
  <2>1. row' = [row EXCEPT ![a] = r] /\ row[a].status = "ABSENT"
    BY <1>2 DEF FileApplication
  <2>2. Enters(row[a], r)
    BY <1>1, <2>1 DEF Enters, Row
  <2> HIDE DEF r
  <2> QED BY <1>1, <2>1, <2>2, OneRowSteps
<1>3. CASE CreateWalkInApplication(a)
  <2> DEFINE r == [row[a] EXCEPT !.status = "WALK_IN_REGISTERED", !.walkIn = TRUE]
  <2>1. row' = [row EXCEPT ![a] = r] /\ row[a].status = "ABSENT"
    BY <1>1, <1>3 DEF CreateWalkInApplication
  <2>2. Enters(row[a], r)
    BY <1>1, <2>1 DEF Enters, Row
  <2> HIDE DEF r
  <2> QED BY <1>1, <2>1, <2>2, OneRowSteps
<1>4. CASE VetOnSite(a)
  <2>1. PICK to \in { "WALK_IN_ON_SITE_VETTING", "WALK_IN_REJECTED" } :
          row' = [row EXCEPT ![a] = Move(row[a], to, "SYSTEM")]
    BY <1>4 DEF VetOnSite
  <2>2. Edge(row[a].status, to) /\ Stays(row[a], row[a])
    BY <1>4 DEF VetOnSite, Edge, Stays
  <2>3. Stays(row[a], Move(row[a], to, "SYSTEM")) \/ Follows(row[a], Move(row[a], to, "SYSTEM"))
    BY <1>1, <2>2, MoveFollows
  <2> QED BY <1>1, <2>1, <2>3, OneRowSteps
<1> QED BY <1>2, <1>3, <1>4

\* A verdict: the evidence is no part of the place, and the policy follows edges.
LEMMA VettingSteps ==
  ASSUME IInv, LanesOK, NEW a \in Apps, NEW b \in Apps, NEW dim, NEW new \in Row,
         NEW c \in BOOLEAN, ApplyVettingResult(a, dim, new, c), Stays(row[a], new)
  PROVE  RowStep(b)
<1> DEFINE to == DeriveStatus(row[a].status, new, c)
<1>1. row \in [Apps -> Row] /\ row[a] \in Row /\ row[a].status \in Stages
  BY DEF IInv, RowsOK, LanesOK, LaneOK, ApplyVettingResult, Filed
<1>2. row' = [row EXCEPT ![a] = Move(new, to, "SYSTEM")]
  BY DEF ApplyVettingResult
<1>3. \/ to = row[a].status
      \/ /\ Edge(row[a].status, to)
         /\ to \notin { "SLOT_ASSIGNED", "PHYSICAL_TEST_COMPLETE", "MEDICAL_REVIEW" }
  BY <1>1, DeriveFollowsEdges
<1> HIDE DEF to
<1>4. Stays(row[a], Move(new, to, "SYSTEM")) \/ Follows(row[a], Move(new, to, "SYSTEM"))
  BY <1>1, <1>3, MoveFollows
<1> QED BY <1>1, <1>2, <1>4, OneRowSteps

LEMMA VerdictSteps ==
  ASSUME IInv, LanesOK, NEW a \in Apps, NEW b \in Apps,
         ApplyAgeVerdict(a) \/ ApplyAcademicVerdict(a) \/ ApplyCriminalVerdict(a)
  PROVE  RowStep(b)
<1>1. row[a] \in Row /\ ContentOnlyReadings \subseteq BOOLEAN
  BY DEF IInv, RowsOK, ContentOnlyReadings
<1>2. CASE ApplyAgeVerdict(a)
  <2>1. PICK v \in AgeVerdicts, c \in ContentOnlyReadings :
          ApplyVettingResult(a, "AGE", [row[a] EXCEPT !.age = v], c)
    BY <1>2 DEF ApplyAgeVerdict
  <2> DEFINE new == [row[a] EXCEPT !.age = v]
  <2>2. new \in Row /\ Stays(row[a], new)
    BY <1>1, ConstantsAssumption DEF Row, Stays
  <2> HIDE DEF new
  <2>3. ApplyVettingResult(a, "AGE", new, c) /\ c \in BOOLEAN
    BY <1>1, <2>1 DEF new
  <2> QED BY <2>2, <2>3, VettingSteps
<1>3. CASE ApplyAcademicVerdict(a)
  <2>1. PICK v \in AcademicVerdicts, n \in BOOLEAN, c \in ContentOnlyReadings :
          ApplyVettingResult(a, "ACADEMIC",
            [row[a] EXCEPT !.academic = v, !.nesaReview = n], c)
    BY <1>3 DEF ApplyAcademicVerdict
  <2> DEFINE new == [row[a] EXCEPT !.academic = v, !.nesaReview = n]
  <2>2. new \in Row /\ Stays(row[a], new)
    BY <1>1, ConstantsAssumption DEF Row, Stays
  <2> HIDE DEF new
  <2>3. ApplyVettingResult(a, "ACADEMIC", new, c) /\ c \in BOOLEAN
    BY <1>1, <2>1 DEF new
  <2> QED BY <2>2, <2>3, VettingSteps
<1>4. CASE ApplyCriminalVerdict(a)
  <2>1. PICK v \in CriminalVerdicts, c \in ContentOnlyReadings :
          ApplyVettingResult(a, "CRIMINAL", [row[a] EXCEPT !.criminal = v], c)
    BY <1>4 DEF ApplyCriminalVerdict
  <2> DEFINE new == [row[a] EXCEPT !.criminal = v]
  <2>2. new \in Row /\ Stays(row[a], new)
    BY <1>1, ConstantsAssumption DEF Row, Stays
  <2> HIDE DEF new
  <2>3. ApplyVettingResult(a, "CRIMINAL", new, c) /\ c \in BOOLEAN
    BY <1>1, <2>1 DEF new
  <2> QED BY <2>2, <2>3, VettingSteps
<1> QED BY <1>2, <1>3, <1>4

\* The slot, the invitation and the exam: each from one stage only.
LEMMA ExamSteps ==
  ASSUME IInv, LanesOK, NEW a \in Apps, NEW b \in Apps,
         \/ \E ack \in BOOLEAN : ApplySlotAssignment(a, ack) \/ ApplyNotificationDelivery(a, ack)
         \/ ApplyPhysicalTestComplete(a)
  PROVE  RowStep(b)
<1>1. row \in [Apps -> Row] /\ row[a] \in Row /\ LaneOK(row[a]) /\ Stays(row[a], row[a])
  BY DEF IInv, RowsOK, LanesOK, Stays
<1>2. CASE row' = row
  BY <1>2, UnwrittenRowsStay
<1>3. CASE row' # row /\ \E ack \in BOOLEAN : ApplySlotAssignment(a, ack)
  <2> DEFINE m == Move(row[a], "SLOT_ASSIGNED", "SYSTEM")
             r == [m EXCEPT !.slot = TRUE]
  <2>1. row[a].status = "DOCUMENT_REVIEW_GREEN" /\ row' = [row EXCEPT ![a] = r]
    BY <1>3 DEF ApplySlotAssignment
  <2>2. m \in Row
    BY <1>1, <2>1, MoveFacts DEF Statuses
  <2>3. /\ m.status = "SLOT_ASSIGNED" /\ m.walkIn = row[a].walkIn
        /\ m.medicalBy = row[a].medicalBy /\ m.finalBy = row[a].finalBy
        /\ m.heldFrom = row[a].heldFrom
    BY <1>1, MoveTrack
  <2> HIDE DEF m
  <2>4. Follows(row[a], r)
    BY <2>1, <2>2, <2>3 DEF Follows, Edge, Row
  <2> HIDE DEF r
  <2> QED BY <1>1, <2>1, <2>4, OneRowSteps
<1>4. CASE row' # row /\ \E ack \in BOOLEAN : ApplyNotificationDelivery(a, ack)
  <2> DEFINE m == Move(row[a], "PHYSICAL_TEST_SCHEDULED", "SYSTEM")
  <2>1. row[a].status = "SLOT_ASSIGNED" /\ row' = [row EXCEPT ![a] = m]
    BY <1>4 DEF ApplyNotificationDelivery
  <2>2. Edge(row[a].status, "PHYSICAL_TEST_SCHEDULED")
    BY <2>1 DEF Edge
  <2>3. Stays(row[a], m) \/ Follows(row[a], m)
    BY <1>1, <2>2, MoveFollows
  <2> HIDE DEF m
  <2> QED BY <1>1, <2>1, <2>3, OneRowSteps
<1>5. CASE ApplyPhysicalTestComplete(a)
  <2> DEFINE to == IF row[a].walkIn THEN "WALK_IN_PHYSICAL_TEST" ELSE "PHYSICAL_TEST_COMPLETE"
             m == Move(row[a], to, "SYSTEM")
  <2>1. /\ row' = [row EXCEPT ![a] = m]
        /\ row[a].status = IF row[a].walkIn THEN "WALK_IN_ON_SITE_VETTING" ELSE "PHYSICAL_TEST_SCHEDULED"
    BY <1>5 DEF ApplyPhysicalTestComplete
  <2>2. Edge(row[a].status, to) /\ to \in { "WALK_IN_PHYSICAL_TEST", "PHYSICAL_TEST_COMPLETE" }
        /\ (to = "PHYSICAL_TEST_COMPLETE" => ~row[a].walkIn)
    BY <2>1 DEF Edge
  <2> HIDE DEF to
  <2>3. /\ m.status = to /\ m.walkIn = row[a].walkIn /\ m.slot = row[a].slot
        /\ m.medicalBy = row[a].medicalBy /\ m.finalBy = row[a].finalBy
        /\ m.heldFrom = row[a].heldFrom /\ row[a].slot \in BOOLEAN
    BY <1>1, <2>2, MoveTrack DEF Row
  <2> HIDE DEF m
  <2>4. Follows(row[a], m)
    BY <2>2, <2>3 DEF Follows
  <2> QED BY <1>1, <2>1, <2>4, OneRowSteps
<1> QED BY <1>2, <1>3, <1>4, <1>5

\* A document verdict, the end of an application by the applicant, by an
\* officer's rejection of a hold, or by an acceptance elsewhere.
LEMMA EndingSteps ==
  ASSUME IInv, LanesOK, NEW a \in Apps, NEW b \in Apps,
         \/ ApplyForensicsRouting(a) \/ WithdrawOwn(a)
         \/ \E o \in Officers : AdjudicateReject(a, o)
         \/ \E ack \in BOOLEAN : WithdrawSiblings(a, ack)
  PROVE  RowStep(b)
<1>1. /\ row \in [Apps -> Row] /\ row[a] \in Row /\ row[b] \in Row
      /\ LaneOK(row[a]) /\ LaneOK(row[b])
      /\ Stays(row[a], row[a]) /\ Stays(row[b], row[b])
  BY DEF IInv, RowsOK, LanesOK, Stays
<1>2. CASE ApplyForensicsRouting(a)
  <2>1. PICK lane \in ForensicsLanes :
          /\ row[a].status \in Stages
          /\ row[a].status \notin { "REJECTED", "WITHDRAWN", "ACCEPTED" }
          /\ row' = [row EXCEPT ![a] =
               Move(row[a], ForensicsTarget(row[a].status, lane), "SYSTEM")]
    BY <1>1, <1>2 DEF ApplyForensicsRouting, Filed, LaneOK
  <2> DEFINE to == ForensicsTarget(row[a].status, lane)
  <2>2. \/ to = row[a].status
        \/ Edge(row[a].status, to) /\ to \in { "DOCUMENT_REVIEW_AMBER", "ADJUDICATION_REVIEW", "REJECTED" }
    BY <2>1, ForensicsFollowsEdges
  <2>3. row' = [row EXCEPT ![a] = Move(row[a], to, "SYSTEM")]
    BY <2>1
  <2> HIDE DEF to
  <2>4. Stays(row[a], Move(row[a], to, "SYSTEM")) \/ Follows(row[a], Move(row[a], to, "SYSTEM"))
    BY <1>1, <2>2, MoveFollows
  <2> QED BY <1>1, <2>3, <2>4, OneRowSteps
<1>3. ASSUME NEW to \in { "REJECTED", "WITHDRAWN" }, NEW by, NEW d \in Apps,
             row[d].status \in Stages \ Terminal
      PROVE  Stays(row[d], Move(row[d], to, by)) \/ Follows(row[d], Move(row[d], to, by))
  <2>1. Edge(row[d].status, to)
    BY <1>3 DEF Edge
  <2>2. row[d] \in Row /\ Stays(row[d], row[d])
    BY <1>1 DEF Stays
  <2> QED BY <2>1, <2>2, MoveFollows
<1>4. CASE WithdrawOwn(a)
  <2>1. /\ row' = [row EXCEPT ![a] = Move(row[a], "WITHDRAWN", "APPLICANT")]
        /\ row[a].status \in Stages \ Terminal
    BY <1>1, <1>4 DEF WithdrawOwn, Live, Filed, LaneOK
  <2>2. \/ Stays(row[a], Move(row[a], "WITHDRAWN", "APPLICANT"))
        \/ Follows(row[a], Move(row[a], "WITHDRAWN", "APPLICANT"))
    BY <1>3, <2>1
  <2> QED BY <1>1, <2>1, <2>2, OneRowSteps
<1>5. CASE \E o \in Officers : AdjudicateReject(a, o)
  <2>1. PICK o \in Officers :
          /\ row' = [row EXCEPT ![a] = Move(row[a], "REJECTED", o)]
          /\ row[a].status \in Stages \ Terminal
    BY <1>1, <1>5 DEF AdjudicateReject, AdjudicationLanes, Filed, LaneOK
  <2>2. Stays(row[a], Move(row[a], "REJECTED", o)) \/ Follows(row[a], Move(row[a], "REJECTED", o))
    BY <1>3, <2>1
  <2> QED BY <1>1, <2>1, <2>2, OneRowSteps
<1>6. CASE \E ack \in BOOLEAN : WithdrawSiblings(a, ack)
  <2>1. row'[b] = IF b \in Siblings(a) /\ Live(b)
                    THEN Move(row[b], "WITHDRAWN", "SYSTEM") ELSE row[b]
    BY <1>6 DEF WithdrawSiblings
  <2>2. CASE b \in Siblings(a) /\ Live(b)
    <3>1. row[b].status \in Stages \ Terminal
      BY <1>1, <2>2 DEF Live, Filed, LaneOK
    <3> QED BY <1>3, <2>1, <2>2, <3>1 DEF RowStep
  <2>3. CASE ~(b \in Siblings(a) /\ Live(b))
    BY <1>1, <2>1, <2>3 DEF RowStep
  <2> QED BY <2>2, <2>3
<1> QED BY <1>2, <1>4, <1>5, <1>6

\* The officers of the medical review, the final decision and the acceptance.
LEMMA DecisionSteps ==
  ASSUME IInv, LanesOK, NEW a \in Apps, NEW b \in Apps, NEW o \in Officers,
         MedicalReview(a, o) \/ FinalDecision(a, o) \/ Accept(a, o)
  PROVE  RowStep(b)
<1>1. row \in [Apps -> Row] /\ row[a] \in Row /\ row[a].slot \in BOOLEAN
  BY DEF IInv, RowsOK, Row
<1>2. ASSUME NEW to \in { "MEDICAL_REVIEW", "REJECTED", "FINAL_SHORTLIST", "ACCEPTED" },
             row[a].status \in InFlight \cup { "WALK_IN_PHYSICAL_TEST" }, row[a].status # to
      PROVE  LET m == Move(row[a], to, o)
             IN  /\ m \in Row /\ m.status = to /\ m.walkIn = row[a].walkIn /\ m.slot = row[a].slot
                 /\ m.medicalBy = row[a].medicalBy /\ m.finalBy = row[a].finalBy
                 /\ m.heldFrom = row[a].heldFrom
                 /\ to = "MEDICAL_REVIEW" => m.intoMedicalBy = o
  <2>1. Move(row[a], to, o) \in Row
    BY <1>1, <1>2, MoveFacts DEF Statuses, InFlight
  <2> QED BY <1>1, <1>2, <2>1, MoveTrack
<1>3. CASE MedicalReview(a, o)
  <2>1. PICK to \in { "MEDICAL_REVIEW", "REJECTED" } :
          row' = [row EXCEPT ![a] = [Move(row[a], to, o) EXCEPT !.medicalBy = o]]
    BY <1>3 DEF MedicalReview
  <2>2. row[a].status \in { "PHYSICAL_TEST_COMPLETE", "WALK_IN_PHYSICAL_TEST" }
    BY <1>3 DEF MedicalReview
  <2> DEFINE m == Move(row[a], to, o)
             r == [m EXCEPT !.medicalBy = o]
  <2>3. /\ m \in Row /\ m.status = to /\ m.walkIn = row[a].walkIn /\ m.slot = row[a].slot
        /\ m.finalBy = row[a].finalBy /\ m.heldFrom = row[a].heldFrom
        /\ to = "MEDICAL_REVIEW" => m.intoMedicalBy = o
    BY <1>2, <2>2 DEF InFlight
  <2> HIDE DEF m
  <2>4. /\ r.status = to /\ r.walkIn = row[a].walkIn /\ r.slot = row[a].slot
        /\ r.finalBy = row[a].finalBy /\ r.heldFrom = row[a].heldFrom
        /\ to = "MEDICAL_REVIEW" => r.intoMedicalBy = o /\ r.medicalBy = o
    BY <2>3 DEF Row
  <2> HIDE DEF r
  <2>5. Edge(row[a].status, to)
    BY <2>2 DEF Edge, Stages, InFlight, Ramp, Terminal
  <2>6. Follows(row[a], r)
    BY <1>1, <2>4, <2>5 DEF Follows
  <2> QED BY <1>1, <2>1, <2>6, OneRowSteps DEF r, m
<1>4. CASE FinalDecision(a, o)
  <2>1. PICK to \in { "FINAL_SHORTLIST", "REJECTED" } :
          row' = [row EXCEPT ![a] = [Move(row[a], to, o) EXCEPT !.finalBy = o]]
    BY <1>4 DEF FinalDecision
  <2>2. /\ row[a].status = "MEDICAL_REVIEW"
        /\ FinalDecisionExcludesMedicalReviewer => row[a].intoMedicalBy # o
    BY <1>4 DEF FinalDecision
  <2> DEFINE m == Move(row[a], to, o)
             r == [m EXCEPT !.finalBy = o]
  <2>3. /\ m \in Row /\ m.status = to /\ m.walkIn = row[a].walkIn /\ m.slot = row[a].slot
        /\ m.medicalBy = row[a].medicalBy /\ m.heldFrom = row[a].heldFrom
    BY <1>2, <2>2 DEF InFlight
  <2> HIDE DEF m
  <2>4. /\ r.status = to /\ r.walkIn = row[a].walkIn /\ r.slot = row[a].slot
        /\ r.finalBy = o /\ r.heldFrom = row[a].heldFrom /\ r.medicalBy = row[a].medicalBy
    BY <2>3 DEF Row
  <2> HIDE DEF r
  <2>5. Edge(row[a].status, to)
    BY <2>2 DEF Edge, Stages, InFlight, Terminal
  <2>6. Follows(row[a], r)
    BY <1>1, <2>2, <2>4, <2>5 DEF Follows
  <2> QED BY <1>1, <2>1, <2>6, OneRowSteps DEF r, m
<1>5. CASE Accept(a, o)
  <2> DEFINE m == Move(row[a], "ACCEPTED", o)
             r == [m EXCEPT !.acceptedBy = o]
  <2>1. row' = [row EXCEPT ![a] = r] /\ row[a].status = "FINAL_SHORTLIST"
    BY <1>5 DEF Accept
  <2>2. /\ m \in Row /\ m.status = "ACCEPTED" /\ m.walkIn = row[a].walkIn /\ m.slot = row[a].slot
        /\ m.finalBy = row[a].finalBy /\ m.heldFrom = row[a].heldFrom
    BY <1>2, <2>1 DEF InFlight
  <2> HIDE DEF m
  <2>3. /\ r.status = "ACCEPTED" /\ r.walkIn = row[a].walkIn /\ r.slot = row[a].slot
        /\ r.finalBy = row[a].finalBy /\ r.heldFrom = row[a].heldFrom
    BY <2>2 DEF Row
  <2> HIDE DEF r
  <2>4. Follows(row[a], r)
    BY <1>1, <2>1, <2>3 DEF Follows, Edge
  <2> QED BY <1>1, <2>1, <2>4, OneRowSteps
<1> QED BY <1>3, <1>4, <1>5

\* The officers who clear a hold.
LEMMA ClearSteps ==
  ASSUME IInv, LanesOK, NEW a \in Apps, NEW b \in Apps, NEW o \in Officers,
         ClearAmber(a, o) \/ ClearAdjudication(a, o)
  PROVE  RowStep(b)
<1>1. row \in [Apps -> Row] /\ row[a] \in Row
  BY DEF IInv, RowsOK
<1>2. ASSUME NEW r, row' = [row EXCEPT ![a] = r], Lifts(row[a], r)
      PROVE  RowStep(b)
  <2>1. row'[b] = IF b = a THEN r ELSE row[b]
    BY <1>1, <1>2
  <2>2. CASE b = a
    BY <1>2, <2>1, <2>2 DEF RowStep
  <2>3. CASE b # a
    BY <2>1, <2>3 DEF RowStep, Stays
  <2> QED BY <2>2, <2>3
<1>3. CASE ClearAmber(a, o)
  <2>1. PICK c \in ContentOnlyReadings :
          row' = [row EXCEPT ![a] = Move(row[a], DeriveStatus("SUBMITTED", row[a], c), o)]
    BY <1>3 DEF ClearAmber
  <2>2. c \in BOOLEAN /\ row[a].status = "DOCUMENT_REVIEW_AMBER"
    BY <1>3, <2>1 DEF ContentOnlyReadings, ClearAmber
  <2> DEFINE to == DeriveStatus("SUBMITTED", row[a], c)
             m == Move(row[a], to, o)
  <2>3. to \in { "SUBMITTED", "ACADEMIC_VETTING", "CRIMINAL_CLEARANCE",
                 "DOCUMENT_REVIEW_GREEN", "REJECTED" }
    <3>1. "SUBMITTED" \in Stages
      BY DEF Stages, Early
    <3>2. \/ to = "SUBMITTED"
          \/ /\ Edge("SUBMITTED", to)
             /\ to \in { "ACADEMIC_VETTING", "CRIMINAL_CLEARANCE", "DOCUMENT_REVIEW_GREEN",
                         "ADJUDICATION_REVIEW", "REJECTED", "WALK_IN_REJECTED" }
      BY <1>1, <2>2, <3>1, DeriveFollowsEdges
    <3> HIDE DEF to
    <3> QED BY <3>2 DEF Edge, Early, InFlight, Ramp
  <2>4. row' = [row EXCEPT ![a] = m]
    BY <2>1
  <2> HIDE DEF to
  <2>5. /\ m.status = to /\ m.walkIn = row[a].walkIn /\ m.slot = row[a].slot
        /\ m.medicalBy = row[a].medicalBy /\ m.finalBy = row[a].finalBy
        /\ m.heldFrom = row[a].heldFrom
    BY <1>1, <2>3, MoveTrack
  <2> HIDE DEF m
  <2> QED BY <1>2, <2>2, <2>3, <2>4, <2>5 DEF Lifts
<1>4. CASE ClearAdjudication(a, o)
  <2> DEFINE to == row[a].heldFrom
             m == Move(row[a], to, o)
             r == [m EXCEPT !.dismissed = HardFlags(row[a])]
  <2>1. /\ row[a].status = "ADJUDICATION_REVIEW" /\ row' = [row EXCEPT ![a] = r]
        /\ to \in Statuses \ { "ADJUDICATION_REVIEW" }
    BY <1>1, <1>4 DEF ClearAdjudication, Row
  <2>2. /\ m \in Row /\ m.status = to /\ m.walkIn = row[a].walkIn /\ m.slot = row[a].slot
        /\ m.medicalBy = row[a].medicalBy /\ m.finalBy = row[a].finalBy
        /\ m.heldFrom = row[a].heldFrom
        /\ to = "MEDICAL_REVIEW" => m.intoMedicalBy = o
    BY <1>1, <2>1, MoveTrack, MoveFacts DEF Statuses
  <2> HIDE DEF m
  <2>3. /\ r.status = to /\ r.walkIn = row[a].walkIn /\ r.slot = row[a].slot
        /\ r.medicalBy = row[a].medicalBy /\ r.finalBy = row[a].finalBy
        /\ r.heldFrom = row[a].heldFrom
        /\ to = "MEDICAL_REVIEW" => r.intoMedicalBy = o
    BY <2>2 DEF Row
  <2> HIDE DEF r
  <2> QED BY <1>2, <2>1, <2>3 DEF Lifts
<1> QED BY <1>3, <1>4

\* A vetting hold is resolved: as a verdict, or the row stays.
LEMMA ResolutionSteps ==
  ASSUME IInv, LanesOK, NEW a \in Apps, NEW b \in Apps, NEW o \in Officers,
         NEW dim \in VettingDimensions, ClearDimension(a, o, dim)
  PROVE  RowStep(b)
<1> DEFINE base == IF dim = "CRIMINAL" THEN [row[a] EXCEPT !.criminal = "CLEARED"]
                                       ELSE [row[a] EXCEPT !.academic = "ELIGIBLE"]
           new == [base EXCEPT !.resolvedDims = @ \cup {dim},
                               !.resolvers = @ \cup {o}]
<1>1. row \in [Apps -> Row] /\ row[a] \in Row
  BY DEF IInv, RowsOK
<1>2. PICK c \in ContentOnlyReadings :
        \E to \in { row[a].status, DeriveStatus(row[a].status, new, c) } :
          row' = [row EXCEPT ![a] = Move(new, to, o)] /\ Filed(a)
  BY DEF ClearDimension
<1> PICK to \in { row[a].status, DeriveStatus(row[a].status, new, c) } :
        row' = [row EXCEPT ![a] = Move(new, to, o)] /\ Filed(a)
  BY <1>2
<1>3. c \in BOOLEAN /\ row[a].status \in Stages
  BY <1>2 DEF ContentOnlyReadings, Filed, LanesOK, LaneOK
<1>4. base \in Row /\ Stays(row[a], base)
  BY <1>1 DEF Row, CriminalStatuses, GateStatuses, Stays
<1> HIDE DEF base
<1>5. new \in Row /\ Stays(base, new)
  BY <1>4 DEF Row, Stays
<1>6. Stays(row[a], new)
  BY <1>4, <1>5 DEF Stays
<1> HIDE DEF new
<1>7. \/ to = row[a].status
      \/ /\ Edge(row[a].status, to)
         /\ to \notin { "SLOT_ASSIGNED", "PHYSICAL_TEST_COMPLETE", "MEDICAL_REVIEW" }
  BY <1>2, <1>3, <1>5, DeriveFollowsEdges
<1>8. Stays(row[a], Move(new, to, o)) \/ Follows(row[a], Move(new, to, o))
  BY <1>1, <1>5, <1>6, <1>7, MoveFollows
<1> QED BY <1>1, <1>2, <1>8, OneRowSteps

\* Every step is such a step of every row.
LEMMA EveryRowSteps ==
  ASSUME IInv, LanesOK, [Next]_vars, NEW b \in Apps
  PROVE  RowStep(b)
<1>1. CASE row' = row
  BY <1>1, UnwrittenRowsStay
<1>2. ASSUME NEW a \in Apps,
             \/ FileApplication(a) \/ CreateWalkInApplication(a) \/ VetOnSite(a)
             \/ ApplyAgeVerdict(a) \/ ApplyAcademicVerdict(a) \/ ApplyCriminalVerdict(a)
             \/ ApplyPhysicalTestComplete(a) \/ ApplyForensicsRouting(a) \/ WithdrawOwn(a)
      PROVE  RowStep(b)
  BY <1>2, FilingSteps, VerdictSteps, ExamSteps, EndingSteps
<1>3. ASSUME NEW a \in Apps, NEW ack \in BOOLEAN,
             \/ ApplySlotAssignment(a, ack) \/ ApplyNotificationDelivery(a, ack)
             \/ WithdrawSiblings(a, ack)
      PROVE  RowStep(b)
  BY <1>3, ExamSteps, EndingSteps
<1>4. ASSUME NEW a \in Apps, NEW o \in Officers,
             \/ MedicalReview(a, o) \/ FinalDecision(a, o) \/ Accept(a, o)
             \/ AdjudicateReject(a, o) \/ ClearAmber(a, o) \/ ClearAdjudication(a, o)
      PROVE  RowStep(b)
  BY <1>4, DecisionSteps, EndingSteps, ClearSteps
<1>5. ASSUME NEW a \in Apps, NEW o \in Officers, NEW dim \in VettingDimensions,
             ClearDimension(a, o, dim)
      PROVE  RowStep(b)
  BY <1>5, ResolutionSteps
<1> QED BY <1>1, <1>2, <1>3, <1>4, <1>5
        DEF Next, vars, ReannounceStalledClearance, DeferSlot, AssignSlot, DeliverInvitation,
            PublishStaged, PublishDirect, LosePublish, CloseRegistration, CompleteCampaign

\* The applications that scheduling was or will be told of.
Claims ==
  { a \in Apps : \/ <<"CLEARED", a>> \in outbox \cup unsent
                 \/ <<"scheduling", a>> \in inbox
                 \/ a \in reserved }

\* A clearance is announced for a row at green and for no other.
LEMMA ClaimsGrow ==
  ASSUME IInv, [Next]_vars, NEW b \in Claims'
  PROVE  b \in Claims \/ row'[b].status = "DOCUMENT_REVIEW_GREEN"
<1>1. row \in [Apps -> Row] /\ MessagesOK /\ b \in Apps
  BY DEF IInv, RowsOK, Claims
<1>2. ASSUME UNCHANGED <<outbox, unsent, reserved>>, inbox' \subseteq inbox
      PROVE  b \in Claims
  BY <1>2 DEF Claims
<1>3. ASSUME NEW a \in Apps, NEW new \in Row, NEW to, NEW by,
             row' = [row EXCEPT ![a] = Move(new, to, by)],
             outbox' \cup unsent' \subseteq outbox \cup unsent \cup ClearedByOfficer(a, to),
             UNCHANGED <<inbox, reserved>>
      PROVE  b \in Claims \/ row'[b].status = "DOCUMENT_REVIEW_GREEN"
  <2>1. row'[a].status = to
    BY <1>1, <1>3, MoveTrack
  <2> QED BY <1>3, <2>1 DEF Claims, ClearedByOfficer
<1>4. ASSUME NEW a \in Apps,
             ApplyAgeVerdict(a) \/ ApplyAcademicVerdict(a) \/ ApplyCriminalVerdict(a)
      PROVE  b \in Claims \/ row'[b].status = "DOCUMENT_REVIEW_GREEN"
  <2>1. row[a] \in Row
    BY <1>1
  <2>2. ASSUME NEW dim, NEW c, NEW new \in Row, ApplyVettingResult(a, dim, new, c)
        PROVE  b \in Claims \/ row'[b].status = "DOCUMENT_REVIEW_GREEN"
    <3> DEFINE to == DeriveStatus(row[a].status, new, c)
    <3>1. /\ row' = [row EXCEPT ![a] = Move(new, to, "SYSTEM")]
          /\ outbox' = outbox \cup ClearedEvent(a, to)
          /\ UNCHANGED <<unsent, inbox, reserved>>
      BY <2>2 DEF ApplyVettingResult
    <3> HIDE DEF to
    <3>2. outbox' \cup unsent' \subseteq outbox \cup unsent \cup ClearedByOfficer(a, to)
      BY <3>1 DEF ClearedEvent, ClearedByOfficer
    <3> QED BY <1>3, <3>1, <3>2
  <2>3. CASE ApplyAgeVerdict(a)
    BY <2>1, <2>2, <2>3, ConstantsAssumption DEF ApplyAgeVerdict, Row
  <2>4. CASE ApplyAcademicVerdict(a)
    <3>1. PICK v \in AcademicVerdicts, n \in BOOLEAN, c \in ContentOnlyReadings :
            ApplyVettingResult(a, "ACADEMIC",
              [row[a] EXCEPT !.academic = v, !.nesaReview = n], c)
      BY <2>4 DEF ApplyAcademicVerdict
    <3>2. [row[a] EXCEPT !.academic = v, !.nesaReview = n] \in Row
      BY <2>1, <3>1, ConstantsAssumption, ZenonT(60) DEF Row
    <3> QED BY <2>2, <3>1, <3>2
  <2>5. CASE ApplyCriminalVerdict(a)
    <3>1. PICK v \in CriminalVerdicts, c \in ContentOnlyReadings :
            ApplyVettingResult(a, "CRIMINAL", [row[a] EXCEPT !.criminal = v], c)
      BY <2>5 DEF ApplyCriminalVerdict
    <3>2. [row[a] EXCEPT !.criminal = v] \in Row
      BY <2>1, <3>1, ConstantsAssumption DEF Row
    <3> QED BY <2>2, <3>1, <3>2
  <2> QED BY <1>4, <2>3, <2>4, <2>5
<1>5. ASSUME NEW a \in Apps, NEW o \in Officers, ClearAmber(a, o)
      PROVE  b \in Claims \/ row'[b].status = "DOCUMENT_REVIEW_GREEN"
  <2>1. PICK c \in ContentOnlyReadings :
          /\ row' = [row EXCEPT ![a] = Move(row[a], DeriveStatus("SUBMITTED", row[a], c), o)]
          /\ unsent' = unsent \cup ClearedByOfficer(a, DeriveStatus("SUBMITTED", row[a], c))
          /\ UNCHANGED <<outbox, inbox, reserved>>
    BY <1>5 DEF ClearAmber
  <2> QED BY <1>1, <1>3, <2>1
<1>6. ASSUME NEW a \in Apps, NEW o \in Officers, ClearAdjudication(a, o)
      PROVE  b \in Claims \/ row'[b].status = "DOCUMENT_REVIEW_GREEN"
  <2> DEFINE to == row[a].heldFrom
             m == Move(row[a], to, o)
  <2>1. /\ row' = [row EXCEPT ![a] = [m EXCEPT !.dismissed = HardFlags(row[a])]]
        /\ unsent' = unsent \cup ClearedByOfficer(a, to)
        /\ UNCHANGED <<outbox, inbox, reserved>>
        /\ to \in Statuses
    BY <1>1, <1>6 DEF ClearAdjudication, Row
  <2>2. m \in Row /\ m.status = to
    BY <1>1, <2>1, MoveTrack, MoveFacts, <1>6 DEF ClearAdjudication, Statuses
  <2> HIDE DEF m
  <2>3. row'[a].status = to
    BY <1>1, <2>1, <2>2 DEF Row
  <2> QED BY <2>1, <2>3 DEF Claims, ClearedByOfficer
<1>7. ASSUME NEW a \in Apps, NEW o \in Officers, NEW dim \in VettingDimensions,
             ClearDimension(a, o, dim)
      PROVE  b \in Claims \/ row'[b].status = "DOCUMENT_REVIEW_GREEN"
  <2> DEFINE base == IF dim = "CRIMINAL" THEN [row[a] EXCEPT !.criminal = "CLEARED"]
                                         ELSE [row[a] EXCEPT !.academic = "ELIGIBLE"]
             new == [base EXCEPT !.resolvedDims = @ \cup {dim},
                                 !.resolvers = @ \cup {o}]
  <2>1. \E to :
          /\ row' = [row EXCEPT ![a] = Move(new, to, o)]
          /\ unsent' = unsent \cup ClearedByOfficer(a, to)
          /\ UNCHANGED <<outbox, inbox, reserved>>
    BY <1>7, Zenon DEF ClearDimension
  <2>2. base \in Row
    BY <1>1 DEF Row, CriminalStatuses, GateStatuses
  <2> HIDE DEF base
  <2>3. new \in Row
    BY <2>2 DEF Row
  <2> HIDE DEF new
  <2> QED BY <1>3, <2>1, <2>3
<1>8. ASSUME NEW m, m \in outbox \/ m \in unsent, inbox' = inbox \cup Announce(m[1], m[2]),
             outbox' \cup unsent' \subseteq outbox \cup unsent, reserved' = reserved
      PROVE  b \in Claims
  <2>1. m = <<m[1], m[2]>> /\ m[1] \in { "CLEARED", "ACCEPTED" } /\ m[2] \in Apps
    BY <1>1, <1>8 DEF MessagesOK
  <2>2. <<"scheduling", b>> \in Announce(m[1], m[2]) => m[1] = "CLEARED" /\ m[2] = b
    BY <2>1 DEF Announce, Subscribers
  <2> QED BY <1>8, <2>1, <2>2 DEF Claims
<1>9. ASSUME NEW a \in Apps, NEW ack \in BOOLEAN, AssignSlot(a, ack) \/ DeliverInvitation(a, ack)
      PROVE  b \in Claims
  <2>1. /\ <<"scheduling", b>> \notin Announce("SLOT_ASSIGNED", a)
        /\ <<"scheduling", b>> \notin Announce("NOTIFICATION_DELIVERED", a)
    BY DEF Announce, Subscribers
  <2> QED BY <1>9, <2>1 DEF AssignSlot, DeliverInvitation, Acknowledge, Claims
<1>10. ASSUME NEW a \in Apps, NEW o \in Officers, Accept(a, o)
       PROVE  b \in Claims
  BY <1>10 DEF Accept, Claims
<1>11. ASSUME NEW a \in Apps, ReannounceStalledClearance(a)
       PROVE  b \in Claims \/ row'[b].status = "DOCUMENT_REVIEW_GREEN"
  BY <1>11 DEF ReannounceStalledClearance, Claims
<1>12. CASE UNCHANGED vars
  BY <1>2, <1>12 DEF vars
<1>13. ASSUME NEW a \in Apps,
              \/ FileApplication(a) \/ CreateWalkInApplication(a) \/ VetOnSite(a)
              \/ ApplyPhysicalTestComplete(a) \/ ApplyForensicsRouting(a)
              \/ WithdrawOwn(a) \/ DeferSlot(a)
       PROVE  b \in Claims
  BY <1>2, <1>13 DEF FileApplication, CreateWalkInApplication, VetOnSite,
     ApplyPhysicalTestComplete, ApplyForensicsRouting, WithdrawOwn, DeferSlot
<1>14. ASSUME NEW a \in Apps, NEW ack \in BOOLEAN,
              \/ ApplySlotAssignment(a, ack) \/ ApplyNotificationDelivery(a, ack)
              \/ WithdrawSiblings(a, ack)
       PROVE  b \in Claims
  BY <1>2, <1>14 DEF ApplySlotAssignment, ApplyNotificationDelivery, WithdrawSiblings, Acknowledge
<1>15. ASSUME NEW a \in Apps, NEW o \in Officers,
              MedicalReview(a, o) \/ FinalDecision(a, o) \/ AdjudicateReject(a, o)
       PROVE  b \in Claims
  BY <1>2, <1>15 DEF MedicalReview, FinalDecision, AdjudicateReject
<1>16. CASE \/ \E m \in outbox, stamped \in BOOLEAN : PublishStaged(m, stamped)
            \/ \E m \in unsent : PublishDirect(m) \/ LosePublish(m)
  <2>1. CASE \E m \in outbox, stamped \in BOOLEAN : PublishStaged(m, stamped)
    BY <1>8, <2>1 DEF PublishStaged
  <2>2. CASE \E m \in unsent : PublishDirect(m)
    BY <1>8, <2>2 DEF PublishDirect
  <2>3. CASE \E m \in unsent : LosePublish(m)
    BY <2>3 DEF LosePublish, Claims
  <2> QED BY <1>16, <2>1, <2>2, <2>3
<1>17. CASE \E c \in Campaigns : CloseRegistration(c) \/ CompleteCampaign(c)
  BY <1>2, <1>17 DEF CloseRegistration, CompleteCampaign
<1> QED BY <1>4, <1>5, <1>6, <1>7, <1>9, <1>10, <1>11, <1>12, <1>13, <1>14, <1>15, <1>16, <1>17
        DEF Next

----------------------------------------------------------------------------
(* The theorems about the lifecycle *)

\* The inductive invariant of the lanes: every row stands where its lane allows,
\* and scheduling is told of filed digital applications only.
LInv ==
  /\ \A a \in Apps : LaneOK(row[a]) /\ MedicalOK(row[a])
  /\ \A a \in Claims : Filed(a) /\ ~row[a].walkIn

LEMMA InitLInv == Init => LInv
<1> SUFFICES ASSUME Init PROVE LInv
  OBVIOUS
<1>1. LaneOK(NewRow) /\ MedicalOK(NewRow)
  BY DEF NewRow, LaneOK, MedicalOK, Early, InFlight, Ramp
<1>2. Claims = {}
  BY DEF Init, Claims
<1> QED BY <1>1, <1>2 DEF Init, LInv

LEMMA NextLInv == IInv /\ IInv' /\ LInv /\ [Next]_vars => LInv'
<1> SUFFICES ASSUME IInv, IInv', LInv, [Next]_vars PROVE LInv'
  OBVIOUS
<1>1. \A a \in Apps : RowStep(a)
  BY EveryRowSteps DEF LInv, LanesOK
<1>2. ASSUME NEW a \in Apps
      PROVE  LaneOK(row'[a]) /\ MedicalOK(row'[a])
  <2>1. row[a] \in Row /\ row'[a] \in Row
    BY DEF IInv, RowsOK
  <2>2. LaneOK(row[a]) /\ MedicalOK(row[a])
    BY DEF LInv
  <2> QED BY <1>1, <2>1, <2>2, StepsKeepLane DEF RowStep
<1>3. ASSUME NEW a \in Claims'
      PROVE  row'[a].status # "ABSENT" /\ ~row'[a].walkIn
  <2>1. a \in Apps
    BY DEF Claims
  <2>2. CASE row'[a].status = "DOCUMENT_REVIEW_GREEN"
    BY <1>2, <2>1, <2>2 DEF LaneOK, Early
  <2>3. CASE a \in Claims
    <3>1. row[a].status # "ABSENT" /\ ~row[a].walkIn
      BY <2>3 DEF LInv, Filed
    <3>2. CASE Follows(row[a], row'[a])
      <4>1. Edge(row[a].status, row'[a].status) /\ row'[a].walkIn = row[a].walkIn
        BY <3>2 DEF Follows
      <4>2. row'[a].status \in Stages
        BY <4>1, EdgesGoForward
      <4> QED BY <3>1, <4>1, <4>2 DEF Stages, Early, InFlight, Ramp
    <3>3. CASE Lifts(row[a], row'[a])
      BY <3>1, <3>3 DEF Lifts, Statuses
    <3> QED BY <1>1, <2>1, <3>1, <3>2, <3>3 DEF RowStep, Stays, Enters
  <2> QED BY <2>2, <2>3, ClaimsGrow
<1> QED BY <1>2, <1>3 DEF LInv, Filed

\* The lanes hold in every reachable state.
THEOREM LanesHold == Spec => [](IInv /\ LInv)
<1>1. Init => IInv /\ LInv
  BY InitIInv, InitLInv
<1>2. IInv /\ LInv /\ [Next]_vars => (IInv /\ LInv)'
  BY NextIInv, NextLInv
<1> QED BY <1>1, <1>2, PTL DEF Spec

\* Digital and walk-in applications stay in their lanes (ADR-012): the slot lane
\* never fires for a walk-in, and a hold of a digital application restores a
\* stage it really held.
THEOREM LanesStay == Spec => []LanesAreKept
<1>1. LInv => LanesAreKept
  BY DEF LInv, LanesAreKept, HoldRestoresInFlightStage, WalkInKeepsItsLane, LaneOK, Claims,
         InFlight, Early
<1> QED BY <1>1, LanesHold, PTL

\* The lifecycle runs one way (ADR-006): out of order and redelivered events take
\* no digital application back, only an officer's CLEAR does, and an acceptance,
\* a rejection or a withdrawal is never undone.
THEOREM OneWay == Spec => LifecycleIsOneWay
<1>1. ASSUME IInv, LInv, [Next]_vars
      PROVE  [OnlyAClearStepsBack /\ DecisionIsFinal]_vars
  <2>1. ASSUME NEW a \in Apps
        PROVE  /\ RowStep(a) /\ LaneOK(row[a])
               /\ row[a].status # "ABSENT" => StageRank[row[a].status] \in Nat
    <3>1. LaneOK(row[a]) /\ RowStep(a)
      BY <1>1, EveryRowSteps DEF LInv, LanesOK
    <3> QED BY <3>1, RankFacts DEF LaneOK, Stages, Early, InFlight, Ramp
  <2>2. ASSUME NEW a \in Apps, Filed(a), ~row[a].walkIn,
               StageRank[row'[a].status] < StageRank[row[a].status]
        PROVE  /\ row[a].status \in { "DOCUMENT_REVIEW_AMBER", "ADJUDICATION_REVIEW" }
               /\ \E o \in Officers : ClearAmber(a, o) \/ ClearAdjudication(a, o)
    <3>1. StageRank[row[a].status] \in Nat /\ row[a].status \notin Ramp
      BY <2>1, <2>2 DEF Filed, LaneOK
    <3>2. ~Stays(row[a], row'[a])
      BY <2>2, <3>1 DEF Stays
    <3>3. ~Enters(row[a], row'[a])
      BY <2>2 DEF Enters, Filed
    <3>4. ~Follows(row[a], row'[a])
      <4>1. SUFFICES ASSUME Edge(row[a].status, row'[a].status) PROVE FALSE
        BY DEF Follows
      <4>2. /\ StageRank[row[a].status] < StageRank[row'[a].status]
            /\ row'[a].status \in Stages
        BY <3>1, <4>1, EdgesGoForward
      <4>3. StageRank[row'[a].status] \in Nat
        BY <4>2, RankFacts DEF Stages, Early, InFlight, Ramp
      <4> QED BY <2>2, <3>1, <4>2, <4>3
    <3>5. /\ Lifts(row[a], row'[a])
          /\ \E o \in Officers : ClearAmber(a, o) \/ ClearAdjudication(a, o)
      BY <2>1, <3>2, <3>3, <3>4 DEF RowStep
    <3> QED BY <3>5 DEF Lifts
  <2>3. ASSUME NEW a \in Apps, row[a].status \in { "ACCEPTED", "REJECTED", "WITHDRAWN" }
        PROVE  row'[a].status = row[a].status
    <3>1. ~Follows(row[a], row'[a])
      BY <2>3, EdgesGoForward DEF Follows
    <3> QED BY <2>1, <2>3, <3>1 DEF RowStep, Stays, Enters, Lifts
  <2> QED BY <2>2, <2>3 DEF OnlyAClearStepsBack, DecisionIsFinal
<1> QED BY <1>1, LanesHold, PTL DEF Spec, LifecycleIsOneWay

\* Four eyes on the final decision (ADR-031): the medical reviewer signs it only
\* after another officer lifted a hold placed on that very stage.
THEOREM ReviewerNeedsAClear == Spec => MedicalReviewerNeedsAClear
<1> DEFINE A == FinalDecisionExcludesMedicalReviewer =>
       \A a \in Apps :
         /\ row'[a].finalBy # row[a].finalBy
         /\ row'[a].finalBy = row[a].medicalBy
         => /\ row[a].heldFrom = "MEDICAL_REVIEW"
            /\ row[a].intoMedicalBy \in Officers \ { row[a].medicalBy }
<1>1. ASSUME IInv, LInv, [Next]_vars
      PROVE  [A]_vars
  <2>1. SUFFICES ASSUME FinalDecisionExcludesMedicalReviewer, NEW a \in Apps,
                        row'[a].finalBy # row[a].finalBy, row'[a].finalBy = row[a].medicalBy
                 PROVE  /\ row[a].heldFrom = "MEDICAL_REVIEW"
                        /\ row[a].intoMedicalBy \in Officers \ { row[a].medicalBy }
    OBVIOUS
  <2>2. RowStep(a) /\ MedicalOK(row[a])
    BY <1>1, EveryRowSteps DEF LInv, LanesOK
  <2>3. Follows(row[a], row'[a])
    BY <2>1, <2>2 DEF RowStep, Stays, Enters, Lifts
  <2>4. row[a].status = "MEDICAL_REVIEW" /\ row[a].intoMedicalBy # row[a].medicalBy
    BY <2>1, <2>3 DEF Follows
  <2> QED BY <2>2, <2>4 DEF MedicalOK
<1> QED BY <1>1, LanesHold, PTL DEF Spec, MedicalReviewerNeedsAClear

----------------------------------------------------------------------------
(***************************************************************************)
(* Exactly-once filing, for any number of deliveries, keys and bodies.     *)
(*                                                                         *)
(* The filing invariants follow from who holds what inside a transaction:  *)
(* the uncommitted ledger row of a key has one owner and the key is not    *)
(* spent; the uncommitted application row of an intent has one owner, no   *)
(* live application stands in its way and the campaign is not closed.      *)
(***************************************************************************)

\* A claimed key is unspent and claimed by one delivery.
KeyClaimed ==
  \A d \in Deliveries : HoldsKey(d) => ~Seen(d) /\ ~KeyHeld(d)

\* An application is what the ledger row of its key names.
FiledUnderKey ==
  \A d \in Deliveries : app[d] # "NONE" =>
    ledger[KeyOf[d]] # Nothing /\ ledger[KeyOf[d]].app = d

\* An application row about to commit is alone, and its campaign accepts it.
IntentClaimed ==
  \A d \in Deliveries : HoldsIntent(d) =>
    LiveApplications(d) = {} /\ ~IntentHeld(d) /\ campaign # "CLOSED"

\* A delivery whose key was already spent only ever meets the pre-check.
RetryStopsEarly ==
  \A d \in Deliveries \ Keyless : known[d] =>
    /\ Seen(d)
    /\ \/ pc[d] = "resolveKey"
       \/ pc[d] = "done" /\ reply[d] \in { ReplayOrRefuse(d), [kind |-> "FAULT", app |-> Nothing] }

FilingInv ==
  /\ SubmissionTypeOK
  /\ KeyClaimed
  /\ FiledUnderKey
  /\ IntentClaimed
  /\ OneLivePerIntent
  /\ RetryStopsEarly
  /\ \A d \in Deliveries : pc[d] = "idle" => ~known[d]
  /\ \A d \in Deliveries : pc[d] = "raced" => found[d] # Nothing

----------------------------------------------------------------------------
\* Answers have the type of the outcomes.
LEMMA ReplayType ==
  ASSUME SubmissionTypeOK, NEW d \in Deliveries, Seen(d)
  PROVE  ReplayOrRefuse(d) \in Reply
<1>1. KeyOf[d] \in Keys
  BY DEF Keys
<1>2. ledger[KeyOf[d]] \in LedgerRow
  BY <1>1 DEF SubmissionTypeOK, Seen
<1> QED BY <1>2 DEF ReplayOrRefuse, Reply, LedgerRow

\* Every control step that writes no table: from a step that is not the
\* transaction's own, to a step whose claims hold.
LEMMA ControlStep ==
  ASSUME FilingInv, NEW d \in Deliveries, NEW to \in Steps,
         pc' = [pc EXCEPT ![d] = to],
         reply' \in [Deliveries -> Reply \cup { Nothing }],
         \A e \in Deliveries \ {d} : reply'[e] = reply[e],
         found' \in [Deliveries -> Deliveries \cup { Nothing }],
         \A e \in Deliveries \ {d} : found'[e] = found[e],
         to = "raced" => found'[d] # Nothing,
         UNCHANGED <<database, outside, known>>,
         to # "idle",
         HoldsKey(d)' => HoldsKey(d) \/ (~Seen(d) /\ ~KeyHeld(d)),
         to = "commit" => LiveApplications(d) = {} /\ ~IntentHeld(d) /\ campaign # "CLOSED",
         d \notin Keyless /\ known[d] =>
           to = "done" /\ reply'[d] \in { ReplayOrRefuse(d), [kind |-> "FAULT", app |-> Nothing] }
  PROVE  FilingInv'
<1>1. \A e \in Deliveries : pc'[e] = IF e = d THEN to ELSE pc[e]
  BY DEF FilingInv, SubmissionTypeOK
<1>2. UNCHANGED <<ledger, app, announced, campaign, verified, known>>
  BY DEF database, outside
<1>3. SubmissionTypeOK'
  BY <1>2 DEF FilingInv, SubmissionTypeOK
<1>4. \A e \in Deliveries : /\ Seen(e)' = Seen(e)
                            /\ ReplayOrRefuse(e)' = ReplayOrRefuse(e)
                            /\ LiveApplications(e)' = LiveApplications(e)
  BY <1>2 DEF Seen, ReplayOrRefuse, LiveApplications, Intent
<1>5. \A e \in Deliveries \ {d} : HoldsKey(e)' = HoldsKey(e) /\ HoldsIntent(e)' = HoldsIntent(e)
  BY <1>1 DEF HoldsKey, HoldsIntent
<1>6. KeyClaimed'
  <2>1. SUFFICES ASSUME NEW e \in Deliveries, HoldsKey(e)'
                 PROVE  ~Seen(e)' /\ ~KeyHeld(e)'
    BY DEF KeyClaimed
  <2>2. CASE e = d
    <3>1. ~Seen(d) /\ ~KeyHeld(d)
      BY <2>1, <2>2 DEF FilingInv, KeyClaimed
    <3> QED BY <1>4, <1>5, <2>2, <3>1 DEF KeyHeld
  <2>3. CASE e # d
    <3>1. ~Seen(e) /\ ~KeyHeld(e) /\ HoldsKey(e)
      BY <1>5, <2>1, <2>3 DEF FilingInv, KeyClaimed
    <3>2. KeyOf[d] = KeyOf[e] => ~HoldsKey(d)'
      BY <2>3, <3>1 DEF KeyHeld
    <3> QED BY <1>4, <1>5, <3>1, <3>2 DEF KeyHeld
  <2> QED BY <2>2, <2>3
<1>7. IntentClaimed'
  <2>1. SUFFICES ASSUME NEW e \in Deliveries, HoldsIntent(e)'
                 PROVE  LiveApplications(e)' = {} /\ ~IntentHeld(e)' /\ campaign' # "CLOSED"
    BY DEF IntentClaimed
  <2>2. CASE e = d
    <3>1. LiveApplications(d) = {} /\ ~IntentHeld(d) /\ campaign # "CLOSED"
      BY <1>1, <2>1, <2>2 DEF HoldsIntent
    <3> QED BY <1>2, <1>4, <1>5, <2>2, <3>1 DEF IntentHeld, Intent
  <2>3. CASE e # d
    <3>1. LiveApplications(e) = {} /\ ~IntentHeld(e) /\ campaign # "CLOSED" /\ HoldsIntent(e)
      BY <1>5, <2>1, <2>3 DEF FilingInv, IntentClaimed
    <3>2. Intent(d) = Intent(e) => ~HoldsIntent(d)'
      BY <1>1, <2>3, <3>1 DEF IntentHeld, HoldsIntent
    <3> QED BY <1>2, <1>4, <1>5, <3>1, <3>2 DEF IntentHeld, Intent
  <2> QED BY <2>2, <2>3
<1>8. FiledUnderKey' /\ OneLivePerIntent'
  BY <1>2 DEF FilingInv, FiledUnderKey, OneLivePerIntent, Intent
<1>9. RetryStopsEarly'
  BY <1>1, <1>2, <1>4 DEF FilingInv, RetryStopsEarly
<1> QED BY <1>1, <1>2, <1>3, <1>6, <1>7, <1>8, <1>9 DEF FilingInv

\* The statements of submit() that leave the tables alone.
LEMMA StatementsKeepIInv ==
  ASSUME FilingInv, NEW d \in Deliveries,
         \/ ResolveKey(d) \/ ReadIdentity(d) \/ FindOpenCampaign(d)
         \/ LookUpKey(d) \/ FindLiveApplication(d) \/ RereadKey(d)
         \/ ClaimKey(d) \/ InsertApplication(d) \/ ResolveLiveDuplicate(d)
         \/ Fail(d)
  PROVE  FilingInv'
<1> DEFINE fault == [kind |-> "FAULT", app |-> Nothing]
           to == pc'[d]
<1>1. SubmissionTypeOK /\ RetryStopsEarly
  BY DEF FilingInv
<1>2. pc[d] \notin { "idle", "resolveKey", "done" } => d \in Keyless \/ ~known[d]
  BY <1>1 DEF RetryStopsEarly
<1>3. ASSUME NEW r \in Reply, Answer(d, r), UNCHANGED <<found, database, outside, known>>,
             d \notin Keyless /\ known[d] => r \in { ReplayOrRefuse(d), fault }
      PROVE  FilingInv'
  <2>1. /\ pc' = [pc EXCEPT ![d] = "done"] /\ "done" \in Steps
        /\ reply' \in [Deliveries -> Reply \cup { Nothing }] /\ reply'[d] = r
        /\ \A e \in Deliveries \ {d} : reply'[e] = reply[e]
        /\ found' \in [Deliveries -> Deliveries \cup { Nothing }]
        /\ \A e \in Deliveries \ {d} : found'[e] = found[e]
    BY <1>1, <1>3 DEF Answer, SubmissionTypeOK, Steps
  <2>2. ~HoldsKey(d)'
    BY <1>1, <2>1 DEF HoldsKey, SubmissionTypeOK
  <2> QED BY <1>3, <2>1, <2>2, ControlStep
<1>4. ASSUME NEW s \in Steps \ { "idle" }, GoTo(d, s), UNCHANGED <<database, outside, known>>,
             found' \in [Deliveries -> Deliveries \cup { Nothing }],
             \A e \in Deliveries \ {d} : found'[e] = found[e],
             s = "raced" => found'[d] # Nothing,
             d \in Keyless \/ ~known[d],
             s = "insert" => ~Seen(d) /\ ~KeyHeld(d),
             s = "commit" => /\ HoldsKey(d) /\ LiveApplications(d) = {}
                             /\ ~IntentHeld(d) /\ campaign # "CLOSED"
      PROVE  FilingInv'
  <2>1. /\ pc' = [pc EXCEPT ![d] = s] /\ s \in Steps /\ s # "idle"
        /\ reply' \in [Deliveries -> Reply \cup { Nothing }]
        /\ \A e \in Deliveries \ {d} : reply'[e] = reply[e]
    BY <1>1, <1>4 DEF GoTo, SubmissionTypeOK
  <2>2. HoldsKey(d)' => HoldsKey(d) \/ (~Seen(d) /\ ~KeyHeld(d))
    BY <1>1, <1>4, <2>1 DEF HoldsKey, SubmissionTypeOK
  <2> QED BY <1>4, <2>1, <2>2, ControlStep
<1>5. ASSUME NEW k \in { "IDENTITY_NOT_VERIFIED", "NO_OPEN_CAMPAIGN", "FAULT", "KEY_REUSED" },
             Refuse(d, k), UNCHANGED <<found, database, outside, known>>,
             k = "FAULT" \/ d \in Keyless \/ ~known[d]
      PROVE  FilingInv'
  <2>1. [kind |-> k, app |-> Nothing] \in Reply
    BY DEF Reply
  <2> QED BY <1>3, <1>5, <2>1 DEF Refuse
<1>6. Seen(d) => ReplayOrRefuse(d) \in Reply
  BY <1>1, ReplayType
<1>7. found \in [Deliveries -> Deliveries \cup { Nothing }]
  BY <1>1 DEF SubmissionTypeOK
<1>8. CASE ResolveKey(d)
  <2>1. CASE Seen(d)
    BY <1>3, <1>6, <1>7, <1>8, <2>1 DEF ResolveKey
  <2>2. CASE ~Seen(d)
    <3>1. d \in Keyless \/ ~known[d]
      BY <1>1, <2>2 DEF RetryStopsEarly
    <3> QED BY <1>4, <1>7, <1>8, <2>2, <3>1 DEF ResolveKey, Steps
  <2> QED BY <2>1, <2>2
<1>9. CASE ReadIdentity(d)
  BY <1>2, <1>4, <1>5, <1>7, <1>9 DEF ReadIdentity, Steps
<1>10. CASE FindOpenCampaign(d)
  BY <1>2, <1>4, <1>5, <1>7, <1>10 DEF FindOpenCampaign, Steps
<1>11. CASE LookUpKey(d)
  BY <1>2, <1>3, <1>4, <1>6, <1>7, <1>11 DEF LookUpKey, Steps
<1>12. CASE FindLiveApplication(d)
  <2>1. CASE LiveApplications(d) = {}
    BY <1>2, <1>4, <1>7, <1>12, <2>1 DEF FindLiveApplication, Steps
  <2>2. ASSUME NEW e \in LiveApplications(d), found' = [found EXCEPT ![d] = e], GoTo(d, "raced")
        PROVE  FilingInv'
    <3>1. e \in Deliveries /\ e # Nothing
      BY SubmissionAssumption DEF LiveApplications
    <3>2. /\ found' \in [Deliveries -> Deliveries \cup { Nothing }] /\ found'[d] # Nothing
          /\ \A b \in Deliveries \ {d} : found'[b] = found[b]
      BY <1>7, <2>2, <3>1
    <3> QED BY <1>2, <1>4, <1>12, <2>2, <3>2 DEF FindLiveApplication, Steps
  <2> QED BY <1>12, <2>1, <2>2 DEF FindLiveApplication
<1>13. CASE RereadKey(d)
  <2>1. CASE Seen(d)
    BY <1>2, <1>3, <1>6, <1>7, <1>13, <2>1 DEF RereadKey
  <2>2. CASE ~Seen(d) /\ found[d] # Nothing
    <3>1. [kind |-> "ALREADY_APPLIED", app |-> found[d]] \in Reply
      BY <1>7, <2>2 DEF Reply
    <3> QED BY <1>2, <1>3, <1>13, <2>2, <3>1 DEF RereadKey
  <2>3. found[d] # Nothing
    BY <1>13 DEF RereadKey, FilingInv
  <2> QED BY <2>1, <2>2, <2>3
<1>14. CASE ClaimKey(d)
  BY <1>2, <1>3, <1>4, <1>6, <1>7, <1>14 DEF ClaimKey, Steps
<1>15. CASE InsertApplication(d)
  <2>1. CASE campaign = "CLOSED"
    BY <1>2, <1>5, <1>15, <2>1 DEF InsertApplication
  <2>2. CASE campaign # "CLOSED" /\ LiveApplications(d) = {}
    BY <1>2, <1>4, <1>7, <1>15, <2>2 DEF InsertApplication, HoldsKey, Steps
  <2>3. CASE campaign # "CLOSED" /\ LiveApplications(d) # {}
    BY <1>2, <1>4, <1>7, <1>15, <2>3 DEF InsertApplication, Steps
  <2> QED BY <2>1, <2>2, <2>3
<1>16. CASE ResolveLiveDuplicate(d)
  <2>1. ASSUME NEW e \in LiveApplications(d),
               Answer(d, [kind |-> "ALREADY_APPLIED", app |-> e])
        PROVE  FilingInv'
    <3>1. [kind |-> "ALREADY_APPLIED", app |-> e] \in Reply
      BY DEF Reply, LiveApplications
    <3> QED BY <1>2, <1>3, <1>16, <2>1, <3>1 DEF ResolveLiveDuplicate
  <2> QED BY <1>5, <1>16, <2>1 DEF ResolveLiveDuplicate
<1>17. CASE Fail(d)
  BY <1>5, <1>17 DEF Fail
<1> QED BY <1>8, <1>9, <1>10, <1>11, <1>12, <1>13, <1>14, <1>15, <1>16, <1>17

\* The arrival of a request remembers whether its key was spent.
LEMMA ReceiveKeepsIInv ==
  ASSUME FilingInv, NEW d \in Deliveries, Receive(d)
  PROVE  FilingInv'
<1> DEFINE to == IF d \in Keyless THEN "identity" ELSE "resolveKey"
<1>1. /\ pc' = [pc EXCEPT ![d] = to] /\ pc[d] = "idle"
      /\ known' = [known EXCEPT ![d] = Seen(d)]
      /\ UNCHANGED <<found, reply, ledger, app, announced, campaign, verified>>
  BY DEF Receive, GoTo, database, outside
<1>2. /\ to \in Steps /\ Seen(d) \in BOOLEAN /\ SubmissionTypeOK
      /\ to \notin { "idle", "insert", "commit", "raced" }
  BY DEF Steps, Seen, FilingInv
<1>3. d \notin Keyless => to = "resolveKey"
  OBVIOUS
<1> HIDE DEF to
<1>4. SubmissionTypeOK'
  BY <1>1, <1>2 DEF SubmissionTypeOK
<1>5. \A e \in Deliveries : /\ pc'[e] = (IF e = d THEN to ELSE pc[e])
                            /\ known'[e] = (IF e = d THEN Seen(d) ELSE known[e])
  BY <1>1, <1>2 DEF SubmissionTypeOK
<1>6. \A e \in Deliveries : /\ Seen(e)' = Seen(e)
                            /\ ReplayOrRefuse(e)' = ReplayOrRefuse(e)
                            /\ LiveApplications(e)' = LiveApplications(e)
                            /\ HoldsKey(e)' = HoldsKey(e)
                            /\ HoldsIntent(e)' = HoldsIntent(e)
  BY <1>1, <1>2, <1>5
  DEF Seen, ReplayOrRefuse, LiveApplications, Intent, HoldsKey, HoldsIntent
<1>7. KeyClaimed' /\ IntentClaimed' /\ FiledUnderKey' /\ OneLivePerIntent'
  BY <1>1, <1>6 DEF FilingInv, KeyClaimed, IntentClaimed, FiledUnderKey, OneLivePerIntent,
                    KeyHeld, IntentHeld, Intent
<1>8. RetryStopsEarly'
  BY <1>1, <1>3, <1>5, <1>6 DEF FilingInv, RetryStopsEarly
<1> QED BY <1>1, <1>2, <1>4, <1>5, <1>7, <1>8 DEF FilingInv

\* The commit spends the key it alone holds and files the intent it alone
\* holds.
LEMMA CommitKeepsIInv ==
  ASSUME FilingInv, NEW d \in Deliveries, CommitSubmission(d)
  PROVE  FilingInv'
<1> DEFINE k == KeyOf[d]
           entry == [body |-> BodyOf[d], app |-> d]
           answer == [kind |-> "SUBMITTED", app |-> d]
<1>1. /\ pc[d] = "commit" /\ pc' = [pc EXCEPT ![d] = "done"]
      /\ reply' = [reply EXCEPT ![d] = answer]
      /\ ledger' = [ledger EXCEPT ![k] = entry]
      /\ app' = [app EXCEPT ![d] = "LIVE"]
      /\ announced' = announced \cup {d}
      /\ UNCHANGED <<found, campaign, verified, known>>
  BY DEF CommitSubmission, Answer, outside
<1>2. /\ k \in Keys /\ entry \in LedgerRow /\ entry # Nothing /\ answer \in Reply
      /\ \A e \in Deliveries : KeyOf[e] \in Keys
  <2>1. k \in Keys /\ entry \in LedgerRow /\ \A e \in Deliveries : KeyOf[e] \in Keys
    BY DEF Keys, LedgerRow, Bodies
  <2>2. answer \in Reply
    BY DEF Reply
  <2>3. entry # Nothing
    BY <2>1, SubmissionAssumption
  <2> QED BY <2>1, <2>2, <2>3
<1>3. SubmissionTypeOK /\ ~Seen(d) /\ ~KeyHeld(d) /\ LiveApplications(d) = {} /\ ~IntentHeld(d)
  BY <1>1 DEF FilingInv, KeyClaimed, IntentClaimed, HoldsKey, HoldsIntent
<1> HIDE DEF entry, answer, k
<1>4. SubmissionTypeOK'
  BY <1>1, <1>2, <1>3 DEF SubmissionTypeOK, Steps
<1>5. /\ \A e \in Deliveries : pc'[e] = (IF e = d THEN "done" ELSE pc[e])
      /\ \A e \in Deliveries : app'[e] = (IF e = d THEN "LIVE" ELSE app[e])
      /\ \A e \in Deliveries : reply'[e] = (IF e = d THEN answer ELSE reply[e])
      /\ \A e \in Deliveries : ledger'[KeyOf[e]] = (IF KeyOf[e] = k THEN entry ELSE ledger[KeyOf[e]])
  BY <1>1, <1>2, <1>3 DEF SubmissionTypeOK
<1>6. \A e \in Deliveries : /\ HoldsKey(e)' => e # d /\ HoldsKey(e)
                            /\ HoldsIntent(e)' => e # d /\ HoldsIntent(e)
  BY <1>5 DEF HoldsKey, HoldsIntent
<1>7. KeyClaimed'
  <2>1. SUFFICES ASSUME NEW e \in Deliveries, HoldsKey(e)'
                 PROVE  ~Seen(e)' /\ ~KeyHeld(e)'
    BY DEF KeyClaimed
  <2>2. e # d /\ HoldsKey(e) /\ ~Seen(e) /\ ~KeyHeld(e)
    BY <1>6, <2>1 DEF FilingInv, KeyClaimed
  <2>3. KeyOf[e] # k
    BY <1>3, <2>2 DEF KeyHeld, k
  <2> QED BY <1>5, <1>6, <2>2, <2>3 DEF Seen, KeyHeld
<1>8. IntentClaimed'
  <2>1. SUFFICES ASSUME NEW e \in Deliveries, HoldsIntent(e)'
                 PROVE  LiveApplications(e)' = {} /\ ~IntentHeld(e)' /\ campaign' # "CLOSED"
    BY DEF IntentClaimed
  <2>2. /\ e # d /\ HoldsIntent(e) /\ LiveApplications(e) = {} /\ ~IntentHeld(e)
        /\ campaign # "CLOSED"
    BY <1>6, <2>1 DEF FilingInv, IntentClaimed
  <2>3. Intent(e) # Intent(d)
    BY <1>3, <2>2 DEF IntentHeld
  <2>4. LiveApplications(e)' = {}
    BY <1>5, <2>2, <2>3 DEF LiveApplications, Intent
  <2> QED BY <1>1, <1>6, <2>2, <2>4 DEF IntentHeld, Intent
<1>9. FiledUnderKey'
  <2>1. SUFFICES ASSUME NEW e \in Deliveries, app'[e] # "NONE"
                 PROVE  ledger'[KeyOf[e]] # Nothing /\ ledger'[KeyOf[e]].app = e
    BY DEF FiledUnderKey
  <2>2. CASE e = d
    BY <1>2, <1>5, <2>2 DEF k, entry
  <2>3. CASE e # d
    <3>1. ledger[KeyOf[e]] # Nothing /\ ledger[KeyOf[e]].app = e
      BY <1>5, <2>1, <2>3 DEF FilingInv, FiledUnderKey
    <3>2. KeyOf[e] # k
      BY <1>3, <3>1 DEF Seen, k
    <3> QED BY <1>5, <3>1, <3>2
  <2> QED BY <2>2, <2>3
<1>10. OneLivePerIntent'
  BY <1>3, <1>5 DEF FilingInv, OneLivePerIntent, LiveApplications, Intent
<1>11. RetryStopsEarly'
  <2>1. SUFFICES ASSUME NEW e \in Deliveries \ Keyless, known[e]
                 PROVE  /\ Seen(e)'
                        /\ \/ pc'[e] = "resolveKey"
                           \/ pc'[e] = "done" /\ reply'[e] \in
                                { ReplayOrRefuse(e)', [kind |-> "FAULT", app |-> Nothing] }
    BY <1>1 DEF RetryStopsEarly
  <2>2. /\ Seen(e)
        /\ \/ pc[e] = "resolveKey"
           \/ pc[e] = "done" /\ reply[e] \in
                { ReplayOrRefuse(e), [kind |-> "FAULT", app |-> Nothing] }
    BY <2>1 DEF FilingInv, RetryStopsEarly
  <2>3. KeyOf[e] # k /\ e # d
    BY <1>3, <2>2 DEF Seen, k
  <2>4. ledger'[KeyOf[e]] = ledger[KeyOf[e]] /\ pc'[e] = pc[e] /\ reply'[e] = reply[e]
    BY <1>5, <2>3
  <2> QED BY <2>2, <2>4 DEF Seen, ReplayOrRefuse
<1> QED BY <1>1, <1>4, <1>5, <1>7, <1>8, <1>9, <1>10, <1>11 DEF FilingInv

\* Withdrawals, the registration window, the close and identity changes.
LEMMA OutsideKeepsIInv ==
  ASSUME FilingInv,
         \/ \E d \in Deliveries : Withdraw(d)
         \/ WindowLapses \/ CloseCampaign \/ IdentityChanges
  PROVE  FilingInv'
<1>1. UNCHANGED <<pc, found, reply, ledger, announced, known>> /\ SubmissionTypeOK
  BY DEF Withdraw, WindowLapses, CloseCampaign, IdentityChanges, database, outside, FilingInv
<1>2. \A e \in Deliveries : /\ Seen(e)' = Seen(e)
                            /\ ReplayOrRefuse(e)' = ReplayOrRefuse(e)
                            /\ HoldsKey(e)' = HoldsKey(e)
                            /\ HoldsIntent(e)' = HoldsIntent(e)
  BY <1>1 DEF Seen, ReplayOrRefuse, HoldsKey, HoldsIntent
<1>3. /\ SubmissionTypeOK'
      /\ \A e \in Deliveries : /\ app'[e] = "LIVE" => app[e] = "LIVE"
                               /\ app'[e] # "NONE" => app[e] # "NONE"
  BY <1>1 DEF SubmissionTypeOK, Withdraw, WindowLapses, CloseCampaign, IdentityChanges,
              database, outside
<1>4. \A e \in Deliveries : HoldsIntent(e) => campaign' # "CLOSED"
  BY DEF FilingInv, IntentClaimed, Withdraw, WindowLapses, CloseCampaign, IdentityChanges, outside
<1>5. KeyClaimed' /\ FiledUnderKey' /\ OneLivePerIntent' /\ RetryStopsEarly'
  BY <1>1, <1>2, <1>3 DEF FilingInv, KeyClaimed, FiledUnderKey, OneLivePerIntent,
                          RetryStopsEarly, KeyHeld, Intent
<1>6. IntentClaimed'
  BY <1>2, <1>3, <1>4 DEF FilingInv, IntentClaimed, LiveApplications, IntentHeld, Intent
<1> QED BY <1>1, <1>3, <1>5, <1>6 DEF FilingInv

----------------------------------------------------------------------------
(* The theorems *)

\* Nothing has arrived and nothing is filed.
LEMMA InitFilingInv == SubmissionInit => FilingInv
<1> SUFFICES ASSUME SubmissionInit PROVE FilingInv
  OBVIOUS
<1>1. SubmissionTypeOK
  BY DEF SubmissionInit, SubmissionTypeOK, Steps
<1>2. \A d \in Deliveries : /\ pc[d] = "idle" /\ app[d] = "NONE" /\ ~known[d]
                            /\ ~HoldsKey(d) /\ ~HoldsIntent(d)
  BY DEF SubmissionInit, HoldsKey, HoldsIntent
<1> QED BY <1>1, <1>2 DEF FilingInv, KeyClaimed, FiledUnderKey, IntentClaimed,
                          OneLivePerIntent, RetryStopsEarly

\* Every statement of every delivery keeps the claims.
LEMMA NextFilingInv == FilingInv /\ [SubmissionNext]_submissionVars => FilingInv'
<1> SUFFICES ASSUME FilingInv, [SubmissionNext]_submissionVars PROVE FilingInv'
  OBVIOUS
<1>1. CASE UNCHANGED submissionVars
  <2>1. \A e \in Deliveries : /\ Seen(e)' = Seen(e)
                              /\ ReplayOrRefuse(e)' = ReplayOrRefuse(e)
                              /\ LiveApplications(e)' = LiveApplications(e)
                              /\ HoldsKey(e)' = HoldsKey(e)
                              /\ HoldsIntent(e)' = HoldsIntent(e)
    BY <1>1 DEF submissionVars, Seen, ReplayOrRefuse, LiveApplications, HoldsKey, HoldsIntent, Intent
  <2>2. KeyClaimed' /\ IntentClaimed' /\ RetryStopsEarly'
    BY <1>1, <2>1 DEF submissionVars, FilingInv, KeyClaimed, IntentClaimed, RetryStopsEarly,
                      KeyHeld, IntentHeld, Intent
  <2>3. SubmissionTypeOK' /\ FiledUnderKey' /\ OneLivePerIntent'
    BY <1>1 DEF submissionVars, FilingInv, SubmissionTypeOK, FiledUnderKey, OneLivePerIntent, Intent
  <2> QED BY <1>1, <2>2, <2>3 DEF submissionVars, FilingInv
<1>2. ASSUME NEW d \in Deliveries, Receive(d) \/ Advance(d) \/ Fail(d)
      PROVE  FilingInv'
  BY <1>2, ReceiveKeepsIInv, StatementsKeepIInv, CommitKeepsIInv DEF Advance
<1>3. CASE \/ \E d \in Deliveries : Withdraw(d)
           \/ WindowLapses \/ CloseCampaign \/ IdentityChanges
  BY <1>3, OutsideKeepsIInv
<1> QED BY <1>1, <1>2, <1>3 DEF SubmissionNext

\* The inductive invariant holds in every reachable state.
THEOREM FilingInvariance == SubmissionSpec => []FilingInv
<1> QED BY InitFilingInv, NextFilingInv, PTL DEF SubmissionSpec

\* Control state, answers and tables keep their types.
THEOREM SubmissionTypeCorrect == SubmissionSpec => []SubmissionTypeOK
<1>1. FilingInv => SubmissionTypeOK
  BY DEF FilingInv
<1> QED BY <1>1, FilingInvariance, PTL

\* Whatever the number of retries and concurrent deliveries, an idempotency
\* key files one application at most.
THEOREM FiledOncePerKey == SubmissionSpec => []KeyFilesOnce
<1>1. FilingInv => KeyFilesOnce
  BY DEF FilingInv, FiledUnderKey, KeyFilesOnce
<1> QED BY <1>1, FilingInvariance, PTL

\* The live-intent rule holds whichever keys race.
THEOREM OneLive == SubmissionSpec => []OneLivePerIntent
<1>1. FilingInv => OneLivePerIntent
  BY DEF FilingInv
<1> QED BY <1>1, FilingInvariance, PTL

\* Both rules of filing together: one application per key, one live application
\* per intent.
THEOREM FiledOnce == SubmissionSpec => []OneFiling
<1>1. KeyFilesOnce /\ OneLivePerIntent => OneFiling
  BY DEF OneFiling
<1> QED BY <1>1, FiledOncePerKey, OneLive, PTL

\* A retry of a recorded submission is answered from the ledger.
THEOREM RetriesReplay == SubmissionSpec => []RetryIsReplayed
<1>1. FilingInv => RetryIsReplayed
  BY DEF FilingInv, RetryStopsEarly, RetryIsReplayed
<1> QED BY <1>1, FilingInvariance, PTL

\* No submission is filed into a closed or cancelled campaign.
THEOREM ClosedStaysClosed == SubmissionSpec => NothingFiledAfterClose
<1>1. FilingInv /\ [SubmissionNext]_submissionVars =>
        [campaign = "CLOSED" =>
           \A d \in Deliveries : app[d] = "NONE" => app'[d] = "NONE"]_submissionVars
  <2> SUFFICES ASSUME FilingInv, SubmissionNext, campaign = "CLOSED", NEW d \in Deliveries, app[d] = "NONE"
               PROVE  app'[d] = "NONE"
    BY DEF submissionVars
  <2>1. \A e \in Deliveries : ~CommitSubmission(e)
    BY DEF FilingInv, IntentClaimed, HoldsIntent, CommitSubmission
  <2>2. CASE \E e \in Deliveries : Withdraw(e)
    BY <2>2 DEF Withdraw, FilingInv, SubmissionTypeOK
  <2>3. CASE UNCHANGED app
    BY <2>3
  <2> QED BY <2>1, <2>2, <2>3
          DEF SubmissionNext, Receive, Advance, ResolveKey, ReadIdentity, FindOpenCampaign,
              LookUpKey, FindLiveApplication, RereadKey, ClaimKey, InsertApplication,
              ResolveLiveDuplicate, Fail, WindowLapses, CloseCampaign, IdentityChanges,
              database
<1> QED BY <1>1, FilingInvariance, PTL DEF SubmissionSpec, NothingFiledAfterClose

----------------------------------------------------------------------------
(* The request that meets the application of its own twin *)

\* A request that met a live application has it for good, and was answered with
\* it only when the application's key was another: a filed application has its
\* key in the ledger, which the request read after it had met the application.
MetAnother ==
  /\ \A d \in Deliveries : pc[d] # "done" => reply[d] = Nothing
  /\ \A d \in Deliveries : found[d] # Nothing =>
       /\ pc[d] \in { "raced", "done" }
       /\ app[found[d]] # "NONE"
       /\ pc[d] = "done" /\ reply[d].kind = "ALREADY_APPLIED"
            => KeyOf[reply[d].app] # KeyOf[d]

\* A step of delivery d to another statement, or to its answer.
LEMMA MetAnotherStep ==
  ASSUME FilingInv, MetAnother, NEW d \in Deliveries,
         pc[d] # "done",
         \A e \in Deliveries \ {d} : /\ pc'[e] = pc[e] /\ reply'[e] = reply[e]
                                     /\ found'[e] = found[e],
         \A e \in Deliveries : app[e] # "NONE" => app'[e] # "NONE",
         found'[d] # Nothing => /\ found'[d] \in Deliveries /\ app[found'[d]] # "NONE"
                             /\ pc'[d] \in { "raced", "done" },
         pc'[d] # "done" => reply'[d] = Nothing,
         found'[d] # Nothing /\ pc'[d] = "done" /\ reply'[d].kind = "ALREADY_APPLIED"
           => KeyOf[reply'[d].app] # KeyOf[d]
  PROVE  MetAnother'
<1>1. \A e \in Deliveries : found[e] # Nothing => found[e] \in Deliveries
  BY DEF FilingInv, SubmissionTypeOK
<1>2. \A e \in Deliveries : pc'[e] # "done" => reply'[e] = Nothing
  BY DEF MetAnother
<1>3. ASSUME NEW e \in Deliveries, found'[e] # Nothing
      PROVE  /\ pc'[e] \in { "raced", "done" }
             /\ app'[found'[e]] # "NONE"
             /\ pc'[e] = "done" /\ reply'[e].kind = "ALREADY_APPLIED"
                  => KeyOf[reply'[e].app] # KeyOf[e]
  <2>1. CASE e = d
    BY <1>3, <2>1
  <2>2. CASE e # d
    BY <1>1, <1>3, <2>2 DEF MetAnother
  <2> QED BY <2>1, <2>2
<1> QED BY <1>2, <1>3 DEF MetAnother

\* The statements that only answer or go on, and meet no application.
LEMMA PlainStatementsKeepMetAnother ==
  ASSUME FilingInv, MetAnother, NEW d \in Deliveries,
         \/ Receive(d) \/ ResolveKey(d) \/ ReadIdentity(d) \/ FindOpenCampaign(d)
         \/ LookUpKey(d) \/ ClaimKey(d) \/ InsertApplication(d)
         \/ CommitSubmission(d) \/ ResolveLiveDuplicate(d)
  PROVE  MetAnother'
<1>1. pc[d] \notin { "raced", "done" }
  BY DEF Receive, ResolveKey, ReadIdentity, FindOpenCampaign, LookUpKey, ClaimKey,
         InsertApplication, CommitSubmission, ResolveLiveDuplicate
<1>2. found[d] = Nothing /\ reply[d] = Nothing
  BY <1>1 DEF MetAnother
<1>3. found' = found
  BY DEF Receive, ResolveKey, ReadIdentity, FindOpenCampaign, LookUpKey, ClaimKey,
         InsertApplication, CommitSubmission, ResolveLiveDuplicate
<1>4. pc \in [Deliveries -> Steps] /\ reply \in [Deliveries -> Reply \cup { Nothing }]
      /\ app \in [Deliveries -> { "NONE", "LIVE", "WITHDRAWN" }]
  BY DEF FilingInv, SubmissionTypeOK
<1>5. \/ \E r : Answer(d, r)
      \/ \E step : GoTo(d, step)
  BY DEF Receive, ResolveKey, ReadIdentity, FindOpenCampaign, LookUpKey, ClaimKey,
         InsertApplication, CommitSubmission, ResolveLiveDuplicate, Refuse
<1>6. /\ \A e \in Deliveries \ {d} : pc'[e] = pc[e] /\ reply'[e] = reply[e]
      /\ pc'[d] # "done" => reply'[d] = Nothing
  <2>1. ASSUME NEW r, Answer(d, r)
        PROVE  /\ \A e \in Deliveries \ {d} : pc'[e] = pc[e] /\ reply'[e] = reply[e]
               /\ pc'[d] # "done" => reply'[d] = Nothing
    BY <1>4, <2>1 DEF Answer
  <2>2. ASSUME NEW step, GoTo(d, step)
        PROVE  /\ \A e \in Deliveries \ {d} : pc'[e] = pc[e] /\ reply'[e] = reply[e]
               /\ pc'[d] # "done" => reply'[d] = Nothing
    BY <1>2, <1>4, <2>2 DEF GoTo
  <2> QED BY <1>5, <2>1, <2>2
<1>7. app' = app \/ app' = [app EXCEPT ![d] = "LIVE"]
  BY DEF Receive, ResolveKey, ReadIdentity, FindOpenCampaign, LookUpKey, ClaimKey,
         InsertApplication, CommitSubmission, ResolveLiveDuplicate, database
<1>8. \A e \in Deliveries : app[e] # "NONE" => app'[e] # "NONE"
  BY <1>4, <1>7
<1> QED BY <1>1, <1>2, <1>3, <1>6, <1>8, MetAnotherStep

\* The two statements around a live application, and a failure at any of them.
LEMMA MeetingKeepsMetAnother ==
  ASSUME FilingInv, MetAnother, NEW d \in Deliveries,
         FindLiveApplication(d) \/ RereadKey(d) \/ Fail(d)
  PROVE  MetAnother'
<1>1. /\ pc \in [Deliveries -> Steps] /\ reply \in [Deliveries -> Reply \cup { Nothing }]
      /\ found \in [Deliveries -> Deliveries \cup { Nothing }]
  BY DEF FilingInv, SubmissionTypeOK
<1>2. UNCHANGED <<app, ledger>> /\ pc[d] # "done"
  BY DEF FindLiveApplication, RereadKey, Fail, database
<1>3. reply[d] = Nothing
  BY <1>2 DEF MetAnother
<1>4. CASE FindLiveApplication(d)
  <2>1. CASE LiveApplications(d) = {} /\ GoTo(d, "claim") /\ UNCHANGED found
    <3>1. found[d] = Nothing
      BY <1>4 DEF FindLiveApplication, MetAnother
    <3> QED BY <1>1, <1>2, <1>3, <2>1, <3>1, MetAnotherStep DEF GoTo
  <2>2. ASSUME NEW e \in LiveApplications(d), found' = [found EXCEPT ![d] = e], GoTo(d, "raced")
        PROVE  MetAnother'
    <3>1. e \in Deliveries /\ app[e] # "NONE"
      BY DEF LiveApplications
    <3> QED BY <1>1, <1>2, <1>3, <2>2, <3>1, MetAnotherStep DEF GoTo
  <2> QED BY <1>4, <2>1, <2>2 DEF FindLiveApplication
<1>5. CASE RereadKey(d)
  <2>1. found[d] # Nothing /\ found[d] \in Deliveries /\ app[found[d]] # "NONE" /\ found' = found
    BY <1>1, <1>5 DEF RereadKey, FilingInv, MetAnother
  <2>2. /\ pc' = [pc EXCEPT ![d] = "done"]
        /\ reply' = [reply EXCEPT ![d] =
                       IF Seen(d) THEN ReplayOrRefuse(d)
                       ELSE [kind |-> "ALREADY_APPLIED", app |-> found[d]]]
    BY <1>5 DEF RereadKey, Answer
  <2>3. CASE Seen(d)
    <3>1. reply'[d].kind # "ALREADY_APPLIED"
      BY <1>1, <2>2, <2>3 DEF ReplayOrRefuse
    <3> QED BY <1>1, <1>2, <2>1, <2>2, <3>1, MetAnotherStep
  <2>4. CASE ~Seen(d)
    <3>1. ledger[KeyOf[found[d]]] # Nothing
      BY <2>1 DEF FilingInv, FiledUnderKey
    <3>2. KeyOf[found[d]] # KeyOf[d]
      BY <2>4, <3>1 DEF Seen
    <3>3. reply'[d].app = found[d]
      BY <1>1, <2>2, <2>4
    <3> QED BY <1>1, <1>2, <2>1, <2>2, <3>2, <3>3, MetAnotherStep
  <2> QED BY <2>3, <2>4
<1>6. CASE Fail(d)
  <2>1. /\ pc' = [pc EXCEPT ![d] = "done"] /\ found' = found
        /\ reply' = [reply EXCEPT ![d] = [kind |-> "FAULT", app |-> Nothing]]
    BY <1>6 DEF Fail, Refuse, Answer
  <2>2. reply'[d].kind # "ALREADY_APPLIED"
    BY <1>1, <2>1
  <2>3. found[d] # Nothing => found[d] \in Deliveries /\ app[found[d]] # "NONE"
    BY <1>1 DEF MetAnother
  <2> QED BY <1>1, <1>2, <2>1, <2>2, <2>3, MetAnotherStep
<1> QED BY <1>4, <1>5, <1>6

\* Whoever retries, later or next to the first delivery, gets the result of its
\* own key and is never told that somebody else applied, for any number of
\* deliveries, keys and bodies.
THEOREM RetriesAnswered == SubmissionSpec => []RetriesGetTheirOwn
<1>1. SubmissionInit => MetAnother
  BY DEF SubmissionInit, MetAnother
<1>2. FilingInv /\ MetAnother /\ [SubmissionNext]_submissionVars => MetAnother'
  <2> SUFFICES ASSUME FilingInv, MetAnother, [SubmissionNext]_submissionVars PROVE MetAnother'
    OBVIOUS
  <2>1. ASSUME NEW d \in Deliveries, Receive(d) \/ Advance(d) \/ Fail(d)
        PROVE  MetAnother'
    BY <2>1, PlainStatementsKeepMetAnother, MeetingKeepsMetAnother DEF Advance
  <2>2. ASSUME NEW d \in Deliveries, Withdraw(d) PROVE MetAnother'
    <3>1. /\ UNCHANGED <<pc, found, reply>> /\ app' = [app EXCEPT ![d] = "WITHDRAWN"]
          /\ app \in [Deliveries -> { "NONE", "LIVE", "WITHDRAWN" }]
          /\ found \in [Deliveries -> Deliveries \cup { Nothing }]
      BY <2>2 DEF Withdraw, FilingInv, SubmissionTypeOK
    <3>2. \A e \in Deliveries : app[e] # "NONE" => app'[e] # "NONE"
      BY <3>1
    <3> QED BY <3>1, <3>2 DEF MetAnother
  <2>3. CASE UNCHANGED <<pc, found, reply, app>>
    BY <2>3 DEF MetAnother
  <2>4. WindowLapses \/ CloseCampaign \/ IdentityChanges \/ UNCHANGED submissionVars
          => UNCHANGED <<pc, found, reply, app>>
    BY DEF WindowLapses, CloseCampaign, IdentityChanges, submissionVars, database
  <2> QED BY <2>1, <2>2, <2>3, <2>4 DEF SubmissionNext
<1>3. MetAnother => RacingRetryGetsItsOwn
  BY DEF MetAnother, RacingRetryGetsItsOwn
<1>4. RetryIsReplayed /\ RacingRetryGetsItsOwn => RetriesGetTheirOwn
  BY DEF RetriesGetTheirOwn
<1> QED BY <1>1, <1>2, <1>3, <1>4, FilingInvariance, RetriesReplay, PTL DEF SubmissionSpec
=============================================================================
