------------------------------ MODULE Casework ------------------------------
(***************************************************************************)
(* How one application is judged: the citizen's documents (DocumentSlot),  *)
(* the clearance certificate (ClearanceDesk), the age, NESA, HEC and RIB   *)
(* gates, the projections that put their verdicts on the row, and the      *)
(* officer who decides the holds.  Unlike in Applications, where verdicts  *)
(* are arbitrary inputs, here they come from the services that make them.  *)
(***************************************************************************)
EXTENDS DocumentSlot, ClearanceDesk

CONSTANTS
    AgeOnDate,     \* the applicant's age on the policy's reference date
    AgeCriteria,   \* the engine's age band for the category
    Requirement,   \* the engine's education requirement for the category
    Policy,        \* the campaign's pinned policy v2, or None
    ClearanceContentReviewAdmitsToExam

\* What the inputs of an instance are, and that SQL NULL is no value.
ASSUME CaseworkAssumption ==
    /\ \A sc \in Scopes :
         /\ sc.contents \subseteq Content
         /\ \A a \in sc.certificates : a.source = "IREMBO" /\ a.age \in Nat \cup {None}
    /\ ValidityDays \in Nat
    /\ None \notin Nat \cup Content \cup Calls \cup Handlings

VARIABLE
    routed   \* history: document revisions whose amber verdict was projected before a slot

vars == <<scope, row, verdicts, answers, slotVars, deskVars, routed>>

Init == CaseInit /\ SlotInit /\ DeskInit /\ routed = {}

-----------------------------------------------------------------------------
(* The gates.  A registry that is down only delays its answer. *)

\* The age gate: the campaign's printed window, or the engine's band.
EvaluateAge ==
    /\ Publish(Verdict("AGE",
         IF WithinBand(AgeOnDate, IF Policy = None THEN AgeCriteria ELSE AgeEnvelope(Policy))
           THEN "ELIGIBLE" ELSE "INELIGIBLE", FALSE, None))
    /\ UNCHANGED <<scope, row, answers, slotVars, deskVars, routed>>

AcademicVerdict(a) ==
    IF a.source = "NESA" THEN VerifyNesa(a, Requirement, Policy, AgeOnDate)
                         ELSE VerifyHec(a, Requirement, Policy, AgeOnDate)

EvaluateAcademic(a) ==
    LET v == AcademicVerdict(a)
    IN  /\ a.source \in {"NESA", "HEC"}
        /\ Received(a)
        /\ Publish(Verdict("ACADEMIC", v.verdict, v.review, None))
        /\ UNCHANGED <<scope, row, slotVars, deskVars, routed>>

\* CLEARANCE_MODE without certificates: RIB is asked.
VerifyRib(a) ==
    /\ a.source = "RIB"
    /\ Received(a)
    /\ Publish(Verdict("CRIMINAL", EvaluateCriminalClearance(a), FALSE, None))
    /\ UNCHANGED <<scope, row, slotVars, deskVars, routed>>

\* attach: a closed application refuses, a cleared one has nothing to verify.
AttachCertificate(cert) ==
    /\ row.status \notin Terminal
    /\ row.criminal # "CLEARED"
    /\ owed' = owed \cup {cert}
    /\ UNCHANGED <<scope, row, verdicts, answers, slotVars, log, parked, handling, overlapped,
                   routed>>

-----------------------------------------------------------------------------
(* The projections of application-service *)

Move(r, to) ==
    [r EXCEPT !.status = to,
              !.heldFrom = IF to = "ADJUDICATION_REVIEW" /\ r.status # to THEN r.status ELSE @]

\* Both writers of the status read the latest verification the same way.
ContentOnly(criminal) ==
    ClearanceContentReviewAdmitsToExam /\ criminal = "UNDER_REVIEW" /\ ContentReviewOnly

\* The row with the verdict's column replaced.
Projected(v) ==
    IF v.dim = "AGE" THEN [row EXCEPT !.age = v.value]
    ELSE IF v.dim = "CRIMINAL" THEN [row EXCEPT !.criminal = v.value]
    ELSE [row EXCEPT !.academic = v.value, !.nesaReview = v.review]

\* applyVettingResult
ApplyVettingResult(v) ==
    LET new == Projected(v)
    IN  /\ v.dim # "DOCUMENT"
        /\ ~DecidedByHuman(row.resolvedDims, v.dim)
        /\ row' = Move(new, DeriveStatus(row.status, new, ContentOnly(new.criminal)))
        /\ UNCHANGED <<scope, verdicts, answers, slotVars, deskVars, routed>>

\* applyForensicsRouting
ApplyForensicsRouting(v) ==
    /\ v.dim = "DOCUMENT"
    /\ row.status \notin {"REJECTED", "WITHDRAWN", "ACCEPTED"}
    /\ row' = Move(row, ForensicsTarget(row.status, v.value))
    /\ routed' = IF v.value = "AMBER" /\ ~AtOrPast(row.status, "SLOT_ASSIGNED")
                   THEN routed \cup {v.doc} ELSE routed
    /\ UNCHANGED <<scope, verdicts, answers, slotVars, deskVars>>

\* applySlotAssignment, once scheduling has placed the applicant.
AssignSlot ==
    /\ row.status = "DOCUMENT_REVIEW_GREEN"
    /\ row' = Move(row, "SLOT_ASSIGNED")
    /\ UNCHANGED <<scope, verdicts, answers, slotVars, deskVars, routed>>

-----------------------------------------------------------------------------
(* The officer.  Only a decision on an amber document hold stamps documents. *)

UnderReview == row.status = "DOCUMENT_REVIEW_AMBER"

AdjudicateReject ==
    \E lane \in AdjudicationLanes(row) :
        /\ row' = Move(row, "REJECTED")
        /\ IF lane = "DOCUMENT" /\ UnderReview THEN StampReviewed ELSE UNCHANGED slotVars
        /\ UNCHANGED <<scope, verdicts, answers, deskVars, routed>>

ClearAmber ==
    /\ UnderReview
    /\ row' = Move(row, DeriveStatus("SUBMITTED", row, ContentOnly(row.criminal)))
    /\ StampReviewed
    /\ UNCHANGED <<scope, verdicts, answers, deskVars, routed>>

ClearAdjudication ==
    /\ row.status = "ADJUDICATION_REVIEW"
    /\ row.heldFrom # None
    /\ row' = Move(row, row.heldFrom)
    /\ UNCHANGED <<scope, verdicts, answers, slotVars, deskVars, routed>>

ClearDimension(dim) ==
    LET new == [(IF dim = "CRIMINAL" THEN [row EXCEPT !.criminal = "CLEARED"]
                                     ELSE [row EXCEPT !.academic = "ELIGIBLE"])
                  EXCEPT !.resolvedDims = @ \cup {dim}]
        contentOnly == ContentOnly(row.criminal)
        blocking == {l \in AdjudicationLanes(row) \ {dim} : ~(l = "CRIMINAL" /\ contentOnly)}
    IN  /\ dim \in AdjudicationLanes(row)
        /\ row' = IF blocking # {} THEN new
                  ELSE Move(new, DeriveStatus(row.status, new, contentOnly))
        /\ UNCHANGED <<scope, verdicts, answers, slotVars, deskVars, routed>>

-----------------------------------------------------------------------------
SlotNext ==
    /\ \E k \in Caller :
         \/ (\E c \in scope.contents : Upload(k, c)) /\ UNCHANGED verdicts
         \/ (\E clean \in BOOLEAN : Analyze(k, clean)) /\ UNCHANGED verdicts
         \/ (DecideCall(k) \/ WriteObject(k) \/ CommitCall(k) \/ AbandonCall(k))
              /\ UNCHANGED verdicts
         \/ PublishLane(k)
    /\ UNCHANGED <<scope, row, answers, deskVars, routed>>

DeskNext ==
    /\ \/ \E w \in Worker, cert \in owed :
            \/ (\E a \in scope.certificates : VerifyCertificate(w, cert, a)) /\ UNCHANGED verdicts
            \/ RegistryUnavailable(w, cert) /\ UNCHANGED verdicts
       \/ \E w \in Worker :
            \/ /\ \/ ReadLatest(w) \/ InsertVerification(w) \/ RetryLater(w) \/ ParkOutage(w)
                  \/ PendingNotRecorded(w) \/ ParkFailure(w) \/ AbandonEvent(w)
               /\ UNCHANGED <<verdicts, answers>>
            \/ Conclude(w) /\ UNCHANGED answers
       \/ (\E cert \in parked : ReturnParked(cert)) /\ UNCHANGED <<verdicts, answers>>
    /\ UNCHANGED <<scope, row, slotVars, routed>>

Next ==
    \/ EvaluateAge
    \/ \E a \in scope.gates : EvaluateAcademic(a) \/ VerifyRib(a)
    \/ \E cert \in scope.numbers : AttachCertificate(cert)
    \/ \E v \in verdicts : ApplyVettingResult(v) \/ ApplyForensicsRouting(v)
    \/ AssignSlot
    \/ AdjudicateReject \/ ClearAmber \/ ClearAdjudication
    \/ \E dim \in VettingDimensions : ClearDimension(dim)
    \/ SlotNext
    \/ DeskNext

Spec == Init /\ [][Next]_vars

-----------------------------------------------------------------------------
(* Properties *)

\* The slot, the verifications and the row have the types of their columns;
\* the trail numbers the revisions of each row without a gap.
TypeOK ==
    /\ row.status \in Statuses
    /\ row.age \in GateStatuses /\ row.academic \in GateStatuses
    /\ row.criminal \in CriminalStatuses
    /\ \A d \in DOMAIN docs :
         /\ docs[d].content \in Content /\ docs[d].lane \in Lanes
         /\ {t[2] : t \in {t \in trail : t[1] = d}} = 1 .. docs[d].revision
    /\ \A i \in DOMAIN log :
         log[i].outcome \in Outcomes

\* "Reviewed bytes are evidence" (ADR-052): bytes an officer's decision stamped
\* are never replaced.  The one way is a first upload that was decided before
\* the slot had a row: it then makes a second row for the same object, or dies
\* having replaced it.
StampedBytesStand ==
    \A d \in DOMAIN docs : docs[d].stamp # None =>
        \/ object = docs[d].stamp
        \/ Len(docs) > 1 \/ lost
        \/ \E k \in Caller : Holding(k) /\ call[k].decision = "CREATE"

\* The trail is a complete record of what passed through the slot: the bytes at
\* rest are on it, unless their own transaction is open or was rolled back.
TrailIsComplete ==
    \/ object = None \/ lost
    \/ \E t \in trail : t[3] = object
    \/ \E k \in Caller : Holding(k) /\ call[k].pc = "written" /\ call[k].content = object

\* A slot's row describes the bytes at rest, whatever uploads and re-analyses
\* overlap, unless a transaction was rolled back after its write or a
\* re-analysis finished after the bytes it had read were replaced.
RowDescribesTheBytes ==
    \/ Len(docs) # 1 \/ lost \/ stale
    \/ object = docs[1].content
    \/ \E k \in Caller : Holding(k)

\* No amber document slips through: once the verdict on a document has reached
\* the application, either an officer's decision stamped it or the case is held
\* or closed.
AmberIsSeen ==
    \A d \in DOMAIN docs :
        docs[d].lane = "AMBER" /\ docs[d].stamp = None /\ <<d, docs[d].revision>> \in routed
          => row.status \in {"DOCUMENT_REVIEW_AMBER", "ADJUDICATION_REVIEW"} \cup Terminal

\* Every automatic verdict on the row rests on an answer about this applicant:
\* nobody is failed or passed on a record that is someone else's (ADR-048), and
\* nobody is cleared but by a certificate in force, theirs, accepted, recent and
\* conclusive, or by RIB.
VerdictsRestOnOwnRecords ==
    LET judged(a) == "MISMATCH" \notin {a.fields[f] : f \in DOMAIN a.fields}
        meets(level, field, science) == MeetsEducation(Requirement, Policy,
            [level |-> level, field |-> field, science |-> science], AgeOnDate)
        student(a) == meets(a.level, None, a.science)
        graduate(a) == meets(a.level, a.field, None)
    IN  /\ row.academic = "INELIGIBLE" => \E a \in answers :
             \/ a.source = "NESA" /\ (~a.found \/ (judged(a) /\ a.published /\ ~student(a)))
             \/ a.source = "HEC" /\ (~a.found \/ ~a.holder \/ ~graduate(a))
        /\ row.academic = "ELIGIBLE" /\ "ACADEMIC" \notin row.resolvedDims =>
             \E a \in answers :
               \/ a.source = "NESA" /\ a.found /\ judged(a) /\ a.published /\ student(a)
               \/ a.source = "HEC" /\ a.found /\ a.holder /\ graduate(a)
        /\ row.criminal = "CLEARED" /\ "CRIMINAL" \notin row.resolvedDims =>
             \E a \in answers :
               \/ a.source = "RIB" /\ a.status = "CLEAR"
               \/ a.source = "IREMBO" /\ a.found /\ a.authentic /\ judged(a) /\ a.allowed
                    /\ a.age # None /\ a.age <= ValidityDays /\ a.noRecord

\* Record before publish: a clearance on the row is on the permanent record of
\* verifications, whatever died in between.
ClearedIsOnRecord ==
    row.criminal = "CLEARED" /\ "CRIMINAL" \notin row.resolvedDims =>
        \/ \E i \in DOMAIN log : log[i].outcome = "CLEARED"
        \/ \E a \in answers : a.source = "RIB"

\* Nobody reaches the exam on an identity doubt: a row at or past green whose
\* criminal dimension no officer resolved has a verification on record that
\* cleared it or left only the certificate's content to read, or RIB's answer.
AdmittedOnAuthentic ==
    row.status \in {"DOCUMENT_REVIEW_GREEN", "SLOT_ASSIGNED"}
      /\ "CRIMINAL" \notin row.resolvedDims =>
        \/ \E i \in DOMAIN log :
             log[i].outcome = "CLEARED" \/ log[i].reasons = {"CLEARANCE_CONTENT_REVIEW"}
        \/ \E a \in answers : a.source = "RIB"

\* "We are verifying" is never the last word for nobody (evaluation D2): while
\* one handler at a time works on the application, a certificate whose latest
\* record is PENDING is still owed a retry or parked for the re-driver.
PendingIsNeverForgotten ==
    ~overlapped /\ log # <<>> /\ log[Len(log)].outcome = "PENDING" =>
        log[Len(log)].cert \in owed \cup parked

\* "An escalation may never SUPERSEDE a verdict" (rls/0044), as far as the code
\* goes: while one handler at a time works on the application, an escalation is
\* only ever recorded directly after an attempt the registry did not answer.
EscalationFollowsOutage ==
    ~overlapped => \A i \in DOMAIN log :
        log[i].reasons = Unverified.reasons /\ i > 1 => log[i - 1].outcome = "PENDING"

\* Documents are evidence: row, trail and object agree, what an officer looked
\* at stays, and what an officer must look at gets there.
DocumentsAreEvidence ==
    TypeOK /\ StampedBytesStand /\ TrailIsComplete /\ RowDescribesTheBytes /\ AmberIsSeen

\* Nobody is judged but on records that are theirs, genuine and kept.
JudgedOnRecord == VerdictsRestOnOwnRecords /\ ClearedIsOnRecord /\ AdmittedOnAuthentic

\* An outage of the registry is followed up, and overrules nothing.
OutagesAreFollowedUp == PendingIsNeverForgotten /\ EscalationFollowsOutage
=============================================================================
