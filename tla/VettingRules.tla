---------------------------- MODULE VettingRules ----------------------------
(***************************************************************************)
(* The pure rules that turn a registry's answer into a verdict: the        *)
(* identity binding they share, the Irembo clearance certificate and RIB   *)
(* (background-vetting-service), the NESA and HEC records and the age band *)
(* (eligibility-service) with the campaign's pinned policy.                *)
(*                                                                         *)
(* Names, dates and numbers are abstracted to what the rules compare: a    *)
(* compared field is its FieldResult, a qualification is its rank on the   *)
(* ladder, a mark and an age are numbers.                                  *)
(***************************************************************************)
EXTENDS Naturals

CONSTANT None

FieldResult == {"MATCH", "PARTIAL", "MISMATCH", "NOT_COMPARED", "UNREADABLE"}

\* bindCredential: fields maps name, dateOfBirth, sex and nationalIdHint to
\* their results.
BindCredential(fields, required) ==
    LET all == {fields[f] : f \in DOMAIN fields}
    IN  IF "MISMATCH" \in all THEN "NOT_BOUND"
        ELSE IF \/ {"PARTIAL", "UNREADABLE"} \cap all # {}
                \/ \E f \in required : fields[f] = "NOT_COMPARED"
          THEN "REVIEW" ELSE "BOUND"

-----------------------------------------------------------------------------
(* The criminal gate *)

\* The registry's answer for a certificate number: found, authentic (in force),
\* whose it is (fields), its type against the policy's two lists (allowed,
\* noRecord), and its age in days, None for a date in the future or unreadable.
CertificateBinding(c) == BindCredential(c.fields, {"dateOfBirth"})

Correction(code) == [outcome |-> "CORRECTION_NEEDED", code |-> code, reasons |-> {}]

ReviewReasons(c) ==
         (IF CertificateBinding(c) = "REVIEW"
            THEN { IF c.fields["name"] = "PARTIAL" THEN "IDENTITY_NAME_PARTIAL"
                                                   ELSE "IDENTITY_HOLDER_UNREADABLE" } ELSE {})
    \cup (IF c.noRecord THEN {} ELSE { "CLEARANCE_CONTENT_REVIEW" })

\* decideClearance: the ordered checks, the first failing one answers.
DecideClearance(c, validityDays) ==
    IF ~c.found THEN Correction("CERTIFICATE_NOT_FOUND")
    ELSE IF ~c.authentic THEN Correction("CERTIFICATE_NOT_VALID")
    ELSE IF CertificateBinding(c) = "NOT_BOUND" THEN Correction("CERTIFICATE_NOT_BOUND")
    ELSE IF ~c.allowed THEN Correction("CERTIFICATE_WRONG_TYPE")
    ELSE IF c.age = None \/ c.age > validityDays THEN Correction("CERTIFICATE_EXPIRED")
    ELSE [outcome |-> IF ReviewReasons(c) = {} THEN "CLEARED" ELSE "REVIEW",
          code |-> None, reasons |-> ReviewReasons(c)]

\* isContentReviewOnly
IsContentReviewOnly(r) ==
    r.outcome = "REVIEW" /\ r.reasons = { "CLEARANCE_CONTENT_REVIEW" }

\* evaluateCriminalClearance: RIB's coarse flag against the category's rule.
EvaluateCriminalClearance(rib) ==
    IF rib.status = "CLEAR" THEN "CLEARED"
    ELSE IF rib.status = "HAS_RECORDS" /\ rib.threshold = "ANY_CONVICTION"
      THEN "FLAGGED_CONVICTION" ELSE "UNDER_REVIEW"

-----------------------------------------------------------------------------
(* The age and academic gates *)

\* evaluateAgeEligibility, both ends included.
WithinBand(age, band) == age >= band.min /\ age <= band.max

\* ageEnvelope: the widest window of the printed bands.
AgeEnvelope(policy) ==
    [min |-> CHOOSE m \in {b.min : b \in policy.bands} : \A b \in policy.bands : m <= b.min,
     max |-> CHOOSE m \in {b.max : b \in policy.bands} : \A b \in policy.bands : m >= b.max]

\* ageBandFor and evaluateAgeForQualification: of the bands the qualification
\* reaches, by its rank or by its specialist field, the highest cap decides.
\* The caps of a policy differ, so there is one such band.
WithinQualificationBand(policy, q, age) ==
    LET reached == {b \in policy.bands : q.level >= b.level \/ q.field \in b.fields}
    IN  \E b \in reached : (\A o \in reached : o.max <= b.max) /\ WithinBand(age, b)

\* applyPolicyV2Education over evaluateNesaEducation / evaluateHecEducation: a
\* pinned policy replaces the engine's constants.
MeetsEducation(requirement, policy, q, age) ==
    LET scienceAt(bar) == bar = None \/ (q.science # None /\ q.science >= bar)
    IN  IF policy = None
          THEN /\ q.level \in requirement.accepted
               /\ scienceAt(requirement.science)
               /\ requirement.fields = {} \/ q.field \in requirement.fields
          ELSE /\ \E l \in policy.alternatives : q.level >= l
               /\ scienceAt(policy.science)
               /\ WithinQualificationBand(policy, q, age)

\* An academic verdict: the column and whether NESA_REVIEW_REQUIRED is its code.
Academic(verdict, review) == [verdict |-> verdict, review |-> review]

NesaBinding(n) == BindCredential(n.fields, {"sex", "nationalIdHint"})

\* decideNesaGate: bind, then published, then anything an officer must read.
\* Only a bound record without a doubt is evaluated.
DecideNesaGate(n) ==
    IF NesaBinding(n) = "NOT_BOUND" THEN "NOT_BOUND"
    ELSE IF ~n.published THEN "PENDING_UNPUBLISHED"
    ELSE IF NesaBinding(n) = "REVIEW" \/ n.malpractice \/ n.level = None \/ ~n.passed
      THEN "REVIEW" ELSE "EVALUATE"

\* verify of the NESA gate: an unknown index fails, a record that is not the
\* applicant's or is not published decides nothing.
VerifyNesa(n, requirement, policy, age) ==
    IF ~n.found THEN Academic("INELIGIBLE", FALSE)
    ELSE IF DecideNesaGate(n) = "EVALUATE"
      THEN Academic(IF MeetsEducation(requirement, policy,
                         [level |-> n.level, field |-> None, science |-> n.science], age)
                      THEN "ELIGIBLE" ELSE "INELIGIBLE", FALSE)
      ELSE Academic("PENDING", DecideNesaGate(n) = "REVIEW")

\* verify of the HEC gate: a degree of another citizen fails like none; under a
\* pinned policy an applicant who cannot be read again decides nothing.
VerifyHec(h, requirement, policy, age) ==
    IF ~h.found \/ ~h.holder THEN Academic("INELIGIBLE", FALSE)
    ELSE IF policy # None /\ ~h.reread THEN Academic("PENDING", FALSE)
    ELSE Academic(IF MeetsEducation(requirement, policy,
                       [level |-> h.level, field |-> h.field, science |-> None], age)
                    THEN "ELIGIBLE" ELSE "INELIGIBLE", FALSE)
=============================================================================
