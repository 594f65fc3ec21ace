-------------------------------- MODULE Gate --------------------------------
(***************************************************************************)
(* The venue gate (application-service), the biometric evidence that       *)
(* precedes it (biometric-service) and the supervisor's confirmation of a  *)
(* negative result.  Three transactions meet on one application:           *)
(*                                                                         *)
(*   admit     row lock, identity lock, then the admission and the venue   *)
(*   record    identity lock, then the evidence, whose foreign key needs   *)
(*             the row                                                     *)
(*   confirm   identity lock, then the confirmation, likewise              *)
(*                                                                         *)
(* The two orders can close a circle; PostgreSQL then rolls one of the two *)
(* back.  The attempts log and the audit entries staged with an outcome    *)
(* are read by nobody here and are left out.                               *)
(***************************************************************************)
EXTENDS Venue

CONSTANTS
    Screeners, Supervisors,             \* officers by role
    Suspended,                          \* officers whose account is not active
    Scans,         \* what is presented at a gate: [app, agency, genuine, venue, card]
    Records,       \* signed evidence records a tablet may send; an id is unique in its schema
    LastDay,       \* bound: "exam" or "after"
    LegalBasis     \* the biometric legal basis of the deployment

VARIABLES
    day,           \* "before", "exam" or "after" the exam day
    mode,          \* the biometric mode of the deployment
    evidence,      \* biometric_evidence
    confirmed,     \* gate_manual_identity_confirmations: evidence id and supervisor
    told,          \* how often a gate was told ADMITTED for an application
    lost           \* evidence rolled back because its transaction stood in a circle

gateVars == <<day, mode, evidence, confirmed, told, lost>>

----------------------------------------------------------------------------
(* Evidence records.                                                       *)

Outcomes == {"MATCH", "NO_MATCH", "INCONCLUSIVE", "NOT_ATTEMPTED"}

\* BIO-THRESHOLDS.v1, the one policy of the registry.
Policy == [version |-> "v1", livenessPass |-> 8500, match |-> 8500, noMatchBelow |-> 6000]

AttemptedOutcome(liveness, match) ==
    IF liveness < Policy.livenessPass THEN "INCONCLUSIVE"
    ELSE IF match >= Policy.match THEN "MATCH"
    ELSE IF match < Policy.noMatchBelow THEN "NO_MATCH" ELSE "INCONCLUSIVE"

CheckEvidenceConsistency(r) ==
    /\ r.policy = Policy.version
    /\ LegalBasis = "CONSENT_OR_DECLINE" => r.consent # "NOT_REQUIRED_BY_POLICY"
    /\ IF r.outcome = "NOT_ATTEMPTED"
       THEN /\ r.reason # None
            /\ r.method = "NONE"
            /\ r.liveness = None /\ r.match = None /\ r.model = None
            /\ (r.consent = "DECLINED") <=> (r.reason = "CANDIDATE_DECLINED")
            /\ (r.source = "NONE") <=> (r.reason = "NO_REFERENCE_SOURCE")
       ELSE /\ r.consent = "GIVEN"
            /\ r.reason = None
            /\ r.source # "NONE" /\ r.method = "FACE_1_1_ON_DEVICE"
            /\ r.model # None /\ r.liveness # None /\ r.match # None
            /\ AttemptedOutcome(r.liveness, r.match) = r.outcome

\* At most a day old, at most five minutes ahead (ages in minutes).
IsCapturedAtAcceptable(age) == age <= 24 * 60 /\ age + 5 >= 0

\* The portrait of the national registry is not an authorised source.
SourceAuthorised(source) == source # "NIDA_PORTRAIT"

ModeGate(declared) == mode # "OFF" /\ declared = mode

\* The engine's view of the actor: active, of this agency, with the role.
ActiveOfficer(o, a, role) == o \in role \ Suspended /\ AgencyOf[o] = AgencyOf[a]

Accepts(o, r) ==
    /\ SourceAuthorised(r.source)
    /\ CheckEvidenceConsistency(r)
    /\ IsCapturedAtAcceptable(r.age)
    /\ ModeGate(r.mode)
    /\ DeviceTrusted(r.device, o)
    /\ r.signed
    /\ ActiveOfficer(o, r.app, Screeners)
    /\ r.app \notin WalkIns              \* a ticket is stored on the application

----------------------------------------------------------------------------
(* What the gate decides.                                                  *)

AdmissibleStatuses == {"SLOT_ASSIGNED", "PHYSICAL_TEST_SCHEDULED"}

\* Checks 4 to 8, in contract order.
DecideBeforeIdentity(s, today) ==
    IF ~s.genuine THEN "TICKET_NOT_ISSUED"
    ELSE IF Admitted(s.app) THEN "ALREADY_ADMITTED"
    ELSE IF status[s.app] \notin AdmissibleStatuses THEN "NOT_ADMISSIBLE"
    ELSE IF s.venue # VenueOf[s.app] THEN "WRONG_VENUE"
    ELSE IF today = "before" THEN "TOO_EARLY"
    ELSE IF today = "after" THEN "EXPIRED"
    ELSE "CHECK_IDENTITY"

\* gate_identity_matches: the card is the applicant's.
IdentityMatches(s) == s.card = s.app

\* SHADOW rows are hidden from the officer's role by row-level security.
VisibleEvidence(a) == {e \in evidence : e.app = a /\ e.mode # "SHADOW"}

RequiresManualIdentity(e) == e.outcome \in {"NO_MATCH", "INCONCLUSIVE"}

ConfirmedBy(e, o) == [evidence |-> e.id, by |-> o] \in confirmed

Unresolved(a, o) ==
    {e \in VisibleEvidence(a) :
        RequiresManualIdentity(e) /\ ~\E x \in Officers \ {o} : ConfirmedBy(e, x)}

IdentityMethod(a) ==
    IF \E e \in VisibleEvidence(a) : RequiresManualIdentity(e) THEN "NATIONAL_ID_CARD+SUPERVISOR"
    ELSE IF \E e \in VisibleEvidence(a) : e.outcome = "MATCH" THEN "NATIONAL_ID_CARD+CARD_PORTRAIT"
    ELSE "NATIONAL_ID_CARD"

\* What the portal shows the citizen of the QR.
DecideInvitation(a) ==
    CASE status[a] = "PHYSICAL_TEST_COMPLETE" -> "COMPLETED"
      [] status[a] \in {"WALK_IN_ON_SITE_VETTING", "WALK_IN_PHYSICAL_TEST"} -> "WALK_IN"
      [] status[a] = "WITHDRAWN" -> "CLOSED"
      [] status[a] \in AdmissibleStatuses -> IF Admitted(a) THEN "ADMITTED"
                                             ELSE IF day = "after" THEN "EXPIRED" ELSE "READY"

----------------------------------------------------------------------------
(* The gate.                                                               *)

\* Checks 1 to 3 end without a lock; `now' is read here.
Scan(w, o, s) ==
    /\ sess[w].op = "idle"
    /\ o \in Screeners
    /\ s.app # None /\ s.agency = AgencyOf[o] /\ s.agency = AgencyOf[s.app]
    /\ sess' = [sess EXCEPT ![w] = [op |-> "gate", pc |-> "row", app |-> s.app, officer |-> o, scan |-> s, today |-> day]]
    /\ UNCHANGED <<rows, locks, gateVars>>

MutRowFree(a) == a \in Apps
RowFree(a) == rowLock[a] = None

IdentityFree(a) == identityLock[a] = None

\* FOR UPDATE, then the checks; a refusal commits and lets the row go.
LockApplication(w) ==
    /\ sess[w].op = "gate" /\ sess[w].pc = "row"
    /\ LET s == sess[w].scan
       IN  /\ RowFree(s.app)
           /\ IF DecideBeforeIdentity(s, sess[w].today) = "CHECK_IDENTITY" /\ IdentityMatches(s)
              THEN /\ rowLock' = [rowLock EXCEPT ![s.app] = w]
                   /\ sess' = [sess EXCEPT ![w].pc = "identity"]
              ELSE sess' = [sess EXCEPT ![w] = Idle] /\ UNCHANGED rowLock
    /\ UNCHANGED <<rows, identityLock, venueLock, gateVars>>

\* The evidence is read under the identity lock; unless a negative is
\* unconfirmed, the admission is inserted and the row advanced.
ResolveGateIdentity(w) ==
    /\ sess[w].op = "gate" /\ sess[w].pc = "identity"
    /\ LET a == sess[w].app
           o == sess[w].officer
       IN  /\ IdentityFree(a)
           /\ \/ /\ Unresolved(a, o) # {}           \* MANUAL_IDENTITY_REQUIRED
                 /\ sess' = [sess EXCEPT ![w] = Idle]
                 /\ Release(w)
              \/ /\ Unresolved(a, o) = {}
                 /\ identityLock' = [identityLock EXCEPT ![a] = w]
                 /\ sess' = [sess EXCEPT ![w] =
                      [op |-> "gate", pc |-> "venue", app |-> a, fresh |-> None,
                       change |-> [app |-> a, status |-> "PHYSICAL_TEST_SCHEDULED", scores |-> OwnScores(a),
                                   admit |-> {[app |-> a, by |-> o, method |-> IdentityMethod(a),
                                               seen |-> {e.id : e \in VisibleEvidence(a)}]}]]]
                 /\ UNCHANGED <<rowLock, venueLock>>
    /\ UNCHANGED <<rows, gateVars>>

CommitAdmission(w) ==
    /\ sess[w].op = "gate" /\ sess[w].pc = "commit"
    /\ Publish(w)
    /\ told' = [told EXCEPT ![sess[w].app] = @ + 1]
    /\ sess' = [sess EXCEPT ![w] = Idle]
    /\ Release(w)
    /\ UNCHANGED <<official, device, day, mode, evidence, confirmed, lost>>

----------------------------------------------------------------------------
(* Evidence and confirmation.                                              *)

Submit(w, o, r) ==
    /\ sess[w].op = "idle"
    /\ Accepts(o, r)
    /\ sess' = [sess EXCEPT ![w] = [op |-> "evidence", pc |-> "identity", app |-> r.app, officer |-> o, record |-> r]]
    /\ UNCHANGED <<rows, locks, gateVars>>

\* The unique index on the record id: an insert waits for another transaction's
\* uncommitted row with the same id.
IndexFree(id) ==
    ~\E x \in Sessions : sess[x].op = "evidence" /\ sess[x].pc = "key" /\ sess[x].row.id = id

\* record_biometric_evidence up to its insert: `late' is whether the
\* application was admitted by then.  A record id already used is answered
\* ALREADY_RECORDED or REPLAY_CONFLICT and leaves nothing.
MutRecordEvidence(w) ==
    /\ sess[w].op = "evidence" /\ sess[w].pc = "identity"
    /\ LET r == sess[w].record
       IN  IF \E e \in evidence : e.id = r.id
           THEN sess' = [sess EXCEPT ![w] = Idle] /\ UNCHANGED identityLock
           ELSE /\ sess' = [sess EXCEPT ![w] = [op |-> "evidence", pc |-> "key", app |-> r.app, row |->
                         [id |-> r.id, app |-> r.app, outcome |-> r.outcome, mode |-> r.mode,
                          officer |-> sess[w].officer, record |-> r, late |-> Admitted(r.app)]]]
                /\ UNCHANGED identityLock
    /\ UNCHANGED <<rows, rowLock, venueLock, gateVars>>
RecordEvidence(w) ==
    /\ sess[w].op = "evidence" /\ sess[w].pc = "identity"
    /\ LET r == sess[w].record
       IN  /\ IdentityFree(r.app)
           /\ IndexFree(r.id)
           /\ IF \E e \in evidence : e.id = r.id
              THEN sess' = [sess EXCEPT ![w] = Idle] /\ UNCHANGED identityLock
              ELSE /\ sess' = [sess EXCEPT ![w] = [op |-> "evidence", pc |-> "key", app |-> r.app, row |->
                         [id |-> r.id, app |-> r.app, outcome |-> r.outcome, mode |-> r.mode,
                          officer |-> sess[w].officer, record |-> r, late |-> Admitted(r.app)]]]
                   /\ identityLock' = [identityLock EXCEPT ![r.app] = w]
    /\ UNCHANGED <<rows, rowLock, venueLock, gateVars>>

\* The foreign key reads the application FOR KEY SHARE: it waits for whoever
\* holds the row FOR UPDATE.
CommitEvidence(w) ==
    /\ sess[w].op = "evidence" /\ sess[w].pc = "key"
    /\ RowFree(sess[w].app)
    /\ evidence' = evidence \cup {sess[w].row}
    /\ sess' = [sess EXCEPT ![w] = Idle]
    /\ Release(w)
    /\ UNCHANGED <<rows, day, mode, confirmed, told, lost>>

\* confirm_manual_identity reads the evidence before it takes the lock.
Confirm(w, o, e) ==
    /\ sess[w].op = "idle"
    /\ e.mode = "ADVISORY"
    /\ ActiveOfficer(o, e.app, Supervisors)
    /\ sess' = [sess EXCEPT ![w] = [op |-> "confirm", pc |-> "identity", app |-> e.app, officer |-> o, found |-> e]]
    /\ UNCHANGED <<rows, locks, gateVars>>

\* NOT_REQUIRED, SAME_OFFICER and ALREADY_CONFIRMED leave nothing.
MayConfirm(e, o) ==
    /\ RequiresManualIdentity(e)
    /\ e.officer # o
    /\ ~\E x \in Officers : ConfirmedBy(e, x)

ConfirmManualIdentity(w) ==
    /\ sess[w].op = "confirm" /\ sess[w].pc = "identity"
    /\ LET e == sess[w].found
       IN  /\ IdentityFree(e.app)
           /\ IF MayConfirm(e, sess[w].officer)
              THEN /\ sess' = [sess EXCEPT ![w].pc = "key"]
                   /\ identityLock' = [identityLock EXCEPT ![e.app] = w]
              ELSE sess' = [sess EXCEPT ![w] = Idle] /\ UNCHANGED identityLock
    /\ UNCHANGED <<rows, rowLock, venueLock, gateVars>>

CommitConfirmation(w) ==
    /\ sess[w].op = "confirm" /\ sess[w].pc = "key"
    /\ RowFree(sess[w].app)
    /\ confirmed' = confirmed \cup {[evidence |-> sess[w].found.id, by |-> sess[w].officer]}
    /\ sess' = [sess EXCEPT ![w] = Idle]
    /\ Release(w)
    /\ UNCHANGED <<rows, day, mode, evidence, told, lost>>

----------------------------------------------------------------------------
(* Waiting.                                                                *)

\* Whose transaction has to end before session w can go on.
WaitsFor(w, x) ==
    /\ sess[w].op # "idle"
    /\ \/ sess[w].pc \in {"row", "key"} /\ rowLock[sess[w].app] = x
       \/ sess[w].pc = "identity" /\ identityLock[sess[w].app] = x
       \/ sess[w].pc = "venue" /\ VenueOf[sess[w].app] # None /\ venueLock[VenueOf[sess[w].app]] = x

InCircle(w) == \E x \in Sessions \ {w} : WaitsFor(w, x) /\ WaitsFor(x, w)

\* deadlock_timeout: PostgreSQL rolls one of the two back (500).
DeadlockVictim(w) ==
    /\ InCircle(w)
    /\ lost' = IF sess[w].op = "evidence" THEN lost \cup {sess[w].row.id} ELSE lost
    /\ Abandon(w)
    /\ UNCHANGED <<day, mode, evidence, confirmed, told>>

----------------------------------------------------------------------------
(* The surroundings.                                                       *)

NextDay ==
    /\ day # LastDay
    /\ day' = IF day = "before" THEN "exam" ELSE "after"
    /\ UNCHANGED <<rows, locks, sess, mode, evidence, confirmed, told, lost>>

\* A deployment changes the mode: the pilot ends, or biometrics are switched off.
SetMode(m) ==
    /\ <<mode, m>> \in {<<"SHADOW", "ADVISORY">>, <<"ADVISORY", "OFF">>}
    /\ mode' = m
    /\ UNCHANGED <<rows, locks, sess, day, evidence, confirmed, told, lost>>

GateStep(w) ==
    \/ \E o \in Officers, s \in Scans : Scan(w, o, s)
    \/ \E o \in Officers, r \in Records : Submit(w, o, r)
    \/ \E o \in Officers, e \in evidence : Confirm(w, o, e)
    \/ LockApplication(w) \/ ResolveGateIdentity(w) \/ CommitAdmission(w)
    \/ RecordEvidence(w) \/ CommitEvidence(w)
    \/ ConfirmManualIdentity(w) \/ CommitConfirmation(w)
    \/ DeadlockVictim(w)

=============================================================================
