------------------------------- MODULE ExamDay -------------------------------
(***************************************************************************)
(* An exam day: gates, biometric capture, supervisors, tablets and their   *)
(* uploads, and the consumer that completes applications, over one set of  *)
(* rows.  Any session may be lost at any point.                            *)
(***************************************************************************)
EXTENDS Gate, FieldSync

CONSTANTS
    FirstDay, FirstMode,   \* the day and the biometric mode the behaviour starts with
    Pending,               \* the status of the digital applications then
    Enrolled               \* devices enrolled before it

ASSUME ExamDayAssumption ==
    /\ IsFiniteSet(Apps)
    /\ None \notin Nat
    /\ FirstDay \in {"before", "exam", "after"}
    /\ Pending \subseteq AdmissibleStatuses
    /\ \A s \in Scans : s.app \in Apps \cup {None}
    /\ \A r \in Records : /\ r.app \in Apps
                          /\ r.outcome \in Outcomes
                          /\ {r.liveness, r.match} \subseteq Nat \cup {None}
    /\ \A t \in Tests : t.app \in Apps /\ t.device \in Devices
    /\ MaxCaptures \in Nat

vars == <<rows, locks, sess, gateVars, fieldVars>>

Init ==
    /\ \E pending \in Pending :
          status = [a \in Apps |-> IF a \in WalkIns THEN "WALK_IN_ON_SITE_VETTING" ELSE pending]
    /\ admissions = {} /\ scores = {}
    /\ counts = [v \in Venues |-> Recount(v, status, {}, {})]
    /\ official = [a \in Apps |-> None]
    /\ device = [d \in Devices |-> IF d \in Enrolled THEN "active" ELSE "absent"]
    /\ rowLock = [a \in Apps |-> None]
    /\ identityLock = [a \in Apps |-> None]
    /\ venueLock = [v \in Venues |-> None]
    /\ sess = [w \in Sessions |-> Idle]
    /\ day = FirstDay /\ mode = FirstMode
    /\ evidence = {} /\ confirmed = {} /\ lost = {}
    /\ told = [a \in Apps |-> 0]
    /\ captured = {} /\ settled = {}
    /\ announced = [a \in Apps |-> << >>]

Next ==
    \/ \E w \in Sessions : GateStep(w) /\ UNCHANGED fieldVars
    \/ \E w \in Sessions : FieldStep(w) /\ UNCHANGED gateVars
    \/ \E w \in Sessions : (RefreshVenue(w) \/ Crash(w)) /\ UNCHANGED <<gateVars, fieldVars>>
    \/ FieldEnvironment /\ UNCHANGED gateVars
    \/ (NextDay \/ \E m \in {"ADVISORY", "OFF"} : SetMode(m)) /\ UNCHANGED fieldVars
    \/ \E a \in Apps : Withdraw(a) /\ UNCHANGED <<gateVars, fieldVars>>

Spec == Init /\ [][Next]_vars

----------------------------------------------------------------------------

\* The rows have their types, and every lock is held by a session at work.
TypeOK ==
    /\ status \in [Apps -> AppStatuses]
    /\ device \in [Devices -> {"absent", "active", "revoked"}]
    /\ \A m \in admissions : m.app \in Apps /\ m.by \in Officers
    /\ \A s \in scores : s.app \in Apps /\ s.clock \in [Devices -> Nat] /\ s.conflict \in BOOLEAN
    /\ \A e \in evidence : e.app \in Apps /\ e.outcome \in Outcomes /\ e.late \in BOOLEAN
    /\ \A lock \in {rowLock, identityLock, venueLock} : \A k \in DOMAIN lock :
          lock[k] # None => lock[k] \in Sessions /\ sess[lock[k]].op # "idle"

\* One admission per application, and one gate told so: the second of two
\* tablets that scan a copied ticket at once is refused.
AdmittedOnce ==
    \A a \in Apps : /\ Cardinality({m \in admissions : m.app = a}) <= 1
                    /\ told[a] <= 1

\* Evidence the gate may see is either among what the admission looked at or
\* marked late: no negative result slips in between the look and the commit.
EvidenceSeenOrLate ==
    \A e \in evidence, m \in admissions :
        (e.app = m.app /\ e.mode # "SHADOW") => (e.id \in m.seen) # e.late

\* A negative advisory result the admission looked at had been confirmed by a
\* supervisor who neither took the evidence nor stood at the gate.
NegativeHadASecondPair ==
    \A m \in admissions : \A e \in evidence :
        (e.id \in m.seen /\ RequiresManualIdentity(e)) =>
            \E x \in Supervisors \ {m.by, e.officer} : ConfirmedBy(e, x)

\* The shadow pilot decides nothing: what it recorded is part of no admission,
\* and no method names it.
ShadowHasNoInfluence ==
    \A m \in admissions, e \in evidence : e.mode = "SHADOW" => e.id \notin m.seen

\* A stored result follows from its own scores under the policy, and came in
\* under the mode it declares.
StoredMeansWhatItSays ==
    \A e \in evidence :
        /\ e.outcome = "MATCH" => e.record.liveness >= Policy.livenessPass /\ e.record.match >= Policy.match
        /\ e.outcome = "NO_MATCH" => e.record.liveness >= Policy.livenessPass /\ e.record.match < Policy.noMatchBelow
        /\ mode = "SHADOW" => e.mode = "SHADOW"

\* A ticket the portal calls READY opens the gate on the day, at its venue.
ReadyIsAdmissible ==
    \A a \in Apps : (DecideInvitation(a) = "READY" /\ day = "exam") =>
        DecideBeforeIdentity([app |-> a, genuine |-> TRUE, venue |-> VenueOf[a]], day) = "CHECK_IDENTITY"

\* The live counts are the rows: no concurrent commit is left out.
CountsAreExact == \A v \in Venues : counts[v] = Recount(v, status, admissions, scores)

\* A tablet told its record was taken may delete it: the record is stored, or
\* one after it is, or the same measurements are.
NothingForgotten ==
    \A r \in settled : \E s \in OwnScores(r.app) :
        \/ PayloadHash(s) = PayloadHash(r)
        \/ \A d \in Devices : s.clock[d] >= r.clock[d]

\* Concurrent heads are flagged, all rows of the application together, until
\* an officer chooses; and nothing is flagged without them.
FlagsTellTheHeads ==
    \A a \in Apps :
        LET heads == ComputeHeads(OwnScores(a))
        IN  /\ \A s, x \in OwnScores(a) : s.conflict = x.conflict
            /\ InConflict(a) => Cardinality(heads) > 1
            /\ Cardinality(heads) > 1 => InConflict(a) \/ \E s \in OwnScores(a) : s.chosen

\* The official score was the only head when it came in, or an officer chose
\* it: a capture that met a concurrent one is never made official by itself.
OfficialWasClearOrChosen ==
    \A a \in Apps : official[a] # None =>
        \E s \in OwnScores(a) : /\ s.device = official[a].device /\ s.clock = official[a].clock
                                /\ s.entered # "CONFLICT" \/ s.chosen

\* A stored score was captured by the officer it names, against the ticket of
\* an applicant the gate let in (or of the walk-in lane).
ScoresAreGenuine ==
    \A s \in scores :
        /\ s.app \in WalkIns \/ Admitted(s.app)
        /\ \E r \in captured : /\ r.genuine /\ r.app = s.app /\ r.device = s.device /\ r.clock = s.clock
                             /\ r.officer = s.officer /\ r.metrics = s.metrics

\* While a conflict is open, no step completes the application.
HeldWhileOpen ==
    [][\A a \in Apps : InConflict(a) => official'[a] = official[a]]_vars

\* Biometric evidence is heeded at the gate exactly as far as it counts: seen or
\* late, negative only with a second person, nothing of the shadow pilot, and
\* each result the one its scores give.
EvidenceIsHeeded ==
    EvidenceSeenOrLate /\ NegativeHadASecondPair /\ ShadowHasNoInfluence /\ StoredMeansWhatItSays

\* The gate admits once and the books agree: well-typed rows, locks with an
\* owner, counts that are the rows, and tickets that open the gate they promise
\* to open.
AdmissionIsExact == TypeOK /\ AdmittedOnce /\ CountsAreExact /\ ReadyIsAdmissible

\* What a tablet delivered is kept, genuine, flagged while it is disputed, and
\* official only if it was clear or chosen.
CapturesAreKept ==
    NothingForgotten /\ FlagsTellTheHeads /\ ScoresAreGenuine /\ OfficialWasClearOrChosen
=============================================================================
