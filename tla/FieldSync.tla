----------------------------- MODULE FieldSync -----------------------------
(***************************************************************************)
(* field-sync-service: tablets capture signed physical-test scores offline *)
(* and upload them in batches; the service merges each record into the     *)
(* append-only log of its application by vector clock, an officer          *)
(* adjudicates concurrent captures, and application-service completes the  *)
(* application from the announcement of a score.                           *)
(*                                                                         *)
(* A record is taken through the registry, the store's transaction and the *)
(* announcement as three separate steps: they share no transaction.        *)
(***************************************************************************)
EXTENDS Venue, Sequences, FiniteSetsExt

CONSTANTS
    Capturers,     \* officers with field.score.sync
    FleetManagers, \* officers with field.device.enroll and field.device.manage
    Adjudicators,  \* officers with field.conflict.resolve
    Tests,         \* what may be captured: [app, device, officer, metrics, genuine, online]
    MaxCaptures    \* bound: records captured in all

VARIABLES
    captured,      \* the signed records on the tablets
    announced,     \* FIELD_SCORE_CAPTURED, in order, not yet consumed
    settled        \* records whose upload was answered, not refused

fieldVars == <<captured, announced, settled>>

----------------------------------------------------------------------------
(* Vector clocks and the merge policy, pure.                               *)

ZeroClock == [d \in Devices |-> 0]

CompareClocks(a, b) ==
    LET above == \E d \in Devices : a[d] > b[d]
        below == \E d \in Devices : a[d] < b[d]
    IN  CASE above /\ below -> "CONCURRENT"
          [] above /\ ~below -> "DOMINATES"
          [] ~above /\ below -> "DOMINATED"
          [] OTHER -> "EQUAL"

MergeVectorClock(a, b) == [d \in Devices |-> IF a[d] > b[d] THEN a[d] ELSE b[d]]

ComputeHeads(records) ==
    {r \in records : ~\E x \in records : CompareClocks(x.clock, r.clock) = "DOMINATES"}

\* signedPayloadHash is the digest of the metrics alone.
PayloadHash(r) == r.metrics

MutDecideMerge(r, existing) ==
    LET against == {CompareClocks(r.clock, h.clock) : h \in ComputeHeads(existing)}
    IN  IF \E x \in existing : PayloadHash(x) = PayloadHash(r) THEN "DUPLICATE"
        ELSE IF existing = {} THEN "ACCEPT"
        ELSE IF "DOMINATES" \in against THEN "SUPERSEDE"
        ELSE IF "CONCURRENT" \in against THEN "CONFLICT"
        ELSE "STALE"
DecideMerge(r, existing) ==
    LET against == {CompareClocks(r.clock, h.clock) : h \in ComputeHeads(existing)}
    IN  IF \E x \in existing : PayloadHash(x) = PayloadHash(r) THEN "DUPLICATE"
        ELSE IF against = {} THEN "ACCEPT"
        ELSE IF "CONCURRENT" \in against THEN "CONFLICT"
        ELSE IF against \cap {"DOMINATED", "EQUAL"} # {} THEN "STALE"
        ELSE "SUPERSEDE"

----------------------------------------------------------------------------
(* The tablets (outside the repository): a capture advances the tablet's   *)
(* own axis past what it has captured, or past all the log shows it.       *)

\* The least clock that dominates or equals all of them.
Joined(clocks) == [d \in Devices |-> Max({c[d] : c \in clocks \cup {ZeroClock}})]

OwnClock(d, a) == Joined({r.clock : r \in {x \in captured : x.device = d /\ x.app = a}})
SeenClock(a) == Joined({s.clock : s \in OwnScores(a)})

Capture(t) ==
    /\ Cardinality(captured) < MaxCaptures
    /\ LET own == OwnClock(t.device, t.app)
           c   == IF t.online THEN MergeVectorClock(own, SeenClock(t.app)) ELSE own
       IN  captured' = captured \cup {[app |-> t.app, device |-> t.device, officer |-> t.officer,
                                       metrics |-> t.metrics, genuine |-> t.genuine,
                                       clock |-> [c EXCEPT ![t.device] = @ + 1]]}
    /\ UNCHANGED <<rows, locks, sess, announced, settled>>

----------------------------------------------------------------------------
(* Upload.                                                                 *)

\* The records of a batch are taken one after the other and independently: an
\* upload is one of them.
Upload(w, o, r) ==
    /\ sess[w].op = "idle"
    /\ o \in Capturers
    /\ sess' = [sess EXCEPT ![w] = [op |-> "sync", pc |-> "device", app |-> r.app, officer |-> o, record |-> r]]
    /\ UNCHANGED <<rows, locks, fieldVars>>

\* The result of the record: taken, or refused.
Answer(w, taken) ==
    /\ sess' = [sess EXCEPT ![w] = Idle]
    /\ settled' = IF taken THEN settled \cup {sess[w].record} ELSE settled

\* Enrolled, active, of the officer's agency, and the claimed officer is the
\* caller.  Signature and hash hold: tablets sign what they capture.
RecordTrusted(r, o) == DeviceTrusted(r.device, o) /\ r.officer = o

CheckDevice(w) ==
    /\ sess[w].op = "sync" /\ sess[w].pc = "device"
    /\ IF RecordTrusted(sess[w].record, sess[w].officer)
       THEN sess' = [sess EXCEPT ![w].pc = "row"] /\ UNCHANGED settled
       ELSE Answer(w, FALSE)
    /\ UNCHANGED <<rows, locks, captured, announced>>

\* What the store answers under the row lock.
StoreOutcome(r, o) ==
    IF AgencyOf[r.app] # AgencyOf[o] THEN "NOT_FOUND"
    ELSE IF ~r.genuine THEN "TICKET_MISMATCH"
    ELSE IF r.app \notin WalkIns /\ ~Admitted(r.app) THEN "NOT_ADMITTED"
    ELSE DecideMerge(r, OwnScores(r.app))

\* The row a record becomes, and the flag of the whole set after it.
ScoreRow(r, o, outcome) ==
    [app |-> r.app, device |-> r.device, officer |-> o, metrics |-> r.metrics, clock |-> r.clock,
     conflict |-> FALSE, chosen |-> FALSE, entered |-> outcome]

Flagged(set, flag) == {[s EXCEPT !.conflict = flag] : s \in set}

StoreScore(w) ==
    /\ sess[w].op = "sync" /\ sess[w].pc = "row"
    /\ LET r == sess[w].record
           k == StoreOutcome(r, sess[w].officer)
       IN  /\ rowLock[r.app] = None
           /\ IF k \in {"ACCEPT", "SUPERSEDE", "CONFLICT"}
              THEN /\ rowLock' = [rowLock EXCEPT ![r.app] = w]
                   /\ sess' = [sess EXCEPT ![w] =
                        [op |-> "sync", pc |-> "venue", app |-> r.app, officer |-> @.officer, record |-> r,
                         fresh |-> None, tell |-> k # "CONFLICT",
                         change |-> [app |-> r.app, status |-> status[r.app], admit |-> {},
                                     scores |-> Flagged(OwnScores(r.app) \cup {ScoreRow(r, sess[w].officer, k)}, k = "CONFLICT")]]]
                   /\ UNCHANGED settled
              ELSE /\ Answer(w, k \in {"DUPLICATE", "STALE"})
                   /\ UNCHANGED rowLock
    /\ UNCHANGED <<rows, identityLock, venueLock, captured, announced>>

CommitScore(w) ==
    /\ sess[w].op = "sync" /\ sess[w].pc = "commit"
    /\ Publish(w)
    /\ Release(w)
    /\ sess' = [sess EXCEPT ![w].pc = "announce", ![w].change = None, ![w].fresh = None]
    /\ UNCHANGED <<official, device, fieldVars>>

\* The log keeps both sides of a conflict; nothing is announced for it.
Announces(s) == s.tell

\* FIELD_SCORE_CAPTURED is keyed by the application: its order is kept.
Emitted(a, hash) == [announced EXCEPT ![a] = Append(@, hash)]

Materialise(w) ==
    /\ sess[w].op = "sync" /\ sess[w].pc = "announce"
    /\ LET r == sess[w].record
       IN  announced' = IF Announces(sess[w])
                        THEN Emitted(r.app, PayloadHash(r))
                        ELSE announced
    /\ Answer(w, TRUE)
    /\ UNCHANGED <<rows, locks, captured>>

----------------------------------------------------------------------------
(* Adjudication.                                                           *)

MayResolve(o, s) == o \in Adjudicators /\ AgencyOf[o] = AgencyOf[s.app]

Resolve(w, o, s) ==
    /\ sess[w].op = "idle"
    /\ MayResolve(o, s)
    /\ sess' = [sess EXCEPT ![w] = [op |-> "resolve", pc |-> "row", app |-> s.app, pick |-> [device |-> s.device, clock |-> s.clock]]]
    /\ UNCHANGED <<rows, locks, fieldVars>>

\* NO_CONFLICT and SCORE_NOT_FOUND end it: the pick must be flagged now.
ResolveConflict(w) ==
    /\ sess[w].op = "resolve" /\ sess[w].pc = "row"
    /\ LET a     == sess[w].app
           pick  == sess[w].pick
           found == {s \in OwnScores(a) : s.device = pick.device /\ s.clock = pick.clock /\ s.conflict}
       IN  /\ rowLock[a] = None
           /\ IF found = {}
              THEN sess' = [sess EXCEPT ![w] = Idle] /\ UNCHANGED rowLock
              ELSE /\ rowLock' = [rowLock EXCEPT ![a] = w]
                   /\ sess' = [sess EXCEPT ![w] =
                        [op |-> "resolve", pc |-> "venue", app |-> a, fresh |-> None,
                         hash |-> PayloadHash(CHOOSE s \in found : TRUE),
                         change |-> [app |-> a, status |-> status[a], admit |-> {},
                                     scores |-> Flagged((OwnScores(a) \ found) \cup {[s EXCEPT !.chosen = TRUE] : s \in found}, FALSE)]]]
    /\ UNCHANGED <<rows, identityLock, venueLock, fieldVars>>

CommitResolution(w) ==
    /\ sess[w].op = "resolve" /\ sess[w].pc = "commit"
    /\ Publish(w)
    /\ Release(w)
    /\ sess' = [sess EXCEPT ![w].pc = "announce", ![w].change = None, ![w].fresh = None]
    /\ UNCHANGED <<official, device, fieldVars>>

AnnounceChosen(w) ==
    /\ sess[w].op = "resolve" /\ sess[w].pc = "announce"
    /\ announced' = Emitted(sess[w].app, sess[w].hash)
    /\ sess' = [sess EXCEPT ![w] = Idle]
    /\ UNCHANGED <<rows, locks, captured, settled>>

----------------------------------------------------------------------------
(* The consumer in application-service, one transaction.                   *)

\* What a row may be completed to by a score, from where it stands.
Completion(a) ==
    CASE a \in WalkIns /\ status[a] = "WALK_IN_ON_SITE_VETTING" -> "WALK_IN_PHYSICAL_TEST"
      [] a \notin WalkIns /\ status[a] = "PHYSICAL_TEST_SCHEDULED" -> "PHYSICAL_TEST_COMPLETE"
      [] OTHER -> None

MutMayComplete(a) == a \in WalkIns \/ Admitted(a)
MayComplete(a) == ~InConflict(a) /\ (a \in WalkIns \/ Admitted(a))

\* The acknowledgement may be lost, and the event is delivered again.
ApplyPhysicalTestComplete(a, acknowledged) ==
    /\ announced[a] # << >>
    /\ LET h     == Head(announced[a])
           found == {s \in OwnScores(a) : PayloadHash(s) = h}
           to    == Completion(a)
       IN  IF to # None /\ MayComplete(a) /\ found # {}
           THEN /\ WriteRow(a, to)
                /\ \E s \in found : official' = [official EXCEPT ![a] = [device |-> s.device, clock |-> s.clock]]
                /\ UNCHANGED device
           ELSE rowLock[a] = None /\ UNCHANGED <<rows, locks, sess>>
    /\ announced' = IF acknowledged THEN [announced EXCEPT ![a] = Tail(@)] ELSE announced
    /\ UNCHANGED <<captured, settled>>

----------------------------------------------------------------------------
(* The fleet.                                                              *)

MayEnroll(o, d) == o \in FleetManagers /\ AgencyOf[o] = AgencyOf[d]

MayManage(o, d) == o \in FleetManagers /\ AgencyOf[o] = AgencyOf[d]

\* ON CONFLICT DO NOTHING: a known id is never enrolled again, a revoked one
\* least of all.
EnrolledAs(d) == IF device[d] = "absent" THEN "active" ELSE device[d]

\* The guard trigger keeps a revocation once set.
RevokedAs(d) == IF device[d] = "active" THEN "revoked" ELSE device[d]

Enroll(o, d) ==
    /\ MayEnroll(o, d)
    /\ device' = [device EXCEPT ![d] = EnrolledAs(d)]
    /\ UNCHANGED <<status, admissions, scores, counts, official, locks, sess, fieldVars>>

Revoke(o, d) ==
    /\ MayManage(o, d)
    /\ device' = [device EXCEPT ![d] = RevokedAs(d)]
    /\ UNCHANGED <<status, admissions, scores, counts, official, locks, sess, fieldVars>>

FieldStep(w) ==
    \/ \E o \in Officers, r \in captured : Upload(w, o, r)
    \/ \E o \in Officers, s \in scores : Resolve(w, o, s)
    \/ CheckDevice(w) \/ StoreScore(w) \/ CommitScore(w) \/ Materialise(w)
    \/ ResolveConflict(w) \/ CommitResolution(w) \/ AnnounceChosen(w)

FieldEnvironment ==
    \/ \E t \in Tests : Capture(t)
    \/ \E a \in Apps, acknowledged \in BOOLEAN : ApplyPhysicalTestComplete(a, acknowledged)
    \/ \E o \in Officers, d \in Devices : Enroll(o, d) \/ Revoke(o, d)

=============================================================================
