------------------------------- MODULE Venue -------------------------------
(***************************************************************************)
(* The rows two components write on exam day: applications, gate           *)
(* admissions, physical-test scores and the live counts of each venue day, *)
(* with the locks that order their transactions.  Gate and FieldSync       *)
(* extend this module, ExamDay composes them.                              *)
(*                                                                         *)
(* A transaction is a session: it computes a change under the row lock of  *)
(* its application, the triggers of rls/0036 recount the venue under the   *)
(* venue's advisory lock, and the commit publishes change and counts.      *)
(***************************************************************************)
EXTENDS Naturals, FiniteSets

CONSTANTS
    Sessions,      \* database sessions of the services
    Apps,          \* applications
    WalkIns,       \* those of the walk-in lane
    VenueOf,       \* the venue day of an application, None in the walk-in lane
    Officers, Devices,
    AgencyOf,      \* the agency of applications, officers and devices
    None

ASSUME VenueAssumption ==
    /\ WalkIns \subseteq Apps
    /\ None \notin Sessions
    /\ \A a \in Apps : VenueOf[a] = None <=> a \in WalkIns

VARIABLES
    status,        \* applications.status
    admissions,    \* gate_admissions
    scores,        \* physical_test_scores
    counts,        \* venue_day_counts
    official,      \* applications.physical_test_score_id
    device,        \* field_devices: "absent", "active" or "revoked"
    rowLock,       \* who holds an application row FOR UPDATE
    identityLock,  \* who holds usrp.gate-identity:<application>
    venueLock,     \* who holds the advisory lock of a venue day
    sess           \* what every session is doing

rows  == <<status, admissions, scores, counts, official, device>>
locks == <<rowLock, identityLock, venueLock>>

DeviceTrusted(d, o) == device[d] = "active" /\ AgencyOf[d] = AgencyOf[o]

Venues == {VenueOf[a] : a \in Apps \ WalkIns}

Idle == [op |-> "idle"]

Roster == {"SLOT_ASSIGNED", "PHYSICAL_TEST_SCHEDULED", "PHYSICAL_TEST_COMPLETE"}

AppStatuses == Roster \cup {"WITHDRAWN", "WALK_IN_ON_SITE_VETTING", "WALK_IN_PHYSICAL_TEST"}

Admitted(a) == \E m \in admissions : m.app = a

InConflict(a) == \E s \in scores : s.app = a /\ s.conflict

(***************************************************************************)
(* venue_day_refresh: the counts are computed again from the rows, never   *)
(* incremented.  medical_recorded counts the rows of captured (a score     *)
(* never lacks its fitness status).                                        *)
(***************************************************************************)
Recount(v, st, adm, sc) ==
    LET here == {a \in Apps : VenueOf[a] = v}
    IN  [expected  |-> Cardinality({a \in here : st[a] \in Roster}),
         admitted  |-> Cardinality({a \in here : \E m \in adm : m.app = a}),
         captured  |-> Cardinality({a \in here : \E s \in sc : s.app = a}),
         conflicts |-> Cardinality({a \in here : \E s \in sc : s.app = a /\ s.conflict})]

\* What a transaction sees: the committed rows with its own change.
StatusAfter(c) == [status EXCEPT ![c.app] = c.status]
AdmissionsAfter(c) == admissions \cup c.admit
ScoresAfter(c) == {s \in scores : s.app # c.app} \cup c.scores

OwnScores(a) == {s \in scores : s.app = a}

\* A waiting writer gets the venue when the holder has committed.
VenueFree(v) == venueLock[v] = None

\* The triggers on applications, gate_admissions and physical_test_scores.
RefreshVenue(w) ==
    /\ sess[w].op # "idle"
    /\ sess[w].pc = "venue"
    /\ LET c == sess[w].change
           v == VenueOf[c.app]
       IN  \/ /\ v = None
              /\ sess' = [sess EXCEPT ![w].pc = "commit"]
              /\ UNCHANGED venueLock
           \/ /\ v # None
              /\ VenueFree(v)
              /\ venueLock' = [venueLock EXCEPT ![v] = w]
              /\ sess' = [sess EXCEPT ![w].pc = "commit",
                                      ![w].fresh = Recount(v, StatusAfter(c), AdmissionsAfter(c), ScoresAfter(c))]
    /\ UNCHANGED <<rows, rowLock, identityLock>>

\* COMMIT of what session w wrote.
Publish(w) ==
    LET c == sess[w].change
        v == VenueOf[c.app]
    IN  /\ status' = StatusAfter(c)
        /\ admissions' = AdmissionsAfter(c)
        /\ scores' = ScoresAfter(c)
        /\ counts' = IF v = None THEN counts ELSE [counts EXCEPT ![v] = sess[w].fresh]

Dropped(lock, w) == [k \in DOMAIN lock |-> IF lock[k] = w THEN None ELSE lock[k]]

\* The locks of a session end with its transaction.
Release(w) ==
    /\ rowLock' = Dropped(rowLock, w)
    /\ identityLock' = Dropped(identityLock, w)
    /\ venueLock' = Dropped(venueLock, w)

\* Roll-back: nothing of the session remains.
Abandon(w) ==
    /\ sess' = [sess EXCEPT ![w] = Idle]
    /\ Release(w)
    /\ UNCHANGED rows

\* The connection or the process is lost, at any point.
Crash(w) ==
    /\ sess[w].op # "idle"
    /\ Abandon(w)

\* Another component's transaction on the row, in one step.
WriteRow(a, st) ==
    /\ rowLock[a] = None
    /\ status' = [status EXCEPT ![a] = st]
    /\ LET v == VenueOf[a]
       IN  IF v = None THEN UNCHANGED counts
           ELSE /\ VenueFree(v)
                /\ counts' = [counts EXCEPT ![v] = Recount(v, [status EXCEPT ![a] = st], admissions, scores)]
    /\ UNCHANGED <<admissions, scores, locks, sess>>

\* A citizen withdraws before the exam.
Withdraw(a) ==
    /\ status[a] \in {"SLOT_ASSIGNED", "PHYSICAL_TEST_SCHEDULED"}
    /\ WriteRow(a, "WITHDRAWN")
    /\ UNCHANGED <<official, device>>

=============================================================================
