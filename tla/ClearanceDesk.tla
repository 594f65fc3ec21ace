---------------------------- MODULE ClearanceDesk ---------------------------
(***************************************************************************)
(* background-vetting-service and the clearance certificates of one        *)
(* application: the submitted certificate numbers on the bus, their        *)
(* verification against the registry, the append-only record of the        *)
(* verifications (rls/0040, rls/0044), and the dead-letter observer that   *)
(* hands a certificate the registry never answered for to an officer.      *)
(*                                                                         *)
(* An event that is not acknowledged is handled again.  After the retry    *)
(* budget it is parked on the dead-letter topic, from where the re-driver  *)
(* or an operator returns it.  record_clearance_verification reads the     *)
(* latest row and inserts in two statements without a lock.                *)
(***************************************************************************)
EXTENDS CaseFile

CONSTANTS
    Worker,        \* consumers; two when a rebalance leaves an old owner at work
    ValidityDays   \* the policy's window for a certificate

Outcomes == {"CLEARED", "REVIEW", "CORRECTION_NEEDED", "PENDING"}

\* An entry of the record, and a verification under way: the entry is to be
\* compared with the latest one, to be inserted, or done.
Entries ==
    [cert : UNION {sc.numbers : sc \in Scopes}, outcome : Outcomes,
     code : {None, "REGISTRY_UNAVAILABLE", "CERTIFICATE_NOT_FOUND", "CERTIFICATE_NOT_VALID",
             "CERTIFICATE_NOT_BOUND", "CERTIFICATE_WRONG_TYPE", "CERTIFICATE_EXPIRED"},
     reasons : SUBSET {"CLEARANCE_UNVERIFIED", "IDENTITY_NAME_PARTIAL",
                       "IDENTITY_HOLDER_UNREADABLE", "CLEARANCE_CONTENT_REVIEW"}]

Handlings == [pc : {"record", "insert", "recorded"}, entry : Entries]

VARIABLES
    log,        \* clearance_certificate_verifications, in order
    owed,       \* certificate events not acknowledged yet
    parked,     \* certificate events on the dead-letter topic
    handling,   \* worker -> the event it handles, or None
    overlapped  \* history: two workers handled this application at once

deskVars == <<log, owed, parked, handling, overlapped>>

DeskInit ==
    /\ log = <<>> /\ owed = {} /\ parked = {}
    /\ handling = [w \in Worker |-> None]
    /\ overlapped = FALSE

Pending == [outcome |-> "PENDING", code |-> "REGISTRY_UNAVAILABLE", reasons |-> {}]
Unverified == [outcome |-> "REVIEW", code |-> None, reasons |-> { "CLEARANCE_UNVERIFIED" }]

\* One verification of a certificate, as it is recorded.
Entry(cert, r) == [cert |-> cert, outcome |-> r.outcome, code |-> r.code, reasons |-> r.reasons]

\* criminalContentReviewOnly: what the latest verification says.
ContentReviewOnly == log # <<>> /\ IsContentReviewOnly(log[Len(log)])

At(w, pc) == handling[w] # None /\ handling[w].pc = pc
Entering(w) == handling[w].entry
Done(w) == handling' = [handling EXCEPT ![w] = None]

Take(w, cert, r) ==
    /\ handling[w] = None
    /\ cert \in owed
    /\ handling' = [handling EXCEPT ![w] = [pc |-> "record", entry |-> Entry(cert, r)]]
    /\ overlapped' = (overlapped \/ \E v \in Worker \ {w} : handling[v] # None)
    /\ UNCHANGED <<log, owed, parked>>

\* verify, the registry answers and the rules decide.
VerifyCertificate(w, cert, answer) ==
    /\ Take(w, cert, DecideClearance(answer, ValidityDays))
    /\ Received(answer)

\* verify, the registry is down: a PENDING row is noted.
RegistryUnavailable(w, cert) ==
    /\ Take(w, cert, Pending)
    /\ UNCHANGED answers

\* SUPERSEDES_VERDICT: an escalation may only follow an unresolved attempt.
Refused(entry) ==
    /\ entry.reasons = Unverified.reasons
    /\ log # <<>> /\ log[Len(log)].outcome # "PENDING"

\* record_clearance_verification, first statement.  The same row again is not
\* written twice; a refused escalation throws, which the bus swallows.
ReadLatest(w) ==
    /\ At(w, "record")
    /\ IF log # <<>> /\ log[Len(log)] = Entering(w)
         THEN handling' = [handling EXCEPT ![w].pc = "recorded"]
         ELSE IF Refused(Entering(w)) THEN Done(w)
         ELSE handling' = [handling EXCEPT ![w].pc = "insert"]
    /\ UNCHANGED <<log, owed, parked, overlapped>>

\* The record as best effort for every outcome, not only for an outage.
MutInsertVerification(w) ==
    /\ At(w, "insert")
    /\ Len(log) < scope.log
    /\ log' \in {log, Append(log, Entering(w))}
    /\ handling' = [handling EXCEPT ![w].pc = "recorded"]
    /\ UNCHANGED <<owed, parked, overlapped>>

\* ... and the insert.
InsertVerification(w) ==
    /\ At(w, "insert")
    /\ Len(log) < scope.log
    /\ log' = Append(log, Entering(w))
    /\ handling' = [handling EXCEPT ![w].pc = "recorded"]
    /\ UNCHANGED <<owed, parked, overlapped>>

\* A noted outage is thrown to the bus, which retries the event.
RetryLater(w) ==
    /\ At(w, "recorded") /\ Entering(w).outcome = "PENDING"
    /\ Done(w)
    /\ UNCHANGED <<log, owed, parked, overlapped>>

\* The budget is spent: the event is parked and no officer is asked.
MutParkOutage(w) ==
    /\ At(w, "recorded") /\ Entering(w).outcome = "PENDING"
    /\ owed' = owed \ {Entering(w).cert}
    /\ Done(w)
    /\ UNCHANGED <<log, parked, overlapped>>

\* The budget is spent on an outage: the event is parked, then the dead-letter
\* observer escalates it.
ParkOutage(w) ==
    LET cert == Entering(w).cert
    IN  /\ At(w, "recorded") /\ Entering(w).outcome = "PENDING"
        /\ owed' = owed \ {cert}
        /\ parked' = parked \cup {cert}
        /\ handling' = [handling EXCEPT ![w] =
             [pc |-> "record", entry |-> Entry(cert, Unverified)]]
        /\ UNCHANGED <<log, overlapped>>

\* conclude, after the record: a verdict is published, a correction is not.
\* The event is acknowledged (an escalated one is already parked).
Conclude(w) ==
    LET e == Entering(w)
    IN  /\ At(w, "recorded") /\ e.outcome # "PENDING"
        /\ IF e.outcome = "CORRECTION_NEEDED" THEN UNCHANGED verdicts
           ELSE Publish(Verdict("CRIMINAL",
                  IF e.outcome = "CLEARED" THEN "CLEARED" ELSE "UNDER_REVIEW", FALSE, None))
        /\ owed' = owed \ {e.cert}
        /\ Done(w)
        /\ UNCHANGED <<log, parked, overlapped>>

\* recordPending is best effort: a failed write is logged, the outage is thrown
\* all the same.
PendingNotRecorded(w) ==
    /\ handling[w] # None /\ Entering(w).outcome = "PENDING" /\ ~At(w, "recorded")
    /\ handling' = [handling EXCEPT ![w].pc = "recorded"]
    /\ UNCHANGED <<log, owed, parked, overlapped>>

\* Any other failure (the record, the publish) at the end of the budget: the
\* event is parked and the observer does not escalate.  A failure of the
\* observer itself is swallowed.
ParkFailure(w) ==
    LET cert == Entering(w).cert
    IN  /\ handling[w] # None /\ Entering(w).outcome # "PENDING"
        /\ owed' = owed \ {cert}
        /\ parked' = parked \cup {cert}
        /\ Done(w)
        /\ UNCHANGED <<log, overlapped>>

\* The process dies, or the failure is retried: the event is delivered again,
\* a parked one too when its offset was not committed.
AbandonEvent(w) ==
    /\ handling[w] # None
    /\ owed' = owed \cup {Entering(w).cert}
    /\ Done(w)
    /\ UNCHANGED <<log, parked, overlapped>>

\* The re-driver or an operator returns a parked event to its topic.
ReturnParked(cert) ==
    /\ cert \in parked
    /\ owed' = owed \cup {cert}
    /\ parked' = parked \ {cert}
    /\ UNCHANGED <<log, handling, overlapped>>
=============================================================================
