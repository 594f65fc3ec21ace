--------------------------- MODULE ApplicantRows ---------------------------
(***************************************************************************)
(* The rows identity-service keeps about one citizen, and what its         *)
(* statements decide and write on each: onboarding_attempts,               *)
(* applicant_otp_challenges, applicant_sessions, applicant_identities and  *)
(* erasure_requests.  Time is a number of ticks.                           *)
(***************************************************************************)
EXTENDS Naturals, Sequences

CONSTANTS
    Null,            \* SQL NULL
    Agency,          \* the agencies, one ops schema each
    MaxFailures,     \* wrong dates of birth before the national id locks
    FailureWindow,   \* ... counted in windows of this length
    LockTime,        \* how long the national id stays locked
    OtpTtl,          \* lifetime of a code
    OtpMaxAttempts   \* wrong codes before the challenge locks

\* config.ts: both are one hour.  A lock that ended inside its window would be
\* taken up again by the next single mismatch.
ASSUME ApplicantLimits ==
    /\ {MaxFailures, FailureWindow, LockTime, OtpTtl, OtpMaxAttempts} \subseteq Nat \ {0}
    /\ LockTime >= FailureWindow

-----------------------------------------------------------------------------
(* onboarding_attempts: one row per national id *)

NoAttempts == [failed |-> 0, start |-> 0, until |-> 0]

\* findOnboardingLock
OnboardingLocked(row, t) == row.until > t

\* recordOnboardingFailure: bump inside the window or restart after it, and lock.
FailureRecorded(row, t) ==
    LET fresh == row.failed = 0 \/ row.start + FailureWindow <= t
        n     == IF fresh THEN 1 ELSE row.failed + 1
    IN  [failed |-> n,
         start  |-> IF fresh THEN t ELSE row.start,
         until  |-> IF n >= MaxFailures THEN t + LockTime ELSE row.until]

-----------------------------------------------------------------------------
(* applicant_otp_challenges: the sequence of all challenges ever inserted *)

NewChallenge(id, phone, t) ==
    [id |-> id, phone |-> phone, exp |-> t + OtpTtl, attempts |-> 0, used |-> FALSE, gone |-> FALSE]

\* A deleted row; its number, identity and phone stay for the properties.
Deleted(chal) == [chal EXCEPT !.gone = TRUE, !.exp = 0, !.attempts = 0]

Unused(chal, t) == ~chal.gone /\ ~chal.used /\ chal.exp > t

\* findLiveChallenge: the newest unused one in time; 0 when there is none.
LiveChallenge(chals, id, t) ==
    LET live == {c \in DOMAIN chals : chals[c].id = id /\ Unused(chals[c], t)}
    IN  IF live = {} THEN 0 ELSE CHOOSE c \in live : \A d \in live : d <= c

ChallengeOpen(chal) == chal.attempts < OtpMaxAttempts

\* #otpSecret: the digest covers the code and the phone it was sent to.  A code
\* is named by its challenge.
CodeVerifies(chals, c, code, phone) == code = c /\ phone = chals[c].phone

\* recordFailedAttempt, which checks nothing again.
AttemptRecorded(chal) == IF chal.gone THEN chal ELSE [chal EXCEPT !.attempts = @ + 1]

\* The UPDATE without its consumed_at IS NULL.
MutMayConsume(chal, t) == ~chal.gone /\ chal.exp > t

\* The WHERE of consumeChallenge.
MayConsume(chal, t) == Unused(chal, t)

-----------------------------------------------------------------------------
(* applicant_identities *)

\* createVerifiedIdentity.  `hash` tells the national id's own hash from the
\* random one an erasure leaves.
NewIdentity ==
    [hash |-> "own", contact |-> Null, biometric |-> FALSE, locked |-> Null, erased |-> FALSE]

\* The overwrite of eraseIdentity: every personal column and the hash.
Tombstone(row) ==
    [row EXCEPT !.hash = "rotated", !.contact = Null, !.biometric = FALSE, !.erased = TRUE]

\* reject_erased_identity_mutation: an UPDATE of an erased row raises.
Frozen(row) == row.erased

\* Only an applicant in flight everywhere is in the way.
MutInTheWay(apps) == \A ag \in Agency : apps[ag] = "open"

\* 2b of eraseIdentity: an application in flight in any schema.
InTheWay(apps) == \E ag \in Agency : apps[ag] = "open"

\* The gate of eraseIdentity for a row that is not erased.
ErasureRefused(row, apps) == row.locked # Null \/ InTheWay(apps)

\* findNeverApplied and findNegativeTerminal, but for the age of the rows.
SweepCandidate(row, apps) ==
    ~row.erased /\ \A ag \in Agency : apps[ag] \in {"none", "closed"}
=============================================================================
