------------------------------ MODULE Citizen ------------------------------
(***************************************************************************)
(* identity-service and one citizen's national id: onboarding against NIDA *)
(* with a date of birth, the one-time code, the session, the applications  *)
(* filed with it, and the right to erasure: a citizen's request, an        *)
(* officer's decision, the retention sweep.                                *)
(*                                                                         *)
(* Every statement in the repositories is a transaction of its own, so a   *)
(* request is a chain of steps and anything may happen between two of      *)
(* them; pc says where a caller's request stands.  eraseIdentity holds the *)
(* identity row FOR UPDATE and every insert that refers to the citizen     *)
(* takes the same row FOR KEY SHARE through its foreign key, so each of    *)
(* them is one step.                                                       *)
(***************************************************************************)
EXTENDS ApplicantRows, FiniteSets

CONSTANTS
    Caller,       \* concurrent requests of the citizen, or of somebody else
    Erasers,      \* officers who execute erasures
    Phone,        \* phone numbers
    OnboardingTtl,  \* lifetime of an onboarding token
    SessionTtl,   \* lifetime of a session; the activity stamp does not extend it
    PurgeGrace,   \* how long the sweep keeps a dead session or challenge
    Bounds        \* the instances to explore: [ids, challenges, applications, requests,
                  \* sweeps, time], how many of each an instance may have

\* SQL NULL is no agency and no phone; lifetimes and bounds are numbers.
ASSUME CitizenAssumption ==
    /\ Null \notin Agency \cup Phone
    /\ IsFiniteSet(Caller)
    /\ {OnboardingTtl, SessionTtl, PurgeGrace} \subseteq Nat
    /\ \A b \in Bounds : {b.ids, b.challenges, b.applications, b.requests, b.time} \subseteq Nat

VARIABLES
    bound,     \* the instance; no part of the system's state
    clock,      \* time, in ticks
    attempts,  \* the row of onboarding_attempts
    ident,     \* sequence of all rows of applicant_identities for this citizen
    token,     \* id -> expiry of its latest onboarding token, 0 when none
    chals,     \* sequence of all OTP challenges ever created
    sessions,  \* rows of applicant_sessions
    apps,      \* id -> agency -> the state of the application there
    late,      \* history: <<id, agency>> of applications that read an identity before its erasure
    reqs,      \* sequence of all erasure requests
    pc,        \* caller -> its request
    deciding,  \* officer -> id whose erasure is done and not stamped yet, or 0
    sweep      \* the sweep's remaining candidates, or None when it is not running

citizenVars == <<bound, clock, attempts, ident, token, chals, sessions, apps, late, reqs, pc, deciding, sweep>>

Ids == 1 .. bound.ids
Idle == [op |-> "idle"]
NoApps == [ag \in Agency |-> "none"]

CitizenTypeOK ==
    /\ clock \in 0 .. bound.time
    /\ attempts \in [failed : 0 .. MaxFailures + Cardinality(Caller), start : Nat, until : Nat]
    /\ \A i \in DOMAIN ident :
          ident[i] \in [hash : {"own", "rotated"}, contact : Phone \cup {Null},
                        biometric : BOOLEAN, locked : Agency \cup {Null}, erased : BOOLEAN]
    /\ token \in [Ids -> Nat]
    /\ \A c \in DOMAIN chals : chals[c].id \in DOMAIN ident /\ chals[c].phone \in Phone
    /\ \A s \in sessions : s.chal \in DOMAIN chals /\ chals[s.chal].used
    /\ apps \in [Ids -> [Agency -> {"none", "open", "closed", "accepted"}]]
    /\ late \subseteq Ids \X Agency
    /\ \A r \in DOMAIN reqs : reqs[r] \in [id : DOMAIN ident, st : {"PENDING", "EXECUTED", "DECLINED"}]
    /\ \A k \in Caller : pc[k].op \in {"stamp", "session"} => chals[pc[k].chal].used
    /\ deciding \in [Erasers -> 0 .. bound.ids]
    /\ sweep = Null \/ sweep \subseteq Ids

CitizenInit ==
    /\ bound \in Bounds
    /\ clock = 0
    /\ attempts = NoAttempts
    /\ ident = <<>>
    /\ token = [i \in Ids |-> 0]
    /\ chals = <<>>
    /\ sessions = {}
    /\ apps = [i \in Ids |-> NoApps]
    /\ late = {}
    /\ reqs = <<>>
    /\ pc = [k \in Caller |-> Idle]
    /\ deciding = [f \in Erasers |-> 0]
    /\ sweep = Null

\* The rows a lookup by the national id's own hash can find.
WithOwnHash == {i \in DOMAIN ident : ident[i].hash = "own"}

Goto(k, step) == pc' = [pc EXCEPT ![k] = step]

-----------------------------------------------------------------------------
(* Step 1 of signing in: national id and date of birth *)

\* beginOnboarding up to the answer of NIDA; `right` is whether the date of
\* birth is the citizen's.  A locked national id is answered before NIDA is asked.
Begin(k, right) ==
    /\ pc[k] = Idle
    /\ ~OnboardingLocked(attempts, clock)
    /\ Goto(k, IF right THEN [op |-> "matched"] ELSE [op |-> "mismatch"])
    /\ UNCHANGED <<bound, clock, attempts, ident, token, chals, sessions, apps, late, reqs, deciding, sweep>>

\* recordOnboardingFailure
RecordFailure(k) ==
    /\ pc[k].op = "mismatch"
    /\ attempts' = FailureRecorded(attempts, clock)
    /\ Goto(k, Idle)
    /\ UNCHANGED <<bound, clock, ident, token, chals, sessions, apps, late, reqs, deciding, sweep>>

\* clearOnboardingFailures, then the guard of VerifyIdentityService.verify
FindIdentity(k) ==
    /\ pc[k].op = "matched"
    /\ attempts' = NoAttempts
    /\ LET found == {i \in WithOwnHash : ~ident[i].erased}
       IN  Goto(k, IF found = {} THEN [op |-> "create"]
                   ELSE [op |-> "confirm", id |-> CHOOSE i \in found : TRUE])
    /\ UNCHANGED <<bound, clock, ident, token, chals, sessions, apps, late, reqs, deciding, sweep>>

\* createVerifiedIdentity: ON CONFLICT (national_id_hash) DO NOTHING, then the
\* row that is there.
CreateIdentity(k) ==
    /\ pc[k].op = "create"
    /\ IF WithOwnHash = {}
       THEN /\ Len(ident) < bound.ids
            /\ ident' = Append(ident, NewIdentity)
            /\ Goto(k, [op |-> "confirm", id |-> Len(ident) + 1])
       ELSE /\ Goto(k, [op |-> "confirm", id |-> CHOOSE i \in WithOwnHash : TRUE])
            /\ UNCHANGED ident
    /\ UNCHANGED <<bound, clock, attempts, token, chals, sessions, apps, late, reqs, deciding, sweep>>

\* findVerifiedApplicantByNidHash must name the same row.
Confirmed(id) == id \in WithOwnHash

\* The rest of beginOnboarding: the token, or the uniform refusal.
IssueToken(k) ==
    /\ pc[k].op = "confirm"
    /\ token' = IF Confirmed(pc[k].id) THEN [token EXCEPT ![pc[k].id] = clock + OnboardingTtl] ELSE token
    /\ Goto(k, Idle)
    /\ UNCHANGED <<bound, clock, attempts, ident, chals, sessions, apps, late, reqs, deciding, sweep>>

-----------------------------------------------------------------------------
(* Steps 2 and 3: the code and the session *)

\* requestOtp.  The token is all it looks at; the text message may be lost.
RequestOtp(id, phone) ==
    /\ token[id] > clock
    /\ Len(chals) < bound.challenges
    /\ chals' = Append(chals, NewChallenge(id, phone, clock))
    /\ UNCHANGED <<bound, clock, attempts, ident, token, sessions, apps, late, reqs, pc, deciding, sweep>>

\* verifyOtp up to the comparison.  `code` is the code of some challenge, or 0
\* for a guess that is none.
VerifyOtp(k, id, code, phone) ==
    /\ pc[k] = Idle
    /\ token[id] > clock
    /\ LET c == LiveChallenge(chals, id, clock)
       IN  /\ c # 0
           /\ ChallengeOpen(chals[c])
           /\ Goto(k, IF CodeVerifies(chals, c, code, phone)
                      THEN [op |-> "consume", chal |-> c, phone |-> phone]
                      ELSE [op |-> "wrong", chal |-> c])
    /\ UNCHANGED <<bound, clock, attempts, ident, token, chals, sessions, apps, late, reqs, deciding, sweep>>

\* recordFailedAttempt
RecordFailedAttempt(k) ==
    /\ pc[k].op = "wrong"
    /\ chals' = [chals EXCEPT ![pc[k].chal] = AttemptRecorded(@)]
    /\ Goto(k, Idle)
    /\ UNCHANGED <<bound, clock, attempts, ident, token, sessions, apps, late, reqs, deciding, sweep>>

\* consumeChallenge
ConsumeChallenge(k) ==
    /\ pc[k].op = "consume"
    /\ LET c == pc[k].chal
       IN  IF MayConsume(chals[c], clock)
           THEN /\ chals' = [chals EXCEPT ![c].used = TRUE]
                /\ Goto(k, [pc[k] EXCEPT !.op = "stamp"])
           ELSE UNCHANGED chals /\ Goto(k, Idle)
    /\ UNCHANGED <<bound, clock, attempts, ident, token, sessions, apps, late, reqs, deciding, sweep>>

\* stampPhoneVerified: on an erased row the UPDATE raises and the request ends.
StampPhoneVerified(k) ==
    /\ pc[k].op = "stamp"
    /\ LET i == chals[pc[k].chal].id
       IN  IF Frozen(ident[i])
           THEN UNCHANGED ident /\ Goto(k, Idle)
           ELSE /\ ident' = [ident EXCEPT ![i].contact = pc[k].phone]
                /\ Goto(k, [pc[k] EXCEPT !.op = "session"])
    /\ UNCHANGED <<bound, clock, attempts, token, chals, sessions, apps, late, reqs, deciding, sweep>>

\* createSession: nothing tells it that the identity was erased meanwhile.
CreateSession(k) ==
    /\ pc[k].op = "session"
    /\ sessions' = sessions \cup
          {[by |-> k, chal |-> pc[k].chal, id |-> chals[pc[k].chal].id, exp |-> clock + SessionTtl,
            ended |-> FALSE]}
    /\ Goto(k, Idle)
    /\ UNCHANGED <<bound, clock, attempts, ident, token, chals, apps, late, reqs, deciding, sweep>>

\* findLiveSession
LiveSession(s) == ~s.ended /\ s.exp > clock

\* logout: terminateSession
Logout(s) ==
    /\ LiveSession(s)
    /\ sessions' = (sessions \ {s}) \cup {[s EXCEPT !.ended = TRUE]}
    /\ UNCHANGED <<bound, clock, attempts, ident, token, chals, apps, late, reqs, pc, deciding, sweep>>

-----------------------------------------------------------------------------
(* The citizen's application, as far as an erasure looks at it *)

Applied == {a \in Ids \X Agency : apps[a[1]][a[2]] # "none"}

\* POST /v1/me/applications: the session, then application-service's read of
\* the identity (modelled in full in Submission).
Apply(k, s, ag) ==
    /\ pc[k] = Idle
    /\ LiveSession(s) /\ ~ident[s.id].erased
    /\ apps[s.id][ag] \in {"none", "closed"}
    /\ Cardinality(Applied \cup {<<s.id, ag>>}) <= bound.applications
    /\ Goto(k, [op |-> "apply", id |-> s.id, agency |-> ag])
    /\ UNCHANGED <<bound, clock, attempts, ident, token, chals, sessions, apps, late, reqs, deciding, sweep>>

\* The insert, a later transaction: the foreign key asks for the row only.
InsertApplication(k) ==
    /\ pc[k].op = "apply"
    /\ LET i == pc[k].id
           ag == pc[k].agency
       IN  IF apps[i][ag] \in {"none", "closed"}
           THEN /\ apps' = [apps EXCEPT ![i][ag] = "open"]
                /\ late' = IF ident[i].erased THEN late \cup {<<i, ag>>} ELSE late
           ELSE UNCHANGED <<apps, late>>
    /\ Goto(k, Idle)
    /\ UNCHANGED <<bound, clock, attempts, ident, token, chals, sessions, reqs, deciding, sweep>>

\* A rejection or a withdrawal ends the application.
Close(i, ag) ==
    /\ apps[i][ag] = "open"
    /\ apps' = [apps EXCEPT ![i][ag] = "closed"]
    /\ UNCHANGED <<bound, clock, attempts, ident, token, chals, sessions, late, reqs, pc, deciding, sweep>>

\* An officer's acceptance takes the citizen's cross-agency lock; on an erased
\* row the UPDATE raises and the acceptance is rolled back.
Accept(i, ag) ==
    /\ apps[i][ag] = "open"
    /\ ident[i].locked = Null /\ ~Frozen(ident[i])
    /\ apps' = [apps EXCEPT ![i][ag] = "accepted"]
    /\ ident' = [ident EXCEPT ![i].locked = ag]
    /\ UNCHANGED <<bound, clock, attempts, token, chals, sessions, late, reqs, pc, deciding, sweep>>

-----------------------------------------------------------------------------
(* Erasure *)

\* The consumer of the legacy check-in result: recordBiometricResult, which
\* passes over an erased row.
RecordBiometricResult(i) ==
    /\ ~ident[i].erased /\ ~ident[i].biometric
    /\ ident' = [ident EXCEPT ![i].biometric = TRUE]
    /\ UNCHANGED <<bound, clock, attempts, token, chals, sessions, apps, late, reqs, pc, deciding, sweep>>

Pending(i) == {r \in DOMAIN reqs : reqs[r].id = i /\ reqs[r].st = "PENDING"}

\* fileRequest up to its read: a pending request is found and answered.
FileRequest(k, s) ==
    /\ pc[k] = Idle
    /\ LiveSession(s)
    /\ Pending(s.id) = {}
    /\ Len(reqs) < bound.requests
    /\ Goto(k, [op |-> "file", id |-> s.id])
    /\ UNCHANGED <<bound, clock, attempts, ident, token, chals, sessions, apps, late, reqs, deciding, sweep>>

\* idx_pc_erasure_request_pending: a second pending request fails the insert.
MayFile(i) == Pending(i) = {}

InsertRequest(k) ==
    /\ pc[k].op = "file"
    /\ reqs' = IF MayFile(pc[k].id) THEN Append(reqs, [id |-> pc[k].id, st |-> "PENDING"]) ELSE reqs
    /\ Goto(k, Idle)
    /\ UNCHANGED <<bound, clock, attempts, ident, token, chals, sessions, apps, late, deciding, sweep>>

\* decline, with its check of the status
Decline(r) ==
    /\ reqs[r].st = "PENDING"
    /\ reqs' = [reqs EXCEPT ![r].st = "DECLINED"]
    /\ UNCHANGED <<bound, clock, attempts, ident, token, chals, sessions, apps, late, pc, deciding, sweep>>

\* eraseIdentity of a row that passes the gate: the tombstone, and every
\* session and challenge of the citizen deleted with it.
Erased(i) ==
    /\ ident' = [ident EXCEPT ![i] = Tombstone(@)]
    /\ sessions' = {s \in sessions : s.id # i}
    /\ chals' = [c \in DOMAIN chals |->
                    IF chals[c].id = i THEN Deleted(chals[c]) ELSE chals[c]]

\* The outcomes after which EraseIdentityService closes the request.
Executed(i) == ident[i].erased \/ ~ErasureRefused(ident[i], apps[i])

\* EraseIdentityService.erase: the gate, the overwrite; an identity already
\* erased answers the same.  The stamp of the request comes afterwards.
EraseIdentity(f, i) ==
    /\ deciding[f] = 0
    /\ IF ~ident[i].erased /\ ~ErasureRefused(ident[i], apps[i])
       THEN Erased(i) ELSE UNCHANGED <<ident, sessions, chals>>
    /\ deciding' = [deciding EXCEPT ![f] = IF Executed(i) THEN i ELSE 0]
    /\ UNCHANGED <<bound, clock, attempts, token, apps, late, reqs, pc, sweep>>

\* markExecuted without its check of the status.
MutMarkExecuted(i) ==
    reqs' = [r \in DOMAIN reqs |-> IF reqs[r].id = i THEN [reqs[r] EXCEPT !.st = "EXECUTED"] ELSE reqs[r]]

\* markExecuted
MarkExecuted(i) ==
    reqs' = [r \in DOMAIN reqs |-> IF r \in Pending(i) THEN [reqs[r] EXCEPT !.st = "EXECUTED"] ELSE reqs[r]]

\* The stamp, which is best effort: a fault is swallowed.
CloseRequest(f) ==
    /\ deciding[f] # 0
    /\ MarkExecuted(deciding[f]) \/ UNCHANGED reqs
    /\ deciding' = [deciding EXCEPT ![f] = 0]
    /\ UNCHANGED <<bound, clock, attempts, ident, token, chals, sessions, apps, late, pc, sweep>>

\* RetentionSweepService.report: the candidates, the old enough ones of them.
SweepReport ==
    /\ bound.sweeps
    /\ sweep = Null
    /\ sweep' \in SUBSET {i \in DOMAIN ident : SweepCandidate(ident[i], apps[i])} \ {{}}
    /\ UNCHANGED <<bound, clock, attempts, ident, token, chals, sessions, apps, late, reqs, pc, deciding>>

\* execute: each candidate through the same gate, whatever the report said.
SweepErase(i) ==
    /\ sweep # Null /\ i \in sweep
    /\ sweep' = sweep \ {i}
    /\ IF ~ident[i].erased /\ ~ErasureRefused(ident[i], apps[i])
       THEN Erased(i) ELSE UNCHANGED <<ident, sessions, chals>>
    /\ UNCHANGED <<bound, clock, attempts, token, apps, late, reqs, pc, deciding>>

\* ... and then the purge of dead sessions and challenges.
SweepPurge ==
    /\ sweep = {}
    /\ sweep' = Null
    /\ sessions' = {s \in sessions : s.exp + PurgeGrace >= clock}
    /\ chals' = [c \in DOMAIN chals |->
                    IF chals[c].exp + PurgeGrace < clock THEN Deleted(chals[c]) ELSE chals[c]]
    /\ UNCHANGED <<bound, clock, attempts, ident, token, apps, late, reqs, pc, deciding>>

\* A tick is long beside a call to NIDA: the time a failure is recorded with is
\* the time of the record.  Any other request may be slow.
Elapse ==
    /\ clock < bound.time
    /\ \A k \in Caller : pc[k].op # "mismatch"
    /\ clock' = clock + 1
    /\ UNCHANGED <<bound, attempts, ident, token, chals, sessions, apps, late, reqs, pc, deciding, sweep>>

-----------------------------------------------------------------------------
Onboarding(k) ==
    \/ \E right \in BOOLEAN : Begin(k, right)
    \/ RecordFailure(k)
    \/ FindIdentity(k)
    \/ CreateIdentity(k)
    \/ IssueToken(k)

SignIn(k) ==
    \/ \E i \in DOMAIN ident, code \in 0 .. Len(chals), phone \in Phone : VerifyOtp(k, i, code, phone)
    \/ RecordFailedAttempt(k)
    \/ ConsumeChallenge(k)
    \/ StampPhoneVerified(k)
    \/ CreateSession(k)

SelfService(k) ==
    \/ \E s \in sessions : FileRequest(k, s) \/ \E ag \in Agency : Apply(k, s, ag)
    \/ InsertApplication(k)
    \/ InsertRequest(k)

CitizenNext ==
    \/ \E k \in Caller : Onboarding(k) \/ SignIn(k) \/ SelfService(k)
    \/ \E i \in DOMAIN ident, phone \in Phone : RequestOtp(i, phone)
    \/ \E s \in sessions : Logout(s)
    \/ \E i \in DOMAIN ident, ag \in Agency : Close(i, ag) \/ Accept(i, ag)
    \/ \E i \in DOMAIN ident : RecordBiometricResult(i)
    \/ \E r \in DOMAIN reqs : Decline(r)
    \/ \E f \in Erasers : CloseRequest(f) \/ \E i \in DOMAIN ident : EraseIdentity(f, i)
    \/ SweepReport
    \/ \E i \in DOMAIN ident : SweepErase(i)
    \/ SweepPurge
    \/ Elapse

CitizenSpec == CitizenInit /\ [][CitizenNext]_citizenVars

-----------------------------------------------------------------------------
(* Properties *)

\* Two sign-ins that present one code at once get one session between them
\* (applicant-auth.service.ts: "SINGLE USE IS ENFORCED, NOT ASSUMED").
OneSessionPerCode == \A s, t \in sessions : s.chal = t.chal => s = t

\* The contact on file received a code of this identity, and the code came
\* back, also when codes for two phones are under way at once.
ContactProven ==
    \A i \in DOMAIN ident : ident[i].contact # Null =>
        \E c \in DOMAIN chals : chals[c].id = i /\ chals[c].used /\ chals[c].phone = ident[i].contact

\* A challenge takes no more wrong codes than its limit and the guesses that
\* had passed the check when the limit was reached: attempts is read in one
\* transaction and raised in another.
GuessesBounded ==
    \A c \in DOMAIN chals : chals[c].attempts <= OtpMaxAttempts + Cardinality(Caller) - 1

\* So for dates of birth in one window, whatever the citizen's own sign-ins and
\* the ends of locks do in between.
BirthDateGuessesBounded == attempts.failed <= MaxFailures + Cardinality(Caller) - 1

\* A national id has one identity that is not erased, however many onboardings
\* race to create it, and an erased citizen who returns gets a new one.
OneLivingIdentity == Cardinality({i \in DOMAIN ident : ~ident[i].erased}) <= 1

\* What an erasure removed stays removed: a sign-in that was under way
\* puts nothing back (rls/0014).
ErasedHoldsNothing ==
    \A i \in DOMAIN ident : ident[i].erased =>
        ident[i].contact = Null /\ ~ident[i].biometric

\* No enlisted citizen is erased, and none with an application in flight in any
\* agency, by an officer or by the sweep with an old report.  The application
\* that can be in flight nevertheless was being filed while the erasure ran.
ErasureGateHolds ==
    \A i \in DOMAIN ident : ident[i].erased =>
        /\ ident[i].locked = Null
        /\ \A ag \in Agency : apps[i][ag] = "accepted" \/ apps[i][ag] = "open" => <<i, ag>> \in late

\* An onboarding token outlives the erasure of its identity and still buys a
\* code, but that code opens no session: the stamp of the phone raises first.
NoSessionAfterErasure ==
    \A s \in sessions : ident[s.id].erased => chals[s.chal].gone

\* One request per citizen waits for a decision, however often it is filed.
OnePendingRequest == \A i \in DOMAIN ident : Cardinality(Pending(i)) <= 1

\* A request that reads EXECUTED was.
ExecutedMeansErased ==
    \A r \in DOMAIN reqs : reqs[r].st = "EXECUTED" => ident[reqs[r].id].erased

\* A decision stands: the stamp of a late erasure does not overwrite a decline.
DecidedOnce == \A r \in DOMAIN reqs : reqs[r].st # "PENDING" => reqs'[r] = reqs[r]

\* No token is issued for an identity erased since it was looked up: the second
\* lookup goes by the hash, which the erasure replaced.
TokenNamesTheLiving == \A i \in Ids : token'[i] > token[i] => ~ident[i].erased

\* Signing in proves what it claims: one session for a code, a contact that
\* answered, and no more guesses than the limits and the races allow.
SignInIsSound ==
    /\ CitizenTypeOK
    /\ OneSessionPerCode /\ ContactProven
    /\ GuessesBounded /\ BirthDateGuessesBounded

\* An erasure is lawful and complete: nothing in flight was lost, nothing of the
\* citizen comes back, who returns is new, and the request says what happened.
ErasureIsComplete ==
    /\ OneLivingIdentity /\ ErasedHoldsNothing /\ ErasureGateHolds
    /\ NoSessionAfterErasure
    /\ OnePendingRequest /\ ExecutedMeansErased

\* No step undoes a decision or names who is gone.
DecisionsStand == [][DecidedOnce /\ TokenNamesTheLiving]_citizenVars
=============================================================================
