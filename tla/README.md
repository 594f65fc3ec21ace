# Verification of the e-recruitment platform

TLA+ specifications of the platform's core, model-checked with TLC and proved
with TLAPS. Every definition is translated from the source under `src/`;
`PROJECT.json` says which lines each definition stands for.

## 1. The system

The platform recruits for three Rwandan agencies (RDF, RNP, RCS). A citizen
files an application to a campaign; registries and document forensics vet it;
scheduling gives the cleared applicant a seat at an exam venue; notification
invites; field devices capture test scores; officers carry out the medical
review, decide and finally accept. It is a set of Node services around one
PostgreSQL database (a schema for each agency, row-level security and
`SECURITY DEFINER` functions for the delicate writes) and one Kafka cluster.

### Components

| Component | State it keeps | Operations | Talks to |
|---|---|---|---|
| application-service, projections | `<agency>_ops.applications`, the append-only `application_status_history`, the accept lock on `public_core.applicant_identities` | one handler per incoming event (vetting, slot, notification, score, forensics, acceptance), officer transitions, walk-in lane, self-withdrawal, sweep of stalled clearances | consumes and publishes Kafka events; officers over HTTP |
| application-service, submission | `submission_requests` (ledger of idempotency keys), the application row, the staged event | `submit`, `resolveKey`, `recordSubmission` | identity and campaign readers, outbox |
| scheduling-service | `slot_reservations`, `registered_count` of the venues | `assign`, `reserve`, `recordDeferral` | consumes APPLICATION_ELIGIBILITY_CLEARED, announces SLOT_ASSIGNED |
| transactional outbox | `event_outbox` | stage, dispatch, drain, purge | every producer, the broker |
| event bus | consumer groups and offsets | publish, subscribe, retry in process, dead-letter | all services |
| notification-service | none that others read | deliver an invitation or a withdrawal notice | consumes SLOT_ASSIGNED, announces NOTIFICATION_DELIVERED |
| event-redrive-service | `event_redrive_ledger`, its cursor, a leader lock | intake, claim, republish, park, signal | dead-letter topic |
| campaign control plane | campaigns, policy versions, sessions, coverage, command ledger | draft, version, configure, publish, close, complete, cancel | submission and scheduling read it |
| field-sync-service | `physical_test_scores`, device registry, vector clocks | sync, resolve a conflict, enrol, manage a fleet | announces FIELD_SCORE_CAPTURED |
| gate admission, biometric evidence | `gate_admissions`, attempts, evidence | admit, confirm | read by the score projection |
| identity-service | applicant identities, one-time codes, erasure requests | onboard, log in, erase | front door |
| iam-service | officer accounts, service accounts, devices | officer life cycle, tokens | all |
| edge-gateway | sessions, rate-limit buckets | relay requests | all |
| document-forensics-service | `document_records`, revisions | upload, analyse | announces DOCUMENT_FORENSICS_COMPLETED |
| eligibility-service, background-vetting-service | look-up attempts, certificates | compute age, academic and criminal verdicts | registries; announce verdicts |
| audit-service | the audit log | append | consumes AUDIT_ENTRY |

### What is hard

* Events are delivered at least once, in no order across topics, and a consumer
  may handle one and lose its acknowledgement. Every projection must cope with
  stale, repeated and early events.
* Some events are staged in the transaction that causes them (outbox); others
  are published after the commit and can be lost.
* Three agencies' officers act on rows of different schemas that belong to one
  citizen.
* Transactions run at READ COMMITTED: what a statement saw may be gone at the
  next one. Unique indexes and row locks are what really serialises.
* Seats, keys and live applications are limited resources that concurrent
  handlers compete for, and a loser must leave nothing behind.
* Rules that span a sequence of people's actions (four eyes, "a person's
  decision outranks a machine's", "no flag unseen") are enforced by guards that
  read a summary of the past.

`PROJECT.json` lists each of these at the line where it bites, under `hazards`.

### What makes each component correct

| Component | Properties |
|---|---|
| application rows | one acceptance per citizen over all agencies; a person's decision survives every later verdict; no disqualifying flag passes unseen; the rules on who may sign hold over every sequence of holds and clears; stages move forward except by an officer's clear; a cleared applicant is placed while the campaign lasts and an acceptance retires the siblings |
| submission | one filing per key and per intent, retries get the first answer, nothing is filed after the close, everybody is answered |
| slots | no overbooking, exact counters, one ticket per application |
| outbox, redrive | what was committed is announced at least once and in order; no event loses its last trace; republishing is bounded and ends |
| campaign | one effect per command key; what was published is frozen and complete; a cancelled campaign is empty; nothing moves under the row lock; no circular wait |
| exam day | one admission per ticket; evidence was seen or is marked late; negative results need a second person; shadow results decide nothing; no capture is forgotten; conflicts hold the application; counts equal the rows |
| officers, sessions | every agency keeps an administrator; nobody holds the code of an account they made; late access ends with the token; the session ceiling holds |
| citizens | one session per code, bounded guesses, one living identity, an erased citizen leaves nothing behind, one pending request, decided once |
| case work | stamped bytes are never replaced; row, trail and object agree; an amber document reaches an officer; verdicts rest on the applicant's own records; a clearance is on record before it counts; an outage is never forgotten |

## 2. The modules

| Module | Models | Atomicity |
|---|---|---|
| `Lifecycle` | `lifecycle.ts`, `adjudication-lanes.ts`, `human-decision.ts` as pure operators on a row | none |
| `Applications` | all handlers of application-service that move a row, and the messages around them | one handler = one transaction with the row locked = one action |
| `Submission` | `submit()` and `recordSubmission()` | one statement = one action |
| `SlotLedger` | `assign()` and `reserve()` | one statement = one action |
| `Outbox`, `AtLeastOnce` | `outbox.ts`: staging, dispatcher, relay, purge; and the abstract promise it implements | one statement, publish or commit = one action |
| `Redrive` | the consumer boundary of `kafka-bus.ts` and event-redrive-service: dead letters, ledger, worker, leader lock | one statement, transaction or publish = one action |
| `Campaign` | the seven campaign commands (rls/0026, rls/0027, application-service, scheduling-service) | one statement of a command = one action |
| `Venue` | rows and locks that the gate and field-sync share on exam day | - |
| `Gate` | gate admission, biometric evidence, a supervisor's confirmation, the citizen's ticket | one lock, look or write = one action |
| `FieldSync` | capture, upload, vector-clock merge, adjudication, the completing consumer, the device fleet | registry read, store transaction, announcement = one action each |
| `ExamDay` | composition of `Gate` and `FieldSync` over `Venue` | - |
| `OfficerAccounts` | what the functions of rls/0033 decide and write, as operators on two rows | none |
| `EdgeSessions` | the edge gateway's session store, as operators on a row | none |
| `Officers` | composition: commands, activation, sign-in, browser requests, sweep | authorisation and execution apart; token and session apart; lookup and effect apart |
| `ApplicantRows` | the statements of identity-service on its five tables, as operators | none |
| `Citizen` | onboarding, one-time codes, sessions, applications, erasure, the retention sweep | one statement or locked transaction = one action |
| `VettingRules` | the age, NESA, HEC, RIB and certificate rules, pure | none |
| `CaseFile` | the application row and the verdicts on the bus that the vetting services share | - |
| `DocumentSlot` | one document slot: rows, revision trail, object store | status read, slot lock, object write, commit, publish = one action each |
| `ClearanceDesk` | certificate verification, its record, retries, parking, escalation | registry call, read, insert, publish, acknowledgement = one action each |
| `Casework` | composition of the four with the projections and the officer | - |
| `MC*` | the instances that TLC checks | - |
| `*Proofs` | the theorems and their proofs | - |

The modules compose in two ways. `ExamDay`, `Officers`, `Citizen` and `Casework`
put components over shared rows and let their steps interleave. Between the
others it is assumption and guarantee: `Applications` treats the outbox as a set
of owed events that `PublishStaged` announces one or more times, which is
`AtLeastOnce`, and `Outbox` is shown to implement it. It treats scheduling as "a
reservation, and its announcement, or a deferral", which is what `SlotLedger`
gives for one application. `FileApplication` stands for a filing of
`Submission`, `CloseRegistration` and `CompleteCampaign` for the commands of
`Campaign`. Its verdicts are arbitrary inputs, which is more than `Casework`
produces; its score facts are arbitrary, which is more than `ExamDay` produces.

### Applications

`row` is the table of applications over all agencies. A row carries the status,
the three verdict columns, `nesaReview` (the failure code of a pending academic
verdict), whether a slot is stored, the resolution columns of rls/0047, and what
the code later reads back from the history: `heldFrom` (`from_status` of the
latest entry into ADJUDICATION_REVIEW), `intoMedicalBy` and `acceptedBy`
(`performed_by` of entries). `medicalBy` and `dismissed` are history variables:
they record who did the medical review and which flags an officer saw when the
hold was lifted, and no guard reads them.

`lock` is `cross_agency_locked_by_agency`. `outbox`, `unsent` and `inbox` are
staged events, events a handler publishes after its commit, and deliveries not
acknowledged. Verdicts, document lanes and captured scores come from services
outside the module: they are chosen from constant sets, at any time and
repeatedly. That covers every order, repetition and delay.

`campaignStatus` is the status of each row of `recruitment_campaigns`. The front
doors and the sweep of stalled clearances read it: a digital filing needs
REGISTRATION_OPEN, a walk-in and the sweep a campaign that is not over
(`CanHoldExam`). The administrators' two commands move it and look at no
application; a campaign with an application is never cancelled, so CANCELLED is
left to `Campaign`. No command enters EXAMINATION_ACTIVE; `LegacyCampaigns` are
the rows that had it before.

A handler that consumes a modelled delivery takes `ack`: with `FALSE` it has run
and the delivery is still owed (a rebalance, a retry, a replay).

Left out on purpose: SMS status columns; the back-fill of `qr_signed_token` on rows older
than ADR-033; the NOT_FOUND answer to a mis-routed agency; validation of medical
certificates (the input `fit` stands for the result). The facts the score
projection reads from other tables (`FieldFacts`) are inputs here and computed in
`ExamDay`. Uniqueness of live applications belongs to `Submission`.

### Submission

A delivery is one execution of `submit()`; a retry is another delivery of the
same key and body. One citizen and one campaign: other citizens touch other rows.
Between the claim of the key and the commit a delivery holds its uncommitted
ledger row (`HoldsKey`), and from the insert on its uncommitted application
(`HoldsIntent`). Inserts that meet such a row wait, as PostgreSQL's unique
indexes do. `known` is a history variable. The walk-in insert is an action of
`Applications` only.

### SlotLedger

A delivery's ticket is identified with the delivery. `Holders(v)` is the
transaction that holds the venue's row. Sessions can be configured only while a
campaign is a draft, so venues and capacities are constants. "No district" and
"no venue" are one case. A rolled-back handler is delivered again (`Fail`). The
commit and the hand-over to the dispatcher are one step: what lies between is
the business of `Outbox`.

### Outbox

The handlers' transactions interleave with the fast path and one relay (the
advisory lock admits one). `id` comes from a sequence when the row is inserted.
The grace period is `Age`, which may happen to a transaction at any time. A
batch holds the lowest ids among the rows that are pending and old enough, and
its rows stay locked until the relay's transaction ends.

### Redrive

`topic` counts the copies of each event that the consumer has yet to settle:
`Handle` and `DeadLetter` are `eachMessage` with its retries in process, and
`committed = FALSE` is a run whose offset commit was lost. `letters` is the
dead-letter partition, `row` the ledger; a letter's offset is its index, and
because rows and cursor are written in one transaction the cursor is `Len(row)`.
`pc` follows a worker through `tick()`, one value per await: `claim` is what
`claimDue` returned, as it was read, and the decision is taken on that copy.
`FallDue` is the passing of `next_attempt_at`.

`Start` is `tryAcquire`, once and for the life of the process. `Recycle` is the
pool closing the idle connection that carries the lock: the session lock is
gone, the worker does not know. `Stop` may send its unlock on another
connection of the pool. `Crash`, `TickFails`, `IntakeFails`, `ScanCutShort` and
the lost acknowledgement in `ReplayFails` are faults; `faults` counts them and
`MaxFaults` bounds them. A plain refusal of the broker is not counted: the code
handles it with a budget.

`replays` is a history variable. One group, one source topic and
one partition: the ledger's statements never mix groups, and partitions are
scanned independently. The observer that background-vetting hangs on a dead
letter is in `ClearanceDesk`; the operator's replay script is not modelled.

### Campaign

`db` holds each campaign with its policy versions, sessions, coverage head,
publication and history; `ledger` the stored answer of each (actor, operation,
key). A session (`work`) runs a command through its five statements: `ReadReplay`
reads the key, `LockCampaign` takes the campaign row, `Inspect` checks state and
reads the key again, `Claim` takes the key's advisory lock and inserts, and the
command's own write (`WriteDraft`, `WritePolicyVersion`, `ConfigureSession`,
`WritePublication`, `CloseRegistration`, `Complete`, `Cancel`) applies it with
its triggers, its audit entry and its domain event, and commits.
`Crash` rolls back. `BeginFiling` and `EndFiling` are a submission that holds the row FOR SHARE,
`ReserveSeat` is scheduling's update of a session's counter. Digests are modelled
by what they digest, a policy document by its set of categories. Left out: the
shape of bodies (names, phone numbers, hours).

### Venue, Gate, FieldSync, ExamDay

`sess` says what each database session does; `rowLock`, `identityLock` and
`venueLock` are the three locks of rls/0034 and rls/0036. The gate takes row then
identity, evidence takes identity then (through its foreign key) the row; the
circle this can close ends with a victim, whose evidence is remembered in `lost`.
`counts` is recomputed from the rows by the trigger under the venue's lock.
`day`, withdrawals, enrolment and revocation change at any time, and so does
`mode`, one way: from SHADOW to ADVISORY and from there to OFF.
A tablet's capture (outside the repository) advances its own clock axis past its
own captures, or past what the log shows when it is online. A record passes
registry, store and announcement as separate steps; `settled` remembers which
uploads were answered. The attempts log, last-seen stamps and device-to-venue
assignments are read by listings only and are left out.

### OfficerAccounts, EdgeSessions, Officers

`acct` and `code` are the two tables of rls/0033, `rows` is `edge_sessions`.
`Authorize` is the unlocked read of the administrator's account, `Execute` the
rest of the command under the target's row lock (and, for a status change, the
agency's advisory lock), `Refuse` its error paths. `Login` mints the token,
`OpenSession` stores the row; `Resolve` is findByHandle, `FinishRequest` what the
request then does (touch, rotate, revoke). A handle and its CSRF token are one
generation. `made` and the session field `late` (the account was disabled or
posted elsewhere between the token and the row) are history.

### ApplicantRows, Citizen

One national id with all rows identity-service ever keeps for it. `pc` is where
each of two concurrent requests stands between two statements. `deciding` is an
officer between the erasure and the stamp on the request, `sweep` the retention
sweep between its report and its erasures. Applications at the agencies are open,
accepted or closed; `late` remembers those whose submission read the identity
before it was erased. NIDA and the message gateway are external.

### VettingRules, CaseFile, DocumentSlot, ClearanceDesk, Casework

`row` is one application as `Lifecycle` sees it. `verdicts` is everything ever
published: a verdict may be projected at any time, in any order and again.
`answers` remembers what the registries said. In `DocumentSlot` a call passes
`Start` (the unlocked status read), lock and decision, the object's PUT inside
the open transaction, commit and publish, and may die anywhere; `lost` and `stale` are history
for the two windows section 4 describes. In `ClearanceDesk` an unacknowledged
event is handled again, parks after the retry budget, and comes back by the
re-driver; `overlapped` says that a rebalance let two workers handle it at once.
The byte probes are abstracted to what they find, the virus scanner to its
answer, the registries to the records they return. Not modelled:
APPLICANT_NOT_FOUND and IDENTITY_NOT_VERIFIED, which are answered before any
effect, and a malformed certificate number, which is recorded as
CORRECTION_NEEDED on the same path as a number the registry does not know, with a
code of its own and without a look-up.

## 3. What the runs check

Every run takes under four minutes with two workers. `CHECK_DEADLOCK FALSE`
is set where the system may come to rest (every application ended, every request
answered, every event purged); `campaign` checks for deadlock.

| Run | Bounds | Checks |
|---|---|---|
| `rows` | one RDF application filed digitally or at the walk-in desk, two officers, age, academic and criminal verdicts including hard failures and holds, all three document lanes | HumanDecisionStands, NoUnseenFlag, AccepterDidNotResolve, LanesAreKept, LifecycleIsOneWay, MedicalReviewerNeedsAClear |
| `agencies` | one citizen, a digital application to one agency and a walk-in of another, each in a campaign that may end, an officer each, direct publishes that may be lost, fairness | OneAcceptancePerCitizen, GreenIsPlaced, AcceptanceRetiresSiblings |
| `frontdoor` | four deliveries for one intent: two of one request, its key again with another body, and a keyless caller whose random key competes; fairness | OneFiling, RetriesGetTheirOwn, NothingFiledAfterClose, EveryRequestAnswered |
| `seats` | five deliveries for four applications: one cleared twice, three competing for two seats, one without a venue, fairness | SeatsAreExact, OneTicketPerApplication, FullOnlyForTheUnplaced, EveryClearanceAnswered |
| `delivery` | two transactions, three events, one of them corrupt, a batch of two, fairness | NoOvertaking, AtLeastOnceDelivery, EveryEventAnnounced |
| `redrive` | one worker, one retryable event and one that is refused for good, a budget and a threshold of two, two letters per tick, one fault of any kind, fairness | NeverLost, RedrivesBounded, EverythingSettles |
| `campaign` | two sessions, one campaign of the control plane with two target districts and one older than it, the commands of a whole life, each sent any number of times, one filed application | OneEffectPerKey, CampaignsAreWhole, CommandsSerialise |
| `gate` | two sessions, two applications with a ticket, copied and foreign scans, advisory and shadow evidence, a screener and a supervisor, one device, the exam day and the day after | AdmissionIsExact, EvidenceIsHeeded |
| `tablets` | two sessions, two tablets, an admitted candidate and a walk-in, three captures, uploads in any order and again, an adjudicator | CapturesAreKept, HeldWhileOpen |
| `staff` | two instances: three administrators of one agency, the only one of another and a new officer with two activations, no sign-ins; and two administrators with a session who disable and re-post each other over five ticks | AlwaysAnAdmin, ActivationIsSound, SessionsEndInTime, ActivatedForGood |
| `citizen` | two concurrent requests, two phones, two agencies, one tick; three instances: one identity with two codes; an identity and its successor after an erasure; one citizen with a session, two applications, two erasure requests, an officer and the sweep | SignInIsSound, ErasureIsComplete, DecisionsStand |
| `casework` | one application, five instances: a slot with two contents and three calls by two callers; a certificate that clears; certificates that leave a content to read or an identity doubt; one that is somebody else's (two workers and up to three verifications each); every other answer of NESA, HEC and RIB | DocumentsAreEvidence, JudgedOnRecord, OutagesAreFollowedUp |

Several of these are conjunctions of named parts; each part is a definition of
its own, with its comment, in the same module:

| Property | Parts |
|---|---|
| LanesAreKept | HoldRestoresInFlightStage, WalkInKeepsItsLane |
| LifecycleIsOneWay | OnlyAClearStepsBack, DecisionIsFinal (of every step) |
| OneFiling | KeyFilesOnce, OneLivePerIntent |
| RetriesGetTheirOwn | RetryIsReplayed, RacingRetryGetsItsOwn |
| SeatsAreExact | CapacityRespected, SeatsMatchReservations |
| CampaignsAreWhole | TypeOK, PublicationIsFrozen, VisibleIsComplete, FactsRetellTheRows |
| CommandsSerialise | NothingMovesUnderTheLock, CancelledIsEmpty, NobodyWaitsInACircle |
| AdmissionIsExact | TypeOK, AdmittedOnce, CountsAreExact, ReadyIsAdmissible |
| EvidenceIsHeeded | EvidenceSeenOrLate, NegativeHadASecondPair, ShadowHasNoInfluence, StoredMeansWhatItSays |
| CapturesAreKept | NothingForgotten, FlagsTellTheHeads, ScoresAreGenuine, OfficialWasClearOrChosen |
| ActivationIsSound | FourEyes, RedeemedIsLatest |
| SessionsEndInTime | TypeOK, SessionsMatchAccounts, LateAccessEndsWithTheToken, CeilingHolds |
| SignInIsSound | TypeOK, OneSessionPerCode, ContactProven, GuessesBounded, BirthDateGuessesBounded |
| ErasureIsComplete | OneLivingIdentity, ErasedHoldsNothing, ErasureGateHolds, NoSessionAfterErasure, OnePendingRequest, ExecutedMeansErased |
| DecisionsStand | DecidedOnce, TokenNamesTheLiving (of every step) |
| DocumentsAreEvidence | TypeOK, StampedBytesStand, TrailIsComplete, RowDescribesTheBytes, AmberIsSeen |
| JudgedOnRecord | VerdictsRestOnOwnRecords, ClearedIsOnRecord, AdmittedOnAuthentic |
| OutagesAreFollowedUp | PendingIsNeverForgotten, EscalationFollowsOutage |

The type invariants of the five older modules are proved (section 5) and not
checked again.

`staff`, `citizen` and `casework` choose their instance in the initial state (the
variable `scope` or `bound`), so one run explores several small worlds that do
not need each other's actors: their product would be out of reach and shows no
race that the parts do not.

Why these bounds are enough to be interesting: the guards of `Applications`
compare a row with itself, with its officers and with the other applications of
the same citizen, so one row with two officers shows every sequence of verdicts
and decisions, and two rows of one citizen show every race for the lock; that a
walk-in is the second of them leaves the state space of the slot messages to the
first, and no guard of Accept or of the sibling projection reads the lane. The
campaigns of `rows` do not end (`EndingCampaigns`): no property of that run reads
them, and the theorems over `Applications` hold whichever campaigns end. In
`Submission` and `SlotLedger` a race needs a winner, a loser with the same key
(or application) and a competitor with another. In `Outbox` order needs two
events of one transaction and a second transaction. In `Redrive` a budget of two
lets a letter return once with something inherited and once spent, and one fault
can fall between any two steps; with one worker the ELSE branch of `Start` and
the refused update of `RecordSuccess` do not occur, and NoEventLost is proved for
any number; RedrivesBounded is a property of one worker, and proved for one. In `Campaign`, `ExamDay`, `Citizen` and `Casework` locks and unlocked
reads involve two transactions, and a third one only repeats what the second can
do. Two devices are what makes clocks concurrent, three captures what makes a
correction of a conflict. Two administrators can disable each other and a third
is needed to release what two of them created and issued. The safety properties
that are proved (section 5) do not depend on the bounds.

### Fairness

* `Applications`: weak fairness of the sweep and the relay (both on timers that
  survive a failed tick), of the consumers of a delivery that stays owed, and of
  the publish of a process that survives. Scheduling is obliged to answer, not
  to find a seat, and no campaign is obliged to end or to stay open.
* `Submission`: weak fairness of each request; the transactions it waits for end.
* `SlotLedger`: strong fairness of each delivery, because the row lock of a
  venue is granted in the order of arrival.
* `Outbox`: weak fairness of the relay's steps and of time. Nobody is obliged to
  finish the fast path.
* `Redrive`: weak fairness of a worker's steps (the timer survives a failed tick,
  and the deployment restarts a process that ended), of the consumer, and of
  time.
* The other modules state no fairness: their properties are safety properties.

## 4. Where code and documentation disagree

Met while modelling. The models contain each of these behaviours; the properties
of section 3 are stated so that they hold of the code as it is, and where one has
an exception it is one of these.

Application rows
* The forensics projection tests three terminal statuses and not
  WALK_IN_REJECTED: a document judged AMBER after the on-site rejection puts the
  row into ADJUDICATION_REVIEW (`application.pg-repository.ts:682`, "Terminal
  rows are never routed"; ADR-012). `DecisionIsFinal` leaves that status out.
* The medical reviewer may sign the final decision after another officer cleared
  a late flag: the latest entry into MEDICAL_REVIEW is the clear's
  (`officer-transition.pg-repository.ts:164`, ADR-031).
  `MedicalReviewerNeedsAClear` says that this is the only way.
* NOTIFICATION_DELIVERED handled before SLOT_ASSIGNED is acknowledged without
  effect, and the row stays at SLOT_ASSIGNED (`application.pg-repository.ts:406`,
  against ADR-025's order-independent projections).
* The slot handler looks at the status and not at the gates behind it
  (`application.pg-repository.ts:305`, ADR-033).
* Officer transitions publish after their commit; a crash in between loses the
  event (`officer-transitions.service.ts:214`; ADR-025 lists these dual writes as
  not done). `LosePublish` models it, and `AcceptanceRetiresSiblings` starts
  where APPLICATION_ACCEPTED has reached the broker.
* The sweep of stalled clearances heals a lost announcement only while the
  campaign is not over (`stalled-clearance.pg-repository.ts:39`), and completing
  a campaign looks at no application (rls/0027:1590), although COMPLETED is
  "All selections finalized" (`campaign.types.ts:21`). A row that still waits at
  green when its campaign is completed, or is cleared after that, is passed by
  for ever. `GreenIsPlaced` ends where the campaign is completed.
* The loser of a live-intent race is answered ALREADY_APPLIED without reading its
  own key again (`submission-ledger.pg.ts:229`, `ports/submission-ledger.ts:85`).

Outbox and redrive
* As many quarantined rows as the batch has places starve the relay
  (`outbox.ts:265`): `delivery` has fewer of them than places.
* The relay's order by id is not the commit order (`outbox.ts:258`).
* `claimDue` releases its row locks before the republish, and the leader lock is
  a session lock on a pooled connection that may idle out: two workers can hold
  the same letters (`redrive-ledger.pg.ts:103`, `client.ts:132`).
* A failure raises the streak of every retrying letter, a success resets one
  (`redrive-ledger.pg.ts:127`): a letter can be parked for REPEATED_FAILURE
  although republishes succeeded in between.
* A crash between park and signal leaves a parked letter unannounced
  (`redrive-dead-letters.service.ts:197`); leadership is tried once, at start
  (`worker.ts:41`).

Exam day
* A correction whose metrics equal an older record's is DUPLICATE although its
  clock dominates (`merge.ts:12`, `signing.ts:76`): the payload hash covers the
  metrics alone.
* An announcement that lags behind can complete an application with a score that
  an adjudication has since rejected.
* The gate and the evidence writer lock row and identity in opposite orders; the
  deadlock's victim loses its evidence (`0034_biometric_evidence.sql:417`).
* The store commits before the announcement is published; the device's trust is
  read in another transaction than the one that stores its score.

Officers and sessions
* A sign-in that races a disable or a change of posts opens a session the change
  did not revoke (rls/0033: "Access ends on the next request").
  `LateAccessEndsWithTheToken` bounds it by the token's life.
* Two refreshes within the grace kill the first tab's handle; `rotated_at` is
  never written.
* `agency_admin` cannot be assigned, so an agency with a single provisioned
  administrator can never have its codes released (ADR-036), and of two
  administrators neither can release what one created and the other reissued.

Citizens
* `config.ts:49` says "30 minutes sliding"; `expires_at` never slides.
* Attempts are read and raised in two transactions: guesses are bounded by the
  limit and the number of concurrent requests, as `GuessesBounded` says.
* A submission that read the identity before its erasure files an application
  for it; an onboarding token outlives the erasure; a crash between erasure and
  stamp leaves the request PENDING. An older unused code becomes the live one
  again when a newer one is spent.

Case work
* `document_records` has no unique index on (application, object key): two first
  uploads can make twin rows, and bytes can change under a stamp
  (`pg-store:69`, "One row per (application, object key)").
* The object is PUT inside the open transaction: a rollback leaves bytes that no
  row describes. A re-analysis of bytes that were replaced meanwhile is recorded
  as the newest revision. A verdict published after the commit can be lost.
* A PENDING recorded after a CLEARED makes an escalation legal
  (rls/0044: "An escalation may never SUPERSEDE a verdict");
  `record_clearance_verification` reads and inserts without a lock; an event
  whose last failure was not an outage parks without escalation; a failure of
  the observer is swallowed (`kafka-bus.ts:307`).

## 5. What is proved

The theorems hold for every value of the constants that satisfies the modules'
`ASSUME`s: well-typed functions between the constant sets, SQL NULL no value of
a column, lifetimes and limits numbers. Nothing bounds the sets, except that
`SlotLedger` and `ExamDay` take the applications to be finite, so that
reservations and heads can be counted, `Campaign` the districts, so that taken
seats can, and `Citizen` the callers, so that the guesses in flight can.
`Campaign` also takes the bodies of session commands to have the types the
parser lets through. `ApplicantLimits` also says that a lock of the onboarding
door lasts at least as long as the window its failures are counted in (both are
one hour in `config.ts`); without it the bound on birth-date guesses is false.

* `ApplicationsProofs`: TypeCorrect, AcceptedOnce, ResolutionSurvives,
  FlagsAreSeen, AcceptedByAnother. The invariants are inductive only together,
  and with `heldFrom # "ACCEPTED"`: a CLEAR restores `heldFrom`, and without
  knowing that it is never ACCEPTED one could restore an acceptance nobody
  granted. The proof has one step for each action; the actions that write one row go through lemmas about
  `Move` and `DeriveStatus` (a hard-flagged row is never left live outside the
  hold).
  A second invariant, `LInv`, carries LanesHold, LanesStay, OneWay and
  ReviewerNeedsAClear: what a row's status says of its lane and of the status a
  hold restores (`LaneOK`), that a row in medical review names who moved it
  there, who is its reviewer unless a hold was lifted since (`MedicalOK`), and that a message which claims a seat is about a digital row
  that was filed (`Claims`). Every action is shown to move a row along one
  `Edge` of the lifecycle (`Follows`), or to lift a hold (`Lifts`), and the
  one-way property is read off the edges.
  Of `Submission`, whose theorems stand in the same module (its `Init`, `Next`
  and `Spec` carry the component's name): SubmissionTypeCorrect, FiledOnce (from
  FiledOncePerKey and OneLive), RetriesAnswered, ClosedStaysClosed. The invariant adds that two deliveries never hold the same
  key or the same intent at once, that a holder found its key free and no live
  application of its intent, that a filed application has its ledger row, and
  that the ledger never changes an answer. RetriesAnswered also needs
  `MetAnother`: a delivery that met a live application is answered with it only
  when another key filed it, because the ledger is read after the meeting.
* `SlotLedgerProofs`: TypeCorrect, ExactSeats (from NeverOverbooked and
  SeatsExact), OneInvitation, FullForTheUnplaced.
  The invariant adds mutual exclusion on the venue's row and that a delivery past
  the insert is the first for its application. SeatsExact needs lemmas on the
  cardinality of the set of placed applications when one is added.
* `OutboxProofs`: TypeCorrect, InOrder and Implements, the refinement
  `Spec => AtLeastOnce!Spec` with `owed` mapped to the pending rows. The
  invariant relates ids to staging order, the batch to the rows below it (what
  the relay has not yet passed has higher ids than what it has sent), and says
  that a stamp is only put on what was sent.
* `RedriveProofs`: TypeCorrect and NoEventLost. NeverLost is not inductive: the
  row whose republish is done and not yet recorded may be the event's only
  letter outside REDRIVEN, after the republished copy was handled or died again.
  The invariant therefore demands a trace that is not such a row (`Traced`): the
  republish itself puts a copy on the topic, and that copy is settled only by
  handling it or by a new letter. Several workers may believe to lead.
  BoundedRedrives proves RedrivesBounded for one process of the service
  (`OneWorker`; two that hold the same letters exceed it without any fault). What an event
  has left is the set `Left` of pairs of a letter, or a copy on the topic, and a
  number of the schedule that letter is not past; the inductive bound is that
  republishes done and attempts left never exceed `Allowance + Advance`. A letter
  that fails again passes what it has left on to its copy and the next letter; a
  fault allows one more round of the schedule and one republish that no row
  records; `Advance` is what a republish not yet recorded has taken before its
  row gives it back. It needs `ClaimsOK`: with one worker the claimed letters are
  still as they were claimed, so the decision is taken on the truth.
* `AccessProofs`, of `Officers`: TypeCorrect, AdminsRemain, TwoPeopleActivate, SessionsEnd,
  NeverReactivated. The invariant ties three pairs of rows together: an account
  and its code (`PairOK`: the code on file is the last one made, its creator is the
  account's, and its releaser is neither that creator nor the issuer), a minted token and its account
  (`TokenOK`: a token that no command has cut since carries the account's roles,
  and the account is active), and a session and its account
  (`RowOK`: it agrees with the account, or is revoked, or was stored late from a
  token already cut). AlwaysAnAdmin needs no strengthening beyond the types: the
  guard counts the other active administrators under the agency's lock.
  Of `Citizen`, in the same module and named alike: CitizenTypeCorrect, SignInSound,
  ErasureComplete, DecisionsAreFinal. The invariant speaks of requests in flight: one that is about to open a session
  relies on a challenge it has itself used up, and no two rely on the same
  (`FlightsOK`); guesses compared and not yet recorded are counted with the
  recorded ones, and exceed the limit by at most the other callers at once
  (`GuessesOK`, and `FailuresOK` for birth dates, where a lock outlasts the
  window it was reached in); at most one row of a citizen carries the identity's
  own hash, an erased row carries a rotated one and neither contact, biometrics
  nor lock, and an open application beside it had read the identity before the
  erasure (`IdentsOK`); an executed request is about an erased identity
  (`RequestsOK`).
* `ExamDayProofs`: HeldUntilResolved, AdmissionExact, EvidenceHeeded,
  CapturesKept, in four layers, each resting on the ones before.
  `TInv`: the state is typed and the lock tables agree with the keys of the
  sessions' transactions, so two sessions never write the same rows.
  `CInv`: the counts a session computed stay what its commit will leave, because
  the venue's lock keeps the other writers of the venue away until then.
  `GInv`: evidence, admission and confirmation of an application do not change
  under its row lock and identity lock, the unique index lets one transaction
  hold a record id (`IndexFree`), an admission lists all visible evidence that
  was not late, and a negative among it was confirmed by a supervisor who is
  neither the admitting officer nor the one who recorded it.
  `SInv`: an application's log of scores only grows (`Extends`), a log under a
  row lock is the one the session read, every queued announcement and every official
  score is vouched for by a score that entered without conflict or was chosen,
  and one score stands for equal measurements. Its lemmas say what merging an
  upload (`Merging`) and resolving a conflict (`Choosing`) do to a log.

* `CampaignProofs`: CampaignInvariance, OneEffect, WholeCampaigns,
  SerialCommands. The invariant has four parts. `WorkInv`: a command past the
  replay check was parsed. `LedgerInv`: a key has an audit entry exactly when it
  has a stored answer, only successes are stored, and every answer that says so
  is the stored one, so a retry cannot be told what did not happen (`Truthful`
  also excludes the errors of a stale snapshot: under the lock no trigger ever
  fires). `LockInv`: one session holds a campaign's row and one a key, nobody files
  meanwhile, and what the holder inspected and the snapshot it took are still
  true when it writes. `RowInv` says of each campaign that the head names the
  coverage as it is, that what is published is complete and still what the row
  says, that the history climbs the `Stage`s, that seats are taken only by
  applications, and that the announcements retell the row (`Retold`).
  NobodyWaitsInACircle follows from the one order in which every command takes
  row, key and commit.
* `CaseworkProofs`: CaseworkInvariance, DocumentsEvidence, OnRecord,
  OutagesFollowed. `SlotInv` says who wrote the object last and what a call that
  holds the slot's row may rely on, with the windows of section 4 as its
  exceptions. `DeskInv` ties the event a worker handles to the record it leaves:
  when one worker handles it alone, a verdict is the latest record before it is
  published. `VerdictInv` says what a verdict on the bus rests on, however late
  it is projected; `RowInv` says the same of the row, also of the stage a hold
  would restore, which is what makes an officer's clear sound; `RouteInv` that an
  amber document whose verdict was routed holds the application until an officer
  stamps it.

Every safety property the runs check is proved. Only model-checked are the
liveness properties (GreenIsPlaced, AcceptanceRetiresSiblings,
EveryRequestAnswered, EveryClearanceAnswered, EveryEventAnnounced,
EverythingSettles): liveness under fairness is outside what TLAPS proves here.

## 6. Not modelled, and the plan

Not modelled, because there is no state a property could be about, or because it
is outside the code: audit-service (appends entries nobody reads back), all
listings and read models, service tokens (an append-only table), the rate limiter
(a fixed window per key, in memory), the edge gateway's pass-through routes,
configuration and production guards, HTTP scaffolding, formatting and logging,
image analysis and face matching (numeric), the registries and SMS providers
(external), migrations, seeds, deployment and sandbox scripts, and the
repository's own self-checks, which are tests and make up a third of its lines.
Table definitions and row-level security are modelled where a handler relies on
them (unique indexes, foreign-key locks, check constraints, the agency's schema).

Open: liveness of `Casework` (a pending certificate is verified or escalated) and
of `ExamDay` (a stored score completes its application) under the fairness of
their consumers, as further runs.
