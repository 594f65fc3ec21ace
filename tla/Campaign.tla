------------------------------ MODULE Campaign ------------------------------
(***************************************************************************)
(* The campaign control plane: agency administrators draft a campaign, add *)
(* policy versions, configure one examination session per target district, *)
(* publish, close, complete or cancel (application-service, scheduling-    *)
(* service and the command functions and triggers of rls/0026 and 0027).   *)
(*                                                                         *)
(* A command is one transaction of five statements: read the key's stored  *)
(* answer, lock the campaign row, inspect the state (and read the key      *)
(* again), claim the key, write.  The row lock lasts from the second       *)
(* statement, the key's advisory lock from the fourth, to the end.  Every  *)
(* command may be sent again at any time, by a client that lost the answer *)
(* or next to the first, and every transaction may be cut short.           *)
(*                                                                         *)
(* Digests (coverage, policy, request) are modelled by what they digest.   *)
(***************************************************************************)
EXTENDS Integers, Sequences, FiniteSets, Functions

CONSTANTS
  Requests,     \* commands: [actor, op, key, code, body]
  Workers,      \* database sessions that execute commands
  Officers, AgencyOf,
  Admins,       \* officers with role agency_admin
  Codes,        \* public codes
  Legacy,       \* the agency of each campaign older than the control plane
  Districts,
  Categories,   \* categories of each agency
  MaxApps,      \* applications filed per campaign
  None

DraftOps == { "createCampaignDraft" }
LifecycleOps == { "closeCampaignRegistration", "completeCampaign", "cancelCampaign" }
DraftOnlyOps == { "createCampaignPolicyVersion", "configureCampaignSession", "publishCampaign" }
Ops == DraftOps \cup DraftOnlyOps \cup LifecycleOps

VARIABLES
  db,       \* each campaign: its row, policy versions, sessions, head, publication, history
  ledger,   \* the stored answer of each (actor, operation, key)
  audits,   \* AUDIT_ENTRY events staged for each key
  facts,    \* the domain events of each campaign, by kind, in order
  active,   \* officers whose account is active
  apps,     \* applications filed in each campaign
  filing,   \* campaigns whose row a submission holds FOR SHARE
  work      \* what each session executes

vars == <<db, ledger, audits, facts, active, apps, filing, work>>

Statuses == { "NONE", "DRAFT", "REGISTRATION_OPEN", "REGISTRATION_CLOSED",
              "EXAMINATION_ACTIVE", "COMPLETED", "CANCELLED" }
Published == { "REGISTRATION_OPEN", "REGISTRATION_CLOSED", "CANCELLED", "COMPLETED" }

Key(r) == <<r.actor, r.op, r.key>>
Hash(r) == <<r.op, r.code, r.body>>
Keys == { Key(r) : r \in Requests }

NoCampaign ==
  [ status |-> "NONE", agency |-> None, districts |-> {}, categories |-> {}, first |-> 0, last |-> 0,
    policy |-> 0, policies |-> << >>, sessions |-> << >>, head |-> None, pub |-> None,
    history |-> << >> ]

NoFacts == [ SESSION |-> << >>, POLICY |-> << >>, LIFECYCLE |-> << >> ]

Idle == [ pc |-> "idle", req |-> None, seen |-> None, answer |-> None ]

\* What the tables hold: a session, the digest of a coverage, a version of it,
\* a publication; and what the ledger holds of an executed command.
Sessions == [ date : Int, capacity : Nat, decision : BOOLEAN, active : BOOLEAN, count : Nat ]
Coverages ==
  UNION { [ D -> [ date : Int, capacity : Nat, active : BOOLEAN ] ] : D \in SUBSET Districts }
Heads == [ version : Nat, hash : Coverages ]
Publications == [ policy : Nat, version : Nat, hash : Coverages ]

Bodies ==
  { "DRAFT_CREATED", "REGISTRATION_CLOSED", "COMPLETED", "CANCELLED" }
    \cup [ policyVersion : Nat ]
    \cup [ policyVersion : Nat, coverageVersion : Nat ]
    \cup [ coverageVersion : Nat, changed : BOOLEAN ]
StoredAnswers ==
  [ hash : { Hash(r) : r \in Requests }, answer : [ code : { "OK" }, body : Bodies ] ]

\* The codes of the answers that are not "OK".
ErrorCodes ==
  { "FORBIDDEN", "INVALID_PUBLIC_CODE", "INVALID_REQUEST", "INVALID_CAPACITY", "CAMPAIGN_NOT_FOUND",
    "POLICY_CATEGORY_COVERAGE_MISMATCH", "IDEMPOTENCY_KEY_REUSED", "INVALID_STATE", "POLICY_NOT_SET",
    "INCOMPLETE_COVERAGE", "CAPACITY_DECISION_REQUIRED", "SESSION_ALREADY_RESERVED",
    "INVALID_SESSION_DATE", "STALE_COVERAGE", "DISTRICT_NOT_TARGETED", "POLICY_VERSION_CONFLICT",
    "INVALID_STATE_OR_POLICY_NOT_SET", "INCOMPLETE_OR_INVALID_COVERAGE",
    "CANCELLATION_HAS_APPLICATIONS", "INVALID_SESSION_CONFIGURATION", "PUBLIC_CODE_ALREADY_EXISTS",
    "CAMPAIGN_WRITE_CONFLICT" }

\* What the controllers parse, and that SQL NULL is no value.
ASSUME CampaignAssumption ==
  /\ AgencyOf \in [Officers -> DOMAIN Categories]
  /\ DOMAIN Legacy \subseteq Codes
  /\ \A r \in Requests : r.actor \in Officers /\ r.op \in Ops /\ r.code \in Codes
  /\ \A r \in Requests : r.op = "configureCampaignSession" =>
       /\ r.body.district \in Districts /\ r.body.date \in Int /\ r.body.capacity \in Nat
       /\ r.body.decision \in BOOLEAN /\ r.body.active \in BOOLEAN
  /\ MaxApps \in Nat
  /\ IsFiniteSet(Districts)
  /\ None \notin ErrorCodes \cup Heads \cup Publications \cup StoredAnswers

\* Campaigns from before the control plane: no policy, session or publication
\* of theirs can be written any more.
LegacyCampaign(agency) == [ NoCampaign EXCEPT !.status = "EXAMINATION_ACTIVE", !.agency = agency ]

Init ==
  /\ db = [ c \in Codes |-> IF c \in DOMAIN Legacy THEN LegacyCampaign(Legacy[c]) ELSE NoCampaign ]
  /\ ledger = [ k \in Keys |-> None ]
  /\ audits = [ k \in Keys |-> 0 ]
  /\ facts = [ c \in Codes |-> NoFacts ]
  /\ active = Officers
  /\ apps = [ c \in Codes |-> 0 ]
  /\ filing = {}
  /\ work = [ w \in Workers |-> Idle ]

----------------------------------------------------------------------------
(* What the columns say *)

Draft(row) == row.status = "DRAFT"

\* The coverage that is digested: every session, without the capacity decision
\* and without the seats taken.
Coverage(sessions) ==
  [ d \in DOMAIN sessions |->
      [ date |-> sessions[d].date, capacity |-> sessions[d].capacity, active |-> sessions[d].active ] ]

\* A missing head is version zero.
HeadVersion(row) == IF row.head = None THEN 0 ELSE row.head.version

NextVersion(row) == Len(row.policies) + 1

InWindow(row, date) == row.first <= date /\ date <= row.last

\* Capacity 0 stands for NULL: unbounded, by an explicit decision.
CapacityDecided(s) == (s.capacity = 0) <=> s.decision

\* campaign_public_read
Visible(row) == row.status \in Published /\ row.pub # None

\* The lifecycle graph; EXAMINATION_ACTIVE belongs to legacy campaigns.
LegalEdge(c, from, to) ==
  \/ from = "DRAFT" /\ to \in { "REGISTRATION_OPEN", "CANCELLED" }
  \/ from = "REGISTRATION_OPEN" /\ to \in { "REGISTRATION_CLOSED", "CANCELLED" }
  \/ from = "REGISTRATION_CLOSED" /\ to = "COMPLETED"
  \/ from = "EXAMINATION_ACTIVE" /\ to = "COMPLETED" /\ c \in DOMAIN Legacy

----------------------------------------------------------------------------
(* The triggers: what the tables refuse, whoever writes *)

GuardInitialState(c, old, new) ==
  old.status = "NONE" =>
    new.status = "DRAFT" /\ new.policy = 0 /\ new.pub = None /\ new.districts # {} /\ c \notin DOMAIN Legacy

GuardPolicyVersionInsert(old, new) ==
  new.policies # old.policies => Draft(old) /\ Len(new.policies) = NextVersion(old)

PolicyPointer(old, new) ==
  new.policy # old.policy => Draft(old) /\ Draft(new) /\ new.policy = Len(new.policies)

GuardSessionWrite(old, new) ==
  \A d \in DOMAIN new.sessions :
    LET s == new.sessions[d]
        kept == d \in DOMAIN old.sessions
    IN  (kept => s # old.sessions[d]) =>
          /\ Draft(old)
          /\ s.count = IF kept THEN old.sessions[d].count ELSE 0
          /\ kept => old.sessions[d].count = 0
          /\ d \in old.districts
          /\ InWindow(old, s.date)

GuardCoverageHead(old, new) ==
  new.head # old.head =>
    /\ Draft(old)
    /\ \/ new.head.version = HeadVersion(old) + 1 /\ new.head.hash # Coverage(old.sessions)
       \/ old.head = None /\ new.head.version = 0

GuardPublicationInsert(old, new) ==
  new.pub # old.pub =>
    Draft(old) /\ new.pub = [ policy |-> old.policy, version |-> old.head.version, hash |-> old.head.hash ]

RequirePublicationOpen(old, new) == new.pub # old.pub => new.status \in Published

GuardLifecycleUpdate(c, old, new) ==
  old.status # "NONE" =>
    /\ \A f \in { "agency", "districts", "categories", "first", "last" } : new[f] = old[f]
    /\ new.policy # old.policy => Draft(old) /\ Draft(new)
    /\ new.status # old.status =>
         /\ LegalEdge(c, old.status, new.status)
         /\ new.status = "REGISTRATION_OPEN" => new.policy # 0 /\ new.pub # None /\ new.pub.policy = new.policy
         /\ old.status = "REGISTRATION_OPEN" /\ new.status = "CANCELLED" => apps[c] = 0

RequireHistory(old, new) ==
  new.status # old.status => [ from |-> old.status, to |-> new.status ] \in Range(new.history)

HistoryMatchesState(old, new) ==
  new.history # old.history =>
    LET edge == new.history[Len(new.history)]
    IN  edge.to = new.status /\ edge \notin Range(old.history)

Accepted(c, old, new) ==
  /\ GuardInitialState(c, old, new)
  /\ GuardPolicyVersionInsert(old, new)
  /\ PolicyPointer(old, new)
  /\ GuardSessionWrite(old, new)
  /\ GuardCoverageHead(old, new)
  /\ GuardPublicationInsert(old, new)
  /\ RequirePublicationOpen(old, new)
  /\ GuardLifecycleUpdate(c, old, new)
  /\ RequireHistory(old, new)
  /\ HistoryMatchesState(old, new)

----------------------------------------------------------------------------
(* Steps of a command *)

Req(w) == work[w].req
Row(w) == db[Req(w).code]

Error(code) == [ code |-> code, body |-> None ]

Answer(w, answer) == work' = [ work EXCEPT ![w].pc = "done", ![w].seen = None, ![w].answer = answer ]

GoTo(w, step) == work' = [ work EXCEPT ![w].pc = step ]

StoreUnchanged == UNCHANGED <<db, ledger, audits, facts>>
OthersUnchanged == UNCHANGED <<active, apps, filing>>

Owned(r) == db[r.code].status # "NONE" /\ db[r.code].agency = AgencyOf[r.actor]

\* The database looks at the account, not at the token.
Authorized(r) == r.actor \in active \cap Admins

Replay(r) ==
  IF ledger[Key(r)].hash = Hash(r) THEN ledger[Key(r)].answer ELSE Error("IDEMPOTENCY_KEY_REUSED")

\* Sessions that hold the row of campaign c FOR UPDATE.
RowHolders(c) ==
  { w \in Workers : /\ work[w].pc \in { "inspect", "claim", "commit" }
                    /\ Req(w).code = c
                    /\ Req(w).op \notin DraftOps }

KeyHolders(k) == { w \in Workers : work[w].pc = "commit" /\ Key(Req(w)) = k }

RequirePermission(r) == r.actor \in Admins

\* Only completion accepts the code of a legacy campaign.
PublicCodeFaults(r) == r.code \in DOMAIN Legacy /\ r.op # "completeCampaign"

DraftFaults(r) ==
  \/ r.body.districts = {} \/ r.body.first > r.body.last
  \/ ~ ( r.body.categories # {} /\ r.body.categories \subseteq Categories[AgencyOf[r.actor]] )

PolicyFaults(r) == r.body.categories # db[r.code].categories

SessionFaults(r) == ~ CapacityDecided(r.body)

\* What edge, controller and service refuse before a transaction begins.  A
\* policy version is validated against the categories of the stored campaign.
Refusal(r) ==
  CASE ~ RequirePermission(r) -> "FORBIDDEN"
    [] PublicCodeFaults(r) -> "INVALID_PUBLIC_CODE"
    [] r.op = "createCampaignDraft" /\ DraftFaults(r) -> "INVALID_REQUEST"
    [] r.op = "configureCampaignSession" /\ SessionFaults(r) -> "INVALID_CAPACITY"
    [] r.op = "createCampaignPolicyVersion" /\ ~ Owned(r) -> "CAMPAIGN_NOT_FOUND"
    [] r.op = "createCampaignPolicyVersion" /\ PolicyFaults(r) -> "POLICY_CATEGORY_COVERAGE_MISMATCH"
    [] OTHER -> None

Receive(w, r) ==
  /\ work[w].pc = "idle"
  /\ work' = [ work EXCEPT ![w] =
       IF Refusal(r) = None
       THEN [ Idle EXCEPT !.pc = "replay", !.req = r ]
       ELSE [ Idle EXCEPT !.pc = "done", !.req = r, !.answer = Error(Refusal(r)) ] ]
  /\ StoreUnchanged /\ OthersUnchanged

ReadReplay(w) ==
  /\ work[w].pc = "replay"
  /\ LET r == Req(w) IN
       IF ~ Authorized(r) THEN Answer(w, Error("FORBIDDEN"))
       ELSE IF ledger[Key(r)] # None THEN Answer(w, Replay(r))
       ELSE GoTo(w, IF r.op \in DraftOps THEN "claim" ELSE "lock")
  /\ StoreUnchanged /\ OthersUnchanged

MutLockCampaign(w) ==
  /\ work[w].pc = "lock"
  /\ IF ~ Authorized(Req(w)) THEN Answer(w, Error("FORBIDDEN"))
     ELSE IF ~ Owned(Req(w)) THEN Answer(w, Error("CAMPAIGN_NOT_FOUND"))
     ELSE RowHolders(Req(w).code) = {} /\ GoTo(w, "inspect")
  /\ StoreUnchanged /\ OthersUnchanged

LockCampaign(w) ==
  /\ work[w].pc = "lock"
  /\ IF ~ Authorized(Req(w)) THEN Answer(w, Error("FORBIDDEN"))
     ELSE IF ~ Owned(Req(w)) THEN Answer(w, Error("CAMPAIGN_NOT_FOUND"))
     ELSE RowHolders(Req(w).code) = {} /\ Req(w).code \notin filing /\ GoTo(w, "inspect")
  /\ StoreUnchanged /\ OthersUnchanged

----------------------------------------------------------------------------
(* What the adapters check under the row lock, before they call the function *)

Target(op) ==
  CASE op = "closeCampaignRegistration" -> "REGISTRATION_CLOSED"
    [] op = "completeCampaign" -> "COMPLETED"
    [] op = "cancelCampaign" -> "CANCELLED"

\* #assertCompleteCoverage
AssertCompleteCoverage(row) ==
  LET s == row.sessions IN
  CASE row.districts = {} \/ DOMAIN s # row.districts -> "INCOMPLETE_COVERAGE"
    [] \E d \in DOMAIN s : ~ s[d].active -> "INCOMPLETE_COVERAGE"
    [] \E d \in DOMAIN s : ~ CapacityDecided(s[d]) -> "CAPACITY_DECISION_REQUIRED"
    [] \E d \in DOMAIN s : s[d].count # 0 -> "SESSION_ALREADY_RESERVED"
    [] \E d \in DOMAIN s : ~ InWindow(row, s[d].date) -> "INVALID_SESSION_DATE"
    [] row.head.version < 1 \/ row.head.hash # Coverage(s) -> "STALE_COVERAGE"
    [] OTHER -> None

InspectPublication(row) ==
  CASE ~ Draft(row) -> "INVALID_STATE"
    [] row.policy = 0 -> "POLICY_NOT_SET"
    [] row.head = None -> "INCOMPLETE_COVERAGE"
    [] OTHER -> AssertCompleteCoverage(row)

InspectPolicy(row, body) ==
  CASE ~ Draft(row) -> "INVALID_STATE"
    [] body.categories # row.categories -> "POLICY_CATEGORY_COVERAGE_MISMATCH"
    [] OTHER -> None

\* The session as stored; the row of a district keeps its seat count.
Configured(row, body) ==
  [ date |-> body.date, capacity |-> body.capacity, decision |-> body.decision, active |-> body.active,
    count |-> IF body.district \in DOMAIN row.sessions THEN row.sessions[body.district].count ELSE 0 ]

WithSession(row, body) ==
  [ d \in DOMAIN row.sessions \cup { body.district } |->
      IF d = body.district THEN Configured(row, body) ELSE row.sessions[d] ]

InspectSession(row, body) ==
  CASE ~ Draft(row) -> "INVALID_STATE"
    [] body.district \notin row.districts -> "DISTRICT_NOT_TARGETED"
    [] ~ InWindow(row, body.date) -> "INVALID_SESSION_DATE"
    [] row.head # None /\ row.head.hash # Coverage(row.sessions) -> "STALE_COVERAGE"
    [] WithSession(row, body) # row.sessions /\ body.district \in DOMAIN row.sessions
         /\ row.sessions[body.district].count > 0 -> "SESSION_ALREADY_RESERVED"
    [] OTHER -> None

InspectLifecycle(c, row, op) ==
  IF LegalEdge(c, row.status, Target(op)) THEN None ELSE "INVALID_STATE"

Inspection(r, row) ==
  CASE r.op = "publishCampaign" -> InspectPublication(row)
    [] r.op = "createCampaignPolicyVersion" -> InspectPolicy(row, r.body)
    [] r.op = "configureCampaignSession" -> InspectSession(row, r.body)
    [] r.op \in LifecycleOps -> InspectLifecycle(r.code, row, r.op)

\* What the adapter read and hands to the function, and answers.
Snapshot(row) ==
  [ version |-> NextVersion(row), head |-> HeadVersion(row), coverage |-> Coverage(row.sessions) ]

Inspect(w) ==
  /\ work[w].pc = "inspect"
  /\ LET r == Req(w) IN
       IF ledger[Key(r)] # None THEN Answer(w, Replay(r))
       ELSE IF Inspection(r, Row(w)) # None THEN Answer(w, Error(Inspection(r, Row(w))))
       ELSE work' = [ work EXCEPT ![w].pc = "claim", ![w].seen = Snapshot(Row(w)) ]
  /\ StoreUnchanged /\ OthersUnchanged

----------------------------------------------------------------------------
(* The command functions *)

MutClaim(w) ==
  /\ work[w].pc = "claim"
  /\ LET r == Req(w) IN
       IF ~ Authorized(r) THEN Answer(w, Error("FORBIDDEN"))
       ELSE KeyHolders(Key(r)) = {} /\ GoTo(w, "commit")
  /\ StoreUnchanged /\ OthersUnchanged

Claim(w) ==
  /\ work[w].pc = "claim"
  /\ LET r == Req(w) IN
       IF ~ Authorized(r) THEN Answer(w, Error("FORBIDDEN"))
       ELSE /\ KeyHolders(Key(r)) = {}
            /\ IF ledger[Key(r)] # None THEN Answer(w, Replay(r)) ELSE GoTo(w, "commit")
  /\ StoreUnchanged /\ OthersUnchanged

\* The rest of the transaction: the function refuses, or the tables do, or the
\* rows, the answer under its key, the audit entry and the domain events commit.
Write(w, fault, new, body, events) ==
  LET r == Req(w)
      answer == [ code |-> "OK", body |-> body ]
  IN  /\ IF fault # None THEN Answer(w, Error(fault)) /\ StoreUnchanged
         ELSE IF ~ Accepted(r.code, Row(w), new)
         THEN Answer(w, Error("CAMPAIGN_WRITE_CONFLICT")) /\ StoreUnchanged
         ELSE /\ Answer(w, answer)
              /\ db' = [ db EXCEPT ![r.code] = new ]
              /\ ledger' = [ ledger EXCEPT ![Key(r)] = [ hash |-> Hash(r), answer |-> answer ] ]
              /\ audits' = [ audits EXCEPT ![Key(r)] = @ + 1 ]
              /\ facts' = [ facts EXCEPT ![r.code] = [ k \in DOMAIN NoFacts |-> @[k] \o events[k] ] ]
      /\ OthersUnchanged

Committing(w, ops) == work[w].pc = "commit" /\ Req(w).op \in ops

DraftRow(r) ==
  [ NoCampaign EXCEPT !.status = "DRAFT", !.agency = AgencyOf[r.actor],
      !.districts = r.body.districts, !.categories = r.body.categories,
      !.first = r.body.first, !.last = r.body.last,
      !.history = << [ from |-> "NONE", to |-> "DRAFT" ] >> ]

WriteDraft(w) ==
  /\ Committing(w, DraftOps)
  /\ LET r == Req(w) IN
       Write(w, IF db[r.code].status # "NONE" THEN "PUBLIC_CODE_ALREADY_EXISTS" ELSE None,
             DraftRow(r),
             "DRAFT_CREATED",
             [ NoFacts EXCEPT !.LIFECYCLE = << "DRAFT" >> ])

PolicyFault(w) ==
  CASE InspectPolicy(Row(w), Req(w).body) # None -> InspectPolicy(Row(w), Req(w).body)
    [] work[w].seen.version # NextVersion(Row(w)) -> "POLICY_VERSION_CONFLICT"
    [] OTHER -> None

WritePolicyVersion(w) ==
  /\ Committing(w, { "createCampaignPolicyVersion" })
  /\ LET v == work[w].seen.version IN
       Write(w, PolicyFault(w),
             [ Row(w) EXCEPT !.policies = Append(@, Req(w).body), !.policy = v ],
             [ policyVersion |-> v ],
             [ NoFacts EXCEPT !.POLICY = << v >> ])

\* campaign_write_publication checks the head, the snapshot and the sessions
\* again.
PublicationFault(w) ==
  LET row == Row(w)
      s == row.sessions
  IN  CASE ~ Draft(row) \/ row.policy = 0 -> "INVALID_STATE_OR_POLICY_NOT_SET"
        [] row.head = None -> "INCOMPLETE_COVERAGE"
        [] \/ work[w].seen.coverage # Coverage(s) \/ row.head.version # work[w].seen.head
           \/ row.head.hash # work[w].seen.coverage \/ work[w].seen.head < 1 -> "STALE_COVERAGE"
        [] \/ row.districts = {} \/ DOMAIN s # row.districts
           \/ \E d \in DOMAIN s : \/ ~ s[d].active \/ s[d].count # 0 \/ ~ InWindow(row, s[d].date)
                                  \/ s[d].capacity = 0 /\ ~ s[d].decision
             -> "INCOMPLETE_OR_INVALID_COVERAGE"
        [] OTHER -> None

WritePublication(w) ==
  /\ Committing(w, { "publishCampaign" })
  /\ LET seen == work[w].seen IN
       Write(w, PublicationFault(w),
             [ Row(w) EXCEPT !.status = "REGISTRATION_OPEN",
                 !.pub = [ policy |-> Row(w).policy, version |-> seen.head, hash |-> seen.coverage ],
                 !.history = Append(@, [ from |-> "DRAFT", to |-> "REGISTRATION_OPEN" ]) ],
             [ policyVersion |-> Row(w).policy, coverageVersion |-> seen.head ],
             [ NoFacts EXCEPT !.LIFECYCLE = << "REGISTRATION_OPEN" >> ])

LifecycleFault(w) ==
  LET r == Req(w)
      row == Row(w)
  IN  CASE ~ LegalEdge(r.code, row.status, Target(r.op)) -> "INVALID_STATE"
        [] r.op = "cancelCampaign" /\ row.status = "REGISTRATION_OPEN" /\ apps[r.code] > 0
             -> "CANCELLATION_HAS_APPLICATIONS"
        [] OTHER -> None

\* campaign_private_write_lifecycle
WriteLifecycle(w, op) ==
  /\ Committing(w, { op })
  /\ Write(w, LifecycleFault(w),
           [ Row(w) EXCEPT !.status = Target(op),
               !.history = Append(@, [ from |-> Row(w).status, to |-> Target(op) ]) ],
           Target(op),
           [ NoFacts EXCEPT !.LIFECYCLE = << Target(op) >> ])

CloseRegistration(w) == WriteLifecycle(w, "closeCampaignRegistration")
Complete(w) == WriteLifecycle(w, "completeCampaign")
Cancel(w) == WriteLifecycle(w, "cancelCampaign")

\* scheduling_configure_campaign_session answers INVALID_SESSION_CONFIGURATION
\* for what the adapter names more precisely.
SessionFault(w) ==
  LET row == Row(w)
      b == Req(w).body
      seen == work[w].seen
  IN  CASE ~ Draft(row) \/ ~ CapacityDecided(b) \/ ~ InWindow(row, b.date) \/ b.district \notin row.districts
             -> "INVALID_SESSION_CONFIGURATION"
        [] \/ seen.coverage # Coverage(row.sessions) \/ HeadVersion(row) # seen.head
           \/ row.head # None /\ row.head.hash # seen.coverage -> "STALE_COVERAGE"
        [] WithSession(row, b) # row.sessions /\ b.district \in DOMAIN row.sessions
             /\ row.sessions[b.district].count > 0 -> "SESSION_ALREADY_RESERVED"
        [] OTHER -> None

\* The version moves exactly when the coverage changes.
NewVersions(w) ==
  IF Coverage(WithSession(Row(w), Req(w).body)) # Coverage(Row(w).sessions)
  THEN << work[w].seen.head + 1 >> ELSE << >>

MutAnnounced(w) == << work[w].seen.head + 1 >>

\* CAMPAIGN_SESSION_CONFIGURED, staged with the new version only.
Announced(w) == NewVersions(w)

ConfigureSession(w) ==
  /\ Committing(w, { "configureCampaignSession" })
  /\ LET sessions == WithSession(Row(w), Req(w).body)
         version == work[w].seen.head + Len(NewVersions(w))
     IN  Write(w, SessionFault(w),
               [ Row(w) EXCEPT !.sessions = sessions,
                   !.head = [ version |-> version, hash |-> Coverage(sessions) ] ],
               [ coverageVersion |-> version, changed |-> sessions # Row(w).sessions ],
               [ NoFacts EXCEPT !.SESSION = Announced(w) ])

----------------------------------------------------------------------------
(* Everything around the commands *)

\* The answer reaches the client, or is lost: either way it may ask again.
Return(w) ==
  /\ work[w].pc = "done"
  /\ work' = [ work EXCEPT ![w] = Idle ]
  /\ StoreUnchanged /\ OthersUnchanged

\* The service or its connection dies: the transaction is rolled back.
Crash(w) ==
  /\ work[w].pc \in { "replay", "lock", "inspect", "claim", "commit" }
  /\ work' = [ work EXCEPT ![w] = Idle ]
  /\ StoreUnchanged /\ OthersUnchanged

\* An administrator suspends an officer whose token is still valid.
Suspend(o) ==
  /\ o \in active
  /\ active' = active \ { o }
  /\ StoreUnchanged
  /\ UNCHANGED <<apps, filing, work>>

\* lock_campaign_for_application_insert, and the status test of the submission.
BeginFiling(c) ==
  /\ c \notin filing /\ RowHolders(c) = {} /\ apps[c] < MaxApps
  /\ db[c].status = "REGISTRATION_OPEN"
  /\ filing' = filing \cup { c }
  /\ StoreUnchanged /\ UNCHANGED <<active, apps, work>>

EndFiling(c) ==
  /\ c \in filing
  /\ apps' \in { apps, [ apps EXCEPT ![c] = @ + 1 ] }
  /\ filing' = filing \ { c }
  /\ StoreUnchanged /\ UNCHANGED <<active, work>>

SeatsTaken(c) == { d \in DOMAIN db[c].sessions : db[c].sessions[d].count > 0 }

\* reserve_campaign_venue_seat, for an application of the campaign.  It takes
\* no lock on the campaign.
ReserveSeat(c, d) ==
  /\ d \in DOMAIN db[c].sessions
  /\ LET s == db[c].sessions[d] IN
       /\ s.active /\ (s.capacity = 0 \/ s.count < s.capacity)
       /\ Cardinality(SeatsTaken(c)) < apps[c]
       /\ db' = [ db EXCEPT ![c].sessions[d].count = @ + 1 ]
  /\ UNCHANGED <<ledger, audits, facts, work>>
  /\ OthersUnchanged

Step(w) ==
  \/ ReadReplay(w) \/ LockCampaign(w) \/ Inspect(w) \/ Claim(w)
  \/ WriteDraft(w) \/ WritePolicyVersion(w) \/ WritePublication(w)
  \/ CloseRegistration(w) \/ Complete(w) \/ Cancel(w) \/ ConfigureSession(w)
  \/ Return(w)

Next ==
  \/ \E w \in Workers : Step(w) \/ Crash(w) \/ \E r \in Requests : Receive(w, r)
  \/ \E o \in Officers : Suspend(o)
  \/ \E c \in Codes : BeginFiling(c) \/ EndFiling(c) \/ \E d \in Districts : ReserveSeat(c, d)

Spec == Init /\ [][Next]_vars

----------------------------------------------------------------------------
(* Properties *)

\* Rows are well typed, and no session holds more seats than its capacity.
TypeOK ==
  \A c \in Codes :
    LET row == db[c] IN
    /\ row.status \in Statuses
    /\ row.policy \in 0..Len(row.policies)
    /\ DOMAIN row.sessions \subseteq Districts
    /\ \A d \in DOMAIN row.sessions :
         /\ row.sessions[d] \in Sessions
         /\ row.sessions[d].capacity = 0 \/ row.sessions[d].count <= row.sessions[d].capacity
    /\ apps[c] \in 0..MaxApps

\* A key stands for one command: it is audited once, and everybody who sends it
\* again, or sends it twice at a time, gets the answer of the one execution.
OneEffectPerKey ==
  /\ \A k \in Keys : audits[k] = IF ledger[k] = None THEN 0 ELSE 1
  /\ \A w \in Workers : work[w].pc = "done" /\ work[w].answer.code = "OK" =>
       /\ ledger[Key(Req(w))].hash = Hash(Req(w))
       /\ ledger[Key(Req(w))].answer = work[w].answer

\* What was published stays as it was published: the sessions, the coverage
\* version and the selected policy of a campaign with a publication are the
\* ones the publication names.
PublicationIsFrozen ==
  \A c \in Codes : db[c].pub # None =>
    /\ db[c].head = [ version |-> db[c].pub.version, hash |-> db[c].pub.hash ]
    /\ Coverage(db[c].sessions) = db[c].pub.hash
    /\ db[c].policy = db[c].pub.policy

\* A campaign the public can read is complete: an active session inside the
\* window for every target district and nowhere else, and a policy for every
\* category.
VisibleIsComplete ==
  \A c \in Codes : Visible(db[c]) =>
    LET row == db[c] IN
    /\ DOMAIN row.sessions = row.districts
    /\ \A d \in row.districts : row.sessions[d].active /\ InWindow(row, row.sessions[d].date)
    /\ row.policy # 0 /\ row.policies[row.policy].categories = row.categories

\* The announcements of a campaign retell its rows: coverage versions and policy
\* versions without a gap or a repetition, and the path of its status.
FactsRetellTheRows ==
  \A c \in Codes :
    /\ facts[c].SESSION = [ i \in 1..HeadVersion(db[c]) |-> i ]
    /\ facts[c].POLICY = [ i \in 1..Len(db[c].policies) |-> i ]
    /\ facts[c].LIFECYCLE = [ i \in 1..Len(db[c].history) |-> db[c].history[i].to ]

\* No application is stranded in a cancelled campaign, although the submission
\* that is filing and the cancellation do not see each other's writes.
CancelledIsEmpty == \A c \in Codes : db[c].status = "CANCELLED" => apps[c] = 0 /\ c \notin filing

\* Under the row lock nothing moves: no command is refused because what it read
\* went stale, and the triggers never have to stop one.
NothingMovesUnderTheLock ==
  \A w \in Workers : work[w].pc = "done" =>
    work[w].answer.code \notin
      { "STALE_COVERAGE", "POLICY_VERSION_CONFLICT", "CAMPAIGN_WRITE_CONFLICT",
        "INCOMPLETE_OR_INVALID_COVERAGE", "INVALID_STATE_OR_POLICY_NOT_SET",
        "INVALID_SESSION_CONFIGURATION" }

\* The sessions whose locks w waits for: its campaign's row, or its key.
WaitsFor(w) ==
  IF ~ Authorized(Req(w)) THEN {}
  ELSE IF work[w].pc = "lock" /\ Owned(Req(w)) THEN RowHolders(Req(w).code)
  ELSE IF work[w].pc = "claim" THEN KeyHolders(Key(Req(w)))
  ELSE {}

\* Commands never wait for each other in a circle: of any sessions at work, one
\* waits for none of the others.
NobodyWaitsInACircle ==
  \A S \in SUBSET { w \in Workers : work[w].pc # "idle" } :
    S # {} => \E w \in S : WaitsFor(w) \cap S = {}

\* A campaign is whole: its rows are sound, what is published is complete and
\* frozen, and the announcements retell it.
CampaignsAreWhole ==
  TypeOK /\ PublicationIsFrozen /\ VisibleIsComplete /\ FactsRetellTheRows

\* The locks serialise commands and filings: nothing goes stale under them,
\* nothing is filed past a cancellation, and nobody waits in a circle.
CommandsSerialise ==
  NothingMovesUnderTheLock /\ CancelledIsEmpty /\ NobodyWaitsInACircle
=============================================================================
