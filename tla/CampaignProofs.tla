--------------------------- MODULE CampaignProofs ---------------------------
(***************************************************************************)
(* Theorems about Campaign, for any campaigns, administrators, commands and *)
(* database sessions.                                                      *)
(*                                                                         *)
(* The invariant has one part for each thing that is locked.  LedgerInv    *)
(* ties the stored answers to the audit entries and to what was answered;  *)
(* LockInv says who holds a row or a key and what the holder has seen of   *)
(* it; RowInv says of each campaign what its row, its announcements and    *)
(* its applications owe each other.  Under the lock the snapshot a command *)
(* took is still true when it writes, which is why no trigger stops it.    *)
(***************************************************************************)
EXTENDS Campaign, FiniteSetTheorems, TLAPS

Steps == { "replay", "lock", "inspect", "claim", "commit" }

\* Records with the fields of their kind, whatever they hold.
IsWork(x) == x = [ pc |-> x.pc, req |-> x.req, seen |-> x.seen, answer |-> x.answer ]

IsRow(row) ==
  row = [ status |-> row.status, agency |-> row.agency, districts |-> row.districts,
          categories |-> row.categories, first |-> row.first, last |-> row.last,
          policy |-> row.policy, policies |-> row.policies, sessions |-> row.sessions,
          head |-> row.head, pub |-> row.pub, history |-> row.history ]

\* What was refused before a transaction is not in one.
Parsed(r) ==
  /\ r \in Requests
  /\ ~ PublicCodeFaults(r)
  /\ r.op = "createCampaignDraft" => r.body.districts # {}
  /\ r.op = "configureCampaignSession" => ~ SessionFaults(r)

WorkInv ==
  /\ DOMAIN work = Workers /\ work = [ w \in Workers |-> work[w] ]
  /\ \A w \in Workers :
       /\ IsWork(work[w])
       /\ work[w].pc \in Steps \cup { "idle", "done" }
       /\ work[w].pc # "idle" => Req(w) \in Requests
       /\ work[w].pc \in Steps => Parsed(Req(w))
       /\ work[w].pc \in { "lock", "inspect" } => Req(w).op \notin DraftOps

\* The errors of a snapshot that went stale and of a trigger.
Stale ==
  { "STALE_COVERAGE", "POLICY_VERSION_CONFLICT", "CAMPAIGN_WRITE_CONFLICT",
    "INCOMPLETE_OR_INVALID_COVERAGE", "INVALID_STATE_OR_POLICY_NOT_SET",
    "INVALID_SESSION_CONFIGURATION" }

\* An answer to r that the ledger bears out.
Truthful(r, answer) ==
  /\ answer.code \notin Stale
  /\ answer.code = "OK" =>
       ledger[Key(r)] # None /\ ledger[Key(r)].hash = Hash(r) /\ ledger[Key(r)].answer = answer

LedgerInv ==
  /\ DOMAIN ledger = Keys /\ ledger = [ k \in Keys |-> ledger[k] ]
  /\ \A k \in Keys : ledger[k] # None => ledger[k].answer.code = "OK"
  /\ audits = [ k \in Keys |-> IF ledger[k] = None THEN 0 ELSE 1 ]
  /\ \A w \in Workers : work[w].pc = "done" => Truthful(Req(w), work[w].answer)

HoldsRow(w) == work[w].pc \in { "inspect", "claim", "commit" } /\ Req(w).op \notin DraftOps

LockInv ==
  /\ \A v, w \in Workers : HoldsRow(v) /\ HoldsRow(w) /\ Req(v).code = Req(w).code => v = w
  /\ \A v, w \in Workers :
       work[v].pc = "commit" /\ work[w].pc = "commit" /\ Key(Req(v)) = Key(Req(w)) => v = w
  /\ \A w \in Workers : work[w].pc = "commit" => ledger[Key(Req(w))] = None
  /\ \A w \in Workers : HoldsRow(w) =>
       /\ Req(w).code \notin filing
       /\ Row(w).status # "NONE"
       /\ work[w].pc # "inspect" =>
            Inspection(Req(w), Row(w)) = None /\ work[w].seen = Snapshot(Row(w))
  /\ \A c \in filing : c \in Codes /\ db[c].status = "REGISTRATION_OPEN" /\ apps[c] < MaxApps

----------------------------------------------------------------------------
(* One campaign: its row, its announcements and its applications *)

Stage ==
  [ NONE |-> 0, DRAFT |-> 1, EXAMINATION_ACTIVE |-> 1, REGISTRATION_OPEN |-> 2,
    REGISTRATION_CLOSED |-> 3, COMPLETED |-> 4, CANCELLED |-> 4 ]

Retold(told, row) ==
  /\ told.SESSION = [ i \in 1..HeadVersion(row) |-> i ]
  /\ told.POLICY = [ i \in 1..Len(row.policies) |-> i ]
  /\ told.LIFECYCLE = [ i \in 1..Len(row.history) |-> row.history[i].to ]

RowTypes(row) ==
  /\ IsRow(row)
  /\ row.status \in Statuses
  /\ row.policies \in Seq({ r.body : r \in Requests })
  /\ row.policy \in 0..Len(row.policies)
  /\ row.history \in Seq([ from : Statuses, to : Statuses ])
  /\ DOMAIN row.sessions \subseteq Districts
  /\ row.sessions \in [ DOMAIN row.sessions -> Sessions ]

\* The head names the coverage as it is; without a head there is none.
HeadOK(row) ==
  IF row.head = None THEN DOMAIN row.sessions = {}
  ELSE /\ row.head = [ version |-> row.head.version, hash |-> Coverage(row.sessions) ]
       /\ row.head.version \in Nat \ { 0 }

\* What is published is complete and is what the row still says.
PublicationOK(row) ==
  row.pub # None =>
    /\ row.status \notin { "NONE", "DRAFT" }
    /\ row.head # None
    /\ row.pub = [ policy |-> row.policy, version |-> row.head.version, hash |-> row.head.hash ]
    /\ row.policy # 0
    /\ DOMAIN row.sessions = row.districts
    /\ \A d \in row.districts : row.sessions[d].active /\ InWindow(row, row.sessions[d].date)

\* The history never leaves a stage at or past the present one.
HistoryOK(row) == \A i \in DOMAIN row.history : Stage[row.history[i].from] < Stage[row.status]

\* Seats are taken by applications, which only a campaign that opened has.
SeatsOK(row, filed) ==
  /\ filed \in 0..MaxApps
  /\ row.status \in { "NONE", "DRAFT", "CANCELLED" } => filed = 0
  /\ \A d \in DOMAIN row.sessions :
       /\ filed = 0 => row.sessions[d].count = 0
       /\ row.sessions[d].capacity = 0 \/ row.sessions[d].count <= row.sessions[d].capacity

RowOK(row, told, filed) ==
  /\ RowTypes(row) /\ HeadOK(row) /\ PublicationOK(row) /\ HistoryOK(row) /\ SeatsOK(row, filed)
  /\ \A i \in DOMAIN row.policies : row.policies[i].categories = row.categories
  /\ row.status = "NONE" => row = NoCampaign
  /\ Retold(told, row)

RowInv ==
  /\ DOMAIN db = Codes /\ db = [ c \in Codes |-> db[c] ]
  /\ DOMAIN facts = Codes /\ facts = [ c \in Codes |-> facts[c] ]
  /\ DOMAIN apps = Codes /\ apps = [ c \in Codes |-> apps[c] ]
  /\ \A c \in Codes : RowOK(db[c], facts[c], apps[c])

IInv == WorkInv /\ LedgerInv /\ LockInv /\ RowInv

----------------------------------------------------------------------------
(* Steps that change nothing but what one session executes *)

LEMMA Slot ==
  ASSUME WorkInv, NEW w \in Workers, NEW x, work' = [ work EXCEPT ![w] = x ]
  PROVE  /\ DOMAIN work' = Workers /\ work' = [ v \in Workers |-> work'[v] ]
         /\ work'[w] = x
         /\ \A v \in Workers : v # w => work'[v] = work[v]
BY DEF WorkInv

\* What session w may be left with: x.
Admissible(w, x) ==
  /\ IsWork(x)
  /\ x.pc \in Steps \cup { "idle", "done" }
  /\ x.pc # "idle" => x.req \in Requests
  /\ x.pc \in Steps => Parsed(x.req)
  /\ x.pc \in { "lock", "inspect" } => x.req.op \notin DraftOps
  /\ x.pc = "done" => Truthful(x.req, x.answer)
  /\ x.pc = "commit" => KeyHolders(Key(x.req)) = {} /\ ledger[Key(x.req)] = None
  /\ x.pc \in { "inspect", "claim", "commit" } /\ x.req.op \notin DraftOps =>
       /\ \/ HoldsRow(w) /\ x.req = Req(w)
          \/ /\ RowHolders(x.req.code) = {} /\ x.req.code \notin filing
             /\ db[x.req.code].status # "NONE"
       /\ x.pc # "inspect" =>
            Inspection(x.req, db[x.req.code]) = None /\ x.seen = Snapshot(db[x.req.code])

LEMMA WorkStep ==
  ASSUME IInv, NEW w \in Workers, NEW x, Admissible(w, x), work' = [ work EXCEPT ![w] = x ],
         UNCHANGED <<db, ledger, audits, facts, apps, filing>>
  PROVE  IInv'
<1> USE DEF Req, Row
<1>1. /\ DOMAIN work' = Workers /\ work' = [ v \in Workers |-> work'[v] ]
      /\ work'[w] = x /\ \A v \in Workers : v # w => work'[v] = work[v]
  BY Slot DEF IInv
<1>2. WorkInv'
  BY <1>1 DEF IInv, WorkInv, Admissible, Parsed, PublicCodeFaults, SessionFaults
<1>3. LedgerInv'
  BY <1>1 DEF IInv, LedgerInv, Admissible, Truthful
<1>4. \A v \in Workers : v # w => (HoldsRow(v)' <=> HoldsRow(v))
  BY <1>1 DEF HoldsRow
<1>5. HoldsRow(w)' <=> x.pc \in { "inspect", "claim", "commit" } /\ x.req.op \notin DraftOps
  BY <1>1 DEF HoldsRow
<1>6. \A c : \A v \in Workers : v \in RowHolders(c) <=> HoldsRow(v) /\ Req(v).code = c
  BY DEF RowHolders, HoldsRow
<1>7. LockInv'
  <2>1. ASSUME NEW v \in Workers, v # w, HoldsRow(v)', HoldsRow(w)', Req(v)'.code = Req(w)'.code
        PROVE  FALSE
    <3>1. HoldsRow(v) /\ Req(v).code = x.req.code
      BY <2>1, <1>1, <1>4
    <3>2. \/ HoldsRow(w) /\ x.req = Req(w)
          \/ RowHolders(x.req.code) = {}
      BY <2>1, <1>5 DEF Admissible
    <3> QED BY <3>1, <3>2, <2>1, <1>6 DEF IInv, LockInv
  <2>2. ASSUME NEW v \in Workers, v # w, work'[v].pc = "commit", work'[w].pc = "commit",
               Key(Req(v)') = Key(Req(w)')
        PROVE  FALSE
    BY <2>2, <1>1 DEF Admissible, KeyHolders
  <2>3. \A u \in Workers : work'[u].pc = "commit" => ledger'[Key(Req(u)')] = None
    BY <1>1 DEF IInv, LockInv, Admissible
  <2>4. ASSUME NEW u \in Workers, HoldsRow(u)'
        PROVE  /\ Req(u)'.code \notin filing' /\ Row(u)'.status # "NONE"
               /\ work'[u].pc # "inspect" =>
                    Inspection(Req(u), Row(u))' = None /\ work'[u].seen = Snapshot(Row(u))'
    <3>1. CASE u # w
      <4>1. HoldsRow(u) /\ work'[u] = work[u]
        BY <3>1, <2>4, <1>1, <1>4
      <4>2. Inspection(Req(u), Row(u))' = Inspection(Req(u), Row(u)) /\ Snapshot(Row(u))' = Snapshot(Row(u))
        BY <4>1
      <4> QED BY <4>1, <4>2 DEF IInv, LockInv
    <3>2. CASE u = w
      <4>1. x.pc \in { "inspect", "claim", "commit" } /\ x.req.op \notin DraftOps
        BY <3>2, <2>4, <1>5
      <4>2. /\ Req(u)' = x.req /\ Row(u)' = db[x.req.code]
        BY <3>2, <1>1
      <4>3. Inspection(Req(u), Row(u))' = Inspection(x.req, db[x.req.code])
        BY <4>2
      <4>4. Snapshot(Row(u))' = Snapshot(db[x.req.code])
        BY <4>2
      <4> QED BY <4>1, <4>2, <4>3, <4>4, <3>2, <1>1 DEF IInv, LockInv, Admissible
    <3> QED BY <3>1, <3>2
  <2>5. \A c \in filing' : c \in Codes /\ db'[c].status = "REGISTRATION_OPEN" /\ apps'[c] < MaxApps
    BY DEF IInv, LockInv
  <2>6. \A u, v \in Workers : HoldsRow(u)' /\ HoldsRow(v)' /\ Req(u)'.code = Req(v)'.code => u = v
    BY <2>1, <1>1, <1>4 DEF IInv, LockInv
  <2>7. \A u, v \in Workers :
          work'[u].pc = "commit" /\ work'[v].pc = "commit" /\ Key(Req(u)') = Key(Req(v)') => u = v
    BY <2>2, <1>1 DEF IInv, LockInv
  <2> QED BY <2>3, <2>4, <2>5, <2>6, <2>7 DEF LockInv
<1>8. RowInv'
  BY DEF IInv, RowInv
<1> QED BY <1>2, <1>3, <1>7, <1>8 DEF IInv

LEMMA AnswerKeeps ==
  ASSUME IInv, NEW w \in Workers, work[w].pc # "idle", NEW a, Truthful(Req(w), a), Answer(w, a),
         UNCHANGED <<db, ledger, audits, facts, apps, filing>>
  PROVE  IInv'
<1> DEFINE x == [ work[w] EXCEPT !.pc = "done", !.seen = None, !.answer = a ]
<1>1. Req(w) \in Requests /\ IsWork(work[w])
  BY DEF IInv, WorkInv
<1>2. work' = [ work EXCEPT ![w] = x ]
  BY DEF Answer, IInv, WorkInv
<1>3. IsWork(x) /\ x.pc = "done" /\ x.req = Req(w) /\ x.answer = a
  <2> DEFINE y == [ work[w] EXCEPT !.pc = "done" ]
             z == [ y EXCEPT !.seen = None ]
  <2>1. IsWork(y) /\ y.pc = "done" /\ y.req = Req(w)
    BY <1>1 DEF IsWork, Req
  <2> HIDE DEF y
  <2>2. IsWork(z) /\ z.pc = "done" /\ z.req = Req(w)
    BY <2>1 DEF IsWork
  <2> HIDE DEF z
  <2>3. LET v == [ z EXCEPT !.answer = a ] IN
        IsWork(v) /\ v.pc = "done" /\ v.req = Req(w) /\ v.answer = a
    BY <2>2 DEF IsWork
  <2>4. x = [ z EXCEPT !.answer = a ]
    BY DEF y, z
  <2> QED BY <2>3, <2>4
<1> HIDE DEF x
<1>4. Admissible(w, x)
  BY <1>1, <1>3 DEF Admissible, Steps
<1> QED BY <1>2, <1>4, WorkStep

LEMMA GoToFacts ==
  ASSUME IInv, NEW w \in Workers, NEW step, GoTo(w, step)
  PROVE  LET x == [ work[w] EXCEPT !.pc = step ] IN
         /\ work' = [ work EXCEPT ![w] = x ]
         /\ IsWork(x) /\ x.pc = step /\ x.req = Req(w) /\ x.seen = work[w].seen
<1>1. IsWork(work[w])
  BY DEF IInv, WorkInv
<1>2. work' = [ work EXCEPT ![w] = [ work[w] EXCEPT !.pc = step ] ]
  BY DEF GoTo, IInv, WorkInv
<1>3. LET x == [ work[w] EXCEPT !.pc = step ] IN
      IsWork(x) /\ x.pc = step /\ x.req = work[w].req /\ x.seen = work[w].seen
  BY <1>1 DEF IsWork
<1> QED BY <1>2, <1>3 DEF Req

LEMMA ErrorsAreTruthful ==
  ASSUME NEW r, NEW code, code \notin Stale, code # "OK"
  PROVE  Truthful(r, Error(code))
BY DEF Truthful, Error

LEMMA ReplayIsTruthful ==
  ASSUME LedgerInv, NEW r \in Requests, ledger[Key(r)] # None
  PROVE  Truthful(r, Replay(r))
<1>1. Key(r) \in Keys
  BY DEF Keys
<1>2. ledger[Key(r)].answer.code = "OK"
  BY <1>1 DEF LedgerInv
<1>3. CASE ledger[Key(r)].hash = Hash(r)
  BY <1>2, <1>3 DEF Truthful, Replay, Stale
<1>4. CASE ledger[Key(r)].hash # Hash(r)
  <2>1. Replay(r) = Error("IDEMPOTENCY_KEY_REUSED")
    BY <1>4 DEF Replay
  <2> QED BY <2>1, ErrorsAreTruthful DEF Stale
<1> QED BY <1>3, <1>4

LEMMA IdleKeeps ==
  ASSUME IInv, NEW w \in Workers, work' = [ work EXCEPT ![w] = Idle ],
         UNCHANGED <<db, ledger, audits, facts, apps, filing>>
  PROVE  IInv'
<1>1. Admissible(w, Idle)
  BY DEF Admissible, Idle, IsWork, Steps
<1> QED BY <1>1, WorkStep

LEMMA RefusalFacts ==
  ASSUME CampaignAssumption, NEW r \in Requests
  PROVE  /\ Refusal(r) = None => Parsed(r)
         /\ Refusal(r) # None => Refusal(r) \notin Stale /\ Refusal(r) # "OK"
<1>1. None \notin ErrorCodes
  BY DEF CampaignAssumption
<1>2. Refusal(r) = None => Parsed(r)
  BY <1>1 DEF Refusal, Parsed, DraftFaults, ErrorCodes
<1>3. Refusal(r) # None => Refusal(r) \notin Stale /\ Refusal(r) # "OK"
  BY <1>1 DEF Refusal, Stale, ErrorCodes
<1> QED BY <1>2, <1>3

LEMMA ReceiveKeeps ==
  ASSUME CampaignAssumption, IInv, NEW w \in Workers, NEW r \in Requests, Receive(w, r)
  PROVE  IInv'
<1> DEFINE x == IF Refusal(r) = None
                THEN [ Idle EXCEPT !.pc = "replay", !.req = r ]
                ELSE [ Idle EXCEPT !.pc = "done", !.req = r, !.answer = Error(Refusal(r)) ]
<1>1. work' = [ work EXCEPT ![w] = x ] /\ UNCHANGED <<db, ledger, audits, facts, apps, filing>>
  BY DEF Receive, StoreUnchanged, OthersUnchanged
<1>2. IsWork(x) /\ x.pc \in { "replay", "done" } /\ x.req = r
  BY DEF Idle, IsWork
<1>3. x.pc = "replay" => Parsed(r)
  BY RefusalFacts DEF Idle
<1>4. x.pc = "done" => Truthful(r, x.answer)
  <2>1. CASE Refusal(r) = None
    BY <2>1 DEF Idle
  <2>2. CASE Refusal(r) # None
    BY <2>2, RefusalFacts, ErrorsAreTruthful DEF Idle
  <2> QED BY <2>1, <2>2
<1> HIDE DEF x
<1>5. Admissible(w, x)
  BY <1>2, <1>3, <1>4 DEF Admissible, Steps
<1> QED BY <1>1, <1>5, WorkStep

LEMMA ReadReplayKeeps ==
  ASSUME CampaignAssumption, IInv, NEW w \in Workers, ReadReplay(w)
  PROVE  IInv'
<1> DEFINE r == Req(w)
           next == IF r.op \in DraftOps THEN "claim" ELSE "lock"
<1>1. work[w].pc = "replay" /\ UNCHANGED <<db, ledger, audits, facts, apps, filing>>
  BY DEF ReadReplay, StoreUnchanged, OthersUnchanged
<1>2. r \in Requests /\ Parsed(r)
  BY <1>1 DEF IInv, WorkInv, Steps
<1>3. \/ Answer(w, Error("FORBIDDEN"))
      \/ ledger[Key(r)] # None /\ Answer(w, Replay(r))
      \/ GoTo(w, next)
  BY DEF ReadReplay
<1>4. CASE Answer(w, Error("FORBIDDEN"))
  BY <1>1, <1>4, AnswerKeeps, ErrorsAreTruthful DEF Stale
<1>5. CASE ledger[Key(r)] # None /\ Answer(w, Replay(r))
  BY <1>1, <1>2, <1>5, AnswerKeeps, ReplayIsTruthful DEF IInv
<1>6. CASE GoTo(w, next)
  <2> DEFINE x == [ work[w] EXCEPT !.pc = next ]
  <2>1. work' = [ work EXCEPT ![w] = x ] /\ IsWork(x) /\ x.pc = next /\ x.req = r
    BY <1>6, GoToFacts
  <2> HIDE DEF x
  <2>2. Admissible(w, x)
    BY <1>2, <2>1 DEF Admissible, Steps
  <2> QED BY <1>1, <2>1, <2>2, WorkStep
<1> QED BY <1>3, <1>4, <1>5, <1>6

LEMMA LockCampaignKeeps ==
  ASSUME CampaignAssumption, IInv, NEW w \in Workers, LockCampaign(w)
  PROVE  IInv'
<1> DEFINE r == Req(w)
<1>1. work[w].pc = "lock" /\ UNCHANGED <<db, ledger, audits, facts, apps, filing>>
  BY DEF LockCampaign, StoreUnchanged, OthersUnchanged
<1>2. r \in Requests /\ Parsed(r) /\ r.op \notin DraftOps
  BY <1>1 DEF IInv, WorkInv, Steps
<1>3. \/ Answer(w, Error("FORBIDDEN")) \/ Answer(w, Error("CAMPAIGN_NOT_FOUND"))
      \/ Owned(r) /\ RowHolders(r.code) = {} /\ r.code \notin filing /\ GoTo(w, "inspect")
  BY DEF LockCampaign
<1>4. CASE Answer(w, Error("FORBIDDEN")) \/ Answer(w, Error("CAMPAIGN_NOT_FOUND"))
  BY <1>1, <1>4, AnswerKeeps, ErrorsAreTruthful DEF Stale
<1>5. CASE Owned(r) /\ RowHolders(r.code) = {} /\ r.code \notin filing /\ GoTo(w, "inspect")
  <2> DEFINE x == [ work[w] EXCEPT !.pc = "inspect" ]
  <2>1. work' = [ work EXCEPT ![w] = x ] /\ IsWork(x) /\ x.pc = "inspect" /\ x.req = r
    BY <1>5, GoToFacts
  <2> HIDE DEF x
  <2>2. Admissible(w, x)
    BY <1>2, <1>5, <2>1 DEF Admissible, Steps, Owned
  <2> QED BY <1>1, <2>1, <2>2, WorkStep
<1> QED BY <1>3, <1>4, <1>5

LEMMA InspectionFacts ==
  ASSUME CampaignAssumption, NEW r \in Requests, r.op \notin DraftOps,
         NEW row, NEW told, NEW filed, RowOK(row, told, filed)
  PROVE  Inspection(r, row) # None => Inspection(r, row) \notin Stale /\ Inspection(r, row) # "OK"
<1>1. None \notin ErrorCodes
  BY DEF CampaignAssumption
<1>2. /\ row.head # None => row.head.version \in Nat \ { 0 } /\ row.head.hash = Coverage(row.sessions)
      /\ HeadOK(row)
  BY DEF RowOK, HeadOK
<1>3. CASE r.op = "publishCampaign"
  <2>1. AssertCompleteCoverage(row) \notin Stale \/ row.head = None
    BY <1>1, <1>2 DEF AssertCompleteCoverage, Stale, ErrorCodes
  <2>2. AssertCompleteCoverage(row) # "OK" \/ AssertCompleteCoverage(row) = None
    BY DEF AssertCompleteCoverage
  <2>3. Inspection(r, row) = InspectPublication(row)
    BY <1>3 DEF Inspection, LifecycleOps
  <2> HIDE DEF AssertCompleteCoverage
  <2> QED BY <2>1, <2>2, <2>3 DEF InspectPublication, Stale
<1>4. CASE r.op = "createCampaignPolicyVersion"
  <2>1. Inspection(r, row) = InspectPolicy(row, r.body)
    BY <1>4 DEF Inspection, LifecycleOps
  <2> QED BY <2>1, <1>1 DEF InspectPolicy, Stale, ErrorCodes
<1>5. CASE r.op = "configureCampaignSession"
  <2>1. Inspection(r, row) = InspectSession(row, r.body)
    BY <1>5 DEF Inspection, LifecycleOps
  <2> QED BY <2>1, <1>1, <1>2 DEF InspectSession, Stale, ErrorCodes
<1>6. CASE r.op \in LifecycleOps
  <2>1. Inspection(r, row) = InspectLifecycle(r.code, row, r.op)
    BY <1>6 DEF Inspection, LifecycleOps
  <2> QED BY <2>1, <1>1 DEF InspectLifecycle, Stale, ErrorCodes
<1>7. r.op \in Ops
  BY DEF CampaignAssumption
<1> QED BY <1>3, <1>4, <1>5, <1>6, <1>7 DEF Ops, DraftOnlyOps

LEMMA InspectKeeps ==
  ASSUME CampaignAssumption, IInv, NEW w \in Workers, Inspect(w)
  PROVE  IInv'
<1> DEFINE r == Req(w)
           fault == Inspection(r, Row(w))
<1>1. work[w].pc = "inspect" /\ UNCHANGED <<db, ledger, audits, facts, apps, filing>>
  BY DEF Inspect, StoreUnchanged, OthersUnchanged
<1>2. r \in Requests /\ Parsed(r) /\ r.op \notin DraftOps /\ r.code \in Codes
  BY <1>1 DEF IInv, WorkInv, Steps, CampaignAssumption
<1>3. RowOK(Row(w), facts[r.code], apps[r.code]) /\ Row(w) = db[r.code]
  BY <1>2 DEF IInv, RowInv, Row
<1>4. \/ ledger[Key(r)] # None /\ Answer(w, Replay(r))
      \/ fault # None /\ Answer(w, Error(fault))
      \/ /\ fault = None
         /\ work' = [ work EXCEPT ![w].pc = "claim", ![w].seen = Snapshot(Row(w)) ]
  BY DEF Inspect
<1>5. CASE ledger[Key(r)] # None /\ Answer(w, Replay(r))
  BY <1>1, <1>2, <1>5, AnswerKeeps, ReplayIsTruthful DEF IInv
<1>6. CASE fault # None /\ Answer(w, Error(fault))
  <2>1. fault \notin Stale /\ fault # "OK"
    BY <1>2, <1>3, <1>6, InspectionFacts
  <2>2. Truthful(r, Error(fault))
    BY <2>1, ErrorsAreTruthful
  <2> QED BY <1>1, <1>6, <2>2, AnswerKeeps
<1>7. CASE /\ fault = None
           /\ work' = [ work EXCEPT ![w].pc = "claim", ![w].seen = Snapshot(Row(w)) ]
  <2> DEFINE y == [ work[w] EXCEPT !.pc = "claim" ]
             x == [ y EXCEPT !.seen = Snapshot(Row(w)) ]
  <2>1. work' = [ work EXCEPT ![w] = x ]
    BY <1>7 DEF IInv, WorkInv
  <2>2. IsWork(y) /\ y.pc = "claim" /\ y.req = r
    BY DEF IsWork, Req, IInv, WorkInv
  <2> HIDE DEF y
  <2>3. IsWork(x) /\ x.pc = "claim" /\ x.req = r /\ x.seen = Snapshot(Row(w))
    BY <2>2 DEF IsWork
  <2> HIDE DEF x
  <2>4. HoldsRow(w)
    BY <1>1, <1>2 DEF HoldsRow
  <2>5. Inspection(x.req, db[x.req.code]) = None /\ x.seen = Snapshot(db[x.req.code])
    BY <1>3, <1>7, <2>3
  <2>6. Admissible(w, x)
    BY <1>2, <2>3, <2>4, <2>5 DEF Admissible, Steps
  <2> QED BY <1>1, <2>1, <2>6, WorkStep
<1> QED BY <1>4, <1>5, <1>6, <1>7

LEMMA ClaimKeeps ==
  ASSUME CampaignAssumption, IInv, NEW w \in Workers, Claim(w)
  PROVE  IInv'
<1> DEFINE r == Req(w)
<1>1. work[w].pc = "claim" /\ UNCHANGED <<db, ledger, audits, facts, apps, filing>>
  BY DEF Claim, StoreUnchanged, OthersUnchanged
<1>2. r \in Requests /\ Parsed(r)
  BY <1>1 DEF IInv, WorkInv, Steps
<1>3. \/ Answer(w, Error("FORBIDDEN"))
      \/ ledger[Key(r)] # None /\ Answer(w, Replay(r))
      \/ KeyHolders(Key(r)) = {} /\ ledger[Key(r)] = None /\ GoTo(w, "commit")
  BY DEF Claim
<1>4. CASE Answer(w, Error("FORBIDDEN"))
  BY <1>1, <1>4, AnswerKeeps, ErrorsAreTruthful DEF Stale
<1>5. CASE ledger[Key(r)] # None /\ Answer(w, Replay(r))
  BY <1>1, <1>2, <1>5, AnswerKeeps, ReplayIsTruthful DEF IInv
<1>6. CASE KeyHolders(Key(r)) = {} /\ ledger[Key(r)] = None /\ GoTo(w, "commit")
  <2> DEFINE x == [ work[w] EXCEPT !.pc = "commit" ]
  <2>1. work' = [ work EXCEPT ![w] = x ] /\ IsWork(x) /\ x.pc = "commit" /\ x.req = r
          /\ x.seen = work[w].seen
    BY <1>6, GoToFacts
  <2> HIDE DEF x
  <2>2. x.req.op \notin DraftOps =>
          /\ HoldsRow(w) /\ Inspection(x.req, db[x.req.code]) = None
          /\ x.seen = Snapshot(db[x.req.code])
    <3> SUFFICES ASSUME x.req.op \notin DraftOps
                 PROVE  /\ HoldsRow(w) /\ Inspection(x.req, db[x.req.code]) = None
                        /\ x.seen = Snapshot(db[x.req.code])
      OBVIOUS
    <3>1. HoldsRow(w)
      BY <1>1, <2>1 DEF HoldsRow
    <3> QED BY <3>1, <1>1, <2>1 DEF IInv, LockInv, Row
  <2>3. Admissible(w, x)
    BY <1>2, <1>6, <2>1, <2>2 DEF Admissible, Steps
  <2> QED BY <1>1, <2>1, <2>3, WorkStep
<1> QED BY <1>3, <1>4, <1>5, <1>6

----------------------------------------------------------------------------
(* What is announced *)

\* The first n versions, and one more.
LEMMA Counted ==
  ASSUME NEW n \in Nat
  PROVE  /\ [ i \in 1..n |-> i ] \o << n + 1 >> = [ i \in 1..(n + 1) |-> i ]
         /\ [ i \in 1..n |-> i ] \o << >> = [ i \in 1..n |-> i ]
<1> DEFINE s == [ i \in 1..n |-> i ]
           t == [ i \in 1..(n + 1) |-> i ]
<1>1. s \in Seq(Nat) /\ Len(s) = n /\ \A i \in 1..n : s[i] = i
  OBVIOUS
<1>2. t \in Seq(Nat) /\ Len(t) = n + 1 /\ \A i \in 1..(n + 1) : t[i] = i
  OBVIOUS
<1> HIDE DEF s, t
<1>3. s \o << n + 1 >> = t /\ s \o << >> = s
  BY <1>1, <1>2
<1> QED BY <1>3 DEF s, t

\* The path of a history, and of a history with one more edge.
LEMMA Pathed ==
  ASSUME NEW h \in Seq([ from : Statuses, to : Statuses ]), NEW e \in [ from : Statuses, to : Statuses ]
  PROVE  /\ [ i \in 1..Len(h) |-> h[i].to ] \o << e.to >>
              = [ i \in 1..Len(Append(h, e)) |-> Append(h, e)[i].to ]
         /\ [ i \in 1..Len(h) |-> h[i].to ] \o << >> = [ i \in 1..Len(h) |-> h[i].to ]
<1> DEFINE Edges == [ from : Statuses, to : Statuses ]
           g == Append(h, e)
           s == [ i \in 1..Len(h) |-> h[i].to ]
           t == [ i \in 1..Len(g) |-> g[i].to ]
<1>1. \A edge \in Edges : edge.to \in Statuses
  OBVIOUS
<1>2. h \in Seq(Edges) /\ e \in Edges
  OBVIOUS
<1> HIDE DEF Edges
<1>3. /\ g \in Seq(Edges) /\ Len(g) = Len(h) + 1 /\ Len(h) \in Nat
      /\ g[Len(h) + 1] = e /\ \A i \in 1..Len(h) : g[i] = h[i] /\ h[i] \in Edges
  BY <1>2
<1>4. s \in Seq(Statuses) /\ Len(s) = Len(h) /\ \A i \in 1..Len(h) : s[i] = h[i].to
  BY <1>1, <1>2, <1>3
<1> HIDE DEF g
<1>5. \A i \in 1..(Len(h) + 1) : g[i].to \in Statuses /\ g[i] = IF i <= Len(h) THEN h[i] ELSE e
  BY <1>1, <1>2, <1>3
<1>6. t \in Seq(Statuses) /\ Len(t) = Len(h) + 1 /\ \A i \in 1..(Len(h) + 1) : t[i] = g[i].to
  BY <1>3, <1>5
<1> HIDE DEF s, t
<1>7. \A i \in 1..(Len(h) + 1) : t[i] = IF i <= Len(h) THEN s[i] ELSE e.to
  BY <1>3, <1>4, <1>5, <1>6
<1>8. s \o << >> = s
  BY <1>3, <1>4
<1>9. s \o << e.to >> = t
  <2> DEFINE u == s \o << e.to >>
  <2>1. e.to \in Statuses
    BY <1>1, <1>2
  <2>2. u \in Seq(Statuses) /\ Len(u) = Len(h) + 1
    BY <2>1, <1>3, <1>4
  <2>3. \A i \in 1..(Len(h) + 1) : u[i] = IF i <= Len(h) THEN s[i] ELSE e.to
    BY <2>1, <1>3, <1>4
  <2> HIDE DEF u
  <2>4. \A i \in 1..(Len(h) + 1) : u[i] = t[i]
    BY <2>3, <1>7
  <2>5. u = t
    BY <2>2, <2>4, <1>3, <1>6
  <2> QED BY <2>5 DEF u
<1> QED BY <1>8, <1>9 DEF s, t, g

\* A row and what is announced of it grow together, kind by kind.
LEMMA Told ==
  ASSUME NEW row, RowTypes(row), HeadVersion(row) \in Nat, NEW told, Retold(told, row),
         NEW s, NEW p, NEW l, NEW new, NEW retold,
         retold.SESSION = told.SESSION \o s,
         retold.POLICY = told.POLICY \o p,
         retold.LIFECYCLE = told.LIFECYCLE \o l,
         \/ s = << >> /\ HeadVersion(new) = HeadVersion(row)
         \/ s = << HeadVersion(row) + 1 >> /\ HeadVersion(new) = HeadVersion(row) + 1,
         \/ p = << >> /\ new.policies = row.policies
         \/ p = << NextVersion(row) >> /\ Len(new.policies) = NextVersion(row),
         \/ l = << >> /\ new.history = row.history
         \/ \E e \in [ from : Statuses, to : Statuses ] :
              l = << e.to >> /\ new.history = Append(row.history, e)
  PROVE  Retold(retold, new)
<1> DEFINE n == HeadVersion(row)
           h == row.history
           path == [ i \in 1..Len(h) |-> h[i].to ]
           count(m) == [ i \in 1..m |-> i ]
<1>1. /\ Len(row.policies) \in Nat /\ NextVersion(row) = Len(row.policies) + 1
      /\ h \in Seq([ from : Statuses, to : Statuses ])
  BY DEF RowTypes, NextVersion
<1>2. told.SESSION = count(n) /\ told.POLICY = count(Len(row.policies)) /\ told.LIFECYCLE = path
  BY DEF Retold
<1>3. \A m \in Nat : count(m) \o << m + 1 >> = count(m + 1) /\ count(m) \o << >> = count(m)
  BY Counted
<1>4. path \o << >> = path
  BY <1>1, Pathed DEF Statuses
<1> HIDE DEF count
<1>5. retold.SESSION = count(HeadVersion(new))
  BY <1>2, <1>3
<1>6. retold.POLICY = count(Len(new.policies))
  BY <1>1, <1>2, <1>3
<1>7. retold.LIFECYCLE = [ i \in 1..Len(new.history) |-> new.history[i].to ]
  <2>1. CASE l = << >> /\ new.history = row.history
    BY <2>1, <1>2, <1>4
  <2>2. ASSUME NEW e \in [ from : Statuses, to : Statuses ], l = << e.to >>, new.history = Append(h, e)
        PROVE  retold.LIFECYCLE = [ i \in 1..Len(new.history) |-> new.history[i].to ]
    <3>1. path \o << e.to >> = [ i \in 1..Len(Append(h, e)) |-> Append(h, e)[i].to ]
      BY <1>1, Pathed
    <3> QED BY <3>1, <2>2, <1>2
  <2> QED BY <2>1, <2>2
<1> QED BY <1>5, <1>6, <1>7 DEF Retold, count

----------------------------------------------------------------------------
(* Steps that write *)

\* What the function refuses is true, and what it writes is accepted and sound.
Sound(w, fault, new, body, events) ==
  LET c == Req(w).code IN
  /\ fault # None => fault \notin Stale /\ fault # "OK"
  /\ fault = None =>
       /\ Accepted(c, Row(w), new)
       /\ body \in Bodies
       /\ RowOK(new, [ k \in DOMAIN NoFacts |-> facts[c][k] \o events[k] ], apps[c])
       /\ HoldsRow(w) \/ Row(w).status = "NONE"

LEMMA RefusedWriteKeeps ==
  ASSUME IInv, NEW w \in Workers, work[w].pc = "commit",
         NEW fault, NEW new, NEW body, NEW events, fault # None,
         Write(w, fault, new, body, events), Sound(w, fault, new, body, events)
  PROVE  IInv'
<1>1. Answer(w, Error(fault)) /\ UNCHANGED <<db, ledger, audits, facts, apps, filing>>
  BY DEF Write, StoreUnchanged, OthersUnchanged
<1>2. Truthful(Req(w), Error(fault))
  BY ErrorsAreTruthful DEF Sound
<1> QED BY <1>1, <1>2, AnswerKeeps

LEMMA CommittedWriteKeeps ==
  ASSUME CampaignAssumption, IInv, NEW w \in Workers, work[w].pc = "commit",
         NEW new, NEW body, NEW events,
         Write(w, None, new, body, events), Sound(w, None, new, body, events)
  PROVE  IInv'
<1> DEFINE r == Req(w)
           c == r.code
           answer == [ code |-> "OK", body |-> body ]
           stored == [ hash |-> Hash(r), answer |-> answer ]
           told == [ k \in DOMAIN NoFacts |-> facts[c][k] \o events[k] ]
           x == [ work[w] EXCEPT !.pc = "done", !.seen = None, !.answer = answer ]
<1>1. r \in Requests /\ c \in Codes /\ Key(r) \in Keys
  BY DEF IInv, WorkInv, CampaignAssumption, Keys
<1>2. /\ body \in Bodies /\ RowOK(new, told, apps[c])
      /\ HoldsRow(w) \/ Row(w).status = "NONE"
      /\ Accepted(c, Row(w), new)
  BY DEF Sound
<1>3. /\ Answer(w, answer) /\ db' = [ db EXCEPT ![c] = new ]
      /\ ledger' = [ ledger EXCEPT ![Key(r)] = stored ]
      /\ audits' = [ audits EXCEPT ![Key(r)] = @ + 1 ]
      /\ facts' = [ facts EXCEPT ![c] = told ]
      /\ UNCHANGED <<apps, filing>>
  BY <1>2 DEF Write, OthersUnchanged
<1>4. stored # None /\ stored.hash = Hash(r) /\ stored.answer = answer
  <2>1. stored \in StoredAnswers
    BY <1>1, <1>2 DEF StoredAnswers
  <2> QED BY <2>1 DEF CampaignAssumption
<1>5. ledger[Key(r)] = None
  BY DEF IInv, LockInv
<1>6. work' = [ work EXCEPT ![w] = x ] /\ IsWork(x) /\ x.pc = "done" /\ x.req = r /\ x.answer = answer
  <2> DEFINE y == [ work[w] EXCEPT !.pc = "done" ]
             z == [ y EXCEPT !.seen = None ]
  <2>1. IsWork(y) /\ y.pc = "done" /\ y.req = r
    BY DEF IsWork, Req, IInv, WorkInv
  <2> HIDE DEF y
  <2>2. IsWork(z) /\ z.pc = "done" /\ z.req = r
    BY <2>1 DEF IsWork
  <2> HIDE DEF z
  <2>3. LET v == [ z EXCEPT !.answer = answer ] IN
        IsWork(v) /\ v.pc = "done" /\ v.req = r /\ v.answer = answer
    BY <2>2 DEF IsWork
  <2>4. x = [ z EXCEPT !.answer = answer ]
    BY DEF y, z
  <2>5. work' = [ work EXCEPT ![w] = x ]
    BY <1>3 DEF Answer, IInv, WorkInv
  <2> QED BY <2>3, <2>4, <2>5
<1> HIDE DEF x
<1>7. /\ DOMAIN work' = Workers /\ work' = [ v \in Workers |-> work'[v] ]
      /\ work'[w] = x /\ \A v \in Workers : v # w => work'[v] = work[v]
  BY <1>6, Slot DEF IInv
<1>8. WorkInv'
  BY <1>1, <1>6, <1>7 DEF IInv, WorkInv, Parsed, PublicCodeFaults, SessionFaults, Req, Steps
<1> HIDE DEF stored
<1>9. DOMAIN ledger = Keys /\ ledger'[Key(r)] = stored /\ \A k \in Keys : k # Key(r) => ledger'[k] = ledger[k]
  BY <1>1, <1>3 DEF IInv, LedgerInv
<1>10. LedgerInv'
  <2>1. DOMAIN ledger' = Keys /\ ledger' = [ k \in Keys |-> ledger'[k] ]
    BY <1>3 DEF IInv, LedgerInv
  <2>2. \A k \in Keys : ledger'[k] # None => ledger'[k].answer.code = "OK"
    BY <1>4, <1>9 DEF IInv, LedgerInv
  <2>3. audits' = [ k \in Keys |-> IF ledger'[k] = None THEN 0 ELSE 1 ]
    <3>1. audits = [ k \in Keys |-> IF ledger[k] = None THEN 0 ELSE 1 ]
      BY DEF IInv, LedgerInv
    <3>2. audits[Key(r)] = 0
      BY <3>1, <1>1, <1>5
    <3>3. audits' = [ audits EXCEPT ![Key(r)] = 1 ]
      BY <3>2, <1>3
    <3> QED BY <3>1, <3>3, <1>4, <1>9
  <2>4. ASSUME NEW v \in Workers, work'[v].pc = "done"
        PROVE  Truthful(Req(v), work[v].answer)'
    <3>1. CASE v = w
      <4>1. Req(v)' = r /\ work'[v].answer = answer
        BY <3>1, <1>6, <1>7 DEF Req
      <4>2. answer.code = "OK" /\ answer.code \notin Stale
        BY DEF Stale
      <4> QED BY <4>1, <4>2, <1>4, <1>9 DEF Truthful
    <3>2. CASE v # w
      <4>1. work'[v] = work[v] /\ Req(v)' = Req(v) /\ Req(v) \in Requests /\ work[v].pc = "done"
        BY <3>2, <2>4, <1>7 DEF Req, IInv, WorkInv
      <4>2. Truthful(Req(v), work[v].answer) /\ Key(Req(v)) \in Keys
        BY <4>1 DEF IInv, LedgerInv, Keys
      <4>3. CASE Key(Req(v)) # Key(r)
        BY <4>1, <4>2, <4>3, <1>9 DEF Truthful
      <4>4. CASE Key(Req(v)) = Key(r) /\ work[v].answer.code # "OK"
        BY <4>1, <4>2, <4>4 DEF Truthful
      <4>5. CASE Key(Req(v)) = Key(r) /\ work[v].answer.code = "OK"
        BY <4>1, <4>2, <4>5, <1>5, <1>9 DEF Truthful
      <4> QED BY <4>3, <4>4, <4>5
    <3> QED BY <3>1, <3>2
  <2> QED BY <2>1, <2>2, <2>3, <2>4 DEF LedgerInv
<1>11. \A v \in Workers : v # w => (HoldsRow(v)' <=> HoldsRow(v)) /\ Req(v)' = Req(v)
  BY <1>7 DEF HoldsRow, Req
<1>12. ~ HoldsRow(w)' /\ work'[w].pc # "commit"
  BY <1>6, <1>7 DEF HoldsRow
<1>13. ASSUME NEW v \in Workers, v # w, HoldsRow(v)
       PROVE  Req(v).code # c /\ Row(v)' = Row(v)
  <2>1. Req(v).code # c
    <3>1. Req(v).code = c => Row(v) = Row(w)
      BY DEF Row
    <3> QED BY <3>1, <1>2, <1>13 DEF IInv, LockInv
  <2> QED BY <2>1, <1>1, <1>3, <1>11, <1>13 DEF Row, IInv, RowInv
<1>14. LockInv'
  <2>1. \A u, v \in Workers : HoldsRow(u)' /\ HoldsRow(v)' /\ Req(u)'.code = Req(v)'.code => u = v
    BY <1>11, <1>12 DEF IInv, LockInv
  <2>2. \A u, v \in Workers :
          work'[u].pc = "commit" /\ work'[v].pc = "commit" /\ Key(Req(u)') = Key(Req(v)') => u = v
    BY <1>7, <1>11, <1>12 DEF IInv, LockInv
  <2>3. ASSUME NEW v \in Workers, work'[v].pc = "commit"
        PROVE  ledger'[Key(Req(v)')] = None
    <3>1. v # w /\ work[v].pc = "commit" /\ Req(v)' = Req(v)
      BY <2>3, <1>7, <1>11, <1>12
    <3>2. Key(Req(v)) # Key(r) /\ Key(Req(v)) \in Keys /\ ledger[Key(Req(v))] = None
      BY <3>1 DEF IInv, LockInv, WorkInv, Keys
    <3> QED BY <3>1, <3>2, <1>9
  <2>4. ASSUME NEW v \in Workers, HoldsRow(v)'
        PROVE  /\ Req(v)'.code \notin filing' /\ Row(v)'.status # "NONE"
               /\ work'[v].pc # "inspect" =>
                    Inspection(Req(v), Row(v))' = None /\ work'[v].seen = Snapshot(Row(v))'
    <3>1. v # w /\ HoldsRow(v) /\ Req(v)' = Req(v) /\ Row(v)' = Row(v) /\ work'[v] = work[v]
      BY <2>4, <1>7, <1>11, <1>12, <1>13
    <3>2. Inspection(Req(v), Row(v))' = Inspection(Req(v), Row(v)) /\ Snapshot(Row(v))' = Snapshot(Row(v))
      BY <3>1
    <3> QED BY <3>1, <3>2, <1>3 DEF IInv, LockInv
  <2>5. ASSUME NEW d \in filing'
        PROVE  d \in Codes /\ db'[d].status = "REGISTRATION_OPEN" /\ apps'[d] < MaxApps
    <3>1. d \in Codes /\ db[d].status = "REGISTRATION_OPEN" /\ apps[d] < MaxApps
      BY <2>5, <1>3 DEF IInv, LockInv
    <3>2. d # c
      BY <2>5, <3>1, <1>2, <1>3 DEF IInv, LockInv, Row
    <3> QED BY <3>1, <3>2, <1>1, <1>3 DEF IInv, RowInv
  <2> QED BY <2>1, <2>2, <2>3, <2>4, <2>5 DEF LockInv
<1> HIDE DEF told
<1>15. RowInv'
  <2>1. /\ DOMAIN db' = Codes /\ db' = [ d \in Codes |-> db'[d] ]
        /\ DOMAIN facts' = Codes /\ facts' = [ d \in Codes |-> facts'[d] ]
        /\ DOMAIN apps' = Codes /\ apps' = [ d \in Codes |-> apps'[d] ]
    BY <1>1, <1>3 DEF IInv, RowInv
  <2>2. ASSUME NEW d \in Codes
        PROVE  RowOK(db'[d], facts'[d], apps'[d])
    <3>1. CASE d = c
      BY <3>1, <1>1, <1>2, <1>3 DEF IInv, RowInv
    <3>2. CASE d # c
      BY <3>2, <1>1, <1>3 DEF IInv, RowInv
    <3> QED BY <3>1, <3>2
  <2>3. \A d \in Codes : RowOK(db[d], facts[d], apps[d])'
    BY <2>2
  <2> QED BY <2>1, <2>3 DEF RowInv
<1> QED BY <1>8, <1>10, <1>14, <1>15 DEF IInv

\* What a session knows that holds the row of its campaign and its key.
LEMMA UnderLock ==
  ASSUME CampaignAssumption, IInv, NEW w \in Workers, work[w].pc = "commit", Req(w).op \notin DraftOps
  PROVE  LET r == Req(w)
             row == Row(w)
         IN  /\ r \in Requests /\ Parsed(r) /\ r.code \in Codes
             /\ HoldsRow(w) /\ row.status # "NONE" /\ r.code \notin filing
             /\ Inspection(r, row) = None
             /\ work[w].seen.version = NextVersion(row)
             /\ work[w].seen.head = HeadVersion(row)
             /\ work[w].seen.coverage = Coverage(row.sessions)
             /\ RowOK(row, facts[r.code], apps[r.code])
             /\ HeadVersion(row) \in Nat
             /\ None \notin ErrorCodes
<1> DEFINE r == Req(w)
           row == Row(w)
<1>1. r \in Requests /\ Parsed(r) /\ r.code \in Codes
  BY DEF IInv, WorkInv, Steps, CampaignAssumption
<1>2. HoldsRow(w)
  BY DEF HoldsRow
<1>3. /\ row.status # "NONE" /\ r.code \notin filing /\ Inspection(r, row) = None
      /\ work[w].seen = Snapshot(row)
  BY <1>2 DEF IInv, LockInv
<1>4. RowOK(row, facts[r.code], apps[r.code])
  BY <1>1 DEF IInv, RowInv, Row
<1>5. HeadVersion(row) \in Nat
  BY <1>4 DEF RowOK, HeadOK, HeadVersion
<1> QED BY <1>1, <1>2, <1>3, <1>4, <1>5 DEF Snapshot, CampaignAssumption

LEMMA PolicyVersionIsSound ==
  ASSUME CampaignAssumption, IInv, NEW w \in Workers, Committing(w, { "createCampaignPolicyVersion" })
  PROVE  Sound(w, PolicyFault(w),
               [ Row(w) EXCEPT !.policies = Append(@, Req(w).body), !.policy = work[w].seen.version ],
               [ policyVersion |-> work[w].seen.version ],
               [ NoFacts EXCEPT !.POLICY = << work[w].seen.version >> ])
<1> DEFINE r == Req(w)
           c == r.code
           row == Row(w)
           v == NextVersion(row)
           b == Append(row.policies, r.body)
           grown == [ row EXCEPT !.policies = b ]
           new == [ grown EXCEPT !.policy = v ]
<1>1. work[w].pc = "commit" /\ r.op = "createCampaignPolicyVersion" /\ r.op \notin DraftOps
  BY DEF Committing, DraftOps
<1>2. /\ r \in Requests /\ HoldsRow(w) /\ row.status # "NONE" /\ Inspection(r, row) = None
      /\ work[w].seen.version = v /\ RowOK(row, facts[c], apps[c]) /\ HeadVersion(row) \in Nat
      /\ None \notin ErrorCodes
  BY <1>1, UnderLock
<1>3. InspectPolicy(row, r.body) = None
  BY <1>1, <1>2 DEF Inspection, LifecycleOps
<1>4. PolicyFault(w) = None
  BY <1>2, <1>3 DEF PolicyFault
<1>5. Draft(row) /\ r.body.categories = row.categories
  BY <1>2, <1>3 DEF InspectPolicy, ErrorCodes
<1>6. RowTypes(row)
  BY <1>2 DEF RowOK
<1>7. IsRow(row)
  BY <1>6 DEF RowTypes
<1> HIDE DEF b, v, row, r, c
<1>8. /\ IsRow(grown) /\ grown.policies = b /\ grown.status = row.status
      /\ grown.agency = row.agency /\ grown.districts = row.districts
      /\ grown.categories = row.categories /\ grown.first = row.first /\ grown.last = row.last
      /\ grown.sessions = row.sessions /\ grown.head = row.head /\ grown.pub = row.pub
      /\ grown.history = row.history
  BY <1>7 DEF IsRow
<1> HIDE DEF grown
<1>10. /\ IsRow(new) /\ new.policies = b /\ new.policy = v
       /\ new.status = row.status /\ new.agency = row.agency /\ new.districts = row.districts
       /\ new.categories = row.categories /\ new.first = row.first /\ new.last = row.last
       /\ new.sessions = row.sessions /\ new.head = row.head /\ new.pub = row.pub
       /\ new.history = row.history
  BY <1>8 DEF IsRow
<1>9. new = [ row EXCEPT !.policies = Append(@, r.body), !.policy = v ]
  BY DEF grown, b
<1> HIDE DEF new
<1> USE DEF r, c, row, v, b
<1>11. /\ new.policies \in Seq({ q.body : q \in Requests }) /\ Len(new.policies) = v /\ v \in Nat \ { 0 }
       /\ \A i \in DOMAIN new.policies : new.policies[i].categories = row.categories
  <2> DEFINE S == { q.body : q \in Requests }
  <2>1. row.policies \in Seq(S) /\ r.body \in S
    BY <1>2, <1>6 DEF RowTypes
  <2> HIDE DEF S
  <2>2. new.policies \in Seq(S) /\ Len(new.policies) = v /\ v \in Nat \ { 0 }
    BY <1>10, <2>1 DEF NextVersion
  <2>3. ASSUME NEW i \in DOMAIN new.policies
        PROVE  new.policies[i].categories = row.categories
    <3>1. i \in 1..v
      BY <2>2, <2>3
    <3>2. CASE i = v
      BY <3>2, <2>1, <1>5, <1>10 DEF NextVersion
    <3>3. CASE i # v
      <4>1. i \in DOMAIN row.policies /\ new.policies[i] = row.policies[i]
        BY <3>1, <3>3, <2>1, <1>10 DEF NextVersion
      <4> QED BY <4>1, <1>2 DEF RowOK
    <3> QED BY <3>2, <3>3
  <2> QED BY <2>2, <2>3 DEF S
<1>12. Accepted(c, row, new)
  BY <1>2, <1>5, <1>10, <1>11
     DEF Accepted, GuardInitialState, GuardPolicyVersionInsert, PolicyPointer, GuardSessionWrite,
         GuardCoverageHead, GuardPublicationInsert, RequirePublicationOpen, GuardLifecycleUpdate,
         RequireHistory, HistoryMatchesState, Draft
<1>13. RowOK(new, [ k \in DOMAIN NoFacts |-> facts[c][k] \o [ NoFacts EXCEPT !.POLICY = << v >> ][k] ], apps[c])
  <2> DEFINE retold == [ k \in DOMAIN NoFacts |-> facts[c][k] \o [ NoFacts EXCEPT !.POLICY = << v >> ][k] ]
  <2>1. Retold(retold, new)
    <3>1. /\ retold.SESSION = facts[c].SESSION \o << >>
          /\ retold.POLICY = facts[c].POLICY \o << v >>
          /\ retold.LIFECYCLE = facts[c].LIFECYCLE \o << >>
      BY DEF NoFacts
    <3>2. Retold(facts[c], row) /\ HeadVersion(new) = HeadVersion(row)
      BY <1>2, <1>10 DEF RowOK, HeadVersion
    <3> HIDE DEF retold
    <3> QED BY <3>1, <3>2, <1>2, <1>6, <1>10, <1>11, Told, ZenonT(60)
  <2>2. RowTypes(new)
    BY <1>6, <1>10, <1>11 DEF RowTypes
  <2>3. HeadOK(new) /\ HistoryOK(new) /\ SeatsOK(new, apps[c])
    BY <1>2, <1>10 DEF RowOK, HeadOK, HistoryOK, SeatsOK
  <2>4. PublicationOK(new)
    BY <1>2, <1>5, <1>10 DEF RowOK, PublicationOK, Draft
  <2> QED BY <2>1, <2>2, <2>3, <2>4, <1>2, <1>10, <1>11 DEF RowOK
<1>14. [ policyVersion |-> v ] \in Bodies
  BY <1>11 DEF Bodies
<1> QED BY <1>2, <1>4, <1>9, <1>12, <1>13, <1>14 DEF Sound

\* An edge from the present stage to a later one is new to the history.
LEMMA NewEdge ==
  ASSUME NEW row, RowTypes(row), HistoryOK(row),
         NEW e \in [ from : Statuses, to : Statuses ], e.from = row.status, Stage[e.from] < Stage[e.to]
  PROVE  LET h == Append(row.history, e) IN
         /\ h \in Seq([ from : Statuses, to : Statuses ])
         /\ e \in Range(h) /\ h[Len(h)] = e /\ e \notin Range(row.history)
         /\ \A i \in DOMAIN h : Stage[h[i].from] < Stage[e.to]
<1> DEFINE Edges == [ from : Statuses, to : Statuses ]
           old == row.history
           h == Append(old, e)
<1>1. old \in Seq(Edges) /\ e \in Edges
  BY DEF RowTypes
<1>2. \A x \in Edges : Stage[x.from] \in Nat /\ Stage[x.to] \in Nat
  BY DEF Stage, Statuses
<1>3. \A i \in DOMAIN old : Stage[old[i].from] < Stage[e.from]
  BY DEF HistoryOK
<1> HIDE DEF Edges
<1>4. /\ h \in Seq(Edges) /\ Len(h) = Len(old) + 1 /\ Len(old) \in Nat /\ DOMAIN old = 1..Len(old)
      /\ DOMAIN h = 1..(Len(old) + 1) /\ h[Len(old) + 1] = e
      /\ \A i \in 1..Len(old) : h[i] = old[i] /\ old[i] \in Edges
  BY <1>1
<1> HIDE DEF h
<1>5. e \in Range(h) /\ h[Len(h)] = e
  BY <1>4 DEF Range
<1>6. e \notin Range(old)
  <2>1. ASSUME NEW i \in DOMAIN old, old[i] = e
        PROVE  FALSE
    BY <2>1, <1>1, <1>2, <1>3
  <2> QED BY <2>1 DEF Range
<1>7. ASSUME NEW i \in DOMAIN h
      PROVE  Stage[h[i].from] < Stage[e.to]
  <2>1. CASE i = Len(old) + 1
    BY <2>1, <1>4
  <2>2. CASE i # Len(old) + 1
    <3>1. i \in 1..Len(old) /\ i \in DOMAIN old /\ h[i] = old[i] /\ old[i] \in Edges
      BY <2>2, <1>4
    <3>2. Stage[old[i].from] < Stage[e.from]
      BY <3>1, <1>3
    <3> QED BY <3>1, <3>2, <1>1, <1>2
  <2> QED BY <2>1, <2>2
<1> QED BY <1>4, <1>5, <1>6, <1>7 DEF h, Edges

LEMMA LifecycleIsSound ==
  ASSUME CampaignAssumption, IInv, NEW w \in Workers, NEW op \in LifecycleOps, Committing(w, { op })
  PROVE  Sound(w, LifecycleFault(w),
               [ Row(w) EXCEPT !.status = Target(op),
                   !.history = Append(@, [ from |-> Row(w).status, to |-> Target(op) ]) ],
               Target(op),
               [ NoFacts EXCEPT !.LIFECYCLE = << Target(op) >> ])
<1> DEFINE r == Req(w)
           c == r.code
           row == Row(w)
           to == Target(op)
           e == [ from |-> row.status, to |-> to ]
           h == Append(row.history, e)
           moved == [ row EXCEPT !.status = to ]
           new == [ moved EXCEPT !.history = h ]
           retold == [ k \in DOMAIN NoFacts |-> facts[c][k] \o [ NoFacts EXCEPT !.LIFECYCLE = << to >> ][k] ]
<1>1. work[w].pc = "commit" /\ r.op = op /\ r.op \notin DraftOps
  BY DEF Committing, DraftOps, LifecycleOps
<1>2. /\ r \in Requests /\ c \in Codes /\ HoldsRow(w) /\ row.status # "NONE" /\ Inspection(r, row) = None
      /\ RowOK(row, facts[c], apps[c]) /\ HeadVersion(row) \in Nat /\ None \notin ErrorCodes
  BY <1>1, UnderLock
<1>3. InspectLifecycle(c, row, op) = None
  BY <1>1, <1>2 DEF Inspection, LifecycleOps
<1>4. LegalEdge(c, row.status, to)
  BY <1>2, <1>3 DEF InspectLifecycle, ErrorCodes
<1>5. /\ LifecycleFault(w) \in { None, "CANCELLATION_HAS_APPLICATIONS" }
      /\ LifecycleFault(w) = None =>
           ~ (op = "cancelCampaign" /\ row.status = "REGISTRATION_OPEN" /\ apps[c] > 0)
  BY <1>1, <1>2, <1>4 DEF LifecycleFault, ErrorCodes
<1>6. /\ to \in { "REGISTRATION_CLOSED", "COMPLETED", "CANCELLED" }
      /\ to = "CANCELLED" => op = "cancelCampaign"
  BY DEF Target, LifecycleOps
<1>7. RowTypes(row) /\ HistoryOK(row) /\ e \in [ from : Statuses, to : Statuses ] /\ e.from = row.status
        /\ e.to = to
  BY <1>2, <1>6 DEF RowOK, RowTypes, Statuses
<1>8. Stage[row.status] < Stage[to]
  BY <1>4 DEF LegalEdge, Stage
<1>9. /\ h \in Seq([ from : Statuses, to : Statuses ])
      /\ e \in Range(h) /\ h[Len(h)] = e /\ e \notin Range(row.history)
      /\ \A i \in DOMAIN h : Stage[h[i].from] < Stage[to]
  BY <1>7, <1>8, NewEdge
<1>10. IsRow(row)
  BY <1>7 DEF RowTypes
<1> HIDE DEF to, row, r, c, e, h
<1>11. /\ IsRow(moved) /\ moved.status = to /\ moved.policies = row.policies /\ moved.policy = row.policy
       /\ moved.agency = row.agency /\ moved.districts = row.districts
       /\ moved.categories = row.categories /\ moved.first = row.first /\ moved.last = row.last
       /\ moved.sessions = row.sessions /\ moved.head = row.head /\ moved.pub = row.pub
  BY <1>10 DEF IsRow
<1> HIDE DEF moved
<1>12. /\ IsRow(new) /\ new.status = to /\ new.policies = row.policies /\ new.policy = row.policy
       /\ new.agency = row.agency /\ new.districts = row.districts
       /\ new.categories = row.categories /\ new.first = row.first /\ new.last = row.last
       /\ new.sessions = row.sessions /\ new.head = row.head /\ new.pub = row.pub /\ new.history = h
  BY <1>11 DEF IsRow
<1>13. new = [ row EXCEPT !.status = to, !.history = Append(@, e) ]
  BY DEF moved, h
<1> HIDE DEF new
<1>14. ASSUME LifecycleFault(w) = None
       PROVE  Accepted(c, row, new) /\ RowOK(new, retold, apps[c])
  <2>1. to = "CANCELLED" => apps[c] = 0
    <3>1. apps[c] \in Nat
      BY <1>2 DEF RowOK, SeatsOK
    <3>2. row.status = "DRAFT" => apps[c] = 0
      BY <1>2 DEF RowOK, SeatsOK
    <3>3. to = "CANCELLED" => row.status \in { "DRAFT", "REGISTRATION_OPEN" }
      BY <1>4 DEF LegalEdge
    <3> QED BY <3>1, <3>2, <3>3, <1>5, <1>6, <1>14
  <2>2. GuardLifecycleUpdate(c, row, new)
    BY <2>1, <1>4, <1>6, <1>12 DEF GuardLifecycleUpdate
  <2>3. RequireHistory(row, new) /\ HistoryMatchesState(row, new)
    BY <1>9, <1>12 DEF RequireHistory, HistoryMatchesState, e
  <2>4. Accepted(c, row, new)
    BY <2>2, <2>3, <1>2, <1>12
       DEF Accepted, GuardInitialState, GuardPolicyVersionInsert, PolicyPointer, GuardSessionWrite,
           GuardCoverageHead, GuardPublicationInsert, RequirePublicationOpen
  <2>5. Retold(retold, new)
    <3>1. /\ retold.SESSION = facts[c].SESSION \o << >>
          /\ retold.POLICY = facts[c].POLICY \o << >>
          /\ retold.LIFECYCLE = facts[c].LIFECYCLE \o << e.to >>
      BY <1>7 DEF NoFacts
    <3>2. Retold(facts[c], row) /\ HeadVersion(new) = HeadVersion(row)
      BY <1>2, <1>12 DEF RowOK, HeadVersion
    <3>3. \E x \in [ from : Statuses, to : Statuses ] :
            << e.to >> = << x.to >> /\ new.history = Append(row.history, x)
      BY <1>7, <1>12 DEF h
    <3>4. new.policies = row.policies /\ RowTypes(row) /\ HeadVersion(row) \in Nat
      BY <1>2, <1>7, <1>12
    <3> HIDE DEF retold
    <3> QED BY <3>1, <3>2, <3>3, <3>4, Told, ZenonT(60)
  <2>6. RowTypes(new)
    BY <1>6, <1>7, <1>9, <1>12 DEF RowTypes, Statuses
  <2>7. HeadOK(new) /\ HistoryOK(new) /\ PublicationOK(new)
    BY <1>2, <1>6, <1>9, <1>12 DEF RowOK, HeadOK, HistoryOK, PublicationOK, InWindow
  <2>8. SeatsOK(new, apps[c])
    BY <2>1, <1>2, <1>6, <1>12 DEF RowOK, SeatsOK
  <2> QED BY <2>4, <2>5, <2>6, <2>7, <2>8, <1>2, <1>6, <1>12 DEF RowOK
<1>15. to \in Bodies
  BY <1>6 DEF Bodies
<1> USE DEF to, row, r, c, e
<1> QED BY <1>2, <1>5, <1>13, <1>14, <1>15 DEF Sound, Stale

\* What a publication that passed inspection found.
LEMMA Inspected ==
  ASSUME NEW row, None \notin ErrorCodes, InspectPublication(row) = None
  PROVE  /\ Draft(row) /\ row.policy # 0 /\ row.head # None
         /\ row.districts # {} /\ DOMAIN row.sessions = row.districts
         /\ \A d \in DOMAIN row.sessions :
              /\ row.sessions[d].active /\ CapacityDecided(row.sessions[d])
              /\ row.sessions[d].count = 0 /\ InWindow(row, row.sessions[d].date)
         /\ ~ (row.head.version < 1) /\ row.head.hash = Coverage(row.sessions)
<1>1. /\ Draft(row) /\ row.policy # 0 /\ row.head # None /\ AssertCompleteCoverage(row) = None
  BY DEF InspectPublication, ErrorCodes
<1>2. /\ row.districts # {} /\ DOMAIN row.sessions = row.districts
      /\ \A d \in DOMAIN row.sessions : row.sessions[d].active
  BY <1>1 DEF AssertCompleteCoverage, ErrorCodes
<1>3. /\ \A d \in DOMAIN row.sessions : CapacityDecided(row.sessions[d])
      /\ \A d \in DOMAIN row.sessions : row.sessions[d].count = 0
  BY <1>1 DEF AssertCompleteCoverage, ErrorCodes
<1>4. /\ \A d \in DOMAIN row.sessions : InWindow(row, row.sessions[d].date)
      /\ ~ (row.head.version < 1) /\ row.head.hash = Coverage(row.sessions)
  BY <1>1 DEF AssertCompleteCoverage, ErrorCodes
<1> QED BY <1>1, <1>2, <1>3, <1>4

LEMMA CoverageIsCoverage ==
  ASSUME NEW sessions, DOMAIN sessions \subseteq Districts, sessions \in [ DOMAIN sessions -> Sessions ]
  PROVE  Coverage(sessions) \in Coverages
<1>1. \A d \in DOMAIN sessions : /\ sessions[d].date \in Int /\ sessions[d].capacity \in Nat
                                 /\ sessions[d].active \in BOOLEAN
  <2>1. \A d \in DOMAIN sessions : sessions[d] \in Sessions
    OBVIOUS
  <2> QED BY <2>1 DEF Sessions
<1>2. Coverage(sessions) \in [ DOMAIN sessions -> [ date : Int, capacity : Nat, active : BOOLEAN ] ]
  BY <1>1 DEF Coverage
<1> QED BY <1>2 DEF Coverages

LEMMA PublicationIsSound ==
  ASSUME CampaignAssumption, IInv, NEW w \in Workers, Committing(w, { "publishCampaign" })
  PROVE  Sound(w, PublicationFault(w),
               [ Row(w) EXCEPT !.status = "REGISTRATION_OPEN",
                   !.pub = [ policy |-> Row(w).policy, version |-> work[w].seen.head,
                             hash |-> work[w].seen.coverage ],
                   !.history = Append(@, [ from |-> "DRAFT", to |-> "REGISTRATION_OPEN" ]) ],
               [ policyVersion |-> Row(w).policy, coverageVersion |-> work[w].seen.head ],
               [ NoFacts EXCEPT !.LIFECYCLE = << "REGISTRATION_OPEN" >> ])
<1> DEFINE r == Req(w)
           c == r.code
           row == Row(w)
           seen == work[w].seen
           open == "REGISTRATION_OPEN"
           e == [ from |-> "DRAFT", to |-> open ]
           h == Append(row.history, e)
           pub == [ policy |-> row.policy, version |-> seen.head, hash |-> seen.coverage ]
           moved == [ row EXCEPT !.status = open ]
           named == [ moved EXCEPT !.pub = pub ]
           new == [ named EXCEPT !.history = h ]
           retold == [ k \in DOMAIN NoFacts |-> facts[c][k] \o [ NoFacts EXCEPT !.LIFECYCLE = << open >> ][k] ]
<1>1. work[w].pc = "commit" /\ r.op = "publishCampaign" /\ r.op \notin DraftOps
  BY DEF Committing, DraftOps
<1>2. /\ r \in Requests /\ c \in Codes /\ HoldsRow(w) /\ row.status # "NONE" /\ Inspection(r, row) = None
      /\ seen.head = HeadVersion(row) /\ seen.coverage = Coverage(row.sessions)
      /\ RowOK(row, facts[c], apps[c]) /\ HeadVersion(row) \in Nat /\ None \notin ErrorCodes
  BY <1>1, UnderLock
<1>3. InspectPublication(row) = None
  BY <1>1, <1>2 DEF Inspection, LifecycleOps
<1>4. /\ Draft(row) /\ row.policy # 0 /\ row.head # None
      /\ row.districts # {} /\ DOMAIN row.sessions = row.districts
      /\ \A d \in DOMAIN row.sessions :
           /\ row.sessions[d].active /\ CapacityDecided(row.sessions[d])
           /\ row.sessions[d].count = 0 /\ InWindow(row, row.sessions[d].date)
      /\ ~ (row.head.version < 1) /\ row.head.hash = Coverage(row.sessions)
  BY <1>2, <1>3, Inspected
<1>5. seen.head = row.head.version /\ seen.coverage = row.head.hash
  BY <1>2, <1>4 DEF HeadVersion
<1>6. PublicationFault(w) = None
  BY <1>4, <1>5 DEF PublicationFault, CapacityDecided
<1>7. RowTypes(row) /\ HistoryOK(row) /\ e \in [ from : Statuses, to : Statuses ] /\ e.from = row.status
        /\ Stage[e.from] < Stage[e.to]
  BY <1>2, <1>4 DEF RowOK, Statuses, Draft, Stage
<1>8. /\ h \in Seq([ from : Statuses, to : Statuses ])
      /\ e \in Range(h) /\ h[Len(h)] = e /\ e \notin Range(row.history)
      /\ \A i \in DOMAIN h : Stage[h[i].from] < Stage[open]
  BY <1>7, NewEdge
<1>9. pub # None /\ pub = [ policy |-> row.policy, version |-> row.head.version, hash |-> row.head.hash ]
        /\ row.policy \in Nat /\ seen.head \in Nat
  <2>1. row.policy \in Nat /\ seen.head \in Nat
    BY <1>2, <1>7 DEF RowTypes
  <2>2. seen.coverage \in Coverages
    BY <1>2, <1>7, CoverageIsCoverage DEF RowTypes
  <2>3. pub \in Publications
    BY <2>1, <2>2 DEF Publications
  <2> QED BY <2>1, <2>3, <1>5 DEF CampaignAssumption
<1>10. IsRow(row)
  BY <1>7 DEF RowTypes
<1> HIDE DEF row, r, c, e, h, pub, seen
<1>11. /\ IsRow(moved) /\ moved.status = open /\ moved.policies = row.policies /\ moved.policy = row.policy
       /\ moved.agency = row.agency /\ moved.districts = row.districts
       /\ moved.categories = row.categories /\ moved.first = row.first /\ moved.last = row.last
       /\ moved.sessions = row.sessions /\ moved.head = row.head
  BY <1>10 DEF IsRow
<1> HIDE DEF moved
<1>12. /\ IsRow(named) /\ named.status = open /\ named.policies = row.policies /\ named.policy = row.policy
       /\ named.agency = row.agency /\ named.districts = row.districts
       /\ named.categories = row.categories /\ named.first = row.first /\ named.last = row.last
       /\ named.sessions = row.sessions /\ named.head = row.head /\ named.pub = pub
  BY <1>11 DEF IsRow
<1> HIDE DEF named
<1>13. /\ IsRow(new) /\ new.status = open /\ new.policies = row.policies /\ new.policy = row.policy
       /\ new.agency = row.agency /\ new.districts = row.districts
       /\ new.categories = row.categories /\ new.first = row.first /\ new.last = row.last
       /\ new.sessions = row.sessions /\ new.head = row.head /\ new.pub = pub /\ new.history = h
  BY <1>12 DEF IsRow
<1>14. new = [ row EXCEPT !.status = open, !.pub = pub, !.history = Append(@, e) ]
  BY DEF moved, named, h
<1> HIDE DEF new
<1>15. Accepted(c, row, new)
  <2>1. GuardLifecycleUpdate(c, row, new)
    BY <1>4, <1>9, <1>13 DEF GuardLifecycleUpdate, LegalEdge, Draft, pub
  <2>2. RequireHistory(row, new) /\ HistoryMatchesState(row, new)
    BY <1>7, <1>8, <1>13 DEF RequireHistory, HistoryMatchesState, e
  <2>3. GuardPublicationInsert(row, new) /\ RequirePublicationOpen(row, new)
    BY <1>4, <1>9, <1>13 DEF GuardPublicationInsert, RequirePublicationOpen, Published
  <2> QED BY <2>1, <2>2, <2>3, <1>2, <1>13
       DEF Accepted, GuardInitialState, GuardPolicyVersionInsert, PolicyPointer, GuardSessionWrite,
           GuardCoverageHead
<1>16. RowOK(new, retold, apps[c])
  <2>1. Retold(retold, new)
    <3>1. /\ retold.SESSION = facts[c].SESSION \o << >>
          /\ retold.POLICY = facts[c].POLICY \o << >>
          /\ retold.LIFECYCLE = facts[c].LIFECYCLE \o << e.to >>
      BY DEF NoFacts, e
    <3>2. Retold(facts[c], row) /\ HeadVersion(new) = HeadVersion(row)
      BY <1>2, <1>13 DEF RowOK, HeadVersion
    <3>3. \E x \in [ from : Statuses, to : Statuses ] :
            << e.to >> = << x.to >> /\ new.history = Append(row.history, x)
      BY <1>7, <1>13 DEF h
    <3>4. new.policies = row.policies /\ RowTypes(row) /\ HeadVersion(row) \in Nat
      BY <1>2, <1>7, <1>13
    <3> HIDE DEF retold
    <3> QED BY <3>1, <3>2, <3>3, <3>4, Told, ZenonT(60)
  <2>2. RowTypes(new)
    BY <1>7, <1>8, <1>13 DEF RowTypes, Statuses
  <2>3. HeadOK(new) /\ HistoryOK(new)
    BY <1>2, <1>8, <1>13 DEF RowOK, HeadOK, HistoryOK
  <2>4. PublicationOK(new)
    BY <1>4, <1>9, <1>13 DEF PublicationOK, InWindow
  <2>5. SeatsOK(new, apps[c])
    BY <1>2, <1>13 DEF RowOK, SeatsOK
  <2> QED BY <2>1, <2>2, <2>3, <2>4, <2>5, <1>2, <1>13 DEF RowOK
<1>17. [ policyVersion |-> row.policy, coverageVersion |-> seen.head ] \in Bodies
  BY <1>9 DEF Bodies
<1> USE DEF row, r, c, e, seen, pub
<1> QED BY <1>2, <1>6, <1>14, <1>15, <1>16, <1>17 DEF Sound

\* The sessions with one of them configured.
LEMMA SessionsAfter ==
  ASSUME NEW row, RowTypes(row), NEW body,
         body.district \in Districts, body.date \in Int, body.capacity \in Nat,
         body.decision \in BOOLEAN, body.active \in BOOLEAN
  PROVE  LET s == WithSession(row, body) IN
         /\ DOMAIN s = DOMAIN row.sessions \cup { body.district }
         /\ DOMAIN s \subseteq Districts /\ s \in [ DOMAIN s -> Sessions ]
         /\ s[body.district] = Configured(row, body)
         /\ \A d \in DOMAIN s : d # body.district => d \in DOMAIN row.sessions /\ s[d] = row.sessions[d]
<1> DEFINE s == WithSession(row, body)
<1>1. /\ DOMAIN s = DOMAIN row.sessions \cup { body.district }
      /\ s = [ d \in DOMAIN s |-> s[d] ]
      /\ s[body.district] = Configured(row, body)
      /\ \A d \in DOMAIN s : d # body.district => d \in DOMAIN row.sessions /\ s[d] = row.sessions[d]
  BY DEF WithSession
<1>2. DOMAIN row.sessions \subseteq Districts /\ \A d \in DOMAIN row.sessions : row.sessions[d] \in Sessions
  BY DEF RowTypes
<1>3. Configured(row, body) \in Sessions
  <2>1. \A d \in DOMAIN row.sessions : row.sessions[d].count \in Nat
    BY <1>2 DEF Sessions
  <2> QED BY <2>1 DEF Configured, Sessions
<1> HIDE DEF s
<1>4. \A d \in DOMAIN s : s[d] \in Sessions
  BY <1>1, <1>2, <1>3
<1>5. s \in [ DOMAIN s -> Sessions ]
  BY <1>1, <1>4
<1> QED BY <1>1, <1>2, <1>5 DEF s

LEMMA SessionIsSound ==
  ASSUME CampaignAssumption, IInv, NEW w \in Workers, Committing(w, { "configureCampaignSession" })
  PROVE  LET sessions == WithSession(Row(w), Req(w).body)
             version == work[w].seen.head + Len(NewVersions(w))
         IN  Sound(w, SessionFault(w),
                   [ Row(w) EXCEPT !.sessions = sessions,
                       !.head = [ version |-> version, hash |-> Coverage(sessions) ] ],
                   [ coverageVersion |-> version, changed |-> sessions # Row(w).sessions ],
                   [ NoFacts EXCEPT !.SESSION = Announced(w) ])
<1> DEFINE r == Req(w)
           c == r.code
           b == r.body
           row == Row(w)
           s == WithSession(row, b)
           vs == NewVersions(w)
           version == work[w].seen.head + Len(vs)
           head == [ version |-> version, hash |-> Coverage(s) ]
           set == [ row EXCEPT !.sessions = s ]
           new == [ set EXCEPT !.head = head ]
           retold == [ k \in DOMAIN NoFacts |-> facts[c][k] \o [ NoFacts EXCEPT !.SESSION = vs ][k] ]
<1>1. work[w].pc = "commit" /\ r.op = "configureCampaignSession" /\ r.op \notin DraftOps
  BY DEF Committing, DraftOps
<1>2. /\ r \in Requests /\ Parsed(r) /\ c \in Codes /\ HoldsRow(w) /\ row.status # "NONE"
      /\ Inspection(r, row) = None /\ work[w].seen.head = HeadVersion(row)
      /\ work[w].seen.coverage = Coverage(row.sessions)
      /\ RowOK(row, facts[c], apps[c]) /\ HeadVersion(row) \in Nat /\ None \notin ErrorCodes
  BY <1>1, UnderLock
<1>3. /\ b.district \in Districts /\ b.date \in Int /\ b.capacity \in Nat
      /\ b.decision \in BOOLEAN /\ b.active \in BOOLEAN /\ CapacityDecided(b)
  BY <1>1, <1>2 DEF CampaignAssumption, Parsed, SessionFaults
<1>4. InspectSession(row, b) = None
  BY <1>1, <1>2 DEF Inspection, LifecycleOps
<1>5. /\ Draft(row) /\ b.district \in row.districts /\ InWindow(row, b.date)
      /\ row.head # None => row.head.hash = Coverage(row.sessions)
      /\ ~ (s # row.sessions /\ b.district \in DOMAIN row.sessions /\ row.sessions[b.district].count > 0)
  BY <1>2, <1>4 DEF InspectSession, ErrorCodes
<1>6. SessionFault(w) = None
  BY <1>2, <1>3, <1>5 DEF SessionFault
<1>7. RowTypes(row) /\ HeadOK(row) /\ IsRow(row) /\ row.pub = None
      /\ \A d \in DOMAIN row.sessions : row.sessions[d].count = 0
  BY <1>2, <1>5 DEF RowOK, RowTypes, PublicationOK, SeatsOK, Draft
<1>8. /\ DOMAIN s = DOMAIN row.sessions \cup { b.district }
      /\ DOMAIN s \subseteq Districts /\ s \in [ DOMAIN s -> Sessions ]
      /\ s[b.district] = Configured(row, b)
      /\ \A d \in DOMAIN s : d # b.district => d \in DOMAIN row.sessions /\ s[d] = row.sessions[d]
  BY <1>3, <1>7, SessionsAfter
<1>9. /\ s[b.district].count = 0 /\ s[b.district].date = b.date /\ \A d \in DOMAIN s : s[d].count = 0
  <2>1. Configured(row, b).count = 0 /\ Configured(row, b).date = b.date
    BY <1>7 DEF Configured
  <2> HIDE DEF s, row, b
  <2> QED BY <2>1, <1>7, <1>8
<1>10. \/ vs = << HeadVersion(row) + 1 >> /\ version = HeadVersion(row) + 1 /\ Coverage(s) # Coverage(row.sessions)
       \/ vs = << >> /\ version = HeadVersion(row) /\ Coverage(s) = Coverage(row.sessions)
  BY <1>2 DEF NewVersions
<1>11. version \in Nat /\ Coverage(s) \in Coverages
  BY <1>2, <1>8, <1>10, CoverageIsCoverage
<1>12. head # None /\ head = [ version |-> head.version, hash |-> Coverage(s) ] /\ head.version = version
  <2>1. head \in Heads
    BY <1>11 DEF Heads
  <2> QED BY <2>1 DEF CampaignAssumption
<1>13. row.head = None => Coverage(s) # Coverage(row.sessions)
  <2> SUFFICES ASSUME row.head = None
               PROVE  Coverage(s) # Coverage(row.sessions)
    OBVIOUS
  <2>1. DOMAIN row.sessions = {}
    BY <1>7 DEF HeadOK
  <2>2. DOMAIN Coverage(s) = DOMAIN s /\ DOMAIN Coverage(row.sessions) = DOMAIN row.sessions
    BY DEF Coverage
  <2> QED BY <2>1, <2>2, <1>8
<1>14. Coverage(s) = Coverage(row.sessions) => head = row.head
  <2> SUFFICES ASSUME Coverage(s) = Coverage(row.sessions)
               PROVE  head = row.head
    OBVIOUS
  <2>1. row.head # None /\ version = HeadVersion(row)
    BY <1>10, <1>13
  <2> QED BY <2>1, <1>7 DEF HeadOK, HeadVersion
<1>15. version \in Nat \ { 0 }
  <2>1. row.head # None => HeadVersion(row) \in Nat \ { 0 }
    BY <1>7 DEF HeadOK, HeadVersion
  <2> QED BY <2>1, <1>2, <1>10, <1>13
<1> HIDE DEF row, r, c, b, s, vs, version, head
<1>16. /\ IsRow(set) /\ set.status = row.status /\ set.policies = row.policies /\ set.policy = row.policy
       /\ set.agency = row.agency /\ set.districts = row.districts
       /\ set.categories = row.categories /\ set.first = row.first /\ set.last = row.last
       /\ set.sessions = s /\ set.pub = row.pub /\ set.history = row.history
  BY <1>7 DEF IsRow
<1> HIDE DEF set
<1>17. /\ IsRow(new) /\ new.status = row.status /\ new.policies = row.policies /\ new.policy = row.policy
       /\ new.agency = row.agency /\ new.districts = row.districts
       /\ new.categories = row.categories /\ new.first = row.first /\ new.last = row.last
       /\ new.sessions = s /\ new.pub = row.pub /\ new.history = row.history /\ new.head = head
  BY <1>16 DEF IsRow
<1>18. new = [ row EXCEPT !.sessions = s, !.head = head ]
  BY DEF set
<1> HIDE DEF new
<1>19. Accepted(c, row, new)
  <2>1. GuardSessionWrite(row, new)
    <3> SUFFICES ASSUME NEW d \in DOMAIN s, d \in DOMAIN row.sessions => s[d] # row.sessions[d]
                 PROVE  /\ Draft(row)
                        /\ s[d].count = IF d \in DOMAIN row.sessions THEN row.sessions[d].count ELSE 0
                        /\ d \in DOMAIN row.sessions => row.sessions[d].count = 0
                        /\ d \in row.districts
                        /\ InWindow(row, s[d].date)
      BY <1>17 DEF GuardSessionWrite
    <3>1. d = b.district
      BY <1>8
    <3> QED BY <3>1, <1>5, <1>7, <1>9
  <2>2. GuardCoverageHead(row, new)
    <3>1. CASE Coverage(s) = Coverage(row.sessions)
      BY <3>1, <1>14, <1>17 DEF GuardCoverageHead
    <3>2. CASE Coverage(s) # Coverage(row.sessions)
      BY <3>2, <1>5, <1>10, <1>12, <1>17 DEF GuardCoverageHead, head
    <3> QED BY <3>1, <3>2
  <2> QED BY <2>1, <2>2, <1>2, <1>17
       DEF Accepted, GuardInitialState, GuardPolicyVersionInsert, PolicyPointer, GuardLifecycleUpdate,
           GuardPublicationInsert, RequirePublicationOpen, RequireHistory, HistoryMatchesState
<1>20. RowOK(new, retold, apps[c])
  <2>1. Retold(retold, new)
    <3>1. /\ retold.SESSION = facts[c].SESSION \o vs
          /\ retold.POLICY = facts[c].POLICY \o << >>
          /\ retold.LIFECYCLE = facts[c].LIFECYCLE \o << >>
      BY DEF NoFacts
    <3>2. Retold(facts[c], row) /\ HeadVersion(new) = version
      BY <1>2, <1>12, <1>17 DEF RowOK, HeadVersion
    <3>3. new.policies = row.policies /\ RowTypes(row) /\ HeadVersion(row) \in Nat
            /\ new.history = row.history
      BY <1>2, <1>7, <1>17
    <3> HIDE DEF retold
    <3> QED BY <3>1, <3>2, <3>3, <1>10, Told
  <2>2. RowTypes(new)
    BY <1>7, <1>8, <1>17 DEF RowTypes
  <2>3. HeadOK(new) /\ HistoryOK(new)
    BY <1>2, <1>12, <1>15, <1>17 DEF RowOK, HeadOK, HistoryOK
  <2>4. PublicationOK(new)
    BY <1>7, <1>17 DEF PublicationOK
  <2>5. SeatsOK(new, apps[c])
    <3>1. \A d \in DOMAIN s : s[d].capacity \in Nat /\ s[d].count = 0
      <4>1. \A d \in DOMAIN s : s[d] \in Sessions
        BY <1>8
      <4> QED BY <4>1, <1>9 DEF Sessions
    <3> QED BY <3>1, <1>2, <1>17 DEF RowOK, SeatsOK
  <2> QED BY <2>1, <2>2, <2>3, <2>4, <2>5, <1>2, <1>17 DEF RowOK
<1>21. [ coverageVersion |-> version, changed |-> s # row.sessions ] \in Bodies
  BY <1>11 DEF Bodies
<1> USE DEF row, r, c, b, s, vs, version, head
<1> QED BY <1>2, <1>6, <1>18, <1>19, <1>20, <1>21 DEF Sound, Announced

LEMMA DraftIsSound ==
  ASSUME CampaignAssumption, IInv, NEW w \in Workers, Committing(w, DraftOps)
  PROVE  Sound(w, IF db[Req(w).code].status # "NONE" THEN "PUBLIC_CODE_ALREADY_EXISTS" ELSE None,
               DraftRow(Req(w)), "DRAFT_CREATED", [ NoFacts EXCEPT !.LIFECYCLE = << "DRAFT" >> ])
<1> DEFINE r == Req(w)
           c == r.code
           row == Row(w)
           new == DraftRow(r)
           e == [ from |-> "NONE", to |-> "DRAFT" ]
           retold == [ k \in DOMAIN NoFacts |-> facts[c][k] \o [ NoFacts EXCEPT !.LIFECYCLE = << "DRAFT" >> ][k] ]
<1>1. work[w].pc = "commit" /\ r.op = "createCampaignDraft"
  BY DEF Committing, DraftOps
<1>2. r \in Requests /\ Parsed(r) /\ c \in Codes /\ row = db[c]
  BY <1>1 DEF IInv, WorkInv, Steps, CampaignAssumption, Row
<1>3. r.body.districts # {} /\ c \notin DOMAIN Legacy
  BY <1>1, <1>2 DEF Parsed, PublicCodeFaults
<1>4. RowOK(row, facts[c], apps[c])
  BY <1>2 DEF IInv, RowInv
<1>5. /\ IsRow(new) /\ new.status = "DRAFT" /\ new.policies = << >> /\ new.policy = 0
      /\ new.districts = r.body.districts /\ new.categories = r.body.categories
      /\ new.sessions = << >> /\ new.head = None /\ new.pub = None /\ new.history = << e >>
  <2> DEFINE A == AgencyOf[r.actor]
             B == r.body
             n1 == [ NoCampaign EXCEPT !.status = "DRAFT" ]
             n2 == [ n1 EXCEPT !.agency = A ]
             n3 == [ n2 EXCEPT !.districts = B.districts ]
             n4 == [ n3 EXCEPT !.categories = B.categories ]
             n5 == [ n4 EXCEPT !.first = B.first ]
             n6 == [ n5 EXCEPT !.last = B.last ]
             n7 == [ n6 EXCEPT !.history = << e >> ]
  <2>1. new = n7
    BY DEF DraftRow
  <2> HIDE DEF A, B, new
  <2>2. /\ IsRow(n1) /\ n1.status = "DRAFT" /\ n1.policies = << >> /\ n1.policy = 0
        /\ n1.sessions = << >> /\ n1.head = None /\ n1.pub = None
    <3>1. /\ IsRow(NoCampaign) /\ NoCampaign.policies = << >> /\ NoCampaign.policy = 0
          /\ NoCampaign.sessions = << >> /\ NoCampaign.head = None /\ NoCampaign.pub = None
      BY DEF NoCampaign, IsRow
    <3> QED BY <3>1 DEF IsRow
  <2> HIDE DEF n1
  <2>3. /\ IsRow(n2) /\ n2.status = "DRAFT" /\ n2.policies = << >> /\ n2.policy = 0
        /\ n2.sessions = << >> /\ n2.head = None /\ n2.pub = None
    BY <2>2 DEF IsRow
  <2> HIDE DEF n2
  <2>4. /\ IsRow(n3) /\ n3.status = "DRAFT" /\ n3.policies = << >> /\ n3.policy = 0
        /\ n3.sessions = << >> /\ n3.head = None /\ n3.pub = None /\ n3.districts = B.districts
    BY <2>3 DEF IsRow
  <2> HIDE DEF n3
  <2>5. /\ IsRow(n4) /\ n4.status = "DRAFT" /\ n4.policies = << >> /\ n4.policy = 0
        /\ n4.sessions = << >> /\ n4.head = None /\ n4.pub = None /\ n4.districts = B.districts
        /\ n4.categories = B.categories
    BY <2>4 DEF IsRow
  <2> HIDE DEF n4
  <2>6. /\ IsRow(n5) /\ n5.status = "DRAFT" /\ n5.policies = << >> /\ n5.policy = 0
        /\ n5.sessions = << >> /\ n5.head = None /\ n5.pub = None /\ n5.districts = B.districts
        /\ n5.categories = B.categories
    BY <2>5 DEF IsRow
  <2> HIDE DEF n5
  <2>7. /\ IsRow(n6) /\ n6.status = "DRAFT" /\ n6.policies = << >> /\ n6.policy = 0
        /\ n6.sessions = << >> /\ n6.head = None /\ n6.pub = None /\ n6.districts = B.districts
        /\ n6.categories = B.categories
    BY <2>6 DEF IsRow
  <2> HIDE DEF n6
  <2>8. /\ IsRow(n7) /\ n7.status = "DRAFT" /\ n7.policies = << >> /\ n7.policy = 0
        /\ n7.sessions = << >> /\ n7.head = None /\ n7.pub = None /\ n7.districts = B.districts
        /\ n7.categories = B.categories /\ n7.history = << e >>
    BY <2>7 DEF IsRow
  <2> QED BY <2>1, <2>8 DEF B
<1>6. "PUBLIC_CODE_ALREADY_EXISTS" \notin Stale
  BY DEF Stale
<1> HIDE DEF new
<1>7. ASSUME row.status = "NONE"
      PROVE  Accepted(c, row, new) /\ RowOK(new, retold, apps[c])
  <2>1. /\ row = NoCampaign /\ row.policies = << >> /\ row.policy = 0 /\ row.sessions = << >>
        /\ row.head = None /\ row.pub = None /\ row.history = << >>
    BY <1>4, <1>7 DEF RowOK, NoCampaign
  <2>2. e \in [ from : Statuses, to : Statuses ]
    BY DEF Statuses
  <2>3. RequireHistory(row, new) /\ HistoryMatchesState(row, new)
    <3>1. Range(new.history) = { e } /\ Range(row.history) = {} /\ new.history[Len(new.history)] = e
      BY <1>5, <2>1 DEF Range
    <3> QED BY <3>1, <1>5, <1>7 DEF RequireHistory, HistoryMatchesState
  <2>4. Accepted(c, row, new)
    BY <2>1, <2>3, <1>3, <1>5, <1>7
       DEF Accepted, GuardInitialState, GuardPolicyVersionInsert, PolicyPointer, GuardLifecycleUpdate,
           GuardPublicationInsert, RequirePublicationOpen, GuardSessionWrite, GuardCoverageHead
  <2>5. Retold(retold, new)
    <3>1. /\ retold.SESSION = facts[c].SESSION \o << >>
          /\ retold.POLICY = facts[c].POLICY \o << >>
          /\ retold.LIFECYCLE = facts[c].LIFECYCLE \o << e.to >>
      BY DEF NoFacts
    <3>2. Retold(facts[c], row) /\ RowTypes(row) /\ HeadVersion(row) = 0 /\ HeadVersion(new) = 0
      BY <1>4, <1>5, <2>1 DEF RowOK, HeadVersion
    <3>3. \E x \in [ from : Statuses, to : Statuses ] :
            << e.to >> = << x.to >> /\ new.history = Append(row.history, x)
      BY <1>5, <2>1, <2>2
    <3>4. new.policies = row.policies /\ HeadVersion(row) \in Nat /\ HeadVersion(new) = HeadVersion(row)
      BY <1>5, <2>1, <3>2
    <3> HIDE DEF retold, row, c, e
    <3> QED BY <3>1, <3>2, <3>3, <3>4, Told, ZenonT(60)
  <2>6. RowTypes(new)
    <3>1. << e >> \in Seq([ from : Statuses, to : Statuses ])
      BY <2>2
    <3>2. DOMAIN new.sessions = {}
      BY <1>5
    <3> QED BY <3>1, <3>2, <1>5 DEF RowTypes, Statuses
  <2>7. HeadOK(new) /\ PublicationOK(new) /\ HistoryOK(new)
    BY <1>5 DEF HeadOK, PublicationOK, HistoryOK, Stage
  <2>8. SeatsOK(new, apps[c])
    BY <1>4, <1>5, <1>7 DEF RowOK, SeatsOK
  <2> QED BY <2>4, <2>5, <2>6, <2>7, <2>8, <1>5 DEF RowOK
<1> USE DEF new
<1>8. CASE row.status = "NONE"
  <2>1. "DRAFT_CREATED" \in Bodies
    BY DEF Bodies
  <2> QED BY <2>1, <1>2, <1>7, <1>8 DEF Sound
<1>9. CASE row.status # "NONE"
  <2>1. "PUBLIC_CODE_ALREADY_EXISTS" # None
    BY DEF CampaignAssumption, ErrorCodes
  <2> QED BY <2>1, <1>2, <1>6, <1>9 DEF Sound
<1> QED BY <1>8, <1>9

\* Every writing step is a sound write.
LEMMA WritesKeep ==
  ASSUME CampaignAssumption, IInv, NEW w \in Workers,
         \/ WriteDraft(w) \/ WritePolicyVersion(w) \/ WritePublication(w)
         \/ CloseRegistration(w) \/ Complete(w) \/ Cancel(w) \/ ConfigureSession(w)
  PROVE  IInv'
<1>1. ASSUME NEW fault, NEW new, NEW body, NEW events, work[w].pc = "commit",
             Write(w, fault, new, body, events), Sound(w, fault, new, body, events)
      PROVE  IInv'
  BY <1>1, RefusedWriteKeeps, CommittedWriteKeeps
<1>2. CASE WriteDraft(w)
  BY <1>1, <1>2, DraftIsSound DEF WriteDraft, Committing
<1>3. CASE WritePolicyVersion(w)
  BY <1>1, <1>3, PolicyVersionIsSound DEF WritePolicyVersion, Committing
<1>4. CASE WritePublication(w)
  BY <1>1, <1>4, PublicationIsSound DEF WritePublication, Committing
<1>5. ASSUME NEW op \in LifecycleOps, WriteLifecycle(w, op)
      PROVE  IInv'
  BY <1>1, <1>5, LifecycleIsSound DEF WriteLifecycle, Committing
<1>6. CASE CloseRegistration(w) \/ Complete(w) \/ Cancel(w)
  BY <1>5, <1>6 DEF CloseRegistration, Complete, Cancel, LifecycleOps
<1>7. CASE ConfigureSession(w)
  BY <1>1, <1>7, SessionIsSound DEF ConfigureSession, Committing
<1> QED BY <1>2, <1>3, <1>4, <1>6, <1>7

----------------------------------------------------------------------------
(* Steps around the commands *)

LEMMA ReturnKeeps ==
  ASSUME IInv, NEW w \in Workers, Return(w) \/ Crash(w)
  PROVE  IInv'
BY IdleKeeps DEF Return, Crash, StoreUnchanged, OthersUnchanged

LEMMA SuspendKeeps ==
  ASSUME IInv, NEW o \in Officers, Suspend(o)
  PROVE  IInv'
<1>1. UNCHANGED <<db, ledger, audits, facts, apps, filing, work>>
  BY DEF Suspend, StoreUnchanged
<1>2. WorkInv' /\ LedgerInv' /\ RowInv'
  BY <1>1 DEF IInv, WorkInv, LedgerInv, RowInv, Req, Truthful
<1>3. LockInv'
  BY <1>1 DEF IInv, LockInv, HoldsRow, Req, Row
<1> QED BY <1>2, <1>3 DEF IInv

LEMMA FilingKeeps ==
  ASSUME CampaignAssumption, IInv, NEW c \in Codes, BeginFiling(c) \/ EndFiling(c)
  PROVE  IInv'
<1>1. UNCHANGED <<db, ledger, audits, facts, work>>
  BY DEF BeginFiling, EndFiling, StoreUnchanged
<1>2. WorkInv' /\ LedgerInv'
  BY <1>1 DEF IInv, WorkInv, LedgerInv, Req, Truthful
<1>3. /\ \A w \in Workers : HoldsRow(w)' <=> HoldsRow(w)
      /\ \A w \in Workers : HoldsRow(w) => Req(w).code \notin filing'
      /\ \A d \in filing' : d \in Codes /\ db[d].status = "REGISTRATION_OPEN" /\ apps'[d] < MaxApps
      /\ DOMAIN apps' = Codes /\ apps' = [ d \in Codes |-> apps'[d] ]
      /\ \A d \in Codes :
           \/ apps'[d] = apps[d]
           \/ /\ apps'[d] = apps[d] + 1 /\ db[d].status = "REGISTRATION_OPEN" /\ apps[d] < MaxApps
  <2>1. \A w \in Workers : HoldsRow(w)' <=> HoldsRow(w)
    BY <1>1 DEF HoldsRow, Req
  <2>2. /\ DOMAIN apps = Codes /\ apps = [ d \in Codes |-> apps[d] ]
        /\ \A w \in Workers : HoldsRow(w) => Req(w).code \notin filing
        /\ \A d \in filing : d \in Codes /\ db[d].status = "REGISTRATION_OPEN" /\ apps[d] < MaxApps
    BY DEF IInv, LockInv, RowInv
  <2>3. CASE BeginFiling(c)
    <3>1. \A w \in Workers : HoldsRow(w) => Req(w).code # c
      BY <2>3 DEF BeginFiling, RowHolders, HoldsRow
    <3> QED BY <2>1, <2>2, <2>3, <3>1 DEF BeginFiling
  <2>4. CASE EndFiling(c)
    BY <2>1, <2>2, <2>4 DEF EndFiling
  <2> QED BY <2>3, <2>4
<1>4. LockInv'
  <2>1. \A w \in Workers : HoldsRow(w) =>
          Inspection(Req(w), Row(w))' = Inspection(Req(w), Row(w)) /\ Snapshot(Row(w))' = Snapshot(Row(w))
    BY <1>1 DEF Req, Row
  <2> QED BY <1>1, <1>3, <2>1 DEF IInv, LockInv, Req, Row
<1>5. RowInv'
  <2>1. ASSUME NEW d \in Codes
        PROVE  RowOK(db[d], facts[d], apps'[d])
    <3>1. RowOK(db[d], facts[d], apps[d])
      BY DEF IInv, RowInv
    <3>2. SeatsOK(db[d], apps'[d])
      BY <3>1, <1>3 DEF RowOK, SeatsOK, CampaignAssumption
    <3> QED BY <3>1, <3>2 DEF RowOK
  <2> QED BY <1>1, <1>3, <2>1 DEF IInv, RowInv
<1> QED BY <1>2, <1>4, <1>5 DEF IInv

\* A seat is taken in a session of a campaign that has applications.
LEMMA SeatFacts ==
  ASSUME CampaignAssumption, IInv, NEW c \in Codes, NEW d \in Districts, ReserveSeat(c, d)
  PROVE  LET old == db[c]
             new == db'[c]
         IN  /\ RowOK(new, facts[c], apps[c])
             /\ new.status = old.status /\ old.status \notin { "NONE", "DRAFT" }
             /\ Snapshot(new) = Snapshot(old)
             /\ db' = [ db EXCEPT ![c] = new ]
<1> DEFINE old == db[c]
           s == old.sessions
           t == [ s EXCEPT ![d].count = @ + 1 ]
           new == [ old EXCEPT !.sessions = t ]
<1>1. RowOK(old, facts[c], apps[c]) /\ IsRow(old) /\ DOMAIN db = Codes
  BY DEF IInv, RowInv, RowOK, RowTypes
<1>2. db' = [ db EXCEPT ![c] = new ] /\ db'[c] = new
  BY <1>1 DEF ReserveSeat
<1>3. /\ d \in DOMAIN s /\ DOMAIN s \subseteq Districts /\ \A x \in DOMAIN s : s[x] \in Sessions
      /\ s = [ x \in DOMAIN s |-> s[x] ]
  BY <1>1 DEF ReserveSeat, RowOK, RowTypes
<1>4. s[d].active /\ (s[d].capacity = 0 \/ s[d].count < s[d].capacity)
  BY DEF ReserveSeat
<1>5. apps[c] \in Nat /\ apps[c] # 0
  <2>1. IsFiniteSet(SeatsTaken(c))
    <3>1. SeatsTaken(c) \subseteq Districts
      BY <1>3 DEF SeatsTaken
    <3> QED BY <3>1, FS_Subset DEF CampaignAssumption
  <2>2. Cardinality(SeatsTaken(c)) \in Nat
    BY <2>1, FS_CardinalityType
  <2>3. Cardinality(SeatsTaken(c)) < apps[c] /\ apps[c] \in Nat
    BY <1>1 DEF ReserveSeat, RowOK, SeatsOK
  <2> QED BY <2>2, <2>3
<1>6. old.status \notin { "NONE", "DRAFT", "CANCELLED" }
  BY <1>1, <1>5 DEF RowOK, SeatsOK
<1>7. /\ DOMAIN t = DOMAIN s /\ t = [ x \in DOMAIN s |-> t[x] ]
      /\ \A x \in DOMAIN s : /\ t[x] \in Sessions /\ t[x].date = s[x].date /\ t[x].capacity = s[x].capacity
                             /\ t[x].decision = s[x].decision /\ t[x].active = s[x].active
                             /\ t[x].count = IF x = d THEN s[x].count + 1 ELSE s[x].count
  <2>1. DOMAIN t = DOMAIN s /\ t = [ x \in DOMAIN s |-> t[x] ]
    OBVIOUS
  <2>2. t[d] = [ s[d] EXCEPT !.count = @ + 1 ] /\ \A x \in DOMAIN s : x # d => t[x] = s[x]
    BY <1>3
  <2>3. s[d] \in Sessions
    BY <1>3
  <2>4. /\ t[d] \in Sessions /\ t[d].date = s[d].date /\ t[d].capacity = s[d].capacity
        /\ t[d].decision = s[d].decision /\ t[d].active = s[d].active /\ t[d].count = s[d].count + 1
    BY <2>2, <2>3 DEF Sessions
  <2> HIDE DEF t
  <2> QED BY <2>1, <2>2, <2>4, <1>3
<1> HIDE DEF old, s, t
<1>8. /\ IsRow(new) /\ new.status = old.status /\ new.policies = old.policies /\ new.policy = old.policy
      /\ new.districts = old.districts /\ new.categories = old.categories
      /\ new.first = old.first /\ new.last = old.last
      /\ new.sessions = t /\ new.head = old.head /\ new.pub = old.pub /\ new.history = old.history
  BY <1>1 DEF IsRow
<1> HIDE DEF new
<1>9. Coverage(t) = Coverage(s)
  BY <1>7 DEF Coverage
<1>10. RowTypes(new) /\ HeadOK(new) /\ HistoryOK(new)
  <2>1. RowTypes(new)
    BY <1>1, <1>3, <1>7, <1>8 DEF RowOK, RowTypes
  <2>2. HeadOK(new)
    BY <1>1, <1>7, <1>8, <1>9 DEF RowOK, HeadOK, s
  <2> QED BY <2>1, <2>2, <1>1, <1>8 DEF RowOK, HistoryOK
<1>11. PublicationOK(new)
  BY <1>1, <1>7, <1>8 DEF RowOK, PublicationOK, InWindow, s
<1>12. SeatsOK(new, apps[c])
  <2>1. \A x \in DOMAIN s : s[x].capacity \in Nat /\ s[x].count \in Nat
    BY <1>3 DEF Sessions
  <2>2. \A x \in DOMAIN s : s[x].capacity = 0 \/ s[x].count <= s[x].capacity
    BY <1>1 DEF RowOK, SeatsOK, s
  <2>3. apps[c] \in 0..MaxApps
    BY <1>1 DEF RowOK, SeatsOK
  <2> QED BY <2>1, <2>2, <2>3, <1>3, <1>4, <1>5, <1>6, <1>7, <1>8 DEF SeatsOK
<1>13. RowOK(new, facts[c], apps[c])
  <2>1. Retold(facts[c], new)
    BY <1>1, <1>8 DEF RowOK, Retold, HeadVersion
  <2> QED BY <2>1, <1>1, <1>6, <1>8, <1>10, <1>11, <1>12 DEF RowOK
<1>14. Snapshot(new) = Snapshot(old)
  BY <1>8, <1>9 DEF Snapshot, NextVersion, HeadVersion, s
<1> QED BY <1>2, <1>6, <1>8, <1>13, <1>14 DEF old

LEMMA ReserveSeatKeeps ==
  ASSUME CampaignAssumption, IInv, NEW c \in Codes, NEW d \in Districts, ReserveSeat(c, d)
  PROVE  IInv'
<1>1. /\ RowOK(db'[c], facts[c], apps[c])
      /\ db'[c].status = db[c].status /\ db[c].status \notin { "NONE", "DRAFT" }
      /\ Snapshot(db'[c]) = Snapshot(db[c]) /\ db' = [ db EXCEPT ![c] = db'[c] ]
  BY SeatFacts
<1>2. UNCHANGED <<ledger, audits, facts, work, apps, filing>>
  BY DEF ReserveSeat, OthersUnchanged
<1>3. DOMAIN db = Codes /\ \A x \in Codes : x # c => db'[x] = db[x]
  BY <1>1 DEF IInv, RowInv
<1>4. WorkInv' /\ LedgerInv'
  BY <1>2 DEF IInv, WorkInv, LedgerInv, Req, Truthful
<1>5. RowInv'
  <2>1. \A x \in Codes : RowOK(db'[x], facts[x], apps[x])
    BY <1>1, <1>3 DEF IInv, RowInv
  <2>2. DOMAIN db' = Codes /\ db' = [ x \in Codes |-> db'[x] ]
    BY <1>1, <1>3
  <2> QED BY <1>2, <2>1, <2>2 DEF IInv, RowInv
<1>6. LockInv'
  <2>1. \A w \in Workers : (HoldsRow(w)' <=> HoldsRow(w)) /\ Req(w)' = Req(w)
    BY <1>2 DEF HoldsRow, Req
  <2>2. ASSUME NEW w \in Workers, HoldsRow(w)
        PROVE  /\ Row(w)'.status # "NONE"
               /\ work[w].pc # "inspect" =>
                    Inspection(Req(w), Row(w))' = None /\ work[w].seen = Snapshot(Row(w))'
    <3>1. Req(w) \in Requests /\ Req(w).code \in Codes /\ Req(w).op \in DraftOnlyOps \cup LifecycleOps
      BY <2>2 DEF IInv, WorkInv, HoldsRow, CampaignAssumption, Ops
    <3>2. /\ Row(w).status # "NONE"
          /\ work[w].pc # "inspect" => Inspection(Req(w), Row(w)) = None /\ work[w].seen = Snapshot(Row(w))
      BY <2>2 DEF IInv, LockInv
    <3>3. CASE Req(w).code # c
      <4>1. Row(w)' = Row(w)
        BY <3>1, <3>3, <2>1, <1>3 DEF Row
      <4>2. Inspection(Req(w), Row(w))' = Inspection(Req(w), Row(w)) /\ Snapshot(Row(w))' = Snapshot(Row(w))
        BY <4>1, <2>1
      <4> QED BY <3>2, <4>1, <4>2
    <3>4. CASE Req(w).code = c
      <4>1. Row(w) = db[c] /\ Row(w)' = db'[c]
        BY <3>4, <2>1 DEF Row
      <4>2. Snapshot(Row(w))' = Snapshot(Row(w))
        BY <4>1, <1>1
      <4>3. ASSUME work[w].pc # "inspect"
            PROVE  Inspection(Req(w), Row(w))' = None
        <5>1. None \notin ErrorCodes
          BY DEF CampaignAssumption
        <5>2. Req(w).op \in LifecycleOps
          <6>1. ~ Draft(Row(w))
            BY <1>1, <4>1 DEF Draft
          <6>2. Req(w).op \in DraftOnlyOps => Inspection(Req(w), Row(w)) # None
            <7> SUFFICES ASSUME Req(w).op \in DraftOnlyOps
                         PROVE  Inspection(Req(w), Row(w)) # None
              OBVIOUS
            <7>1. CASE Req(w).op = "publishCampaign"
              <8>1. Inspection(Req(w), Row(w)) = InspectPublication(Row(w))
                BY <7>1 DEF Inspection, LifecycleOps
              <8>2. InspectPublication(Row(w)) # None
                BY <5>1, <6>1 DEF InspectPublication, ErrorCodes
              <8> QED BY <8>1, <8>2
            <7>2. CASE Req(w).op = "createCampaignPolicyVersion"
              <8>1. Inspection(Req(w), Row(w)) = InspectPolicy(Row(w), Req(w).body)
                BY <7>2 DEF Inspection, LifecycleOps
              <8>2. InspectPolicy(Row(w), Req(w).body) # None
                BY <5>1, <6>1 DEF InspectPolicy, ErrorCodes
              <8> QED BY <8>1, <8>2
            <7>3. CASE Req(w).op = "configureCampaignSession"
              <8>1. Inspection(Req(w), Row(w)) = InspectSession(Row(w), Req(w).body)
                BY <7>3 DEF Inspection, LifecycleOps
              <8>2. InspectSession(Row(w), Req(w).body) # None
                BY <5>1, <6>1 DEF InspectSession, ErrorCodes
              <8> QED BY <8>1, <8>2
            <7> QED BY <7>1, <7>2, <7>3 DEF DraftOnlyOps
          <6> QED BY <6>2, <3>1, <3>2, <4>3
        <5>3. Inspection(Req(w), db[c]) = InspectLifecycle(c, db[c], Req(w).op)
          BY <5>2, <3>4 DEF Inspection, LifecycleOps
        <5>4. Inspection(Req(w), db'[c]) = InspectLifecycle(c, db'[c], Req(w).op)
          BY <5>2, <3>4 DEF Inspection, LifecycleOps
        <5>5. InspectLifecycle(c, db'[c], Req(w).op) = InspectLifecycle(c, db[c], Req(w).op)
          BY <1>1 DEF InspectLifecycle
        <5>6. Inspection(Req(w), Row(w))' = Inspection(Req(w), db'[c])
          BY <4>1, <2>1
        <5> QED BY <5>3, <5>4, <5>5, <5>6, <4>1, <4>3, <3>2
      <4> QED BY <4>1, <4>2, <4>3, <3>2, <1>1
    <3> QED BY <3>3, <3>4
  <2>3. \A x \in filing' : x \in Codes /\ db'[x].status = "REGISTRATION_OPEN" /\ apps'[x] < MaxApps
    BY <1>1, <1>2, <1>3 DEF IInv, LockInv
  <2> QED BY <1>2, <2>1, <2>2, <2>3 DEF IInv, LockInv
<1> QED BY <1>4, <1>5, <1>6 DEF IInv

----------------------------------------------------------------------------
(* The invariant *)

LEMMA InitIInv ==
  ASSUME CampaignAssumption, Init
  PROVE  IInv
<1>1. WorkInv
  BY DEF Init, WorkInv, Idle, IsWork, Steps
<1>2. LedgerInv
  BY DEF Init, LedgerInv, Idle
<1>3. LockInv
  BY DEF Init, LockInv, HoldsRow, Idle
<1>4. /\ IsRow(NoCampaign) /\ NoCampaign.policies = << >> /\ NoCampaign.policy = 0
      /\ NoCampaign.sessions = << >> /\ NoCampaign.head = None /\ NoCampaign.pub = None
      /\ NoCampaign.history = << >> /\ NoCampaign.status = "NONE"
  BY DEF NoCampaign, IsRow
<1>5. \A row : row.policies = << >> /\ row.head = None /\ row.history = << >> => Retold(NoFacts, row)
  BY DEF Retold, NoFacts, HeadVersion
<1>6. RowOK(NoCampaign, NoFacts, 0)
  <2>1. RowTypes(NoCampaign)
    BY <1>4 DEF RowTypes, Statuses
  <2>2. HeadOK(NoCampaign) /\ PublicationOK(NoCampaign) /\ HistoryOK(NoCampaign)
    BY <1>4 DEF HeadOK, PublicationOK, HistoryOK
  <2>3. SeatsOK(NoCampaign, 0)
    BY <1>4 DEF SeatsOK, CampaignAssumption
  <2> QED BY <2>1, <2>2, <2>3, <1>4, <1>5 DEF RowOK
<1>7. ASSUME NEW agency
      PROVE  RowOK(LegacyCampaign(agency), NoFacts, 0)
  <2> DEFINE row == [ NoCampaign EXCEPT !.status = "EXAMINATION_ACTIVE" ]
             old == [ row EXCEPT !.agency = agency ]
  <2>1. /\ IsRow(row) /\ row.policies = << >> /\ row.policy = 0 /\ row.sessions = << >>
        /\ row.head = None /\ row.pub = None /\ row.history = << >> /\ row.status = "EXAMINATION_ACTIVE"
    BY <1>4 DEF IsRow
  <2>2. LegacyCampaign(agency) = old
    BY DEF LegacyCampaign
  <2> HIDE DEF row
  <2>3. /\ IsRow(old) /\ old.policies = << >> /\ old.policy = 0 /\ old.sessions = << >>
        /\ old.head = None /\ old.pub = None /\ old.history = << >> /\ old.status = "EXAMINATION_ACTIVE"
    BY <2>1 DEF IsRow
  <2> HIDE DEF old
  <2>4. RowTypes(old)
    BY <2>3 DEF RowTypes, Statuses
  <2>5. HeadOK(old) /\ PublicationOK(old) /\ HistoryOK(old)
    BY <2>3 DEF HeadOK, PublicationOK, HistoryOK
  <2>6. SeatsOK(old, 0)
    BY <2>3 DEF SeatsOK, CampaignAssumption
  <2>7. RowOK(old, NoFacts, 0)
    BY <2>3, <2>4, <2>5, <2>6, <1>5 DEF RowOK
  <2> QED BY <2>2, <2>7
<1>8. RowInv
  <2>1. ASSUME NEW c \in Codes
        PROVE  RowOK(db[c], facts[c], apps[c])
    <3>1. facts[c] = NoFacts /\ apps[c] = 0
      BY DEF Init
    <3>2. db[c] = NoCampaign \/ db[c] = LegacyCampaign(Legacy[c])
      BY DEF Init
    <3> QED BY <3>1, <3>2, <1>6, <1>7
  <2> QED BY <2>1 DEF Init, RowInv
<1> QED BY <1>1, <1>2, <1>3, <1>8 DEF IInv

LEMMA NextIInv ==
  ASSUME CampaignAssumption, IInv, [Next]_vars
  PROVE  IInv'
<1>1. ASSUME NEW w \in Workers, Step(w)
      PROVE  IInv'
  BY <1>1, ReadReplayKeeps, LockCampaignKeeps, InspectKeeps, ClaimKeeps, WritesKeep, ReturnKeeps DEF Step
<1>2. ASSUME NEW w \in Workers, Crash(w)
      PROVE  IInv'
  BY <1>2, ReturnKeeps
<1>3. ASSUME NEW w \in Workers, NEW r \in Requests, Receive(w, r)
      PROVE  IInv'
  BY <1>3, ReceiveKeeps
<1>4. ASSUME NEW o \in Officers, Suspend(o)
      PROVE  IInv'
  BY <1>4, SuspendKeeps
<1>5. ASSUME NEW c \in Codes, BeginFiling(c) \/ EndFiling(c)
      PROVE  IInv'
  BY <1>5, FilingKeeps
<1>6. ASSUME NEW c \in Codes, NEW d \in Districts, ReserveSeat(c, d)
      PROVE  IInv'
  BY <1>6, ReserveSeatKeeps
<1>7. CASE UNCHANGED vars
  <2>1. UNCHANGED <<db, ledger, audits, facts, apps, filing, work>>
    BY <1>7 DEF vars
  <2>2. WorkInv' /\ LedgerInv' /\ RowInv'
    BY <2>1 DEF IInv, WorkInv, LedgerInv, RowInv, Req, Truthful
  <2>3. LockInv'
    BY <2>1 DEF IInv, LockInv, HoldsRow, Req, Row
  <2> QED BY <2>2, <2>3 DEF IInv
<1> QED BY <1>1, <1>2, <1>3, <1>4, <1>5, <1>6, <1>7 DEF Next

\* The rows, the locks, the stored answers and the announcements of the control
\* plane stay in step, for any campaigns, officers, commands and sessions.
THEOREM CampaignInvariance == ASSUME CampaignAssumption PROVE Spec => []IInv
BY InitIInv, NextIInv, PTL DEF Spec

----------------------------------------------------------------------------
(* What follows *)

\* A key stands for one command: audited once (the function writes the audit
\* entry with the stored answer), and answered the same to everybody.
THEOREM OneEffect == ASSUME CampaignAssumption PROVE Spec => []OneEffectPerKey
<1>1. IInv => OneEffectPerKey
  BY DEF IInv, LedgerInv, Truthful, OneEffectPerKey
<1> QED BY <1>1, CampaignInvariance, PTL

LEMMA RowsAreWhole ==
  ASSUME CampaignAssumption, IInv
  PROVE  CampaignsAreWhole
<1>1. ASSUME NEW c \in Codes
      PROVE  RowOK(db[c], facts[c], apps[c])
  BY DEF IInv, RowInv
<1>2. TypeOK
  BY <1>1 DEF TypeOK, RowOK, RowTypes, SeatsOK
<1>3. PublicationIsFrozen
  <2>1. ASSUME NEW c \in Codes, db[c].pub # None
        PROVE  /\ db[c].head = [ version |-> db[c].pub.version, hash |-> db[c].pub.hash ]
               /\ Coverage(db[c].sessions) = db[c].pub.hash
               /\ db[c].policy = db[c].pub.policy
    <3> DEFINE row == db[c]
    <3>1. HeadOK(row) /\ PublicationOK(row) /\ row.pub # None
      BY <2>1, <1>1 DEF RowOK
    <3> HIDE DEF row
    <3>2. /\ row.head = [ version |-> row.head.version, hash |-> Coverage(row.sessions) ]
          /\ row.pub = [ policy |-> row.policy, version |-> row.head.version, hash |-> row.head.hash ]
      BY <3>1 DEF PublicationOK, HeadOK
    <3>3. /\ row.pub.policy = row.policy /\ row.pub.version = row.head.version
          /\ row.pub.hash = row.head.hash /\ row.head.hash = Coverage(row.sessions)
      BY <3>2
    <3>4. row.head = [ version |-> row.pub.version, hash |-> row.pub.hash ]
      BY <3>2, <3>3
    <3> QED BY <3>3, <3>4 DEF row
  <2> QED BY <2>1 DEF PublicationIsFrozen
<1>4. VisibleIsComplete
  <2>1. ASSUME NEW c \in Codes, Visible(db[c])
        PROVE  LET row == db[c] IN
               /\ DOMAIN row.sessions = row.districts
               /\ \A d \in row.districts : row.sessions[d].active /\ InWindow(row, row.sessions[d].date)
               /\ row.policy # 0 /\ row.policies[row.policy].categories = row.categories
    <3> DEFINE row == db[c]
    <3>1. RowOK(row, facts[c], apps[c]) /\ row.pub # None
      BY <2>1, <1>1 DEF Visible
    <3>2. row.policy \in 0..Len(row.policies) /\ row.policy # 0 /\ DOMAIN row.policies = 1..Len(row.policies)
            /\ Len(row.policies) \in Nat
      BY <3>1 DEF RowOK, RowTypes, PublicationOK
    <3>3. row.policy \in DOMAIN row.policies
      BY <3>2
    <3> QED BY <3>1, <3>2, <3>3 DEF RowOK, PublicationOK
  <2> QED BY <2>1 DEF VisibleIsComplete
<1>5. FactsRetellTheRows
  BY <1>1 DEF FactsRetellTheRows, RowOK, Retold
<1> QED BY <1>2, <1>3, <1>4, <1>5 DEF CampaignsAreWhole

\* A campaign is whole: its rows are sound and no session is overbooked, what
\* is published is complete and stays as published, and the announcements
\* retell it (the functions of rls/0026 and 0027 and their triggers).
THEOREM WholeCampaigns == ASSUME CampaignAssumption PROVE Spec => []CampaignsAreWhole
BY RowsAreWhole, CampaignInvariance, PTL

\* The sessions that execute commands wait in one order: a session waits for its
\* row before it holds anything, and for its key when it holds its row.
LEMMA NoCircle ==
  ASSUME IInv
  PROVE  NobodyWaitsInACircle
<1> SUFFICES ASSUME NEW S \in SUBSET { w \in Workers : work[w].pc # "idle" }, S # {},
                    \A w \in S : WaitsFor(w) \cap S # {}
             PROVE  FALSE
  BY DEF NobodyWaitsInACircle
<1>1. ASSUME NEW w \in S
      PROVE  /\ work[w].pc \in { "lock", "claim" }
             /\ work[w].pc = "lock" => \E v \in S : work[v].pc \in { "inspect", "claim", "commit" }
             /\ work[w].pc = "claim" => \E v \in S : work[v].pc = "commit"
  BY DEF WaitsFor, RowHolders, KeyHolders
<1>2. PICK u \in S : TRUE
  OBVIOUS
<1>3. PICK v \in S : work[v].pc = "claim"
  BY <1>1, <1>2
<1> QED BY <1>1, <1>3

\* The locks serialise commands and filings: nothing read under them goes stale,
\* no trigger has to stop a command, no application is filed past a cancellation
\* (lock_campaign_for_application_insert against the row lock of the command),
\* and nobody waits in a circle.
THEOREM SerialCommands == ASSUME CampaignAssumption PROVE Spec => []CommandsSerialise
<1>1. IInv => CommandsSerialise
  <2> SUFFICES ASSUME IInv
               PROVE  CommandsSerialise
    OBVIOUS
  <2>1. NothingMovesUnderTheLock
    BY DEF IInv, LedgerInv, Truthful, Stale, NothingMovesUnderTheLock
  <2>2. CancelledIsEmpty
    <3>1. ASSUME NEW c \in Codes, db[c].status = "CANCELLED"
          PROVE  apps[c] = 0 /\ c \notin filing
      BY <3>1 DEF IInv, RowInv, RowOK, SeatsOK, LockInv
    <3> QED BY <3>1 DEF CancelledIsEmpty
  <2> QED BY <2>1, <2>2, NoCircle DEF CommandsSerialise
<1> QED BY <1>1, CampaignInvariance, PTL
=============================================================================
