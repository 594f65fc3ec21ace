----------------------------- MODULE Submission -----------------------------
(***************************************************************************)
(* The digital front door: how one citizen's submissions to one campaign   *)
(* are filed exactly once (submit-application.service.ts, the submission   *)
(* ledger and the shared insert primitives).                               *)
(*                                                                         *)
(* A delivery is one execution of submit(): a retry after a lost response  *)
(* is another delivery of the same idempotency key and the same body.      *)
(* Every database statement is a step of its own, because the transactions *)
(* run at READ COMMITTED: each statement sees what has committed by then.  *)
(* Between its first and its last write a transaction holds two things     *)
(* others wait for, the uncommitted ledger row of its key and the          *)
(* uncommitted application row of its intent.                              *)
(*                                                                         *)
(* The citizen's application filed by delivery d is identified with d.     *)
(***************************************************************************)
EXTENDS Naturals, FiniteSets

CONSTANTS
  Deliveries,   \* executions of submit()
  KeyOf,        \* the idempotency key of each delivery (a random one if keyless)
  Keyless,      \* deliveries whose caller sent no key
  BodyOf,       \* the canonical request hash of each delivery
  IntentOf,     \* (campaign, category) each body asks for
  Nothing

Keys == { KeyOf[d] : d \in Deliveries }
Bodies == { BodyOf[d] : d \in Deliveries }

\* A ledger row records the body's hash and the identifiers first answered.
LedgerRow == [body : Bodies, app : Deliveries]

\* The outcomes; app names the application returned to the caller.
Reply ==
  [kind : { "SUBMITTED", "REPLAYED", "ALREADY_APPLIED" }, app : Deliveries]
    \cup [kind : { "KEY_REUSED", "IDENTITY_NOT_VERIFIED", "NO_OPEN_CAMPAIGN", "FAULT" },
          app : { Nothing }]

ASSUME SubmissionAssumption ==
  /\ Keyless \subseteq Deliveries
  /\ DOMAIN KeyOf = Deliveries /\ DOMAIN BodyOf = Deliveries
  /\ DOMAIN IntentOf = Bodies
  /\ \A d \in Keyless, e \in Deliveries : KeyOf[d] = KeyOf[e] => d = e
  /\ Nothing \notin Deliveries \cup LedgerRow

VARIABLES
  pc,        \* the next statement of each delivery
  found,     \* the live application step 2 found
  reply,     \* what the caller is told
  ledger,    \* committed rows of submission_requests, by key
  app,       \* the application each delivery filed
  announced, \* applications with a staged APPLICANT_SUBMITTED
  campaign,  \* registration: open, past its window, or closed/cancelled
  verified,  \* the applicant's identity is VERIFIED
  known      \* history: the key was in the ledger when the delivery arrived

submissionVars == <<pc, found, reply, ledger, app, announced, campaign, verified, known>>
database == <<ledger, app, announced>>
outside == <<campaign, verified>>

Steps == { "idle", "resolveKey", "identity", "campaign", "seen", "live", "raced",
           "claim", "insert", "commit", "duplicate", "done" }

Intent(d) == IntentOf[BodyOf[d]]

\* Deliveries inside the transaction with their ledger row written, and with
\* their application row written too.
HoldsKey(d) == pc[d] \in { "insert", "commit" }
HoldsIntent(d) == pc[d] = "commit"

\* Mutant: the claim on the key outlives the transaction.
MutKeyHeld(d) == \E e \in Deliveries \ {d} :
  KeyOf[e] = KeyOf[d] /\ (HoldsKey(e) \/ pc[e] = "done")

\* The speculative insert of another delivery of this key is uncommitted.
KeyHeld(d) == \E e \in Deliveries \ {d} : KeyOf[e] = KeyOf[d] /\ HoldsKey(e)

\* The live-intent index makes the insert wait for an uncommitted row.
IntentHeld(d) == \E e \in Deliveries \ {d} : Intent(e) = Intent(d) /\ HoldsIntent(e)

\* findLiveApplication: status <> 'WITHDRAWN', as in the index's predicate.
LiveApplications(d) == { e \in Deliveries : app[e] = "LIVE" /\ Intent(e) = Intent(d) }

Seen(d) == ledger[KeyOf[d]] # Nothing

\* replayOrRefuse
ReplayOrRefuse(d) ==
  IF ledger[KeyOf[d]].body # BodyOf[d]
    THEN [kind |-> "KEY_REUSED", app |-> Nothing]
    ELSE [kind |-> "REPLAYED", app |-> ledger[KeyOf[d]].app]

SubmissionInit ==
  /\ pc = [d \in Deliveries |-> "idle"]
  /\ found = [d \in Deliveries |-> Nothing]
  /\ reply = [d \in Deliveries |-> Nothing]
  /\ ledger = [k \in Keys |-> Nothing]
  /\ app = [d \in Deliveries |-> "NONE"]
  /\ announced = {}
  /\ campaign = "OPEN"
  /\ verified = TRUE
  /\ known = [d \in Deliveries |-> FALSE]

\* The control flow of delivery d: answer it, or go on to the next statement.
Answer(d, r) ==
  /\ reply' = [reply EXCEPT ![d] = r]
  /\ pc' = [pc EXCEPT ![d] = "done"]

GoTo(d, step) ==
  /\ pc' = [pc EXCEPT ![d] = step]
  /\ UNCHANGED reply

Refuse(d, kind) == Answer(d, [kind |-> kind, app |-> Nothing])

----------------------------------------------------------------------------
(* submit(), before the transaction *)

\* The request arrives.  A keyless caller skips the ledger pre-check.
Receive(d) ==
  /\ pc[d] = "idle"
  /\ GoTo(d, IF d \in Keyless THEN "identity" ELSE "resolveKey")
  /\ known' = [known EXCEPT ![d] = Seen(d)]
  /\ UNCHANGED <<found, database, outside>>

\* A key already answered is answered from the ledger alone.
ResolveKey(d) ==
  /\ pc[d] = "resolveKey"
  /\ IF Seen(d) THEN Answer(d, ReplayOrRefuse(d)) ELSE GoTo(d, "identity")
  /\ UNCHANGED <<found, database, outside, known>>

ReadIdentity(d) ==
  /\ pc[d] = "identity"
  /\ IF verified THEN GoTo(d, "campaign") ELSE Refuse(d, "IDENTITY_NOT_VERIFIED")
  /\ UNCHANGED <<found, database, outside, known>>

\* The reader wants the status open and the registration window to contain now.
FindOpenCampaign(d) ==
  /\ pc[d] = "campaign"
  /\ IF campaign = "OPEN" THEN GoTo(d, "seen") ELSE Refuse(d, "NO_OPEN_CAMPAIGN")
  /\ UNCHANGED <<found, database, outside, known>>

----------------------------------------------------------------------------
(* recordSubmission(), one transaction *)

\* 1. A key we have already answered.
LookUpKey(d) ==
  /\ pc[d] = "seen"
  /\ IF Seen(d) THEN Answer(d, ReplayOrRefuse(d)) ELSE GoTo(d, "live")
  /\ UNCHANGED <<found, database, outside, known>>

\* 2. A live application under some other key.
FindLiveApplication(d) ==
  /\ pc[d] = "live"
  /\ \/ /\ LiveApplications(d) = {}
        /\ GoTo(d, "claim")
        /\ UNCHANGED found
     \/ \E e \in LiveApplications(d) :
        /\ found' = [found EXCEPT ![d] = e]
        /\ GoTo(d, "raced")
  /\ UNCHANGED <<database, outside, known>>

\* Mutant: the key is not read again.
MutRereadKey(d) ==
  /\ pc[d] = "raced"
  /\ Answer(d, [kind |-> "ALREADY_APPLIED", app |-> found[d]])
  /\ UNCHANGED <<found, database, outside, known>>

\* ... unless this very request was filed since step 1.
RereadKey(d) ==
  /\ pc[d] = "raced"
  /\ Answer(d, IF Seen(d) THEN ReplayOrRefuse(d)
               ELSE [kind |-> "ALREADY_APPLIED", app |-> found[d]])
  /\ UNCHANGED <<found, database, outside, known>>

\* Mutant: the ledger row is written whatever was committed while waiting.
MutClaimKey(d) ==
  /\ pc[d] = "claim"
  /\ ~KeyHeld(d)
  /\ GoTo(d, "insert")
  /\ UNCHANGED <<found, database, outside, known>>

\* 3. INSERT the ledger row, ON CONFLICT DO NOTHING: the serialisation point.
\* The insert waits for an uncommitted row of the same key.
ClaimKey(d) ==
  /\ pc[d] = "claim"
  /\ ~KeyHeld(d)
  /\ IF Seen(d) THEN Answer(d, ReplayOrRefuse(d)) ELSE GoTo(d, "insert")
  /\ UNCHANGED <<found, database, outside, known>>

\* Mutant: the campaign row is not locked and checked again.
MutInsertApplication(d) ==
  /\ pc[d] = "insert"
  /\ ~IntentHeld(d)
  /\ GoTo(d, IF LiveApplications(d) = {} THEN "commit" ELSE "duplicate")
  /\ UNCHANGED <<found, database, outside, known>>

\* 4. Lock the campaign FOR SHARE and INSERT the application.  A closed
\* campaign or a second live application ends the transaction: the ledger row
\* goes with it.
InsertApplication(d) ==
  /\ pc[d] = "insert"
  /\ ~IntentHeld(d)
  /\ IF campaign = "CLOSED" THEN Refuse(d, "NO_OPEN_CAMPAIGN")
     ELSE GoTo(d, IF LiveApplications(d) = {} THEN "commit" ELSE "duplicate")
  /\ UNCHANGED <<found, database, outside, known>>

\* 5. Stage APPLICANT_SUBMITTED and commit all three rows.
CommitSubmission(d) ==
  /\ pc[d] = "commit"
  /\ ledger' = [ledger EXCEPT ![KeyOf[d]] = [body |-> BodyOf[d], app |-> d]]
  /\ app' = [app EXCEPT ![d] = "LIVE"]
  /\ announced' = announced \cup {d}
  /\ Answer(d, [kind |-> "SUBMITTED", app |-> d])
  /\ UNCHANGED <<found, outside, known>>

\* The engine refused a second live application: name the winner, in a fresh
\* transaction.
ResolveLiveDuplicate(d) ==
  /\ pc[d] = "duplicate"
  /\ \/ LiveApplications(d) = {} /\ Refuse(d, "FAULT")
     \/ \E e \in LiveApplications(d) :
          Answer(d, [kind |-> "ALREADY_APPLIED", app |-> e])
  /\ UNCHANGED <<found, database, outside, known>>

\* A statement fails or the process dies: the transaction is rolled back.
Fail(d) ==
  /\ pc[d] \notin { "idle", "done" }
  /\ Refuse(d, "FAULT")
  /\ UNCHANGED <<found, database, outside, known>>

----------------------------------------------------------------------------
(* Around the front door *)

\* The citizen withdraws an application (and may then apply again).
Withdraw(d) ==
  /\ app[d] = "LIVE"
  /\ app' = [app EXCEPT ![d] = "WITHDRAWN"]
  /\ UNCHANGED <<pc, found, reply, ledger, announced, outside, known>>

WindowLapses ==
  /\ campaign = "OPEN"
  /\ campaign' = "LAPSED"
  /\ UNCHANGED <<pc, found, reply, database, verified, known>>

\* Registration close or cancellation takes the campaign row FOR UPDATE, so it
\* waits for the inserts that hold it FOR SHARE.
CloseCampaign ==
  /\ campaign # "CLOSED"
  /\ \A d \in Deliveries : ~HoldsIntent(d)
  /\ campaign' = "CLOSED"
  /\ UNCHANGED <<pc, found, reply, database, verified, known>>

IdentityChanges ==
  /\ verified' = ~verified
  /\ UNCHANGED <<pc, found, reply, database, campaign, known>>

Advance(d) ==
  \/ ResolveKey(d) \/ ReadIdentity(d) \/ FindOpenCampaign(d)
  \/ LookUpKey(d) \/ FindLiveApplication(d) \/ RereadKey(d)
  \/ ClaimKey(d) \/ InsertApplication(d) \/ CommitSubmission(d)
  \/ ResolveLiveDuplicate(d)

SubmissionNext ==
  \/ \E d \in Deliveries : Receive(d) \/ Advance(d) \/ Fail(d) \/ Withdraw(d)
  \/ WindowLapses \/ CloseCampaign \/ IdentityChanges

SubmissionSpec == SubmissionInit /\ [][SubmissionNext]_submissionVars

\* A request being served is driven on by its own process.
FairSubmission == SubmissionSpec /\ \A d \in Deliveries : WF_submissionVars(Advance(d))

----------------------------------------------------------------------------
(* Properties *)

\* Control state, answers and tables keep their types.
SubmissionTypeOK ==
  /\ pc \in [Deliveries -> Steps]
  /\ found \in [Deliveries -> Deliveries \cup { Nothing }]
  /\ reply \in [Deliveries -> Reply \cup { Nothing }]
  /\ ledger \in [Keys -> LedgerRow \cup { Nothing }]
  /\ app \in [Deliveries -> { "NONE", "LIVE", "WITHDRAWN" }]
  /\ announced \subseteq Deliveries
  /\ campaign \in { "OPEN", "LAPSED", "CLOSED" }
  /\ verified \in BOOLEAN
  /\ known \in [Deliveries -> BOOLEAN]

\* One key files at most one application, ever: not after a retry, not by
\* concurrent deliveries, not after the first filing was withdrawn (the
\* ledger-first order of recordSubmission).
KeyFilesOnce ==
  \A d, e \in Deliveries :
    KeyOf[d] = KeyOf[e] /\ app[d] # "NONE" /\ app[e] # "NONE" => d = e

\* At most one live application per citizen, campaign and category, also when
\* different keys race past the pre-check of step 2.
OneLivePerIntent ==
  \A d, e \in Deliveries :
    Intent(d) = Intent(e) /\ app[d] = "LIVE" /\ app[e] = "LIVE" => d = e

\* A retry is a question about the past: whoever asks again with a key already
\* in the ledger gets the first answer, whatever happened meanwhile to the
\* campaign, the identity or the application.
RetryIsReplayed ==
  \A d \in Deliveries \ Keyless :
    known[d] /\ pc[d] = "done" /\ reply[d].kind # "FAULT"
      => reply[d] = ReplayOrRefuse(d)

\* A request whose pre-check meets the live application of its own twin gets
\* its own result, and is never told that somebody else applied.  (The answer
\* after a lost insert does not read the key again and promises less.)
RacingRetryGetsItsOwn ==
  \A d \in Deliveries :
    found[d] # Nothing /\ reply[d] # Nothing /\ reply[d].kind = "ALREADY_APPLIED"
      => KeyOf[reply[d].app] # KeyOf[d]

\* No application is filed after registration closed or the campaign was
\* cancelled: the insert and the close serialise on the campaign row.
NothingFiledAfterClose ==
  [][campaign = "CLOSED" =>
       \A d \in Deliveries : app[d] = "NONE" => app'[d] = "NONE"]_submissionVars

\* No two submissions wait for each other: every request is answered.
EveryRequestAnswered ==
  \A d \in Deliveries : pc[d] # "idle" ~> pc[d] = "done"

\* A key files once, and an intent has one live application, in every race of
\* deliveries.
OneFiling == KeyFilesOnce /\ OneLivePerIntent

\* Whoever asks again, later or at the same moment, gets the result of the
\* request's own key.
RetriesGetTheirOwn == RetryIsReplayed /\ RacingRetryGetsItsOwn
=============================================================================
