------------------------------ MODULE Redrive ------------------------------
(***************************************************************************)
(* event-redrive-service and the consumer boundary it repairs.             *)
(*                                                                         *)
(* A consumer that cannot handle an event writes it to the dead-letter     *)
(* topic and moves on (kafka-bus.ts).  A worker registers the letters in a *)
(* ledger, republishes the due ones on a schedule with a budget, and parks *)
(* what it gives up (redrive-dead-letters.service.ts).  A republished      *)
(* event that fails again is a new letter, which inherits what its event   *)
(* has spent.                                                              *)
(*                                                                         *)
(* One consumer group, one source topic and one dead-letter partition.     *)
(* Workers may crash, and any database or broker call may fail; each such  *)
(* fault is counted, and MaxFaults bounds them.                            *)
(***************************************************************************)
EXTENDS Integers, Sequences, FiniteSets, FiniteSetsExt

CONSTANTS
  Workers,     \* processes of event-redrive-service
  Events,      \* events on the source topic
  FailsAs,     \* the dead-letter reason of each, should its handler fail
  Budget,      \* length of the schedule delaysMs
  Threshold,   \* groupFailureThreshold
  MaxPerTick,
  MaxFaults,   \* bound on crashes, refused calls and lost commits
  None

ASSUME RedriveAssumption ==
  /\ FailsAs \in [Events -> { "HANDLER_FAILED", "NON_RETRYABLE", "UNDECODABLE" }]
  /\ Budget \in Nat \ {0}
  /\ Threshold \in Nat \ {0}
  /\ MaxPerTick \in Nat \ {0}
  /\ MaxFaults \in Nat
  /\ None \notin Workers

VARIABLES
  topic,      \* copies of each event the consumer has yet to settle
  handled,    \* events whose handler succeeded
  letters,    \* the dead-letter topic: the event of each letter
  row,        \* event_redrive_ledger; the cursor is its length (one transaction)
  holder,     \* the worker whose session holds the advisory lock
  leads,      \* workers that believe to lead
  pc,         \* where each worker is in its tick
  scanned,    \* end of the worker's pass over the dead-letter topic
  claim,      \* claimed letters it has still to go through: offset -> row as read
  at,         \* the letter at hand
  signalled,  \* letters announced on the parked topic
  replays,    \* history: republishes of each event
  faults

consumer == <<topic, handled, letters>>
leader == <<holder, leads>>
tick == <<pc, scanned, claim, at>>
vars == <<topic, handled, letters, row, holder, leads, pc, scanned, claim, at,
          signalled, replays, faults>>

RowStates == { "RETRYING", "REDRIVEN", "PARKED" }
ParkReasons == { "ATTEMPTS_EXHAUSTED", "NON_RETRYABLE", "UNDECODABLE", "REPEATED_FAILURE" }
Rows == [state : RowStates, attempts : Nat, streak : Nat, due : BOOLEAN,
         why : ParkReasons \cup { None }]

Retryable(e) == FailsAs[e] = "HANDLER_FAILED"

Fault == faults < MaxFaults /\ faults' = faults + 1

Init ==
  /\ topic = [e \in Events |-> 1]
  /\ handled = {} /\ letters = <<>> /\ row = <<>>
  /\ holder = None /\ leads = {}
  /\ pc = [w \in Workers |-> "down"]
  /\ scanned = [w \in Workers |-> 0]
  /\ claim = [w \in Workers |-> <<>>]
  /\ at = [w \in Workers |-> 0]
  /\ signalled = {}
  /\ replays = [e \in Events |-> 0]
  /\ faults = 0

----------------------------------------------------------------------------
(* The consumer: eachMessage, with its retries in process *)

\* The offset is committed on return; a lost commit leaves the message.
Settle(e, committed) ==
  IF committed THEN topic' = [topic EXCEPT ![e] = @ - 1] /\ UNCHANGED faults
               ELSE Fault /\ UNCHANGED topic

Handle(e, committed) ==
  /\ topic[e] > 0
  /\ Retryable(e)
  /\ handled' = handled \cup {e}
  /\ Settle(e, committed)
  /\ UNCHANGED <<letters, row, leader, tick, signalled, replays>>

\* The bytes do not decode, the handler refuses for good, or its attempts are
\* spent.  Should the write to the dead-letter topic fail, nothing has changed.
DeadLetter(e, committed) ==
  /\ topic[e] > 0
  /\ letters' = Append(letters, e)
  /\ Settle(e, committed)
  /\ UNCHANGED <<handled, row, leader, tick, signalled, replays>>

----------------------------------------------------------------------------
(* worker.ts: the process and its leadership *)

\* The lock is tried once, at start; without it the worker stands by for good.
Start(w) ==
  /\ pc[w] = "down"
  /\ IF holder = None
       THEN /\ holder' = w /\ leads' = leads \cup {w}
            /\ pc' = [pc EXCEPT ![w] = "idle"]
       ELSE /\ pc' = [pc EXCEPT ![w] = "standby"]
            /\ UNCHANGED leader
  /\ UNCHANGED <<consumer, row, scanned, claim, at, signalled, replays, faults>>

Released(w) == IF holder = w THEN None ELSE holder

\* The session lock lives on a pooled connection, which the pool closes when
\* it has been idle for a while.
Recycle(w) ==
  /\ holder = w
  /\ holder' = None
  /\ UNCHANGED <<consumer, row, leads, tick, signalled, replays, faults>>

\* A shutdown: no more ticks start, one that runs goes on.  The unlock goes out
\* on any connection of the pool, and only the session that locked can unlock.
Stop(w) ==
  /\ w \in leads
  /\ holder' \in { holder, Released(w) }
  /\ leads' = leads \ {w}
  /\ Fault
  /\ UNCHANGED <<consumer, row, tick, signalled, replays>>

\* The stopped process ends, and its sessions with it.
Exit(w) ==
  /\ pc[w] = "idle"
  /\ w \notin leads
  /\ pc' = [pc EXCEPT ![w] = "down"]
  /\ holder' = Released(w)
  /\ UNCHANGED <<consumer, row, leads, scanned, claim, at, signalled, replays, faults>>

\* The letters it claimed stay in the ledger.
AbandonTick(w, step) ==
  /\ pc' = [pc EXCEPT ![w] = step]
  /\ claim' = [claim EXCEPT ![w] = <<>>]
  /\ UNCHANGED <<scanned, at>>

Crash(w) ==
  /\ pc[w] # "down"
  /\ Fault
  /\ AbandonTick(w, "down")
  /\ holder' = Released(w)
  /\ leads' = leads \ {w}
  /\ UNCHANGED <<consumer, row, signalled, replays>>

\* A call throws: the tick ends there, the next one starts from the ledger.
TickFails(w) ==
  /\ pc[w] \notin { "down", "standby", "idle" }
  /\ Fault
  /\ AbandonTick(w, "idle")
  /\ UNCHANGED <<consumer, row, leader, signalled, replays>>

----------------------------------------------------------------------------
(* tick(): intake and claim *)

GoTo(w, step) ==
  /\ pc' = [pc EXCEPT ![w] = step]
  /\ UNCHANGED <<consumer, leader, signalled, replays, faults>>

\* The end of a pass: a snapshot of the topic, at most four ticks' worth of letters.
PassEnd == Min({ Len(letters), Len(row) + 4 * MaxPerTick })

\* readCursor and scanNew.
ScanNew(w) ==
  /\ pc[w] = "idle"
  /\ w \in leads
  /\ scanned' = [scanned EXCEPT ![w] = PassEnd]
  /\ GoTo(w, "intake")
  /\ UNCHANGED <<row, claim, at>>

\* The pass times out, or its consumer fails: what it has seen counts.
ScanCutShort(w) ==
  /\ pc[w] = "idle"
  /\ w \in leads
  /\ \E n \in Len(row)..PassEnd : scanned' = [scanned EXCEPT ![w] = n]
  /\ pc' = [pc EXCEPT ![w] = "intake"]
  /\ Fault
  /\ UNCHANGED <<consumer, leader, signalled, replays, row, claim, at>>

\* Mutant: a returning event starts afresh.
MutPriorAttempts(e) == 0

\* What the event has spent on its earlier letters.  Bytes that do not decode
\* carry no event id.
PriorAttempts(e) ==
  IF FailsAs[e] = "UNDECODABLE" THEN 0
  ELSE Max({ row[o].attempts : o \in { p \in DOMAIN row : letters[p] = e } } \cup {0})

\* firstDueAtMs: what cannot be retried is due now, to be parked.
NewRow(e) ==
  [state |-> "RETRYING", attempts |-> PriorAttempts(e), streak |-> 0,
   due |-> ~Retryable(e) \/ PriorAttempts(e) >= Budget, why |-> None]

\* Rows and cursor in one transaction.  A letter another worker registered
\* meanwhile is left alone.
Intake(w) ==
  /\ pc[w] = "intake"
  /\ row' = IF scanned[w] <= Len(row) THEN row
            ELSE [o \in 1..scanned[w] |-> IF o \in DOMAIN row THEN row[o] ELSE NewRow(letters[o])]
  /\ GoTo(w, "claim")
  /\ UNCHANGED <<scanned, claim, at>>

\* A failed intake is logged, and the tick goes on.
IntakeFails(w) ==
  /\ pc[w] = "intake"
  /\ Fault
  /\ pc' = [pc EXCEPT ![w] = "claim"]
  /\ UNCHANGED <<consumer, row, leader, scanned, claim, at, signalled, replays>>

\* Mutant: a spent row is not looked at again.
MutDue(o) == row[o].state = "RETRYING" /\ row[o].due /\ row[o].attempts < Budget

Due(o) == row[o].state = "RETRYING" /\ row[o].due

\* claimDue: the row locks end with its transaction.
ClaimDue(w) ==
  /\ pc[w] = "claim"
  /\ LET D == { o \in DOMAIN row : Due(o) }
     IN  \E C \in SUBSET D :
           /\ Cardinality(C) = Min({ Cardinality(D), MaxPerTick })
           /\ claim' = [claim EXCEPT ![w] = [o \in C |-> row[o]]]
           /\ GoTo(w, IF C = {} THEN "idle" ELSE "work")
  /\ UNCHANGED <<row, scanned, at>>

----------------------------------------------------------------------------
(* What the ledger's statements do to a row *)

Parked(r, reason) == [r EXCEPT !.state = "PARKED", !.why = reason]
Succeeded(r) == [r EXCEPT !.state = "REDRIVEN", !.attempts = r.attempts + 1, !.streak = 0]
Refused(r) == [r EXCEPT !.attempts = r.attempts + 1, !.streak = r.streak + 1, !.due = FALSE]
Inherited(r) == [r EXCEPT !.streak = r.streak + 1]

----------------------------------------------------------------------------
(* tick(): the claimed letters, one by one *)

\* The policy, on the row as it was claimed; the order of the tests matters.
DecideRedrive(e, entry) ==
  IF ~Retryable(e) THEN FailsAs[e]
  ELSE IF entry.streak >= Threshold THEN "REPEATED_FAILURE"
  ELSE IF entry.attempts >= Budget THEN "ATTEMPTS_EXHAUSTED"
  ELSE "REDRIVE"

Decision(w, o) == DecideRedrive(letters[o], claim[w][o])

At(w, o) == pc[w] = "work" /\ o \in DOMAIN claim[w]

\* On to the next letter, or the end of the tick.
NextLetter(w) ==
  LET rest == DOMAIN claim[w] \ { at[w] }
  IN  /\ claim' = [claim EXCEPT ![w] = [o \in rest |-> claim[w][o]]]
      /\ pc' = [pc EXCEPT ![w] = IF rest = {} THEN "idle" ELSE "work"]
      /\ UNCHANGED <<scanned, at>>

Pick(w, o, step) ==
  /\ At(w, o)
  /\ pc' = [pc EXCEPT ![w] = step]
  /\ at' = [at EXCEPT ![w] = o]
  /\ UNCHANGED <<scanned, claim>>

\* A row that is no longer RETRYING is left alone.
ParkRow(o, reason) ==
  row' = IF row[o].state = "RETRYING"
           THEN [row EXCEPT ![o] = Parked(row[o], reason)] ELSE row

Park(w, o) ==
  /\ Decision(w, o) # "REDRIVE"
  /\ Pick(w, o, "signal")
  /\ ParkRow(o, Decision(w, o))
  /\ UNCHANGED <<consumer, leader, signalled, replays, faults>>

\* fetchBatch did not come across the letter: gone, or the pass was cut short.
ParkMissing(w, o) ==
  /\ Decision(w, o) = "REDRIVE"
  /\ Pick(w, o, "signal")
  /\ ParkRow(o, "ATTEMPTS_EXHAUSTED")
  /\ UNCHANGED <<consumer, leader, signalled, replays, faults>>

\* Announced after the park and not with it.
ParkSignal(w) ==
  /\ pc[w] = "signal"
  /\ signalled' = signalled \cup { at[w] }
  /\ NextLetter(w)
  /\ UNCHANGED <<consumer, row, leader, replays, faults>>

Republished(e) ==
  /\ topic' = [topic EXCEPT ![e] = @ + 1]
  /\ replays' = [replays EXCEPT ![e] = @ + 1]
  /\ UNCHANGED <<handled, letters>>

Replay(w, o) ==
  /\ Decision(w, o) = "REDRIVE"
  /\ Pick(w, o, "replayed")
  /\ Republished(letters[o])
  /\ UNCHANGED <<row, leader, signalled, faults>>

\* The broker refuses, or it accepts and the acknowledgement is lost.
ReplayFails(w, o, published) ==
  /\ Decision(w, o) = "REDRIVE"
  /\ Pick(w, o, "refused")
  /\ IF published THEN Republished(letters[o]) /\ Fault
                  ELSE UNCHANGED <<consumer, replays, faults>>
  /\ UNCHANGED <<row, leader, signalled>>

\* Mutant: a refused republish counts as a success.
MutRecordSuccess(w) ==
  /\ pc[w] \in { "replayed", "refused" }
  /\ row[at[w]].state # "PARKED"
  /\ row' = [row EXCEPT ![at[w]] = Succeeded(row[at[w]])]
  /\ NextLetter(w)
  /\ UNCHANGED <<consumer, leader, signalled, replays, faults>>

\* recordSuccess has no state of its own to check, but a row parked meanwhile
\* keeps its reason, and ck_event_redrive_parked refuses the update.
RecordSuccess(w) ==
  /\ pc[w] = "replayed"
  /\ IF row[at[w]].state = "PARKED"
       THEN UNCHANGED row /\ AbandonTick(w, "idle")
       ELSE /\ row' = [row EXCEPT ![at[w]] = Succeeded(row[at[w]])]
            /\ NextLetter(w)
  /\ UNCHANGED <<consumer, leader, signalled, replays, faults>>

\* recordFailure, first transaction: the letter and its next date.
RecordFailure(w) ==
  /\ pc[w] = "refused"
  /\ row' = [row EXCEPT ![at[w]] = Refused(row[at[w]])]
  /\ GoTo(w, "spread")
  /\ UNCHANGED <<scanned, claim, at>>

\* Second transaction: the group's other letters inherit the failure.
SpreadFailure(w) ==
  /\ pc[w] = "spread"
  /\ row' = [o \in DOMAIN row |->
               IF o # at[w] /\ row[o].state = "RETRYING"
                 THEN Inherited(row[o]) ELSE row[o]]
  /\ NextLetter(w)
  /\ UNCHANGED <<consumer, leader, signalled, replays, faults>>

\* Time passes.
FallDue(o) ==
  /\ row[o].state = "RETRYING"
  /\ ~row[o].due
  /\ row' = [row EXCEPT ![o] = [row[o] EXCEPT !.due = TRUE]]
  /\ UNCHANGED <<consumer, leader, tick, signalled, replays, faults>>

----------------------------------------------------------------------------
OnLetter(w, o) ==
  \/ Park(w, o) \/ ParkMissing(w, o) \/ Replay(w, o)
  \/ \E published \in BOOLEAN : ReplayFails(w, o, published)

Step(w) ==
  \/ Start(w) \/ ScanNew(w) \/ Intake(w) \/ ClaimDue(w)
  \/ \E o \in DOMAIN claim[w] : OnLetter(w, o)
  \/ ParkSignal(w) \/ RecordSuccess(w) \/ RecordFailure(w) \/ SpreadFailure(w)

Disturb(w) ==
  Recycle(w) \/ Stop(w) \/ Exit(w) \/ Crash(w) \/ TickFails(w) \/ ScanCutShort(w) \/ IntakeFails(w)

Consume(e) == \E committed \in BOOLEAN : Handle(e, committed) \/ DeadLetter(e, committed)

Next ==
  \/ \E e \in Events : Consume(e)
  \/ \E w \in Workers : Step(w) \/ Disturb(w)
  \/ \E o \in DOMAIN row : FallDue(o)

Spec == Init /\ [][Next]_vars

\* Ticks are on a timer that survives a failed one, a stopped process is
\* started again, consumers poll, and time passes.
FairSpec ==
  /\ Spec
  /\ \A w \in Workers : WF_vars(Step(w)) /\ WF_vars(Exit(w))
  /\ \A e \in Events : WF_vars(Consume(e))
  /\ WF_vars(\E o \in DOMAIN row : FallDue(o))

----------------------------------------------------------------------------
(* Properties *)

ConsumerOK ==
  /\ topic \in [Events -> Nat]
  /\ handled \subseteq Events
  /\ letters \in Seq(Events)
  /\ replays \in [Events -> Nat]
  /\ faults \in 0..MaxFaults

LedgerOK ==
  /\ row \in Seq(Rows)
  /\ Len(row) <= Len(letters)
  /\ signalled \subseteq 1..Len(row)

WorkersOK ==
  /\ holder \in Workers \cup { None }
  /\ leads \subseteq Workers
  /\ pc \in [Workers -> { "down", "standby", "idle", "intake", "claim", "work",
                          "signal", "replayed", "refused", "spread" }]
  /\ scanned \in [Workers -> 0..Len(letters)]
  /\ at \in [Workers -> Nat]
  /\ DOMAIN claim = Workers
  /\ \A w \in Workers :
       /\ DOMAIN claim[w] \subseteq 1..Len(row)
       /\ pc[w] \in { "signal", "replayed", "refused", "spread" } => at[w] \in 1..Len(row)

\* The consumer, the ledger and the workers keep their types; the ledger
\* registers a prefix of the dead-letter topic, and workers touch only that.
TypeOK == ConsumerOK /\ LedgerOK /\ WorkersOK

\* No event is ever lost between the consumer and the ledger: it was handled,
\* is still on its topic, or has a letter that is not registered yet, on the
\* schedule, or parked.  A REDRIVEN row alone is never the last trace.
NeverLost ==
  \A e \in Events :
    \/ e \in handled
    \/ topic[e] > 0
    \/ \E o \in DOMAIN letters :
         letters[o] = e /\ (o \notin DOMAIN row \/ row[o].state # "REDRIVEN")

\* The cap terminates although every failed republish is a new letter: each
\* fault forks the event's chain at most once and hides at most one republish.
RedrivesBounded ==
  \A e \in Events : replays[e] <= (1 + faults) * Budget + faults

\* Nothing circulates for ever: every event ends handled or parked, with
\* nothing left on its topic and no letter on the schedule.
Settled(e) ==
  /\ topic[e] = 0
  /\ \A o \in DOMAIN letters :
       letters[o] = e => o \in DOMAIN row /\ row[o].state # "RETRYING"
EverythingSettles == \A e \in Events : <>[]Settled(e)
=============================================================================
