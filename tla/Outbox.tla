------------------------------- MODULE Outbox -------------------------------
(***************************************************************************)
(* The transactional outbox of one producer (shared-database/outbox.ts).   *)
(*                                                                         *)
(* Handlers stage their events as the last statements of their transaction *)
(* and, after the commit, publish them on a fast path that gives up at the *)
(* first refusal.  One relay at a time (an advisory lock) drains what is   *)
(* left: it locks a batch of pending rows in id order, publishes them and  *)
(* stamps them, all in one transaction.  The broker may refuse a publish,  *)
(* a process may die between any two steps, and the database may fail.     *)
(*                                                                         *)
(* ids come from a sequence when the row is inserted, not when it commits. *)
(***************************************************************************)
EXTENDS Integers, Sequences, FiniteSets

CONSTANTS
  Txs,        \* handlers' transactions
  Events,     \* the events they stage
  EventsOf,   \* the events of each transaction, in staging order
  TxOf,       \* the transaction of each event
  PosOf,      \* its place in that order
  Corrupt,    \* rows whose stored payload is no valid envelope
  BatchSize

ASSUME OutboxAssumption ==
  /\ EventsOf \in [Txs -> Seq(Events)]
  /\ TxOf \in [Events -> Txs]
  /\ \A t \in Txs : Len(EventsOf[t]) > 0
  /\ \A t \in Txs : \A i \in 1..Len(EventsOf[t]) :
       EventsOf[t][i] \in Events /\ TxOf[EventsOf[t][i]] = t /\ PosOf[EventsOf[t][i]] = i
  /\ PosOf \in [Events -> Nat \ {0}]
  /\ \A e \in Events : PosOf[e] <= Len(EventsOf[TxOf[e]]) /\ EventsOf[TxOf[e]][PosOf[e]] = e
  /\ Corrupt \subseteq Events
  /\ BatchSize \in Nat \ {0}

VARIABLES
  pc,       \* each handler: its transaction, then its fast path
  pos,      \* events staged so far; after the commit, the event at hand
  row,      \* each outbox row
  id,       \* its id, 0 when never inserted
  lastId,   \* the sequence event_outbox_id_seq
  aged,     \* transactions older than the relay's grace period
  locked,   \* rows the relay's transaction selected FOR UPDATE
  batch,    \* those it has still to go through
  stamps,   \* those it stamped, not yet committed
  sent      \* events handed to the broker at least once

handler == <<pc, pos>>
drain == <<locked, batch, stamps>>
vars == <<pc, pos, row, id, lastId, aged, locked, batch, stamps, sent>>

RowStates == { "none", "staged", "pending", "published", "purged" }

Current(t) == EventsOf[t][pos[t]]

Init ==
  /\ pc = [t \in Txs |-> "open"]
  /\ pos = [t \in Txs |-> 0]
  /\ row = [e \in Events |-> "none"]
  /\ id = [e \in Events |-> 0]
  /\ lastId = 0
  /\ aged = {}
  /\ locked = {} /\ batch = {} /\ stamps = {}
  /\ sent = {}

----------------------------------------------------------------------------
(* stageOutboxEvents, inside the handler's transaction *)

Stage(t) ==
  LET e == EventsOf[t][pos[t] + 1]
  IN  /\ pc[t] = "open"
      /\ pos[t] < Len(EventsOf[t])
      /\ row' = [row EXCEPT ![e] = "staged"]
      /\ id' = [id EXCEPT ![e] = lastId + 1]
      /\ lastId' = lastId + 1
      /\ pos' = [pos EXCEPT ![t] = @ + 1]
      /\ UNCHANGED <<pc, aged, drain, sent>>

Commit(t) ==
  /\ pc[t] = "open"
  /\ pos[t] = Len(EventsOf[t])
  /\ row' = [e \in Events |-> IF TxOf[e] = t THEN "pending" ELSE row[e]]
  /\ pc' = [pc EXCEPT ![t] = "publish"]
  /\ pos' = [pos EXCEPT ![t] = 1]
  /\ UNCHANGED <<id, lastId, aged, drain, sent>>

\* The rollback takes the staged rows with it; their ids are spent.
Abort(t) ==
  /\ pc[t] = "open"
  /\ row' = [e \in Events |-> IF TxOf[e] = t THEN "none" ELSE row[e]]
  /\ pc' = [pc EXCEPT ![t] = "done"]
  /\ UNCHANGED <<pos, id, lastId, aged, drain, sent>>

----------------------------------------------------------------------------
(* PgOutboxDispatcher.dispatch, after the commit *)

DispatchPublish(t) ==
  /\ pc[t] = "publish"
  /\ sent' = sent \cup { Current(t) }
  /\ pc' = [pc EXCEPT ![t] = "mark"]
  /\ UNCHANGED <<pos, row, id, lastId, aged, drain>>

\* On to the next event, if there is one.
NextEvent(t) ==
  IF pos[t] < Len(EventsOf[t])
    THEN /\ pc' = [pc EXCEPT ![t] = "publish"]
         /\ pos' = [pos EXCEPT ![t] = @ + 1]
    ELSE /\ pc' = [pc EXCEPT ![t] = "done"]
         /\ UNCHANGED pos

\* Mutant: a refused event is skipped and its successors published.
MutDispatchRefused(t) ==
  /\ pc[t] = "publish"
  /\ NextEvent(t)
  /\ UNCHANGED <<row, id, lastId, aged, drain, sent>>

\* The broker refuses: the rest is left to the relay.
DispatchRefused(t) ==
  /\ pc[t] = "publish"
  /\ pc' = [pc EXCEPT ![t] = "done"]
  /\ UNCHANGED <<pos, row, id, lastId, aged, drain, sent>>

\* markPublished: waits for the relay's row locks; a row no longer pending is
\* left alone.
MarkPublished(t) ==
  /\ pc[t] = "mark"
  /\ Current(t) \notin locked
  /\ row' = IF row[Current(t)] = "pending"
              THEN [row EXCEPT ![Current(t)] = "published"] ELSE row
  /\ NextEvent(t)
  /\ UNCHANGED <<id, lastId, aged, drain, sent>>

\* Published but not stamped: the relay will publish it once more.
MarkFails(t) ==
  /\ pc[t] = "mark"
  /\ NextEvent(t)
  /\ UNCHANGED <<row, id, lastId, aged, drain, sent>>

\* The process dies on the fast path.
Crash(t) ==
  /\ pc[t] \in { "publish", "mark" }
  /\ pc' = [pc EXCEPT ![t] = "done"]
  /\ UNCHANGED <<pos, row, id, lastId, aged, drain, sent>>

----------------------------------------------------------------------------
(* PgOutboxRelay *)

\* created_at is the start of the transaction, one instant for all its rows.
Age(t) ==
  /\ t \notin aged
  /\ aged' = aged \cup {t}
  /\ UNCHANGED <<handler, row, id, lastId, drain, sent>>

\* Mutant: the grace comparison the wrong way round.
MutEligible == { e \in Events : row[e] = "pending" /\ TxOf[e] \notin aged }

\* What the relay may select: rows out of the fast path's grace period.
Eligible == { e \in Events : row[e] = "pending" /\ TxOf[e] \in aged }

\* B holds lower ids than the rest of S.
FirstByID(B, S) == B \subseteq S /\ \A e \in B, f \in S \ B : id[e] < id[f]

\* drainOnce: the lock, and a batch of the oldest pending rows.
DrainBegin ==
  /\ locked = {}
  /\ Eligible # {}
  /\ \E B \in SUBSET Eligible :
       /\ FirstByID(B, Eligible)
       /\ Cardinality(B) = BatchSize \/ (B = Eligible /\ Cardinality(B) < BatchSize)
       /\ locked' = B
       /\ batch' = B
  /\ stamps' = {}
  /\ UNCHANGED <<handler, row, id, lastId, aged, sent>>

NextInBatch(e) == e \in batch /\ \A f \in batch : id[e] <= id[f]

\* The relay's transaction ends; its stamps take effect if it commits.
EndDrain(S) ==
  /\ row' = [e \in Events |-> IF e \in S THEN "published" ELSE row[e]]
  /\ locked' = {} /\ batch' = {} /\ stamps' = {}
  /\ UNCHANGED <<handler, id, lastId, aged, sent>>

\* An invalid stored payload is quarantined in place: it stays pending.
Quarantine(e) ==
  /\ NextInBatch(e)
  /\ e \in Corrupt
  /\ batch' = batch \ {e}
  /\ UNCHANGED <<handler, row, id, lastId, aged, locked, stamps, sent>>

RelayPublish(e) ==
  /\ NextInBatch(e)
  /\ e \notin Corrupt
  /\ sent' = sent \cup {e}
  /\ stamps' = stamps \cup {e}
  /\ batch' = batch \ {e}
  /\ UNCHANGED <<handler, row, id, lastId, aged, locked>>

\* Mutant: the row whose publish was refused is stamped like the others.
MutRelayBlocked(e) ==
  /\ NextInBatch(e)
  /\ e \notin Corrupt
  /\ EndDrain(stamps \cup {e})

\* The broker refuses: the batch ends at that row.
RelayBlocked(e) ==
  /\ NextInBatch(e)
  /\ e \notin Corrupt
  /\ EndDrain(stamps)

DrainCommit ==
  /\ locked # {}
  /\ batch = {}
  /\ EndDrain(stamps)

\* The database or the relay's process fails (with nothing stamped and the
\* batch done, that is no different from committing).
DrainFails ==
  /\ batch # {} \/ stamps # {}
  /\ EndDrain({})

\* Rows published long enough ago are deleted.
Purge(e) ==
  /\ row[e] = "published"
  /\ row' = [row EXCEPT ![e] = "purged"]
  /\ UNCHANGED <<handler, id, lastId, aged, drain, sent>>

----------------------------------------------------------------------------
Next ==
  \/ \E t \in Txs :
       \/ Stage(t) \/ Commit(t) \/ Abort(t)
       \/ DispatchPublish(t) \/ DispatchRefused(t)
       \/ MarkPublished(t) \/ MarkFails(t) \/ Crash(t) \/ Age(t)
  \/ \E e \in Events : Quarantine(e) \/ RelayPublish(e) \/ RelayBlocked(e) \/ Purge(e)
  \/ DrainBegin \/ DrainCommit \/ DrainFails

Spec == Init /\ [][Next]_vars

\* The relay polls for ever and time passes; nobody is obliged to complete the
\* fast path.
FairSpec ==
  /\ Spec
  /\ \A t \in Txs : WF_vars(Age(t))
  /\ \A e \in Events : WF_vars(Quarantine(e)) /\ WF_vars(RelayPublish(e))
  /\ WF_vars(DrainBegin) /\ WF_vars(DrainCommit)

----------------------------------------------------------------------------
(* Properties *)

\* Rows, ids and the relay's working sets keep their types.
TypeOK ==
  /\ pc \in [Txs -> { "open", "publish", "mark", "done" }]
  /\ pos \in [Txs -> Nat]
  /\ \A t \in Txs : pos[t] <= Len(EventsOf[t])
  /\ row \in [Events -> RowStates]
  /\ id \in [Events -> Nat]
  /\ lastId \in Nat
  /\ aged \subseteq Txs
  /\ locked \subseteq Events /\ batch \subseteq locked /\ stamps \subseteq locked
  /\ sent \subseteq Events

\* The outbox implements its promise: nothing is announced before the
\* transaction that staged it commits, and no committed event stops being owed
\* before it was announced, whatever crashes ("A committed transition can no
\* longer lose its event", ADR-025).
Promise == INSTANCE AtLeastOnce WITH owed <- { e \in Events : row[e] = "pending" }
AtLeastOnceDelivery == Promise!Spec

\* "A later event must not overtake an earlier one": of one transaction's
\* events none is announced before its predecessors, whoever announces it.  A
\* quarantined row is skipped.
NoOvertaking ==
  \A e, f \in Events :
    /\ TxOf[e] = TxOf[f]
    /\ PosOf[e] < PosOf[f]
    /\ f \in sent
    /\ e \notin Corrupt
    => e \in sent

\* Every committed event with a sound payload is announced in the end, unless
\* the broker or the database keeps refusing: a quarantined row does not stop
\* the pipeline.
EveryEventAnnounced ==
  \/ []<><<DrainFails>>_vars
  \/ \E e \in Events : []<><<RelayBlocked(e)>>_vars
  \/ \A e \in Events \ Corrupt : row[e] = "pending" ~> e \in sent
=============================================================================
