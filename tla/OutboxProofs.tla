---------------------------- MODULE OutboxProofs ----------------------------
(***************************************************************************)
(* Proofs about Outbox, for any transactions, events, batch size and set   *)
(* of corrupt rows.                                                        *)
(***************************************************************************)
EXTENDS Outbox, TLAPS

Committed == { "pending", "published", "purged" }

\* An open transaction has staged its first pos events and nothing else.
OpenStages ==
  \A t \in Txs : pc[t] = "open" =>
    \A e \in Events : TxOf[e] = t =>
      row[e] = IF PosOf[e] <= pos[t] THEN "staged" ELSE "none"

\* A row is staged only while its transaction is open.
StagedIsOpen == \A e \in Events : row[e] = "staged" => pc[TxOf[e]] = "open"

\* A transaction's rows commit together.
CommitIsWhole ==
  \A e, f \in Events : TxOf[e] = TxOf[f] /\ row[e] \in Committed => row[f] \in Committed

\* The fast path is at a committed event, its predecessors announced.
FastPath ==
  \A t \in Txs : pc[t] \in { "publish", "mark" } =>
    /\ pos[t] >= 1
    /\ row[Current(t)] \in Committed
    /\ \A e \in Events : TxOf[e] = t /\ PosOf[e] < pos[t] => e \in sent
    /\ pc[t] = "mark" => Current(t) \in sent

StampedWasSent == \A e \in Events : row[e] \in { "published", "purged" } => e \in sent

SentWasCommitted == \A e \in sent : row[e] \in Committed

\* Rows the relay holds stay pending until it ends; what it stamped is out.
HeldArePending == (\A e \in locked : row[e] = "pending") /\ stamps \subseteq sent

\* ids follow the staging order inside a transaction.
IdOrder ==
  /\ \A e \in Events : id[e] <= lastId
  /\ \A e, f \in Events :
       TxOf[e] = TxOf[f] /\ PosOf[e] < PosOf[f] /\ row[f] # "none" => id[e] < id[f]

\* A batch never holds an event without its pending predecessors.
BatchClosed ==
  \A e \in Events, f \in locked :
    TxOf[e] = TxOf[f] /\ PosOf[e] < PosOf[f] /\ row[e] = "pending" => e \in locked

\* What the relay went through it stamped or quarantined.
WentThrough == locked \ batch \subseteq Corrupt \cup stamps

IInv ==
  /\ TypeOK
  /\ OpenStages /\ StagedIsOpen /\ CommitIsWhole
  /\ FastPath
  /\ StampedWasSent /\ SentWasCommitted
  /\ HeldArePending
  /\ IdOrder
  /\ BatchClosed /\ WentThrough
  /\ NoOvertaking

\* The event at hand is an event of the transaction, at the place it has.
LEMMA EventAt ==
  ASSUME NEW t \in Txs, NEW i \in Nat, i >= 1, i <= Len(EventsOf[t])
  PROVE  /\ EventsOf[t][i] \in Events
         /\ TxOf[EventsOf[t][i]] = t
         /\ PosOf[EventsOf[t][i]] = i
<1>1. Len(EventsOf[t]) \in Nat
  BY OutboxAssumption
<1>2. i \in 1..Len(EventsOf[t])
  BY <1>1
<1>. QED
  BY <1>2, OutboxAssumption

\* An event is determined by its transaction and its place.
LEMMA OnePlace ==
  ASSUME NEW e \in Events, NEW f \in Events, TxOf[e] = TxOf[f], PosOf[e] = PosOf[f]
  PROVE  e = f
BY OutboxAssumption

\* Every event belongs to a transaction.
LEMMA EventTx == \A e \in Events : TxOf[e] \in Txs
BY OutboxAssumption

\* Nothing is staged or sent at the start.
LEMMA InitInv == Init => IInv
<1>. SUFFICES ASSUME Init PROVE IInv
  OBVIOUS
<1>1. \A t \in Txs : Len(EventsOf[t]) \in Nat
  BY OutboxAssumption
<1>2. TypeOK
  BY <1>1 DEF Init, TypeOK, RowStates
<1>3. OpenStages
  BY OutboxAssumption DEF Init, OpenStages
<1>4. StagedIsOpen /\ CommitIsWhole /\ StampedWasSent /\ SentWasCommitted /\ FastPath
  BY OutboxAssumption DEF Init, StagedIsOpen, CommitIsWhole, StampedWasSent, SentWasCommitted,
         FastPath, Committed
<1>5. HeldArePending /\ IdOrder /\ BatchClosed /\ WentThrough /\ NoOvertaking
  BY DEF Init, HeldArePending, IdOrder, BatchClosed, WentThrough, NoOvertaking
<1>. QED
  BY <1>2, <1>3, <1>4, <1>5 DEF IInv

\* Staging takes a fresh id, larger than every id so far.
LEMMA StageInv ==
  ASSUME IInv, NEW t \in Txs, Stage(t)
  PROVE  IInv'
<1>. DEFINE e0 == EventsOf[t][pos[t] + 1]
<1>1. Len(EventsOf[t]) \in Nat /\ pos[t] \in Nat
  BY OutboxAssumption DEF IInv, TypeOK
<1>2. e0 \in Events /\ TxOf[e0] = t /\ PosOf[e0] = pos[t] + 1
  BY <1>1, EventAt DEF Stage
<1>3. /\ \A e \in Events : row'[e] = IF e = e0 THEN "staged" ELSE row[e]
      /\ \A e \in Events : id'[e] = IF e = e0 THEN lastId + 1 ELSE id[e]
      /\ \A u \in Txs : pos'[u] = IF u = t THEN pos[u] + 1 ELSE pos[u]
      /\ lastId' = lastId + 1
      /\ UNCHANGED <<pc, aged, locked, batch, stamps, sent>>
  BY <1>2 DEF Stage, IInv, TypeOK, drain
<1>4. row[e0] = "none" /\ pc[t] = "open"
  BY <1>1, <1>2 DEF IInv, OpenStages, Stage
<1>5. TypeOK'
  BY <1>1, <1>2, <1>3 DEF IInv, TypeOK, Stage, RowStates
<1>6. OpenStages'
  <2>. SUFFICES ASSUME NEW u \in Txs, pc[u] = "open", NEW e \in Events, TxOf[e] = u
                PROVE  row'[e] = IF PosOf[e] <= pos'[u] THEN "staged" ELSE "none"
    BY <1>3 DEF OpenStages
  <2>1. PosOf[e] \in Nat /\ pos[u] \in Nat
    BY OutboxAssumption DEF IInv, TypeOK
  <2>2. CASE u = t
    <3>1. e = e0 <=> PosOf[e] = pos[t] + 1
      BY <1>2, <2>2, OnePlace
    <3>. QED
      BY <1>3, <2>1, <2>2, <3>1 DEF IInv, OpenStages
  <2>3. CASE u # t
    BY <1>2, <1>3, <2>3 DEF IInv, OpenStages
  <2>. QED
    BY <2>2, <2>3
<1>7. StagedIsOpen' /\ CommitIsWhole'
  BY <1>2, <1>3, <1>4 DEF IInv, StagedIsOpen, CommitIsWhole, Committed
<1>8. FastPath'
  <2>. SUFFICES ASSUME NEW u \in Txs, pc[u] \in { "publish", "mark" }
                PROVE  /\ pos'[u] >= 1
                       /\ row'[EventsOf[u][pos'[u]]] \in Committed
                       /\ \A e \in Events : TxOf[e] = u /\ PosOf[e] < pos'[u] => e \in sent
                       /\ pc[u] = "mark" => EventsOf[u][pos'[u]] \in sent
    BY <1>3 DEF FastPath, Current
  <2>1. u # t
    BY <1>4
  <2>2. EventsOf[u][pos[u]] \in Events /\ pos[u] \in Nat
    BY EventAt DEF IInv, TypeOK, FastPath
  <2>. QED
    BY <1>3, <1>4, <2>1, <2>2 DEF IInv, FastPath, Current, Committed
<1>9. StampedWasSent' /\ SentWasCommitted' /\ HeldArePending'
  BY <1>2, <1>3, <1>4 DEF IInv, TypeOK, StampedWasSent, SentWasCommitted, HeldArePending, Committed
<1>10. IdOrder'
  <2>1. \A e \in Events : id[e] \in Nat /\ lastId \in Nat /\ PosOf[e] \in Nat
    BY OutboxAssumption DEF IInv, TypeOK
  <2>2. \A f \in Events : TxOf[f] = t /\ PosOf[e0] < PosOf[f] => row[f] = "none"
    BY <1>1, <1>2, <1>4, <2>1 DEF IInv, OpenStages
  <2>3. \A f \in Events : TxOf[f] = t /\ PosOf[e0] < PosOf[f] => row'[f] = "none"
    BY <1>2, <1>3, <2>1, <2>2
  <2>4. \A e \in Events : id'[e] <= lastId'
    BY <1>3, <2>1 DEF IInv, IdOrder
  <2>5. ASSUME NEW e \in Events, NEW f \in Events, TxOf[e] = TxOf[f], PosOf[e] < PosOf[f],
               row'[f] # "none"
        PROVE  id'[e] < id'[f]
    <3>1. CASE f = e0
      <4>1. e # e0
        BY <2>1, <2>5, <3>1
      <4>. QED
        BY <1>3, <2>1, <3>1, <4>1 DEF IInv, IdOrder
    <3>2. CASE f # e0
      <4>1. e # e0
        BY <1>2, <2>3, <2>5
      <4>. QED
        BY <1>3, <2>5, <3>2, <4>1 DEF IInv, IdOrder
    <3>. QED
      BY <3>1, <3>2
  <2>. QED
    BY <2>4, <2>5 DEF IdOrder
<1>11. BatchClosed' /\ WentThrough' /\ NoOvertaking'
  BY <1>3 DEF IInv, TypeOK, BatchClosed, WentThrough, NoOvertaking
<1>. QED
  BY <1>5, <1>6, <1>7, <1>8, <1>9, <1>10, <1>11 DEF IInv

\* Committing turns the staged rows into pending ones, all at once.
LEMMA CommitInv ==
  ASSUME IInv, NEW t \in Txs, Commit(t)
  PROVE  IInv'
<1>1. Len(EventsOf[t]) \in Nat /\ Len(EventsOf[t]) > 0 /\ pos[t] = Len(EventsOf[t])
  BY OutboxAssumption DEF Commit
<1>2. /\ pc[t] = "open"
      /\ \A e \in Events : row'[e] = IF TxOf[e] = t THEN "pending" ELSE row[e]
      /\ \A u \in Txs : pc'[u] = IF u = t THEN "publish" ELSE pc[u]
      /\ \A u \in Txs : pos'[u] = IF u = t THEN 1 ELSE pos[u]
      /\ UNCHANGED <<id, lastId, aged, locked, batch, stamps, sent>>
  BY DEF Commit, IInv, TypeOK, drain
<1>3. \A e \in Events : TxOf[e] = t => row[e] = "staged"
  BY <1>1, <1>2, OutboxAssumption, SMTT(40) DEF IInv, OpenStages
<1>4. TypeOK'
  BY <1>1, <1>2 DEF IInv, TypeOK, Commit, RowStates
<1>5. OpenStages' /\ StagedIsOpen' /\ CommitIsWhole'
  <2>1. OpenStages'
    BY <1>2 DEF IInv, OpenStages
  <2>2. StagedIsOpen'
    BY <1>2, EventTx DEF IInv, StagedIsOpen
  <2>3. CommitIsWhole'
    BY <1>2 DEF IInv, CommitIsWhole, Committed
  <2>. QED
    BY <2>1, <2>2, <2>3
<1>6. FastPath'
  <2>. SUFFICES ASSUME NEW u \in Txs, pc'[u] \in { "publish", "mark" }
                PROVE  /\ pos'[u] >= 1
                       /\ row'[EventsOf[u][pos'[u]]] \in Committed
                       /\ \A e \in Events : TxOf[e] = u /\ PosOf[e] < pos'[u] => e \in sent'
                       /\ pc'[u] = "mark" => EventsOf[u][pos'[u]] \in sent'
    BY DEF FastPath, Current
  <2>1. CASE u = t
    <3>1. EventsOf[t][1] \in Events /\ TxOf[EventsOf[t][1]] = t
      BY <1>1, EventAt
    <3>2. \A e \in Events : ~(PosOf[e] < 1)
      BY OutboxAssumption
    <3>. QED
      BY <1>2, <2>1, <3>1, <3>2 DEF Committed
  <2>2. CASE u # t
    <3>1. EventsOf[u][pos[u]] \in Events /\ TxOf[EventsOf[u][pos[u]]] = u
      BY <1>2, <2>2, EventAt DEF IInv, TypeOK, FastPath
    <3>. QED
      BY <1>2, <2>2, <3>1 DEF IInv, FastPath, Current
  <2>. QED
    BY <2>1, <2>2
<1>7. StampedWasSent' /\ SentWasCommitted' /\ HeldArePending'
  BY <1>2, <1>3 DEF IInv, TypeOK, StampedWasSent, SentWasCommitted, HeldArePending, Committed
<1>8. IdOrder'
  BY <1>2, <1>3 DEF IInv, IdOrder
<1>9. BatchClosed'
  <2>. SUFFICES ASSUME NEW e \in Events, NEW f \in locked, TxOf[e] = TxOf[f],
                       PosOf[e] < PosOf[f], row'[e] = "pending"
                PROVE  e \in locked
    BY <1>2 DEF BatchClosed
  <2>1. row[f] = "pending" /\ f \in Events
    BY DEF IInv, TypeOK, HeldArePending
  <2>2. TxOf[f] # t
    BY <1>3, <2>1
  <2>. QED
    BY <1>2, <2>2 DEF IInv, BatchClosed
<1>10. WentThrough' /\ NoOvertaking'
  BY <1>2 DEF IInv, WentThrough, NoOvertaking
<1>. QED
  BY <1>4, <1>5, <1>6, <1>7, <1>8, <1>9, <1>10 DEF IInv

\* A rollback removes rows nobody else has seen.
LEMMA AbortInv ==
  ASSUME IInv, NEW t \in Txs, Abort(t)
  PROVE  IInv'
<1>1. /\ pc[t] = "open"
      /\ \A e \in Events : row'[e] = IF TxOf[e] = t THEN "none" ELSE row[e]
      /\ \A u \in Txs : pc'[u] = IF u = t THEN "done" ELSE pc[u]
      /\ UNCHANGED <<pos, id, lastId, aged, locked, batch, stamps, sent>>
  BY DEF Abort, IInv, TypeOK, drain
<1>2. \A e \in Events : TxOf[e] = t => row[e] \in { "none", "staged" }
  BY <1>1 DEF IInv, OpenStages
<1>3. TypeOK'
  BY <1>1 DEF IInv, TypeOK, Abort, RowStates
<1>4. OpenStages' /\ StagedIsOpen' /\ CommitIsWhole'
  <2>1. OpenStages'
    BY <1>1 DEF IInv, OpenStages
  <2>2. StagedIsOpen'
    BY <1>1, EventTx DEF IInv, StagedIsOpen
  <2>3. CommitIsWhole'
    BY <1>1, <1>2 DEF IInv, CommitIsWhole, Committed
  <2>. QED
    BY <2>1, <2>2, <2>3
<1>5. FastPath'
  <2>. SUFFICES ASSUME NEW u \in Txs, pc'[u] \in { "publish", "mark" }
                PROVE  /\ pos[u] >= 1
                       /\ row'[EventsOf[u][pos[u]]] \in Committed
                       /\ \A e \in Events : TxOf[e] = u /\ PosOf[e] < pos[u] => e \in sent
                       /\ pc'[u] = "mark" => EventsOf[u][pos[u]] \in sent
    BY <1>1 DEF FastPath, Current
  <2>1. u # t
    BY <1>1
  <2>2. EventsOf[u][pos[u]] \in Events /\ TxOf[EventsOf[u][pos[u]]] = u
    BY <1>1, <2>1, EventAt DEF IInv, TypeOK, FastPath
  <2>. QED
    BY <1>1, <2>1, <2>2 DEF IInv, FastPath, Current
<1>6. StampedWasSent' /\ SentWasCommitted' /\ HeldArePending'
  BY <1>1, <1>2 DEF IInv, TypeOK, StampedWasSent, SentWasCommitted, HeldArePending, Committed
<1>7. IdOrder'
  BY <1>1 DEF IInv, IdOrder
<1>8. BatchClosed' /\ WentThrough' /\ NoOvertaking'
  BY <1>1 DEF IInv, TypeOK, BatchClosed, WentThrough, NoOvertaking
<1>. QED
  BY <1>3, <1>4, <1>5, <1>6, <1>7, <1>8 DEF IInv

\* Announcing a committed event whose predecessors are out is always safe.
LEMMA AnnounceInv ==
  ASSUME IInv, NEW f \in Events, row[f] \in Committed, sent' = sent \cup {f},
         \A e \in Events : TxOf[e] = TxOf[f] /\ PosOf[e] < PosOf[f] /\ e \notin Corrupt
           => e \in sent,
         UNCHANGED row
  PROVE  /\ StampedWasSent' /\ SentWasCommitted' /\ CommitIsWhole'
         /\ NoOvertaking' /\ sent' \subseteq Events
<1>1. NoOvertaking'
  BY DEF IInv, NoOvertaking
<1>. QED
  BY <1>1 DEF IInv, TypeOK, StampedWasSent, SentWasCommitted, CommitIsWhole

LEMMA DispatchPublishInv ==
  ASSUME IInv, NEW t \in Txs, DispatchPublish(t)
  PROVE  IInv'
<1>. DEFINE e0 == EventsOf[t][pos[t]]
<1>1. /\ pc[t] = "publish"
      /\ \A u \in Txs : pc'[u] = IF u = t THEN "mark" ELSE pc[u]
      /\ sent' = sent \cup {e0}
      /\ UNCHANGED <<pos, row, id, lastId, aged, locked, batch, stamps>>
  BY DEF DispatchPublish, IInv, TypeOK, drain, Current
<1>2. e0 \in Events /\ TxOf[e0] = t /\ PosOf[e0] = pos[t]
  BY <1>1, EventAt DEF IInv, TypeOK, FastPath
<1>3. /\ row[e0] \in Committed
      /\ \A e \in Events : TxOf[e] = t /\ PosOf[e] < pos[t] => e \in sent
  BY <1>1 DEF IInv, FastPath, Current
<1>4. /\ StampedWasSent' /\ SentWasCommitted' /\ CommitIsWhole'
      /\ NoOvertaking' /\ sent' \subseteq Events
  BY <1>1, <1>2, <1>3, AnnounceInv
<1>5. TypeOK'
  BY <1>1, <1>4 DEF IInv, TypeOK, DispatchPublish
<1>6. OpenStages' /\ StagedIsOpen'
  BY <1>1, EventTx DEF IInv, OpenStages, StagedIsOpen
<1>7. FastPath'
  BY <1>1 DEF IInv, FastPath, Current
<1>8. HeldArePending' /\ IdOrder' /\ BatchClosed' /\ WentThrough'
  BY <1>1 DEF IInv, HeldArePending, IdOrder, BatchClosed, WentThrough
<1>. QED
  BY <1>4, <1>5, <1>6, <1>7, <1>8 DEF IInv

\* Giving up the fast path, or letting time pass, disturbs nothing.
LEMMA GivesUpInv ==
  ASSUME IInv, NEW t \in Txs, pc[t] \in { "publish", "mark" },
         pc' = [pc EXCEPT ![t] = "done"],
         UNCHANGED <<pos, row, id, lastId, aged, drain, sent>>
  PROVE  IInv'
<1>1. /\ \A u \in Txs : pc'[u] = IF u = t THEN "done" ELSE pc[u]
      /\ UNCHANGED <<pos, row, id, lastId, aged, locked, batch, stamps, sent>>
  BY DEF IInv, TypeOK, drain
<1>2. TypeOK'
  BY <1>1 DEF IInv, TypeOK
<1>3. OpenStages' /\ StagedIsOpen' /\ CommitIsWhole'
  BY <1>1, EventTx DEF IInv, OpenStages, StagedIsOpen, CommitIsWhole
<1>4. FastPath'
  BY <1>1 DEF IInv, FastPath, Current
<1>5. /\ StampedWasSent' /\ SentWasCommitted' /\ HeldArePending' /\ IdOrder'
      /\ BatchClosed' /\ WentThrough' /\ NoOvertaking'
  BY <1>1 DEF IInv, StampedWasSent, SentWasCommitted, HeldArePending, IdOrder,
              BatchClosed, WentThrough, NoOvertaking
<1>. QED
  BY <1>2, <1>3, <1>4, <1>5 DEF IInv

\* Stamping rows that are out, outside the relay's batch.
LEMMA StampInv ==
  ASSUME IInv, NEW S \in SUBSET Events, S \subseteq sent,
         NEW s \in { "published", "purged" },
         \A e \in Events : row'[e] = IF e \in S THEN s ELSE row[e],
         locked' \subseteq locked, S \cap locked' = {},
         UNCHANGED sent
  PROVE  /\ StagedIsOpen' <=> (\A e \in Events : row[e] = "staged" => pc'[TxOf[e]] = "open")
         /\ CommitIsWhole' /\ StampedWasSent' /\ SentWasCommitted'
         /\ \A e \in locked' : row'[e] = "pending"
         /\ \A e \in Events : row'[e] \in Committed <=> row[e] \in Committed
         /\ \A e \in Events : row'[e] = "none" <=> row[e] = "none"
         /\ \A e \in Events : row'[e] = "pending" => row[e] = "pending"
<1>1. \A e \in S : row[e] \in Committed
  BY DEF IInv, SentWasCommitted
<1>2. \A e \in Events : row'[e] \in Committed <=> row[e] \in Committed
  BY <1>1 DEF Committed
<1>3. \A e \in locked' : row'[e] = "pending"
  BY DEF IInv, TypeOK, HeldArePending
<1>4. \A e \in Events : /\ row'[e] = "staged" <=> row[e] = "staged"
                        /\ row'[e] = "none" <=> row[e] = "none"
  BY <1>1 DEF Committed
<1>5. StampedWasSent'
  BY DEF IInv, StampedWasSent
<1>6. CommitIsWhole' /\ SentWasCommitted'
  BY <1>2 DEF IInv, TypeOK, CommitIsWhole, SentWasCommitted
<1>. QED
  BY <1>2, <1>3, <1>4, <1>5, <1>6, EventTx DEF StagedIsOpen

\* Moving on to the next event keeps the fast path in order.
LEMMA NextEventFast ==
  ASSUME IInv, NEW t \in Txs, pc[t] = "mark", NextEvent(t), UNCHANGED sent,
         \A e \in Events : row'[e] \in Committed <=> row[e] \in Committed
  PROVE  /\ FastPath'
         /\ pc' \in [Txs -> { "open", "publish", "mark", "done" }]
         /\ pos' \in [Txs -> Nat]
         /\ \A u \in Txs : pos'[u] <= Len(EventsOf[u])
         /\ \A u \in Txs : pc'[u] = "open" <=> pc[u] = "open"
         /\ \A u \in Txs : u # t => pos'[u] = pos[u]
<1>. DEFINE e0 == EventsOf[t][pos[t]]
<1>1. Len(EventsOf[t]) \in Nat /\ pos[t] \in Nat
  BY OutboxAssumption DEF IInv, TypeOK
<1>2. /\ pos[t] >= 1
      /\ e0 \in sent /\ row[e0] \in Committed
      /\ \A e \in Events : TxOf[e] = t /\ PosOf[e] < pos[t] => e \in sent
  BY DEF IInv, FastPath, Current
<1>3. e0 \in Events /\ TxOf[e0] = t /\ PosOf[e0] = pos[t]
  BY <1>2, EventAt DEF IInv, TypeOK
<1>4. /\ \A u \in Txs : pc'[u] = IF u = t
                          THEN IF pos[t] < Len(EventsOf[t]) THEN "publish" ELSE "done"
                          ELSE pc[u]
      /\ \A u \in Txs : pos'[u] = IF u = t /\ pos[t] < Len(EventsOf[t])
                          THEN pos[u] + 1 ELSE pos[u]
      /\ pc' \in [Txs -> { "open", "publish", "mark", "done" }]
      /\ pos' \in [Txs -> Nat]
  <2>1. CASE pos[t] < Len(EventsOf[t])
    <3>1. pc' = [pc EXCEPT ![t] = "publish"] /\ pos' = [pos EXCEPT ![t] = @ + 1]
      BY <2>1 DEF NextEvent
    <3>. QED
      BY <1>1, <2>1, <3>1 DEF IInv, TypeOK
  <2>2. CASE ~(pos[t] < Len(EventsOf[t]))
    <3>1. pc' = [pc EXCEPT ![t] = "done"] /\ pos' = pos
      BY <2>2 DEF NextEvent
    <3>. QED
      BY <1>1, <2>2, <3>1 DEF IInv, TypeOK
  <2>. QED
    BY <2>1, <2>2
<1>5. \A u \in Txs : pos'[u] <= Len(EventsOf[u])
  <2>. SUFFICES ASSUME NEW u \in Txs
                PROVE  pos'[u] <= Len(EventsOf[u])
    OBVIOUS
  <2>1. pos[u] \in Nat /\ pos[u] <= Len(EventsOf[u]) /\ Len(EventsOf[u]) \in Nat
    BY OutboxAssumption DEF IInv, TypeOK
  <2>2. pos'[u] = IF u = t /\ pos[t] < Len(EventsOf[t]) THEN pos[u] + 1 ELSE pos[u]
    BY <1>4
  <2>. QED
    BY <2>1, <2>2
<1>6. FastPath'
  <2>. SUFFICES ASSUME NEW u \in Txs, pc'[u] \in { "publish", "mark" }
                PROVE  /\ pos'[u] >= 1
                       /\ row'[EventsOf[u][pos'[u]]] \in Committed
                       /\ \A e \in Events : TxOf[e] = u /\ PosOf[e] < pos'[u] => e \in sent
                       /\ pc'[u] = "mark" => EventsOf[u][pos'[u]] \in sent
    BY DEF FastPath, Current
  <2>1. CASE u = t
    <3>1. pos[t] < Len(EventsOf[t]) /\ pc'[t] = "publish" /\ pos'[t] = pos[t] + 1
      BY <1>4, <2>1
    <3>2. EventsOf[t][pos[t] + 1] \in Events /\ TxOf[EventsOf[t][pos[t] + 1]] = t
      BY <1>1, <3>1, EventAt
    <3>3. row[EventsOf[t][pos[t] + 1]] \in Committed
      BY <1>2, <1>3, <3>2 DEF IInv, CommitIsWhole
    <3>4. ASSUME NEW e \in Events, TxOf[e] = t, PosOf[e] < pos[t] + 1
          PROVE  e \in sent
      <4>1. PosOf[e] \in Nat
        BY OutboxAssumption
      <4>2. CASE PosOf[e] = pos[t]
        BY <1>2, <1>3, <3>4, <4>2, OnePlace
      <4>3. CASE PosOf[e] < pos[t]
        BY <1>2, <3>4, <4>3
      <4>. QED
        BY <1>1, <3>4, <4>1, <4>2, <4>3
    <3>. QED
      BY <1>1, <2>1, <3>1, <3>2, <3>3, <3>4
  <2>2. CASE u # t
    <3>1. EventsOf[u][pos[u]] \in Events
      BY <1>4, <2>2, EventAt DEF IInv, TypeOK, FastPath
    <3>. QED
      BY <1>4, <2>2, <3>1 DEF IInv, FastPath, Current
  <2>. QED
    BY <2>1, <2>2
<1>. QED
  BY <1>4, <1>5, <1>6

LEMMA MarkPublishedInv ==
  ASSUME IInv, NEW t \in Txs, MarkPublished(t) \/ MarkFails(t)
  PROVE  IInv'
<1>. DEFINE e0 == EventsOf[t][pos[t]]
            S == IF MarkPublished(t) /\ row[e0] = "pending" THEN {e0} ELSE {}
<1>1. /\ pc[t] = "mark" /\ NextEvent(t)
      /\ UNCHANGED <<id, lastId, aged, locked, batch, stamps, sent>>
  BY DEF MarkPublished, MarkFails, drain
<1>2. e0 \in Events /\ TxOf[e0] = t /\ e0 \in sent
  BY <1>1, EventAt DEF IInv, TypeOK, FastPath, Current
<1>3. /\ \A e \in Events : row'[e] = IF e \in S THEN "published" ELSE row[e]
      /\ row' \in [Events -> RowStates]
      /\ S \cap locked = {}
  BY <1>2 DEF MarkPublished, MarkFails, Current, IInv, TypeOK, RowStates
<1>4. S \in SUBSET Events /\ S \subseteq sent
  BY <1>2
<1>5. /\ StagedIsOpen' <=> (\A e \in Events : row[e] = "staged" => pc'[TxOf[e]] = "open")
      /\ CommitIsWhole' /\ StampedWasSent' /\ SentWasCommitted'
      /\ \A e \in locked' : row'[e] = "pending"
      /\ \A e \in Events : row'[e] \in Committed <=> row[e] \in Committed
      /\ \A e \in Events : row'[e] = "none" <=> row[e] = "none"
      /\ \A e \in Events : row'[e] = "pending" => row[e] = "pending"
  <2>. HIDE DEF S
  <2>. QED
    BY <1>1, <1>3, <1>4, StampInv
<1>6. /\ FastPath'
      /\ pc' \in [Txs -> { "open", "publish", "mark", "done" }]
      /\ pos' \in [Txs -> Nat]
      /\ \A u \in Txs : pos'[u] <= Len(EventsOf[u])
      /\ \A u \in Txs : pc'[u] = "open" <=> pc[u] = "open"
      /\ \A u \in Txs : u # t => pos'[u] = pos[u]
  BY <1>1, <1>5, NextEventFast
<1>7. TypeOK'
  BY <1>1, <1>3, <1>6 DEF IInv, TypeOK
<1>8. StagedIsOpen'
  BY <1>5, <1>6, EventTx DEF IInv, StagedIsOpen
<1>9. OpenStages'
  <2>. SUFFICES ASSUME NEW u \in Txs, pc'[u] = "open", NEW e \in Events, TxOf[e] = u
                PROVE  row'[e] = IF PosOf[e] <= pos'[u] THEN "staged" ELSE "none"
    BY DEF OpenStages
  <2>1. pc[u] = "open" /\ u # t
    BY <1>1, <1>6
  <2>2. e \notin S
    BY <1>2, <2>1
  <2>. QED
    BY <1>3, <1>6, <2>1, <2>2 DEF IInv, OpenStages
<1>10. HeldArePending' /\ IdOrder' /\ BatchClosed' /\ WentThrough' /\ NoOvertaking'
  BY <1>1, <1>5 DEF IInv, HeldArePending, IdOrder, BatchClosed, WentThrough, NoOvertaking
<1>. QED
  BY <1>5, <1>6, <1>7, <1>8, <1>9, <1>10 DEF IInv

\* Steps of the relay that leave the handlers and the rows alone.
LEMMA RelayStepFrame ==
  ASSUME IInv, UNCHANGED <<pc, pos, row, id, lastId>>, sent \subseteq sent'
  PROVE  OpenStages' /\ StagedIsOpen' /\ CommitIsWhole' /\ FastPath' /\ IdOrder'
<1>1. OpenStages' /\ StagedIsOpen' /\ CommitIsWhole' /\ IdOrder'
  BY DEF IInv, OpenStages, StagedIsOpen, CommitIsWhole, IdOrder
<1>2. FastPath'
  BY DEF IInv, FastPath, Current
<1>. QED
  BY <1>1, <1>2

LEMMA AgeInv ==
  ASSUME IInv, NEW t \in Txs, Age(t)
  PROVE  IInv'
<1>1. /\ UNCHANGED <<pc, pos, row, id, lastId, locked, batch, stamps, sent>>
      /\ aged' = aged \cup {t}
  BY DEF Age, handler, drain
<1>2. TypeOK'
  BY <1>1 DEF IInv, TypeOK
<1>3. /\ StampedWasSent' /\ SentWasCommitted' /\ HeldArePending'
      /\ BatchClosed' /\ WentThrough' /\ NoOvertaking'
  BY <1>1 DEF IInv, StampedWasSent, SentWasCommitted, HeldArePending,
              BatchClosed, WentThrough, NoOvertaking
<1>. QED
  BY <1>1, <1>2, <1>3, RelayStepFrame DEF IInv

\* The lowest ids of the eligible rows: no event without its predecessors.
LEMMA DrainBeginInv ==
  ASSUME IInv, DrainBegin
  PROVE  IInv'
<1>1. PICK B \in SUBSET Eligible : FirstByID(B, Eligible) /\ locked' = B /\ batch' = B
  BY DEF DrainBegin
<1>2. stamps' = {} /\ UNCHANGED <<pc, pos, row, id, lastId, aged, sent>>
  BY DEF DrainBegin, handler
<1>3. TypeOK'
  BY <1>1, <1>2 DEF IInv, TypeOK, Eligible
<1>4. HeldArePending' /\ WentThrough'
  BY <1>1, <1>2 DEF HeldArePending, WentThrough, Eligible
<1>5. BatchClosed'
  <2>. SUFFICES ASSUME NEW e \in Events, NEW f \in B, TxOf[e] = TxOf[f],
                       PosOf[e] < PosOf[f], row[e] = "pending", e \notin B
                PROVE  FALSE
    BY <1>1, <1>2 DEF BatchClosed
  <2>1. f \in Events /\ row[f] = "pending" /\ TxOf[f] \in aged
    BY DEF Eligible
  <2>2. e \in Eligible
    BY <2>1 DEF Eligible
  <2>3. id[f] < id[e]
    BY <1>1, <2>2 DEF FirstByID
  <2>4. id[e] < id[f]
    BY <2>1 DEF IInv, IdOrder
  <2>5. id[e] \in Nat /\ id[f] \in Nat
    BY <2>1 DEF IInv, TypeOK
  <2>. QED
    BY <2>3, <2>4, <2>5
<1>6. StampedWasSent' /\ SentWasCommitted' /\ NoOvertaking'
  BY <1>2 DEF IInv, StampedWasSent, SentWasCommitted, NoOvertaking
<1>. QED
  BY <1>2, <1>3, <1>4, <1>5, <1>6, RelayStepFrame DEF IInv

LEMMA QuarantineInv ==
  ASSUME IInv, NEW e \in Events, Quarantine(e)
  PROVE  IInv'
<1>1. /\ e \in Corrupt /\ batch' = batch \ {e}
      /\ UNCHANGED <<pc, pos, row, id, lastId, aged, locked, stamps, sent>>
  BY DEF Quarantine, handler
<1>2. TypeOK' /\ WentThrough'
  BY <1>1 DEF IInv, TypeOK, WentThrough
<1>3. StampedWasSent' /\ SentWasCommitted' /\ HeldArePending' /\ BatchClosed' /\ NoOvertaking'
  BY <1>1 DEF IInv, StampedWasSent, SentWasCommitted, HeldArePending, BatchClosed, NoOvertaking
<1>. QED
  BY <1>1, <1>2, <1>3, RelayStepFrame DEF IInv

\* The relay's next event has all its sound predecessors out.
LEMMA RelayPublishInv ==
  ASSUME IInv, NEW f \in Events, RelayPublish(f)
  PROVE  IInv'
<1>1. /\ f \in batch /\ \A e \in batch : id[f] <= id[e]
      /\ sent' = sent \cup {f}
      /\ stamps' = stamps \cup {f} /\ batch' = batch \ {f}
      /\ UNCHANGED <<pc, pos, row, id, lastId, aged, locked>>
  BY DEF RelayPublish, NextInBatch, handler
<1>2. f \in locked /\ row[f] = "pending"
  BY <1>1 DEF IInv, TypeOK, HeldArePending
<1>3. ASSUME NEW e \in Events, TxOf[e] = TxOf[f], PosOf[e] < PosOf[f], e \notin Corrupt,
             e \notin sent
      PROVE  FALSE
  <2>1. row[e] = "pending"
    BY <1>2, <1>3 DEF IInv, CommitIsWhole, StampedWasSent, Committed
  <2>2. e \in locked
    BY <1>2, <1>3, <2>1 DEF IInv, BatchClosed
  <2>3. id[e] < id[f] /\ id[e] \in Nat /\ id[f] \in Nat
    BY <1>2, <1>3 DEF IInv, IdOrder, TypeOK
  <2>4. e \notin batch
    BY <1>1, <2>3
  <2>5. e \in stamps
    BY <1>3, <2>2, <2>4 DEF IInv, WentThrough
  <2>. QED
    BY <1>3, <2>5 DEF IInv, HeldArePending
<1>4. /\ StampedWasSent' /\ SentWasCommitted' /\ CommitIsWhole'
      /\ NoOvertaking' /\ sent' \subseteq Events
  BY <1>1, <1>2, <1>3, AnnounceInv DEF Committed
<1>5. TypeOK'
  BY <1>1, <1>2, <1>4 DEF IInv, TypeOK
<1>6. HeldArePending' /\ WentThrough' /\ BatchClosed'
  BY <1>1 DEF IInv, HeldArePending, WentThrough, BatchClosed
<1>. QED
  BY <1>1, <1>4, <1>5, <1>6, RelayStepFrame DEF IInv

\* Ending the relay's transaction, committed or not.
LEMMA EndDrainInv ==
  ASSUME IInv, NEW S \in SUBSET stamps, EndDrain(S)
  PROVE  IInv'
<1>1. /\ \A e \in Events : row'[e] = IF e \in S THEN "published" ELSE row[e]
      /\ row' \in [Events -> RowStates]
      /\ locked' = {} /\ batch' = {} /\ stamps' = {}
      /\ UNCHANGED <<pc, pos, id, lastId, aged, sent>>
  BY DEF EndDrain, handler, IInv, TypeOK, RowStates
<1>2. S \in SUBSET Events /\ S \subseteq sent
  BY DEF IInv, TypeOK, HeldArePending
<1>3. /\ StagedIsOpen' <=> (\A e \in Events : row[e] = "staged" => pc'[TxOf[e]] = "open")
      /\ CommitIsWhole' /\ StampedWasSent' /\ SentWasCommitted'
      /\ \A e \in Events : row'[e] \in Committed <=> row[e] \in Committed
      /\ \A e \in Events : row'[e] = "none" <=> row[e] = "none"
  BY <1>1, <1>2, StampInv
<1>4. TypeOK'
  BY <1>1 DEF IInv, TypeOK
<1>5. StagedIsOpen' /\ IdOrder'
  BY <1>1, <1>3 DEF IInv, StagedIsOpen, IdOrder
<1>6. OpenStages'
  <2>. SUFFICES ASSUME NEW u \in Txs, pc[u] = "open", NEW e \in Events, TxOf[e] = u
                PROVE  row'[e] = row[e]
    BY <1>1 DEF IInv, OpenStages
  <2>1. row[e] \notin Committed
    BY DEF IInv, OpenStages, Committed
  <2>. QED
    BY <1>1, <1>2, <2>1 DEF IInv, SentWasCommitted
<1>7. FastPath'
  <2>1. \A u \in Txs : pc[u] \in { "publish", "mark" } => EventsOf[u][pos[u]] \in Events
    BY EventAt DEF IInv, TypeOK, FastPath
  <2>. QED
    BY <1>1, <1>3, <2>1 DEF IInv, FastPath, Current
<1>8. HeldArePending' /\ BatchClosed' /\ WentThrough' /\ NoOvertaking'
  BY <1>1 DEF IInv, HeldArePending, BatchClosed, WentThrough, NoOvertaking
<1>. QED
  BY <1>3, <1>4, <1>5, <1>6, <1>7, <1>8 DEF IInv

LEMMA PurgeInv ==
  ASSUME IInv, NEW p \in Events, Purge(p)
  PROVE  IInv'
<1>1. /\ row[p] = "published"
      /\ \A e \in Events : row'[e] = IF e \in {p} THEN "purged" ELSE row[e]
      /\ row' \in [Events -> RowStates]
      /\ UNCHANGED <<pc, pos, id, lastId, aged, locked, batch, stamps, sent>>
  BY DEF Purge, handler, drain, IInv, TypeOK, RowStates
<1>2. {p} \subseteq sent /\ {p} \cap locked = {}
  BY <1>1 DEF IInv, StampedWasSent, HeldArePending
<1>3. /\ StagedIsOpen' <=> (\A e \in Events : row[e] = "staged" => pc'[TxOf[e]] = "open")
      /\ CommitIsWhole' /\ StampedWasSent' /\ SentWasCommitted'
      /\ \A e \in locked' : row'[e] = "pending"
      /\ \A e \in Events : row'[e] \in Committed <=> row[e] \in Committed
      /\ \A e \in Events : row'[e] = "none" <=> row[e] = "none"
      /\ \A e \in Events : row'[e] = "pending" => row[e] = "pending"
  BY <1>1, <1>2, StampInv
<1>4. TypeOK'
  BY <1>1 DEF IInv, TypeOK
<1>5. StagedIsOpen' /\ IdOrder'
  BY <1>1, <1>3 DEF IInv, StagedIsOpen, IdOrder
<1>6. OpenStages'
  BY <1>1 DEF IInv, OpenStages
<1>7. FastPath'
  <2>1. \A u \in Txs : pc[u] \in { "publish", "mark" } => EventsOf[u][pos[u]] \in Events
    BY EventAt DEF IInv, TypeOK, FastPath
  <2>. QED
    BY <1>1, <1>3, <2>1 DEF IInv, FastPath, Current
<1>8. HeldArePending' /\ BatchClosed' /\ WentThrough' /\ NoOvertaking'
  BY <1>1, <1>3 DEF IInv, HeldArePending, BatchClosed, WentThrough, NoOvertaking
<1>. QED
  BY <1>3, <1>4, <1>5, <1>6, <1>7, <1>8 DEF IInv

\* Every step preserves the invariant.
LEMMA NextInv == IInv /\ [Next]_vars => IInv'
<1>. SUFFICES ASSUME IInv, [Next]_vars PROVE IInv'
  OBVIOUS
<1>1. ASSUME NEW t \in Txs, Stage(t) PROVE IInv'
  BY <1>1, StageInv
<1>2. ASSUME NEW t \in Txs, Commit(t) PROVE IInv'
  BY <1>2, CommitInv
<1>3. ASSUME NEW t \in Txs, Abort(t) PROVE IInv'
  BY <1>3, AbortInv
<1>4. ASSUME NEW t \in Txs, DispatchPublish(t) PROVE IInv'
  BY <1>4, DispatchPublishInv
<1>5. ASSUME NEW t \in Txs, DispatchRefused(t) \/ Crash(t) PROVE IInv'
  BY <1>5, GivesUpInv DEF DispatchRefused, Crash
<1>6. ASSUME NEW t \in Txs, MarkPublished(t) \/ MarkFails(t) PROVE IInv'
  BY <1>6, MarkPublishedInv
<1>7. ASSUME NEW t \in Txs, Age(t) PROVE IInv'
  BY <1>7, AgeInv
<1>8. ASSUME NEW e \in Events, Quarantine(e) PROVE IInv'
  BY <1>8, QuarantineInv
<1>9. ASSUME NEW e \in Events, RelayPublish(e) PROVE IInv'
  BY <1>9, RelayPublishInv
<1>10. ASSUME NEW e \in Events, RelayBlocked(e) PROVE IInv'
  BY <1>10, EndDrainInv DEF RelayBlocked
<1>11. ASSUME NEW e \in Events, Purge(e) PROVE IInv'
  BY <1>11, PurgeInv
<1>12. CASE DrainBegin
  BY <1>12, DrainBeginInv
<1>13. CASE DrainCommit \/ DrainFails
  BY <1>13, EndDrainInv DEF DrainCommit, DrainFails
<1>14. CASE UNCHANGED vars
  <2>1. UNCHANGED <<pc, pos, row, id, lastId, aged, locked, batch, stamps, sent>>
    BY <1>14 DEF vars
  <2>2. TypeOK'
    BY <2>1 DEF IInv, TypeOK
  <2>3. /\ StampedWasSent' /\ SentWasCommitted' /\ HeldArePending'
        /\ BatchClosed' /\ WentThrough' /\ NoOvertaking'
    BY <2>1 DEF IInv, StampedWasSent, SentWasCommitted, HeldArePending,
                BatchClosed, WentThrough, NoOvertaking
  <2>. QED
    BY <2>1, <2>2, <2>3, RelayStepFrame DEF IInv
<1>. QED
  BY <1>1, <1>2, <1>3, <1>4, <1>5, <1>6, <1>7, <1>8, <1>9, <1>10, <1>11, <1>12, <1>13,
     <1>14 DEF Next

\* The inductive invariant holds throughout every behaviour of the outbox.
THEOREM Invariance == Spec => []IInv
BY InitInv, NextInv, PTL DEF Spec

\* Rows, ids and batches are always well typed; the relay stamps only rows it
\* has locked.
THEOREM TypeCorrect == Spec => []TypeOK
<1>1. IInv => TypeOK
  BY DEF IInv
<1>. QED
  BY <1>1, Invariance, PTL

\* The events of one transaction never overtake each other, whatever mix of
\* fast path, relay, refusals and crashes delivers them.
THEOREM InOrder == Spec => []NoOvertaking
<1>1. IInv => NoOvertaking
  BY DEF IInv
<1>. QED
  BY <1>1, Invariance, PTL

\* Every step of the outbox is a step of the promise, or none.
LEMMA StepRefines ==
  ASSUME IInv, [Next]_vars
  PROVE  [Promise!Next]_<<{ e \in Events : row[e] = "pending" }, sent>>
<1>. DEFINE Owed == { e \in Events : row[e] = "pending" }
<1>. USE DEF Promise!Next, Promise!Owe, Promise!Settle, Promise!Announce
<1>1. ASSUME NEW t \in Txs, Stage(t) PROVE UNCHANGED <<Owed, sent>>
  <2>1. Len(EventsOf[t]) \in Nat /\ pos[t] \in Nat
    BY OutboxAssumption DEF IInv, TypeOK
  <2>2. /\ EventsOf[t][pos[t] + 1] \in Events
        /\ TxOf[EventsOf[t][pos[t] + 1]] = t
        /\ PosOf[EventsOf[t][pos[t] + 1]] = pos[t] + 1
    BY <1>1, <2>1, EventAt DEF Stage
  <2>3. row[EventsOf[t][pos[t] + 1]] = "none"
    BY <1>1, <2>1, <2>2 DEF IInv, OpenStages, Stage
  <2>. QED
    BY <1>1, <2>2, <2>3 DEF Stage, IInv, TypeOK
<1>2. ASSUME NEW t \in Txs, Commit(t) PROVE Promise!Next
  <2>. DEFINE S == { e \in Events : TxOf[e] = t }
  <2>1. Owed' = Owed \cup S /\ sent' = sent
    BY <1>2 DEF Commit
  <2>. QED
    BY <2>1
<1>3. ASSUME NEW t \in Txs, Abort(t) PROVE UNCHANGED <<Owed, sent>>
  <2>1. \A e \in Events : TxOf[e] = t => row[e] # "pending"
    BY <1>3 DEF IInv, OpenStages, Abort
  <2>. QED
    BY <1>3, <2>1 DEF Abort
<1>4. ASSUME NEW t \in Txs, DispatchPublish(t) PROVE Promise!Next
  <2>1. EventsOf[t][pos[t]] \in Events /\ row[EventsOf[t][pos[t]]] \in Committed
    BY <1>4, EventAt DEF DispatchPublish, IInv, TypeOK, FastPath, Current
  <2>2. EventsOf[t][pos[t]] \in Owed \cup sent
    BY <2>1 DEF IInv, StampedWasSent, Committed
  <2>3. sent' = sent \cup { EventsOf[t][pos[t]] } /\ Owed' = Owed
    BY <1>4 DEF DispatchPublish, Current
  <2>. QED
    BY <2>1, <2>2, <2>3
<1>5. ASSUME NEW t \in Txs, MarkPublished(t) PROVE Promise!Next
  <2>. DEFINE e0 == EventsOf[t][pos[t]]
  <2>1. e0 \in Events /\ e0 \in sent
    BY <1>5, EventAt DEF MarkPublished, IInv, TypeOK, FastPath, Current
  <2>2. Owed' = Owed \ {e0} /\ sent' = sent
    BY <1>5, <2>1 DEF MarkPublished, Current, IInv, TypeOK
  <2>. QED
    BY <2>1, <2>2
<1>6. ASSUME NEW e \in Events, RelayPublish(e) PROVE Promise!Next
  <2>1. e \in Owed
    BY <1>6 DEF RelayPublish, NextInBatch, IInv, TypeOK, HeldArePending
  <2>2. sent' = sent \cup {e} /\ Owed' = Owed
    BY <1>6 DEF RelayPublish
  <2>. QED
    BY <2>1, <2>2
<1>7. ASSUME NEW S \in SUBSET stamps, EndDrain(S) PROVE Promise!Next
  <2>1. S \in SUBSET Events /\ S \subseteq sent
    BY DEF IInv, TypeOK, HeldArePending
  <2>2. Owed' = Owed \ S /\ sent' = sent
    BY <1>7 DEF EndDrain
  <2>. QED
    BY <2>1, <2>2
<1>8. ASSUME NEW e \in Events, Purge(e) PROVE UNCHANGED <<Owed, sent>>
  BY <1>8 DEF Purge, IInv, TypeOK
<1>9. ASSUME UNCHANGED <<row, sent>> PROVE UNCHANGED <<Owed, sent>>
  BY <1>9
<1>. HIDE DEF Promise!Next
<1>10. ASSUME NEW t \in Txs,
              DispatchRefused(t) \/ MarkFails(t) \/ Crash(t) \/ Age(t)
       PROVE  UNCHANGED <<Owed, sent>>
  BY <1>9, <1>10 DEF DispatchRefused, MarkFails, Crash, Age
<1>11. ASSUME DrainBegin \/ \E e \in Events : Quarantine(e) PROVE UNCHANGED <<Owed, sent>>
  BY <1>9, <1>11 DEF DrainBegin, Quarantine
<1>12. ASSUME (\E e \in Events : RelayBlocked(e)) \/ DrainCommit \/ DrainFails
       PROVE  Promise!Next
  BY <1>7, <1>12 DEF RelayBlocked, DrainCommit, DrainFails
<1>13. CASE UNCHANGED vars
  BY <1>9, <1>13 DEF vars
<1>. QED
  BY <1>1, <1>2, <1>3, <1>4, <1>5, <1>6, <1>8, <1>10, <1>11, <1>12, <1>13 DEF Next

\* The outbox implements at-least-once announcement: for any handlers, batch
\* size, refusals and crashes, an event is announced only once its transaction
\* committed, and stays owed until it was announced.
THEOREM Implements == Spec => AtLeastOnceDelivery
<1>1. Init => Promise!Init
  BY DEF Init, Promise!Init
<1>. QED
  BY <1>1, StepRefines, Invariance, PTL DEF Spec, AtLeastOnceDelivery, Promise!Spec
=============================================================================
