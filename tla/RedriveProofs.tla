--------------------------- MODULE RedriveProofs ---------------------------
(***************************************************************************)
(* Proofs about Redrive, for any number of workers, events and faults, any *)
(* budget and any threshold.  The bound on republishes is for one worker.  *)
(***************************************************************************)
EXTENDS Redrive, FiniteSetTheorems, WellFoundedInduction, TLAPS

\* A finite set of naturals has a greatest element: the one with the fewest
\* elements above it.  Behind the attempts a returning event inherits.
LEMMA GreatestNatural ==
  ASSUME NEW S \in SUBSET Nat, IsFiniteSet(S), S # {}
  PROVE  Max(S) \in S /\ \A y \in S : y <= Max(S)
<1> DEFINE Above(x) == { y \in S : y > x }
           T == { Cardinality(Above(x)) : x \in S }
           R == OpToRel(<, Nat)
<1>1. \A x \in S : IsFiniteSet(Above(x)) /\ Cardinality(Above(x)) \in Nat
  <2> TAKE x \in S
  <2>1. Above(x) \subseteq S
    OBVIOUS
  <2> QED BY <2>1, FS_Subset, FS_CardinalityType
<1>2. T \subseteq Nat /\ T # {}
  BY <1>1
<1>3. \A m, n \in Nat : m < n => <<m, n>> \in R
  BY DEF OpToRel
<1> HIDE DEF R
<1>4. PICK m \in T : \A n \in T : ~(<<n, m>> \in R)
  <2>1. IsWellFoundedOn(R, Nat)
    BY NatLessThanWellFounded DEF R
  <2> QED BY <2>1, <1>2, WFMin
<1>5. PICK x \in S : m = Cardinality(Above(x))
  OBVIOUS
<1>6. ASSUME NEW y \in S, y > x PROVE FALSE
  <2>0. x \in Nat /\ y \in Nat /\ \A z \in S : z \in Nat
    OBVIOUS
  <2>1. Above(y) \subseteq Above(x) /\ y \in Above(x) /\ y \notin Above(y)
    <3>1. \A z \in S : z > y => z > x
      BY <2>0, <1>6
    <3>2. ~(y > y)
      BY <2>0
    <3> QED BY <3>1, <3>2, <1>6, Zenon
  <2>2. Cardinality(Above(y)) < Cardinality(Above(x))
    BY <2>1, <1>1, FS_Subset
  <2> QED BY <2>2, <1>1, <1>3, <1>4, <1>5
<1>7. \A y \in S : x >= y
  BY <1>6
<1>8. Max(S) \in S /\ \A y \in S : Max(S) >= y
  BY <1>7, Zenon DEF Max
<1> QED BY <1>8

----------------------------------------------------------------------------
\* Letters whose republish is done and whose success is about to be recorded.
Replayed == { at[w] : w \in { v \in Workers : pc[v] = "replayed" } }

\* An event's last trace is never a row that is REDRIVEN or about to be: in
\* between the event may have failed again, and the new letter is the trace.
Traced(e) ==
  \/ e \in handled
  \/ topic[e] > 0
  \/ \E o \in DOMAIN letters :
       letters[o] = e /\ (o \in DOMAIN row => row[o].state # "REDRIVEN" /\ o \notin Replayed)

IInv == TypeOK /\ \A e \in Events : Traced(e)

USE RedriveAssumption

\* The ledger is a sequence of rows, a prefix of the letters.
LEMMA Registered ==
  ASSUME TypeOK
  PROVE  /\ Len(row) \in Nat /\ DOMAIN row = 1..Len(row)
         /\ Len(letters) \in Nat /\ DOMAIN letters = 1..Len(letters)
         /\ \A o \in 1..Len(row) : row[o] \in Rows /\ letters[o] \in Events /\ o \in 1..Len(letters)
BY DEF TypeOK, ConsumerOK, LedgerOK

\* What a returning event inherits: the most that one of its letters has spent.
LEMMA PriorIsGreatest ==
  ASSUME TypeOK, NEW e \in Events
  PROVE  /\ PriorAttempts(e) \in Nat
         /\ FailsAs[e] # "UNDECODABLE" =>
              /\ \A o \in DOMAIN row : letters[o] = e => row[o].attempts <= PriorAttempts(e)
              /\ \/ PriorAttempts(e) = 0
                 \/ \E o \in DOMAIN row : letters[o] = e /\ row[o].attempts = PriorAttempts(e)
<1> DEFINE P == { p \in DOMAIN row : letters[p] = e }
           A == { row[o].attempts : o \in P }
<1>1. IsFiniteSet(P)
  <2>1. IsFiniteSet(DOMAIN row)
    BY Registered, FS_Interval
  <2>2. P \subseteq DOMAIN row
    OBVIOUS
  <2> QED BY <2>1, <2>2, FS_Subset
<1>2. IsFiniteSet(A)
  <2> DEFINE f == [o \in P |-> row[o].attempts]
  <2>1. f \in Surjection(P, A)
    BY DEF Surjection
  <2> QED BY <1>1, <2>1, FS_Surjection
<1>3. A \subseteq Nat
  <2>1. \A o \in DOMAIN row : row[o].attempts \in Nat
    BY Registered DEF Rows
  <2> QED BY <2>1
<1>4. IsFiniteSet(A \cup {0})
  BY <1>2, FS_AddElement
<1> DEFINE G == Max(A \cup {0})
<1>5. G \in A \cup {0} /\ \A y \in A \cup {0} : y <= G
  <2>1. A \cup {0} \in SUBSET Nat /\ A \cup {0} # {}
    BY <1>3
  <2> QED BY <1>4, <2>1, GreatestNatural
<1>6. G \in Nat
  BY <1>3, <1>5
<1>7. PriorAttempts(e) = IF FailsAs[e] = "UNDECODABLE" THEN 0 ELSE G
  BY DEF PriorAttempts
<1> HIDE DEF G
<1> QED BY <1>5, <1>6, <1>7

\* The lesser of two numbers.
LEMMA MinOfTwo ==
  ASSUME NEW a \in Nat, NEW b \in Nat
  PROVE  Min({a, b}) \in Nat /\ Min({a, b}) <= a /\ Min({a, b}) <= b
<1>1. \E x \in {a, b} : \A y \in {a, b} : x <= y
  OBVIOUS
<1>2. Min({a, b}) \in {a, b} /\ \A y \in {a, b} : Min({a, b}) <= y
  BY <1>1, Zenon DEF Min
<1> QED BY <1>2

\* A pass never goes beyond the letters there are.
LEMMA PassEndType ==
  ASSUME TypeOK
  PROVE  PassEnd \in 0..Len(letters)
<1>1. Len(letters) \in Nat /\ Len(row) + 4 * MaxPerTick \in Nat
  BY Registered
<1> QED BY <1>1, MinOfTwo DEF PassEnd

\* The ledger's statements turn rows into rows.
LEMMA RowOps ==
  ASSUME NEW r \in Rows
  PROVE  /\ \A reason \in ParkReasons : Parked(r, reason) \in Rows
         /\ Succeeded(r) \in Rows /\ Refused(r) \in Rows /\ Inherited(r) \in Rows
         /\ [r EXCEPT !.due = TRUE] \in Rows
         /\ r.attempts \in Nat /\ r.streak \in Nat
<1>1. r.attempts + 1 \in Nat /\ r.streak + 1 \in Nat /\ r.attempts \in Nat /\ r.streak \in Nat
  BY DEF Rows
<1> QED BY <1>1 DEF Rows, RowStates, Parked, Succeeded, Refused, Inherited

\* Writing one row keeps the ledger's shape.
LEMMA RowUpdate ==
  ASSUME TypeOK, NEW o \in 1..Len(row), NEW r \in Rows, row' = [row EXCEPT ![o] = r]
  PROVE  row' \in Seq(Rows) /\ Len(row') = Len(row)
BY DEF TypeOK, LedgerOK

\* What is not re-driven is parked for one of the closed reasons.
LEMMA DecisionType ==
  ASSUME TypeOK, NEW w \in Workers, NEW o \in DOMAIN claim[w], Decision(w, o) # "REDRIVE"
  PROVE  Decision(w, o) \in ParkReasons
<1>1. letters[o] \in Events
  BY Registered DEF TypeOK, WorkersOK
<1> QED BY <1>1 DEF Decision, DecideRedrive, Retryable, ParkReasons

\* Parking a registered letter.
LEMMA ParkRowType ==
  ASSUME TypeOK, NEW o \in 1..Len(row), NEW reason \in ParkReasons, ParkRow(o, reason)
  PROVE  row' \in Seq(Rows) /\ Len(row') = Len(row)
<1>1. row[o] \in Rows
  BY Registered
<1>2. CASE row' = row
  BY <1>2 DEF TypeOK, LedgerOK
<1>3. CASE row' = [row EXCEPT ![o] = Parked(row[o], reason)]
  BY <1>1, <1>3, RowOps, RowUpdate
<1> QED BY <1>2, <1>3 DEF ParkRow

\* The settled message was there.
LEMMA SettleType ==
  ASSUME TypeOK, NEW e \in Events, NEW c, topic[e] > 0, Settle(e, c)
  PROVE  topic' \in [Events -> Nat] /\ faults' \in 0..MaxFaults
<1>1. CASE c
  <2>1. topic[e] \in Nat /\ topic[e] - 1 \in Nat
    BY DEF TypeOK, ConsumerOK
  <2>2. topic' = [topic EXCEPT ![e] = topic[e] - 1] /\ faults' = faults
    BY <1>1 DEF Settle
  <2> QED BY <2>1, <2>2 DEF TypeOK, ConsumerOK
<1>2. CASE ~c
  BY <1>2 DEF Settle, Fault, TypeOK, ConsumerOK
<1> QED BY <1>1, <1>2

\* A worker's step that leaves the ledger and the consumer alone.
LEMMA TickType ==
  ASSUME TypeOK, UNCHANGED <<topic, handled, letters, replays, row, signalled>>,
         faults' \in 0..MaxFaults, WorkersOK'
  PROVE  TypeOK'
BY DEF TypeOK, ConsumerOK, LedgerOK

\* Every action keeps the types.
LEMMA TypeStep ==
  ASSUME TypeOK, Next
  PROVE  TypeOK'
<1> USE DEF consumer, leader, tick
<1>0. ConsumerOK /\ LedgerOK /\ WorkersOK
  BY DEF TypeOK
<1>1. ASSUME NEW e \in Events, NEW c \in BOOLEAN, Handle(e, c) PROVE TypeOK'
  <2>1. topic' \in [Events -> Nat] /\ faults' \in 0..MaxFaults
    BY <1>1, SettleType DEF Handle
  <2> QED BY <1>0, <1>1, <2>1 DEF Handle, TypeOK, ConsumerOK, LedgerOK, WorkersOK
<1>2. ASSUME NEW e \in Events, NEW c \in BOOLEAN, DeadLetter(e, c) PROVE TypeOK'
  <2>1. topic' \in [Events -> Nat] /\ faults' \in 0..MaxFaults
    BY <1>2, SettleType DEF DeadLetter
  <2>2. letters' \in Seq(Events) /\ Len(letters') = Len(letters) + 1 /\ Len(letters) \in Nat
    BY <1>0, <1>2 DEF DeadLetter, ConsumerOK
  <2>3. ConsumerOK'
    BY <1>0, <1>2, <2>1, <2>2 DEF DeadLetter, ConsumerOK
  <2>4. LedgerOK'
    BY <1>0, <1>2, <2>2 DEF DeadLetter, LedgerOK
  <2>5. WorkersOK'
    <3>1. UNCHANGED <<row, holder, leads, pc, scanned, claim, at>>
      BY <1>2 DEF DeadLetter
    <3>2. \A w \in Workers : scanned[w] \in 0..Len(letters')
      BY <1>0, <2>2 DEF WorkersOK
    <3> QED BY <1>0, <3>1, <3>2 DEF WorkersOK
  <2> QED BY <2>3, <2>4, <2>5 DEF TypeOK
<1>3. ASSUME NEW w \in Workers, Start(w) PROVE TypeOK'
  <2>1. WorkersOK'
    <3>1. /\ holder' \in Workers \cup { None } /\ leads' \subseteq Workers
          /\ pc' \in [Workers -> { "down", "standby", "idle", "intake", "claim", "work",
                                   "signal", "replayed", "refused", "spread" }]
      BY <1>0, <1>3 DEF Start, WorkersOK
    <3>2. \A v \in Workers :
            pc'[v] \in { "signal", "replayed", "refused", "spread" } => pc'[v] = pc[v]
      BY <1>0, <1>3 DEF Start, WorkersOK
    <3>3. UNCHANGED <<letters, row, scanned, claim, at>>
      BY <1>3 DEF Start
    <3> QED BY <1>0, <3>1, <3>2, <3>3 DEF WorkersOK
  <2>2. faults' \in 0..MaxFaults
    BY <1>0, <1>3 DEF Start, ConsumerOK
  <2> QED BY <1>3, <2>1, <2>2, TickType DEF Start
<1>4. ASSUME NEW w \in Workers, Recycle(w) PROVE TypeOK'
  <2>1. WorkersOK'
    BY <1>0, <1>4 DEF Recycle, WorkersOK
  <2>2. faults' \in 0..MaxFaults
    BY <1>0, <1>4 DEF Recycle, ConsumerOK
  <2> QED BY <1>4, <2>1, <2>2, TickType DEF Recycle
<1>5. ASSUME NEW w \in Workers, Stop(w) PROVE TypeOK'
  <2>1. WorkersOK'
    BY <1>0, <1>5 DEF Stop, Released, Fault, WorkersOK
  <2>2. faults' \in 0..MaxFaults
    BY <1>0, <1>5 DEF Stop, Released, Fault, ConsumerOK
  <2> QED BY <1>5, <2>1, <2>2, TickType DEF Stop, Released, Fault
<1>6. ASSUME NEW w \in Workers, Exit(w) PROVE TypeOK'
  <2>1. WorkersOK'
    BY <1>0, <1>6 DEF Exit, Released, WorkersOK
  <2>2. faults' \in 0..MaxFaults
    BY <1>0, <1>6 DEF Exit, ConsumerOK
  <2> QED BY <1>6, <2>1, <2>2, TickType DEF Exit
<1>7. ASSUME NEW w \in Workers, Crash(w) PROVE TypeOK'
  <2>1. WorkersOK'
    BY <1>0, <1>7 DEF Crash, AbandonTick, Released, Fault, WorkersOK
  <2>2. faults' \in 0..MaxFaults
    BY <1>0, <1>7 DEF Crash, AbandonTick, Released, Fault, ConsumerOK
  <2> QED BY <1>7, <2>1, <2>2, TickType DEF Crash, AbandonTick, Released, Fault
<1>8. ASSUME NEW w \in Workers, TickFails(w) PROVE TypeOK'
  <2>1. WorkersOK'
    BY <1>0, <1>8 DEF TickFails, AbandonTick, Fault, WorkersOK
  <2>2. faults' \in 0..MaxFaults
    BY <1>0, <1>8 DEF TickFails, AbandonTick, Fault, ConsumerOK
  <2> QED BY <1>8, <2>1, <2>2, TickType DEF TickFails, AbandonTick, Fault
<1>9. ASSUME NEW w \in Workers, IntakeFails(w) PROVE TypeOK'
  <2>1. WorkersOK'
    BY <1>0, <1>9 DEF IntakeFails, Fault, WorkersOK
  <2>2. faults' \in 0..MaxFaults
    BY <1>0, <1>9 DEF IntakeFails, Fault, ConsumerOK
  <2> QED BY <1>9, <2>1, <2>2, TickType DEF IntakeFails, Fault
<1>10. ASSUME NEW w \in Workers, ScanNew(w) PROVE TypeOK'
  <2>1. WorkersOK'
    BY <1>0, <1>10, PassEndType DEF ScanNew, GoTo, WorkersOK
  <2> QED BY <1>0, <1>10, <2>1, TickType DEF ScanNew, GoTo, ConsumerOK
<1>11. ASSUME NEW w \in Workers, Intake(w) PROVE TypeOK'
  <2>1. \A e \in Events : NewRow(e) \in Rows
    BY PriorIsGreatest DEF NewRow, Rows, RowStates
  <2>2. scanned[w] \in Nat /\ scanned[w] <= Len(letters)
    BY <1>0, Registered DEF WorkersOK
  <2>3. row' \in Seq(Rows) /\ Len(row) <= Len(row') /\ Len(row') <= Len(letters)
    <3>1. CASE scanned[w] <= Len(row)
      BY <1>0, <1>11, <3>1 DEF Intake, LedgerOK
    <3>2. CASE ~(scanned[w] <= Len(row))
      <4>1. row' = [o \in 1..scanned[w] |-> IF o \in DOMAIN row THEN row[o] ELSE NewRow(letters[o])]
        BY <1>11, <3>2 DEF Intake
      <4>2. \A o \in 1..scanned[w] : letters[o] \in Events
        BY <1>0, <2>2 DEF ConsumerOK
      <4>3. \A o \in 1..scanned[w] : row'[o] \in Rows
        BY <2>1, <4>1, <4>2, Registered
      <4>4. row' \in [1..scanned[w] -> Rows]
        BY <4>1, <4>3
      <4>5. row' \in Seq(Rows) /\ Len(row') = scanned[w]
        BY <2>2, <4>4
      <4> QED BY <2>2, <3>2, <4>5, Registered
    <3> QED BY <3>1, <3>2
  <2>4. Len(row) \in Nat /\ Len(row') \in Nat
    BY <2>3, Registered
  <2>5. ConsumerOK'
    BY <1>0, <1>11 DEF Intake, GoTo, ConsumerOK
  <2>6. LedgerOK'
    <3>1. letters' = letters /\ signalled' = signalled
      BY <1>11 DEF Intake, GoTo
    <3>2. 1..Len(row) \subseteq 1..Len(row')
      BY <2>3, <2>4
    <3>3. signalled \subseteq 1..Len(row)
      BY <1>0 DEF LedgerOK
    <3>4. signalled' \subseteq 1..Len(row')
      BY <3>1, <3>2, <3>3
    <3> QED BY <2>3, <3>1, <3>4 DEF LedgerOK
  <2>7. WorkersOK'
    BY <1>0, <1>11, <2>3, <2>4 DEF Intake, GoTo, WorkersOK
  <2> QED BY <2>5, <2>6, <2>7 DEF TypeOK
<1>12. ASSUME NEW w \in Workers, ClaimDue(w) PROVE TypeOK'
  <2>1. WorkersOK'
    BY <1>0, <1>12, Registered DEF ClaimDue, GoTo, WorkersOK
  <2> QED BY <1>0, <1>12, <2>1, TickType DEF ClaimDue, GoTo, ConsumerOK
<1>13. ASSUME NEW w \in Workers, NEW o \in DOMAIN claim[w], Park(w, o) PROVE TypeOK'
  <2>1. o \in 1..Len(row) /\ o \in Nat
    BY <1>0, Registered DEF WorkersOK
  <2>2. row' \in Seq(Rows) /\ Len(row') = Len(row)
    BY <1>13, <2>1, ParkRowType, DecisionType DEF Park
  <2>3. ConsumerOK'
    BY <1>0, <1>13 DEF Park, ConsumerOK
  <2>4. LedgerOK'
    BY <1>0, <1>13, <2>2 DEF Park, LedgerOK
  <2>5. WorkersOK'
    BY <1>0, <1>13, <2>1, <2>2 DEF Park, Pick, WorkersOK
  <2> QED BY <2>3, <2>4, <2>5 DEF TypeOK
<1>14. ASSUME NEW w \in Workers, NEW o \in DOMAIN claim[w], ParkMissing(w, o) PROVE TypeOK'
  <2>1. o \in 1..Len(row) /\ o \in Nat
    BY <1>0, Registered DEF WorkersOK
  <2>2. row' \in Seq(Rows) /\ Len(row') = Len(row)
    BY <1>14, <2>1, ParkRowType, ParkRowType DEF ParkMissing, ParkReasons
  <2>3. ConsumerOK'
    BY <1>0, <1>14 DEF ParkMissing, ConsumerOK
  <2>4. LedgerOK'
    BY <1>0, <1>14, <2>2 DEF ParkMissing, LedgerOK
  <2>5. WorkersOK'
    BY <1>0, <1>14, <2>1, <2>2 DEF ParkMissing, Pick, WorkersOK
  <2> QED BY <2>3, <2>4, <2>5 DEF TypeOK
<1>15. ASSUME NEW w \in Workers, ParkSignal(w) PROVE TypeOK'
  <2>1. ConsumerOK'
    BY <1>0, <1>15 DEF ParkSignal, ConsumerOK
  <2>2. LedgerOK'
    BY <1>0, <1>15 DEF ParkSignal, LedgerOK, WorkersOK
  <2>3. WorkersOK'
    BY <1>0, <1>15 DEF ParkSignal, NextLetter, WorkersOK
  <2> QED BY <2>1, <2>2, <2>3 DEF TypeOK
<1>16. ASSUME NEW w \in Workers, NEW o \in DOMAIN claim[w], Replay(w, o) PROVE TypeOK'
  <2>1. o \in 1..Len(row) /\ o \in Nat /\ letters[o] \in Events
    BY <1>0, Registered DEF WorkersOK
  <2>2. ConsumerOK'
    BY <1>0, <1>16, <2>1, SMTT(40) DEF Replay, Republished, ConsumerOK
  <2>3. LedgerOK'
    BY <1>0, <1>16 DEF Replay, Republished, LedgerOK
  <2>4. WorkersOK'
    BY <1>0, <1>16, <2>1 DEF Replay, Republished, Pick, WorkersOK
  <2> QED BY <2>2, <2>3, <2>4 DEF TypeOK
<1>17. ASSUME NEW w \in Workers, NEW o \in DOMAIN claim[w], NEW b \in BOOLEAN, ReplayFails(w, o, b) PROVE TypeOK'
  <2>1. o \in 1..Len(row) /\ o \in Nat /\ letters[o] \in Events
    BY <1>0, Registered DEF WorkersOK
  <2>2. UNCHANGED <<handled, letters>>
    BY <1>17 DEF ReplayFails, Republished
  <2>3. /\ topic' \in [Events -> Nat] /\ replays' \in [Events -> Nat]
        /\ faults' \in 0..MaxFaults
    <3>1. CASE b
      <4>1. /\ topic' = [topic EXCEPT ![letters[o]] = topic[letters[o]] + 1]
            /\ replays' = [replays EXCEPT ![letters[o]] = replays[letters[o]] + 1]
        BY <1>17, <3>1 DEF ReplayFails, Republished
      <4>2. topic' \in [Events -> Nat] /\ replays' \in [Events -> Nat]
        BY <1>0, <2>1, <4>1 DEF ConsumerOK
      <4>3. faults' \in 0..MaxFaults
        BY <1>0, <1>17, <3>1 DEF ReplayFails, Fault, ConsumerOK
      <4> QED BY <4>2, <4>3
    <3>2. CASE ~b
      BY <1>0, <1>17, <3>2 DEF ReplayFails, ConsumerOK
    <3> QED BY <3>1, <3>2
  <2>4. ConsumerOK'
    BY <1>0, <2>2, <2>3 DEF ConsumerOK
  <2>5. LedgerOK'
    BY <1>0, <1>17, <2>2 DEF ReplayFails, LedgerOK
  <2>6. WorkersOK'
    BY <1>0, <1>17, <2>1, <2>2 DEF ReplayFails, Pick, WorkersOK
  <2> QED BY <2>4, <2>5, <2>6 DEF TypeOK
<1>18. ASSUME NEW w \in Workers, RecordSuccess(w) PROVE TypeOK'
  <2>1. at[w] \in 1..Len(row) /\ row[at[w]] \in Rows
    BY <1>0, <1>18, Registered DEF RecordSuccess, WorkersOK
  <2>2. row' \in Seq(Rows) /\ Len(row') = Len(row)
    <3>1. CASE row' = row
      BY <1>0, <3>1 DEF LedgerOK
    <3>2. CASE row' = [row EXCEPT ![at[w]] = Succeeded(row[at[w]])]
      BY <2>1, <3>2, RowOps, RowUpdate
    <3> QED BY <1>18, <3>1, <3>2 DEF RecordSuccess
  <2>3. ConsumerOK'
    BY <1>0, <1>18 DEF RecordSuccess, ConsumerOK
  <2>4. LedgerOK'
    BY <1>0, <1>18, <2>2 DEF RecordSuccess, LedgerOK
  <2>5. WorkersOK'
    <3>1. CASE row[at[w]].state = "PARKED"
      <4>1. AbandonTick(w, "idle") /\ UNCHANGED <<row, consumer, leader>>
        BY <1>18, <3>1 DEF RecordSuccess
      <4> QED BY <1>0, <4>1 DEF AbandonTick, GoTo, WorkersOK
    <3>2. CASE row[at[w]].state # "PARKED"
      <4>1. NextLetter(w) /\ UNCHANGED <<consumer, leader>>
        BY <1>18, <3>2 DEF RecordSuccess
      <4> QED BY <1>0, <2>2, <4>1 DEF NextLetter, WorkersOK
    <3> QED BY <3>1, <3>2
  <2> QED BY <2>3, <2>4, <2>5 DEF TypeOK
<1>19. ASSUME NEW w \in Workers, RecordFailure(w) PROVE TypeOK'
  <2>1. at[w] \in 1..Len(row) /\ row[at[w]] \in Rows
    BY <1>0, <1>19, Registered DEF RecordFailure, WorkersOK
  <2>2. row' \in Seq(Rows) /\ Len(row') = Len(row)
    <3>1. CASE row' = row
      BY <1>0, <3>1 DEF LedgerOK
    <3>2. CASE row' = [row EXCEPT ![at[w]] = Refused(row[at[w]])]
      BY <2>1, <3>2, RowOps, RowUpdate
    <3> QED BY <1>19, <3>1, <3>2 DEF RecordFailure
  <2>3. ConsumerOK'
    BY <1>0, <1>19 DEF RecordFailure, GoTo, ConsumerOK
  <2>4. LedgerOK'
    BY <1>0, <1>19, <2>2 DEF RecordFailure, GoTo, LedgerOK
  <2>5. WorkersOK'
    BY <1>0, <1>19, <2>1, <2>2 DEF RecordFailure, GoTo, WorkersOK
  <2> QED BY <2>3, <2>4, <2>5 DEF TypeOK
<1>20. ASSUME NEW w \in Workers, SpreadFailure(w) PROVE TypeOK'
  <2>1. row' \in [1..Len(row) -> Rows]
    BY <1>20, Registered, RowOps DEF SpreadFailure
  <2>2. row' \in Seq(Rows) /\ Len(row') = Len(row)
    BY <2>1, Registered
  <2>3. ConsumerOK'
    BY <1>0, <1>20 DEF SpreadFailure, ConsumerOK
  <2>4. LedgerOK'
    BY <1>0, <1>20, <2>2 DEF SpreadFailure, LedgerOK
  <2>5. WorkersOK'
    BY <1>0, <1>20, <2>2 DEF SpreadFailure, NextLetter, WorkersOK
  <2> QED BY <2>3, <2>4, <2>5 DEF TypeOK
<1>21. ASSUME NEW o \in DOMAIN row, FallDue(o) PROVE TypeOK'
  <2>1. o \in 1..Len(row) /\ row[o] \in Rows
    BY Registered
  <2>2. row' \in Seq(Rows) /\ Len(row') = Len(row)
    BY <1>21, <2>1, RowOps, RowUpdate DEF FallDue
  <2>3. ConsumerOK' /\ LedgerOK' /\ WorkersOK'
    BY <1>0, <1>21, <2>2 DEF FallDue, ConsumerOK, LedgerOK, WorkersOK
  <2> QED BY <2>3 DEF TypeOK
<1>22. ASSUME NEW w \in Workers, ScanCutShort(w) PROVE TypeOK'
  <2>1. WorkersOK'
    <3>1. PICK n \in Len(row)..PassEnd : scanned' = [scanned EXCEPT ![w] = n]
      BY <1>22 DEF ScanCutShort
    <3>2. n \in 0..Len(letters)
      BY <3>1, PassEndType, Registered
    <3> QED BY <1>0, <1>22, <3>1, <3>2 DEF ScanCutShort, WorkersOK
  <2>2. faults' \in 0..MaxFaults
    BY <1>0, <1>22 DEF ScanCutShort, Fault, ConsumerOK
  <2> QED BY <1>22, <2>1, <2>2, TickType DEF ScanCutShort
<1> QED
  <2>1. ASSUME NEW e \in Events, Consume(e) PROVE TypeOK'
    BY <2>1, <1>1, <1>2 DEF Consume
  <2>2. ASSUME NEW w \in Workers, Disturb(w) PROVE TypeOK'
    BY <2>2, <1>4, <1>5, <1>6, <1>7, <1>8, <1>9, <1>22 DEF Disturb
  <2>3. ASSUME NEW w \in Workers, NEW o \in DOMAIN claim[w], OnLetter(w, o) PROVE TypeOK'
    BY <2>3, <1>13, <1>14, <1>16, <1>17 DEF OnLetter
  <2>4. ASSUME NEW w \in Workers, Step(w) PROVE TypeOK'
    BY <2>3, <2>4, <1>3, <1>10, <1>11, <1>12, <1>15, <1>18, <1>19, <1>20 DEF Step
  <2> QED BY <2>1, <2>2, <2>4, <1>21 DEF Next

----------------------------------------------------------------------------
\* The letters a replaying worker is at are registered.
LEMMA ReplayedRegistered ==
  ASSUME TypeOK
  PROVE  Replayed \subseteq DOMAIN row
BY Registered DEF Replayed, TypeOK, WorkersOK

\* A trace survives a step that keeps the consumer and the ledger's redriven
\* rows, unless the step is the one that republishes.
LEMMA TraceKept ==
  ASSUME TypeOK, NEW e \in Events, Traced(e), UNCHANGED <<handled, letters>>,
         topic[e] > 0 => topic'[e] > 0, Replayed' \subseteq Replayed,
         DOMAIN row \subseteq DOMAIN row',
         \A o \in DOMAIN row' :
           row'[o].state = "REDRIVEN" => o \in DOMAIN row /\ (row[o].state = "REDRIVEN" \/ o \in Replayed)
  PROVE  Traced(e)'
<1>1. CASE e \in handled \/ topic[e] > 0
  BY <1>1 DEF Traced
<1>2. CASE \E o \in DOMAIN letters :
             letters[o] = e /\ (o \in DOMAIN row => row[o].state # "REDRIVEN" /\ o \notin Replayed)
  <2>1. PICK o \in DOMAIN letters :
          letters[o] = e /\ (o \in DOMAIN row => row[o].state # "REDRIVEN" /\ o \notin Replayed)
    BY <1>2
  <2>2. o \notin Replayed
    BY <2>1, ReplayedRegistered
  <2>3. o \in DOMAIN row' => row'[o].state # "REDRIVEN" /\ o \notin Replayed'
    BY <2>1, <2>2
  <2> QED BY <2>1, <2>3 DEF Traced
<1> QED BY <1>1, <1>2 DEF Traced

\* Only Replay brings a worker to the point of recording a success.
LEMMA ReplayedShrinks ==
  ASSUME TypeOK,
         \A w \in Workers : pc'[w] = "replayed" => pc[w] = "replayed" /\ at'[w] = at[w]
  PROVE  Replayed' \subseteq Replayed
BY DEF Replayed

\* A step that leaves the rows alone, or writes none of them to REDRIVEN.
LEMMA QuietStep ==
  ASSUME TypeOK, NEW e \in Events, Traced(e), UNCHANGED <<handled, letters>>,
         topic[e] > 0 => topic'[e] > 0,
         \A w \in Workers : pc'[w] = "replayed" => pc[w] = "replayed" /\ at'[w] = at[w],
         DOMAIN row' = DOMAIN row,
         \A o \in DOMAIN row : row'[o].state = "REDRIVEN" => row[o].state = "REDRIVEN"
  PROVE  Traced(e)'
BY TraceKept, ReplayedShrinks

\* No action loses the last trace of an event.
LEMMA TraceStep ==
  ASSUME TypeOK, NEW e \in Events, Traced(e), Next
  PROVE  Traced(e)'
<1> USE DEF consumer, leader, tick
<1>0. /\ ConsumerOK /\ WorkersOK
      /\ \A o \in DOMAIN row : row[o] \in Rows
  BY Registered DEF TypeOK
<1>1. ASSUME NEW f \in Events, NEW c \in BOOLEAN, Handle(f, c) PROVE Traced(e)'
  <2>1. CASE f = e
    BY <1>1, <2>1 DEF Handle, Traced
  <2>2. CASE f # e
    <3>1. handled \subseteq handled' /\ UNCHANGED <<letters, row, pc, at>>
      BY <1>1 DEF Handle
    <3>2. topic'[e] = topic[e]
      BY <1>0, <1>1, <2>2 DEF Handle, Settle, Fault, ConsumerOK
    <3>3. Replayed' = Replayed
      BY <3>1 DEF Replayed
    <3> QED BY <3>1, <3>2, <3>3 DEF Traced
  <2> QED BY <2>1, <2>2
<1>2. ASSUME NEW f \in Events, NEW c \in BOOLEAN, DeadLetter(f, c) PROVE Traced(e)'
  <2>0. UNCHANGED <<handled, row, pc, at>> /\ letters' = Append(letters, f)
    BY <1>2 DEF DeadLetter
  <2>1. Replayed' = Replayed
    BY <2>0 DEF Replayed
  <2>2. CASE f = e
    <3> DEFINE n == Len(letters) + 1
    <3>1. n \in DOMAIN letters' /\ letters'[n] = e
      BY <1>0, <2>0, <2>2 DEF ConsumerOK
    <3>2. n \notin DOMAIN row'
      BY <2>0, Registered DEF TypeOK, LedgerOK
    <3> QED BY <3>1, <3>2 DEF Traced
  <2>3. CASE f # e
    <3>1. topic'[e] = topic[e]
      BY <1>0, <1>2, <2>3 DEF DeadLetter, Settle, Fault, ConsumerOK
    <3>2. \A o \in DOMAIN letters : o \in DOMAIN letters' /\ letters'[o] = letters[o]
      BY <1>0, <2>0 DEF ConsumerOK
    <3> QED BY <2>0, <2>1, <3>1, <3>2 DEF Traced
  <2> QED BY <2>2, <2>3
<1>3. ASSUME NEW w \in Workers, Start(w) PROVE Traced(e)'
  <2>1. UNCHANGED <<topic, handled, letters, row>>
    BY <1>3 DEF Start
  <2>2. \A v \in Workers : pc'[v] = "replayed" => pc[v] = "replayed" /\ at'[v] = at[v]
    BY <1>0, <1>3 DEF Start, WorkersOK
  <2> QED BY <2>1, <2>2, QuietStep
<1>4. ASSUME NEW w \in Workers, Recycle(w) PROVE Traced(e)'
  <2>1. UNCHANGED <<topic, handled, letters, row>>
    BY <1>4 DEF Recycle
  <2>2. \A v \in Workers : pc'[v] = "replayed" => pc[v] = "replayed" /\ at'[v] = at[v]
    BY <1>0, <1>4 DEF Recycle, WorkersOK
  <2> QED BY <2>1, <2>2, QuietStep
<1>5. ASSUME NEW w \in Workers, Stop(w) PROVE Traced(e)'
  <2>1. UNCHANGED <<topic, handled, letters, row>>
    BY <1>5 DEF Stop
  <2>2. \A v \in Workers : pc'[v] = "replayed" => pc[v] = "replayed" /\ at'[v] = at[v]
    BY <1>0, <1>5 DEF Stop, WorkersOK
  <2> QED BY <2>1, <2>2, QuietStep
<1>6. ASSUME NEW w \in Workers, Exit(w) PROVE Traced(e)'
  <2>1. UNCHANGED <<topic, handled, letters, row>>
    BY <1>6 DEF Exit
  <2>2. \A v \in Workers : pc'[v] = "replayed" => pc[v] = "replayed" /\ at'[v] = at[v]
    BY <1>0, <1>6 DEF Exit, Released, WorkersOK
  <2> QED BY <2>1, <2>2, QuietStep
<1>7. ASSUME NEW w \in Workers, Crash(w) PROVE Traced(e)'
  <2>1. UNCHANGED <<topic, handled, letters, row>>
    BY <1>7 DEF Crash, AbandonTick
  <2>2. \A v \in Workers : pc'[v] = "replayed" => pc[v] = "replayed" /\ at'[v] = at[v]
    BY <1>0, <1>7 DEF Crash, AbandonTick, WorkersOK
  <2> QED BY <2>1, <2>2, QuietStep
<1>8. ASSUME NEW w \in Workers, TickFails(w) PROVE Traced(e)'
  <2>1. UNCHANGED <<topic, handled, letters, row>>
    BY <1>8 DEF TickFails, AbandonTick
  <2>2. \A v \in Workers : pc'[v] = "replayed" => pc[v] = "replayed" /\ at'[v] = at[v]
    BY <1>0, <1>8 DEF TickFails, AbandonTick, WorkersOK
  <2> QED BY <2>1, <2>2, QuietStep
<1>9. ASSUME NEW w \in Workers, IntakeFails(w) PROVE Traced(e)'
  <2>1. UNCHANGED <<topic, handled, letters, row>>
    BY <1>9 DEF IntakeFails
  <2>2. \A v \in Workers : pc'[v] = "replayed" => pc[v] = "replayed" /\ at'[v] = at[v]
    BY <1>0, <1>9 DEF IntakeFails, WorkersOK
  <2> QED BY <2>1, <2>2, QuietStep
<1>10. ASSUME NEW w \in Workers, ScanNew(w) PROVE Traced(e)'
  <2>1. UNCHANGED <<topic, handled, letters, row>>
    BY <1>10 DEF ScanNew, GoTo
  <2>2. \A v \in Workers : pc'[v] = "replayed" => pc[v] = "replayed" /\ at'[v] = at[v]
    BY <1>0, <1>10 DEF ScanNew, GoTo, WorkersOK
  <2> QED BY <2>1, <2>2, QuietStep
<1>11. ASSUME NEW w \in Workers, ClaimDue(w) PROVE Traced(e)'
  <2>1. UNCHANGED <<topic, handled, letters, row>>
    BY <1>11 DEF ClaimDue, GoTo
  <2>2. \A v \in Workers : pc'[v] = "replayed" => pc[v] = "replayed" /\ at'[v] = at[v]
    BY <1>0, <1>11 DEF ClaimDue, GoTo, WorkersOK
  <2> QED BY <2>1, <2>2, QuietStep
<1>12. ASSUME NEW w \in Workers, ParkSignal(w) PROVE Traced(e)'
  <2>1. UNCHANGED <<topic, handled, letters, row>>
    BY <1>12 DEF ParkSignal, NextLetter
  <2>2. \A v \in Workers : pc'[v] = "replayed" => pc[v] = "replayed" /\ at'[v] = at[v]
    BY <1>0, <1>12 DEF ParkSignal, NextLetter, WorkersOK
  <2> QED BY <2>1, <2>2, QuietStep
<1>13. ASSUME NEW w \in Workers, NEW o \in DOMAIN claim[w], Park(w, o) PROVE Traced(e)'
  <2>1. UNCHANGED <<topic, handled, letters>>
    BY <1>13 DEF Park
  <2>2. \A v \in Workers : pc'[v] = "replayed" => pc[v] = "replayed" /\ at'[v] = at[v]
    BY <1>0, <1>13 DEF Park, Pick, WorkersOK
  <2>3. DOMAIN row' = DOMAIN row /\ \A p \in DOMAIN row : row'[p].state = "REDRIVEN" => row[p].state = "REDRIVEN"
    BY <1>0, <1>13 DEF Park, ParkRow, Parked, Rows
  <2> QED BY <2>1, <2>2, <2>3, QuietStep
<1>14. ASSUME NEW w \in Workers, NEW o \in DOMAIN claim[w], ParkMissing(w, o) PROVE Traced(e)'
  <2>1. UNCHANGED <<topic, handled, letters>>
    BY <1>14 DEF ParkMissing
  <2>2. \A v \in Workers : pc'[v] = "replayed" => pc[v] = "replayed" /\ at'[v] = at[v]
    BY <1>0, <1>14 DEF ParkMissing, Pick, WorkersOK
  <2>3. DOMAIN row' = DOMAIN row /\ \A p \in DOMAIN row : row'[p].state = "REDRIVEN" => row[p].state = "REDRIVEN"
    BY <1>0, <1>14 DEF ParkMissing, ParkRow, Parked, Rows
  <2> QED BY <2>1, <2>2, <2>3, QuietStep
<1>15. ASSUME NEW w \in Workers, RecordFailure(w) PROVE Traced(e)'
  <2>1. UNCHANGED <<topic, handled, letters>>
    BY <1>15 DEF RecordFailure, GoTo
  <2>2. \A v \in Workers : pc'[v] = "replayed" => pc[v] = "replayed" /\ at'[v] = at[v]
    BY <1>0, <1>15 DEF RecordFailure, GoTo, WorkersOK
  <2>3. DOMAIN row' = DOMAIN row /\ \A p \in DOMAIN row : row'[p].state = "REDRIVEN" => row[p].state = "REDRIVEN"
    BY <1>0, <1>15 DEF RecordFailure, Refused, Rows
  <2> QED BY <2>1, <2>2, <2>3, QuietStep
<1>16. ASSUME NEW w \in Workers, SpreadFailure(w) PROVE Traced(e)'
  <2>1. UNCHANGED <<topic, handled, letters>>
    BY <1>16 DEF SpreadFailure
  <2>2. \A v \in Workers : pc'[v] = "replayed" => pc[v] = "replayed" /\ at'[v] = at[v]
    BY <1>0, <1>16 DEF SpreadFailure, NextLetter, WorkersOK
  <2>3. DOMAIN row' = DOMAIN row /\ \A p \in DOMAIN row : row'[p].state = "REDRIVEN" => row[p].state = "REDRIVEN"
    BY <1>0, <1>16 DEF SpreadFailure, Inherited, Rows
  <2> QED BY <2>1, <2>2, <2>3, QuietStep
<1>17. ASSUME NEW o \in DOMAIN row, FallDue(o) PROVE Traced(e)'
  <2>1. UNCHANGED <<topic, handled, letters, pc, at>>
    BY <1>17 DEF FallDue
  <2>2. DOMAIN row' = DOMAIN row /\ \A p \in DOMAIN row : row'[p].state = "REDRIVEN" => row[p].state = "REDRIVEN"
    BY <1>0, <1>17 DEF FallDue, Rows
  <2> QED BY <2>1, <2>2, QuietStep
<1>18. ASSUME NEW w \in Workers, NEW o \in DOMAIN claim[w], NEW b \in BOOLEAN, ReplayFails(w, o, b)
      PROVE  Traced(e)'
  <2>1. UNCHANGED <<handled, letters, row>>
    BY <1>18 DEF ReplayFails, Republished
  <2>2. \A v \in Workers : pc'[v] = "replayed" => pc[v] = "replayed" /\ at'[v] = at[v]
    BY <1>0, <1>18 DEF ReplayFails, Pick, WorkersOK
  <2>3. topic[e] > 0 => topic'[e] > 0
    <3>1. topic \in [Events -> Nat]
      BY <1>0 DEF ConsumerOK
    <3>2. CASE b
      <4>1. topic' = [topic EXCEPT ![letters[o]] = topic[letters[o]] + 1]
        BY <1>18, <3>2 DEF ReplayFails, Republished
      <4> QED BY <3>1, <4>1
    <3>3. CASE ~b
      BY <1>18, <3>3 DEF ReplayFails
    <3> QED BY <3>2, <3>3
  <2> QED BY <2>1, <2>2, <2>3, QuietStep
<1>19. ASSUME NEW w \in Workers, NEW o \in DOMAIN claim[w], Replay(w, o) PROVE Traced(e)'
  <2>0. UNCHANGED <<handled, letters, row>> /\ topic' = [topic EXCEPT ![letters[o]] = topic[letters[o]] + 1]
    BY <1>19 DEF Replay, Republished
  <2>1. CASE letters[o] = e
    <3>1. topic'[e] > 0
      BY <1>0, <2>0, <2>1 DEF ConsumerOK
    <3> QED BY <3>1 DEF Traced
  <2>2. CASE letters[o] # e
    <3>1. topic'[e] = topic[e]
      BY <1>0, <2>0, <2>2 DEF ConsumerOK
    <3>2. Replayed' \subseteq Replayed \cup {o}
      BY <1>0, <1>19 DEF Replay, Pick, Replayed, WorkersOK
    <3> QED BY <2>0, <2>2, <3>1, <3>2 DEF Traced
  <2> QED BY <2>1, <2>2
<1>20. ASSUME NEW w \in Workers, RecordSuccess(w) PROVE Traced(e)'
  <2>1. UNCHANGED <<topic, handled, letters, at>>
    BY <1>20 DEF RecordSuccess, AbandonTick, NextLetter
  <2>2. \A v \in Workers : pc'[v] = "replayed" => pc[v] = "replayed" /\ at'[v] = at[v]
    BY <1>0, <1>20 DEF RecordSuccess, AbandonTick, NextLetter, WorkersOK
  <2>3. at[w] \in Replayed
    BY <1>20 DEF RecordSuccess, Replayed
  <2>4. DOMAIN row' = DOMAIN row /\ \A p \in DOMAIN row : p # at[w] => row'[p] = row[p]
    BY <1>20 DEF RecordSuccess
  <2>5. Replayed' \subseteq Replayed
    BY <2>2, ReplayedShrinks
  <2> QED BY <2>1, <2>3, <2>4, <2>5, TraceKept
<1>21. ASSUME NEW w \in Workers, Intake(w) PROVE Traced(e)'
  <2>1. UNCHANGED <<topic, handled, letters, at>>
    BY <1>21 DEF Intake, GoTo
  <2>2. \A v \in Workers : pc'[v] = "replayed" => pc[v] = "replayed" /\ at'[v] = at[v]
    BY <1>0, <1>21 DEF Intake, GoTo, WorkersOK
  <2>3. Replayed' \subseteq Replayed
    BY <2>2, ReplayedShrinks
  <2>4. CASE scanned[w] <= Len(row)
    BY <1>21, <2>1, <2>3, <2>4, TraceKept DEF Intake
  <2>5. CASE ~(scanned[w] <= Len(row))
    <3>1. row' = [o \in 1..scanned[w] |-> IF o \in DOMAIN row THEN row[o] ELSE NewRow(letters[o])]
      BY <1>21, <2>5 DEF Intake
    <3>2. DOMAIN row \subseteq DOMAIN row'
      BY <1>0, <2>5, <3>1, Registered DEF WorkersOK
    <3>3. \A o \in DOMAIN row' : row'[o].state = "REDRIVEN" => o \in DOMAIN row /\ row[o].state = "REDRIVEN"
      BY <3>1 DEF NewRow
    <3> QED BY <2>1, <2>3, <3>2, <3>3, TraceKept
  <2> QED BY <2>4, <2>5
<1>22. ASSUME NEW w \in Workers, ScanCutShort(w) PROVE Traced(e)'
  <2>1. UNCHANGED <<topic, handled, letters, row>>
    BY <1>22 DEF ScanCutShort
  <2>2. \A v \in Workers : pc'[v] = "replayed" => pc[v] = "replayed" /\ at'[v] = at[v]
    BY <1>0, <1>22 DEF ScanCutShort, WorkersOK
  <2> QED BY <2>1, <2>2, QuietStep
<1> QED
  <2>1. ASSUME NEW f \in Events, Consume(f) PROVE Traced(e)'
    BY <2>1, <1>1, <1>2 DEF Consume
  <2>2. ASSUME NEW w \in Workers, Disturb(w) PROVE Traced(e)'
    BY <2>2, <1>4, <1>5, <1>6, <1>7, <1>8, <1>9, <1>22, <1>22 DEF Disturb
  <2>3. ASSUME NEW w \in Workers, NEW o \in DOMAIN claim[w], OnLetter(w, o) PROVE Traced(e)'
    BY <2>3, <1>13, <1>14, <1>19, <1>18 DEF OnLetter
  <2>4. ASSUME NEW w \in Workers, Step(w) PROVE Traced(e)'
    BY <2>3, <2>4, <1>3, <1>10, <1>21, <1>11, <1>12, <1>20, <1>15, <1>16
    DEF Step
  <2> QED BY <2>1, <2>2, <2>4, <1>17 DEF Next

----------------------------------------------------------------------------
\* It holds at first: every event is on its topic.
LEMMA Start0 == Init => IInv
<1> SUFFICES ASSUME Init PROVE IInv
  OBVIOUS
<1>1. TypeOK
  BY DEF Init, TypeOK, ConsumerOK, LedgerOK, WorkersOK
<1>2. \A e \in Events : Traced(e)
  BY DEF Init, Traced
<1> QED BY <1>1, <1>2 DEF IInv

\* Every step keeps it.
LEMMA Kept == IInv /\ [Next]_vars => IInv'
<1> SUFFICES ASSUME IInv, [Next]_vars PROVE IInv'
  OBVIOUS
<1>1. CASE Next
  <2>1. TypeOK'
    BY <1>1, TypeStep DEF IInv
  <2>2. \A e \in Events : Traced(e)'
    BY <1>1, TraceStep DEF IInv
  <2> QED BY <2>1, <2>2 DEF IInv
<1>2. CASE UNCHANGED vars
  <2>1. TypeOK'
    BY <1>2 DEF vars, IInv, TypeOK, ConsumerOK, LedgerOK, WorkersOK
  <2>2. \A e \in Events : Traced(e)'
    BY <1>2 DEF vars, IInv, Traced, Replayed
  <2> QED BY <2>1, <2>2 DEF IInv
<1> QED BY <1>1, <1>2

\* The inductive invariant holds in every behaviour: the types, and a trace
\* of every event that no worker is about to turn into a REDRIVEN row.
THEOREM Invariance == Spec => []IInv
BY Start0, Kept, PTL DEF Spec

\* The ledger is a prefix of the dead-letter topic and every worker acts on
\* registered letters, however workers, crashes and lost commits interleave.
THEOREM TypeCorrect == Spec => []TypeOK
<1>1. IInv => TypeOK
  BY DEF IInv
<1> QED BY <1>1, Invariance, PTL

\* The at-least-once promise across the consumer and the redrive ledger: an
\* event that was not handled is on its topic, unregistered, scheduled or parked.
THEOREM NoEventLost == Spec => []NeverLost
<1>1. IInv => NeverLost
  BY DEF IInv, Traced, NeverLost
<1> QED BY <1>1, Invariance, PTL

----------------------------------------------------------------------------
(* How often an event is republished *)

\* What the letter or copy o of e is past: an unregistered one will inherit what
\* its event has spent, a row that is not on the schedule is past everything.
Floor(e, o) ==
  IF o \notin DOMAIN row THEN PriorAttempts(e)
  ELSE IF row[o].state = "RETRYING" THEN row[o].attempts ELSE Budget

\* The letters of an event, and its copies on the topic, numbered from 0 down.
Owing(e) == (1 - topic[e])..0 \cup { o \in DOMAIN letters : letters[o] = e }

\* The attempts an event has left, one for each letter or copy and each number
\* of the schedule it is not past.
LeftOf(e, S) == { p \in S \X (1..Budget) : p[2] > Floor(e, p[1]) }
Left(e) == LeftOf(e, Owing(e))

Loose(e) == Owing(e) \ DOMAIN row # {}
Flying(e) == \E w \in Workers : pc[w] = "replayed" /\ letters[at[w]] = e

\* What an event has in advance between a republish and its record.
Advance(e) ==
  IF ~Flying(e) THEN 0 ELSE IF Loose(e) THEN 1 + Budget - PriorAttempts(e) ELSE 1

Allowance == (1 + faults) * Budget + faults

\* The letters a worker has still to go through are as it claimed them.
ClaimKept(w) ==
  \A o \in DOMAIN claim[w] :
    pc[w] = "work" \/ o # at[w] =>
      row[o].state = "RETRYING" /\ row[o].attempts = claim[w][o].attempts

\* What is republished is on the schedule and has an attempt left.
FlightKept(w) ==
  pc[w] \in { "replayed", "refused" } =>
    /\ row[at[w]].state = "RETRYING" /\ row[at[w]].attempts < Budget
    /\ Retryable(letters[at[w]])

ClaimsOK == \A w \in Workers : ClaimKept(w) /\ FlightKept(w)

AttemptsOK == \A o \in DOMAIN row : row[o].attempts <= Budget

\* Republishes done and attempts left stay within the allowance.
Bound(e) == replays[e] + Cardinality(Left(e)) <= Allowance + Advance(e)

SpendingOK ==
  \A e \in Events : IF Retryable(e) THEN Bound(e) ELSE replays[e] = 0

BInv == TypeOK /\ ClaimsOK /\ AttemptsOK /\ SpendingOK

\* One process of the service: several would republish the same letters.
OneWorker == \A v, w \in Workers : v = w

\* The part of the schedule after m, for one letter.
Rest(o, m) == {o} \X ((m + 1)..Budget)

\* A row with m attempts leaves Budget - m of them.
LEMMA RestSize ==
  ASSUME NEW o, NEW m \in 0..Budget
  PROVE  IsFiniteSet(Rest(o, m)) /\ Cardinality(Rest(o, m)) = Budget - m
<1>1. IsFiniteSet({o}) /\ Cardinality({o}) = 1
  BY FS_Singleton
<1>2. IsFiniteSet((m + 1)..Budget) /\ Cardinality((m + 1)..Budget) = Budget - m
  <2>1. m + 1 \in Int /\ Budget \in Int
    OBVIOUS
  <2> QED BY <2>1, FS_Interval
<1>3. IsFiniteSet(Rest(o, m)) /\ Cardinality(Rest(o, m)) = 1 * Cardinality((m + 1)..Budget)
  <2> DEFINE I == (m + 1)..Budget
  <2>1. IsFiniteSet(I)
    BY <1>2
  <2> HIDE DEF I
  <2>2. IsFiniteSet({o} \X I) /\ Cardinality({o} \X I) = Cardinality({o}) * Cardinality(I)
    BY <1>1, <2>1, FS_Product
  <2> QED BY <1>1, <2>2 DEF Rest, I
<1> QED BY <1>2, <1>3

\* What two sets without a common element have together.
LEMMA Together ==
  ASSUME NEW S, NEW T, IsFiniteSet(S), IsFiniteSet(T), S \cap T = {}
  PROVE  IsFiniteSet(S \cup T) /\ Cardinality(S \cup T) = Cardinality(S) + Cardinality(T)
<1>1. Cardinality(S \cap T) = 0
  BY FS_EmptySet
<1>2. Cardinality(S) \in Nat /\ Cardinality(T) \in Nat
  BY FS_CardinalityType
<1>3. IsFiniteSet(S \cup T)
  BY FS_Union
<1>4. Cardinality(S \cup T) = Cardinality(S) + Cardinality(T) - Cardinality(S \cap T)
  BY FS_Union
<1> QED BY <1>1, <1>2, <1>3, <1>4

\* What an event has spent never exceeds the budget, so attempts left are finite.
LEMMA SpentWithinBudget ==
  ASSUME TypeOK, AttemptsOK, NEW e \in Events
  PROVE  PriorAttempts(e) \in 0..Budget
<1>1. \A o \in DOMAIN row : row[o].attempts \in Nat
  BY Registered DEF Rows
<1>2. PriorAttempts(e) \in Nat
  BY PriorIsGreatest
<1>3. CASE FailsAs[e] = "UNDECODABLE"
  BY <1>2, <1>3 DEF PriorAttempts
<1>4. CASE FailsAs[e] # "UNDECODABLE"
  <2>1. PriorAttempts(e) = 0 \/ \E o \in DOMAIN row : row[o].attempts = PriorAttempts(e)
    BY <1>4, PriorIsGreatest
  <2> QED BY <1>1, <1>2, <2>1 DEF AttemptsOK
<1> QED BY <1>3, <1>4

\* The attempts left can be counted.
LEMMA LeftFinite ==
  ASSUME TypeOK, NEW e \in Events
  PROVE  IsFiniteSet(Left(e)) /\ Cardinality(Left(e)) \in Nat
<1> DEFINE C == (1 - topic[e])..0
           L == { o \in DOMAIN letters : letters[o] = e }
<1>1. IsFiniteSet(C)
  <2>1. 1 - topic[e] \in Int /\ 0 \in Int
    BY DEF TypeOK, ConsumerOK
  <2> QED BY <2>1, FS_Interval
<1>2. IsFiniteSet(L)
  <2>1. IsFiniteSet(DOMAIN letters)
    BY Registered, FS_Interval
  <2>2. L \subseteq DOMAIN letters
    OBVIOUS
  <2> QED BY <2>1, <2>2, FS_Subset
<1>3. IsFiniteSet(Owing(e))
  BY <1>1, <1>2, FS_Union DEF Owing
<1>4. IsFiniteSet(1..Budget)
  BY FS_Interval
<1>5. IsFiniteSet(Owing(e) \X (1..Budget))
  BY <1>3, <1>4, FS_Product
<1>6. Left(e) \subseteq Owing(e) \X (1..Budget)
  BY DEF Left, LeftOf
<1> QED BY <1>5, <1>6, FS_Subset, FS_CardinalityType

\* Letters and copies are integers, the copies below the letters.
LEMMA OwingType ==
  ASSUME TypeOK, NEW e \in Events
  PROVE  /\ Owing(e) \subseteq Int
         /\ \A o : o \in Owing(e) <=>
              \/ o \in Int /\ 1 - topic[e] <= o /\ o <= 0
              \/ o \in DOMAIN letters /\ letters[o] = e
<1>1. 1 - topic[e] \in Int
  BY DEF TypeOK, ConsumerOK
<1>2. \A o : o \in (1 - topic[e])..0 <=> o \in Int /\ 1 - topic[e] <= o /\ o <= 0
  BY <1>1
<1>3. DOMAIN letters \subseteq Int
  BY Registered
<1> QED BY <1>2, <1>3 DEF Owing

\* The floors are numbers of the schedule.
LEMMA FloorType ==
  ASSUME TypeOK, AttemptsOK, NEW e \in Events, NEW o
  PROVE  Floor(e, o) \in 0..Budget
<1>1. \A p \in DOMAIN row : row[p].attempts \in 0..Budget
  BY Registered DEF Rows, AttemptsOK
<1> QED BY <1>1, SpentWithinBudget DEF Floor

\* Who has attempts left, letter by letter.
LEMMA LeftIs ==
  ASSUME TypeOK, NEW e \in Events, NEW o, NEW i
  PROVE  <<o, i>> \in Left(e) <=> o \in Owing(e) /\ i \in 1..Budget /\ i > Floor(e, o)
BY DEF Left, LeftOf

\* A letter or copy that is not registered has what its event has not spent.
LEMMA RestOfLoose ==
  ASSUME TypeOK, AttemptsOK, NEW e \in Events, NEW o \in Owing(e)
  PROVE  Rest(o, Floor(e, o)) \subseteq Left(e)
<1>1. Floor(e, o) \in 0..Budget
  BY FloorType
<1> SUFFICES ASSUME NEW i \in (Floor(e, o) + 1)..Budget
             PROVE  <<o, i>> \in Left(e)
  BY DEF Rest
<1> QED BY <1>1, LeftIs

----------------------------------------------------------------------------
\* What the next step makes of what an event has spent.
PriorOK(e) ==
  /\ PriorAttempts(e) \in Nat
  /\ FailsAs[e] # "UNDECODABLE" =>
       /\ \A o \in DOMAIN row : letters[o] = e => row[o].attempts <= PriorAttempts(e)
       /\ \/ PriorAttempts(e) = 0
          \/ \E o \in DOMAIN row : letters[o] = e /\ row[o].attempts = PriorAttempts(e)

\* What PriorAttempts returns, in one formula, and in the state after a step.
LEMMA Prior == TypeOK => \A e \in Events : PriorOK(e)
BY PriorIsGreatest DEF PriorOK

LEMMA PriorNext == TypeOK' => (\A e \in Events : PriorOK(e))'
BY Prior, PTL

\* What an event has spent never shrinks: rows stay, and attempts are only added.
LEMMA PriorGrows ==
  ASSUME TypeOK, TypeOK', NEW e \in Events, Retryable(e), DOMAIN row \subseteq DOMAIN row',
         \A o \in DOMAIN row : letters'[o] = letters[o] /\ row[o].attempts <= row'[o].attempts
  PROVE  PriorAttempts(e) <= PriorAttempts(e)'
<1>1. PriorOK(e) /\ PriorOK(e)' /\ FailsAs[e] # "UNDECODABLE"
  BY Prior, PriorNext DEF Retryable
<1>2. PriorAttempts(e) \in Nat /\ PriorAttempts(e)' \in Nat
  BY <1>1 DEF PriorOK
<1>3. CASE PriorAttempts(e) = 0
  BY <1>2, <1>3
<1>4. ASSUME NEW o \in DOMAIN row, letters[o] = e, row[o].attempts = PriorAttempts(e)
      PROVE  PriorAttempts(e) <= PriorAttempts(e)'
  <2>1. o \in DOMAIN row' /\ letters'[o] = e
    BY <1>4
  <2>2. row'[o].attempts <= PriorAttempts(e)'
    BY <1>1, <2>1 DEF PriorOK
  <2>3. row'[o].attempts \in Nat
    <3>1. row' \in Seq(Rows)
      BY DEF TypeOK, LedgerOK
    <3>2. row'[o] \in Rows
      BY <2>1, <3>1
    <3> QED BY <3>2 DEF Rows
  <2>4. PriorAttempts(e) <= row'[o].attempts
    BY <1>4
  <2> QED BY <1>2, <2>2, <2>3, <2>4
<1>5. PriorAttempts(e) = 0 \/ \E o \in DOMAIN row : letters[o] = e /\ row[o].attempts = PriorAttempts(e)
  BY <1>1 DEF PriorOK
<1> QED BY <1>3, <1>4, <1>5

\* It stays when no attempts are written and no letter is registered.
LEMMA PriorStays ==
  ASSUME NEW e \in Events, DOMAIN row' = DOMAIN row,
         \A o \in DOMAIN row : letters'[o] = letters[o] /\ row'[o].attempts = row[o].attempts
  PROVE  PriorAttempts(e)' = PriorAttempts(e)
<1>1. { p \in DOMAIN row' : letters'[p] = e } = { p \in DOMAIN row : letters[p] = e }
  OBVIOUS
<1>2. { row'[o].attempts : o \in { p \in DOMAIN row' : letters'[p] = e } }
        = { row[o].attempts : o \in { p \in DOMAIN row : letters[p] = e } }
  BY <1>1
<1> QED BY <1>2, Zenon DEF PriorAttempts

\* A step on rows that takes none back on the schedule leaves no more attempts.
LEMMA LeftShrinks ==
  ASSUME TypeOK, TypeOK', AttemptsOK, NEW e \in Events, Retryable(e), UNCHANGED <<topic, letters>>,
         DOMAIN row \subseteq DOMAIN row',
         \A o \in DOMAIN row :
           /\ row[o].attempts <= row'[o].attempts
           /\ row'[o].state = "RETRYING" => row[o].state = "RETRYING",
         \A o \in DOMAIN row' \ DOMAIN row :
           letters[o] = e => row'[o].attempts = PriorAttempts(e)
  PROVE  Left(e)' \subseteq Left(e)
<1>1. PriorAttempts(e) <= PriorAttempts(e)'
  BY PriorGrows
<1>2. PriorAttempts(e) \in Nat /\ PriorAttempts(e)' \in Nat
  BY Prior, PriorNext DEF PriorOK
<1>3. Owing(e)' = Owing(e)
  BY DEF Owing
<1>4. \A o \in DOMAIN row' : row'[o].attempts \in Nat
  <2>1. row' \in Seq(Rows)
    BY DEF TypeOK, LedgerOK
  <2>2. \A o \in DOMAIN row' : row'[o] \in Rows
    BY <2>1
  <2> QED BY <2>2 DEF Rows
<1>5. \A o \in DOMAIN row : row[o].attempts \in Nat
  BY Registered DEF Rows
<1>6. ASSUME NEW o \in Owing(e), NEW i \in 1..Budget, i > Floor(e, o)'
      PROVE  i > Floor(e, o)
  <2>1. CASE o \in DOMAIN row
    BY <1>4, <1>5, <1>6, <2>1 DEF Floor
  <2>2. CASE o \in DOMAIN row' \ DOMAIN row
    <3>1. o \in DOMAIN letters /\ letters[o] = e
      <4>1. o \in DOMAIN letters'
        BY <2>2 DEF TypeOK, LedgerOK, ConsumerOK
      <4>2. o >= 1
        BY <2>2 DEF TypeOK, LedgerOK
      <4> QED BY <4>1, <4>2, OwingType
    <3>2. row'[o].attempts = PriorAttempts(e)
      BY <2>2, <3>1
    <3> QED BY <1>2, <1>6, <2>2, <3>2 DEF Floor
  <2>3. CASE o \notin DOMAIN row'
    <3>1. Floor(e, o)' = PriorAttempts(e)' /\ Floor(e, o) = PriorAttempts(e)
      BY <2>3 DEF Floor
    <3> QED BY <1>1, <1>2, <1>6, <3>1
  <2> QED BY <2>1, <2>2, <2>3
<1> QED BY <1>3, <1>6 DEF Left, LeftOf

----------------------------------------------------------------------------

\* The allowance is a number.
LEMMA AllowanceType ==
  ASSUME TypeOK
  PROVE  Allowance \in Nat
<1>1. faults \in Nat
  BY DEF TypeOK, ConsumerOK
<1> QED BY <1>1 DEF Allowance

\* A fault allows another round of the schedule, and a republish.
LEMMA FaultAllows ==
  ASSUME TypeOK, faults' = faults + 1
  PROVE  Allowance' = Allowance + Budget + 1
<1>1. faults \in Nat
  BY DEF TypeOK, ConsumerOK
<1>2. (1 + (faults + 1)) * Budget = (1 + faults) * Budget + Budget
  BY <1>1
<1>3. (1 + faults) * Budget \in Nat
  BY <1>1
<1> QED BY <1>1, <1>2, <1>3 DEF Allowance

\* The advance is a number, before a step and after it.
LEMMA AdvanceType ==
  TypeOK /\ AttemptsOK => \A e \in Events : Advance(e) \in 0..(Budget + 1)
BY SpentWithinBudget DEF Advance

LEMMA AdvanceNext ==
  TypeOK' /\ AttemptsOK' => (\A e \in Events : Advance(e) \in 0..(Budget + 1))'
BY AdvanceType, PTL

\* Without a fault, what a republish and a new letter take is given back.
LEMMA Account ==
  ASSUME TypeOK, TypeOK', AttemptsOK, AttemptsOK', NEW e \in Events, Bound(e),
         Cardinality(Left(e)') \in Nat, faults' = faults,
         (replays'[e] - replays[e]) + Cardinality(Left(e)') + Advance(e)
           <= Cardinality(Left(e)) + Advance(e)'
  PROVE  Bound(e)'
<1>1. Cardinality(Left(e)) \in Nat /\ Allowance \in Nat
  BY LeftFinite, AllowanceType
<1>2. Advance(e) \in Nat /\ Advance(e)' \in Nat
  BY AdvanceType, AdvanceNext
<1>3. replays[e] \in Nat /\ replays'[e] \in Nat
  BY DEF TypeOK, ConsumerOK
<1>4. Allowance' = Allowance
  BY DEF Allowance
<1>5. replays'[e] + Cardinality(Left(e)') <= Allowance + Advance(e)'
  BY <1>1, <1>2, <1>3 DEF Bound
<1> QED BY <1>4, <1>5 DEF Bound

\* A fault accounts for one more letter or copy, and one more republish.
LEMMA Faulted ==
  ASSUME TypeOK, TypeOK', AttemptsOK, AttemptsOK', NEW e \in Events, Bound(e),
         Cardinality(Left(e)') \in Nat, faults' = faults + 1,
         (replays'[e] - replays[e]) + Cardinality(Left(e)') + Advance(e)
           <= Cardinality(Left(e)) + Budget + 1 + Advance(e)'
  PROVE  Bound(e)'
<1>1. Cardinality(Left(e)) \in Nat /\ Allowance \in Nat
  BY LeftFinite, AllowanceType
<1>2. Advance(e) \in Nat /\ Advance(e)' \in Nat
  BY AdvanceType, AdvanceNext
<1>3. replays[e] \in Nat /\ replays'[e] \in Nat
  BY DEF TypeOK, ConsumerOK
<1>4. Allowance' = Allowance + Budget + 1
  BY FaultAllows
<1>5. replays'[e] + Cardinality(Left(e)') <= Allowance + Budget + 1 + Advance(e)'
  BY <1>1, <1>2, <1>3 DEF Bound
<1> QED BY <1>4, <1>5 DEF Bound

----------------------------------------------------------------------------
\* A letter or copy more that is not registered has all the event has not spent.
LEMMA OneMore ==
  ASSUME TypeOK, AttemptsOK, NEW e \in Events, NEW S, IsFiniteSet(LeftOf(e, S)),
         NEW o, o \notin S, o \notin DOMAIN row
  PROVE  /\ IsFiniteSet(LeftOf(e, S \cup {o}))
         /\ Cardinality(LeftOf(e, S \cup {o})) = Cardinality(LeftOf(e, S)) + Budget - PriorAttempts(e)
<1> DEFINE m == PriorAttempts(e)
<1>1. m \in 0..Budget
  BY SpentWithinBudget
<1>2. Floor(e, o) = m
  BY DEF Floor
<1> HIDE DEF m
<1>3. LeftOf(e, S \cup {o}) = LeftOf(e, S) \cup Rest(o, m)
  <2> DEFINE P == (S \cup {o}) \X (1..Budget)
             A == LeftOf(e, S \cup {o})
             B == LeftOf(e, S) \cup Rest(o, m)
  <2>1. A \subseteq P /\ B \subseteq P
    BY <1>1 DEF LeftOf, Rest
  <2>2. ASSUME NEW p \in S \cup {o}, NEW i \in 1..Budget
        PROVE  <<p, i>> \in A <=> <<p, i>> \in B
    <3>1. CASE p = o
      BY <1>1, <1>2, <3>1 DEF LeftOf, Rest
    <3>2. CASE p \in S
      BY <3>2 DEF LeftOf, Rest
    <3> QED BY <3>1, <3>2
  <2> HIDE DEF A, B
  <2>3. \A x \in P : x \in A <=> x \in B
    BY <2>2
  <2> HIDE DEF P
  <2>4. A = B
    BY <2>1, <2>3
  <2> QED BY <2>4 DEF A, B
<1>4. LeftOf(e, S) \cap Rest(o, m) = {}
  BY DEF LeftOf, Rest
<1>5. IsFiniteSet(Rest(o, m)) /\ Cardinality(Rest(o, m)) = Budget - m
  BY <1>1, RestSize
<1>6. Cardinality(LeftOf(e, S)) \in Nat
  BY FS_CardinalityType
<1>7. /\ IsFiniteSet(LeftOf(e, S) \cup Rest(o, m))
      /\ Cardinality(LeftOf(e, S) \cup Rest(o, m)) = Cardinality(LeftOf(e, S)) + (Budget - m)
  BY <1>4, <1>5, Together
<1>8. Cardinality(LeftOf(e, S)) + (Budget - m) = Cardinality(LeftOf(e, S)) + Budget - m
  BY <1>1, <1>6
<1> QED BY <1>3, <1>7, <1>8 DEF m

\* The same rows leave the same attempts.
LEMMA SameRows ==
  ASSUME NEW e \in Events, row' = row, \A o \in DOMAIN row : letters'[o] = letters[o]
  PROVE  /\ PriorAttempts(e)' = PriorAttempts(e)
         /\ Left(e)' = LeftOf(e, Owing(e)')
<1>1. PriorAttempts(e)' = PriorAttempts(e)
  BY PriorStays
<1>2. \A o : Floor(e, o)' = Floor(e, o)
  BY <1>1 DEF Floor
<1> QED BY <1>1, <1>2 DEF Left, LeftOf

\* Nor does a step that leaves rows, letters and copies alone change what is left.
LEMMA SameLeft ==
  ASSUME NEW e \in Events, UNCHANGED <<row, letters>>, topic'[e] = topic[e]
  PROVE  PriorAttempts(e)' = PriorAttempts(e) /\ Left(e)' = Left(e) /\ (Loose(e)' <=> Loose(e))
<1>1. Owing(e)' = Owing(e)
  BY DEF Owing
<1> QED BY <1>1, SameRows DEF Left, Loose

\* A worker's step that touches neither rows nor events.
LEMMA QuietSpending ==
  ASSUME TypeOK, TypeOK', AttemptsOK, AttemptsOK', NEW e \in Events, Bound(e),
         UNCHANGED <<topic, letters, row, replays>>,
         \/ faults' = faults + 1
         \/ faults' = faults /\ (Flying(e)' <=> Flying(e))
  PROVE  Bound(e)'
<1>1. PriorAttempts(e)' = PriorAttempts(e) /\ Left(e)' = Left(e) /\ (Loose(e)' <=> Loose(e))
  BY SameLeft
<1>2. Cardinality(Left(e)) \in Nat /\ replays[e] \in Nat
  BY LeftFinite DEF TypeOK, ConsumerOK
<1>3. Advance(e) \in 0..(Budget + 1) /\ Advance(e)' \in 0..(Budget + 1)
  BY AdvanceType, AdvanceNext
<1>4. CASE faults' = faults + 1
  BY <1>1, <1>2, <1>3, <1>4, Faulted
<1>5. CASE faults' = faults /\ (Flying(e)' <=> Flying(e))
  <2>1. Advance(e)' = Advance(e)
    BY <1>1, <1>5 DEF Advance
  <2> QED BY <1>1, <1>2, <1>3, <1>5, <2>1, Account
<1> QED BY <1>4, <1>5

\* A copy is settled by handling it.
LEMMA HandleSpending ==
  ASSUME TypeOK, TypeOK', AttemptsOK, AttemptsOK', NEW e \in Events, Bound(e),
         NEW f \in Events, NEW c \in BOOLEAN, Handle(f, c)
  PROVE  Bound(e)'
<1>0. UNCHANGED <<letters, row, replays, pc, at>> /\ Settle(f, c) /\ topic[f] > 0
  BY DEF Handle, tick
<1>1. Flying(e)' <=> Flying(e)
  BY <1>0 DEF Flying
<1>2. CASE ~c
  BY <1>0, <1>2, QuietSpending DEF Settle, Fault
<1>3. CASE c /\ f # e
  <2>1. topic'[e] = topic[e] /\ faults' = faults
    BY <1>0, <1>3 DEF Settle, TypeOK, ConsumerOK
  <2>2. PriorAttempts(e)' = PriorAttempts(e) /\ Left(e)' = Left(e) /\ (Loose(e)' <=> Loose(e))
    BY <1>0, <2>1, SameLeft
  <2>3. Advance(e)' = Advance(e)
    BY <1>1, <2>2 DEF Advance
  <2> QED BY <1>0, <2>1, <2>2, <2>3 DEF Bound, Allowance
<1>4. CASE c /\ f = e
  <2> DEFINE o == 1 - topic[e]
             m == PriorAttempts(e)
  <2>1. topic' = [topic EXCEPT ![e] = topic[e] - 1] /\ faults' = faults
    BY <1>0, <1>4 DEF Settle
  <2>2. topic[e] \in Nat /\ topic[e] > 0 /\ topic'[e] = topic[e] - 1
    BY <1>0, <1>4, <2>1 DEF TypeOK, ConsumerOK
  <2>3. Owing(e) = Owing(e)' \cup {o} /\ o \notin Owing(e)'
    <3>1. \A x \in DOMAIN letters : x \in Int /\ x >= 1
      BY Registered
    <3> QED BY <1>0, <2>2, <3>1 DEF Owing
  <2>4. o \in Int /\ o <= 0 /\ o \notin DOMAIN row
    BY <2>2, Registered
  <2>5. PriorAttempts(e)' = m /\ Left(e)' = LeftOf(e, Owing(e)')
    BY <1>0, SameRows
  <2>6. IsFiniteSet(Left(e)') /\ Cardinality(Left(e)') \in Nat
    <3>1. LeftOf(e, Owing(e)') \subseteq Left(e)
      BY <2>3 DEF Left, LeftOf
    <3> QED BY <2>5, <3>1, LeftFinite, FS_Subset, FS_CardinalityType
  <2>7. Cardinality(Left(e)) = Cardinality(Left(e)') + Budget - m
    <3> HIDE DEF o, m
    <3> DEFINE S == Owing(e)'
    <3>1. IsFiniteSet(LeftOf(e, S)) /\ o \notin S /\ o \notin DOMAIN row
      BY <2>3, <2>4, <2>5, <2>6
    <3> HIDE DEF S
    <3>2. Cardinality(LeftOf(e, S \cup {o})) = Cardinality(LeftOf(e, S)) + Budget - PriorAttempts(e)
      BY <3>1, OneMore
    <3> QED BY <2>3, <2>5, <3>2 DEF Left, S, m
  <2>8. m \in 0..Budget
    BY SpentWithinBudget
  <2>9. Advance(e) <= Advance(e)' + (Budget - m)
    <3>1. Loose(e)
      BY <2>3, <2>4 DEF Loose
    <3> QED BY <1>1, <2>5, <2>8, <3>1 DEF Advance
  <2>10. Advance(e) \in Nat /\ Advance(e)' \in Nat /\ replays[e] \in Nat
    <3>1. Advance(e) \in 0..(Budget + 1) /\ Advance(e)' \in 0..(Budget + 1)
      BY AdvanceType, AdvanceNext
    <3>2. replays[e] \in Nat
      BY DEF TypeOK, ConsumerOK
    <3> QED BY <3>1, <3>2
  <2> HIDE DEF m, o
  <2>11. (replays'[e] - replays[e]) + Cardinality(Left(e)') + Advance(e) <= Cardinality(Left(e)) + Advance(e)'
    BY <1>0, <2>6, <2>7, <2>8, <2>9, <2>10
  <2> QED BY <2>1, <2>6, <2>11, Account
<1> QED BY <1>2, <1>3, <1>4

\* A copy that fails is settled by its letter, and the letter is one more if the
\* settling is lost.
LEMMA DeadLetterSpending ==
  ASSUME TypeOK, TypeOK', AttemptsOK, AttemptsOK', NEW e \in Events, Bound(e),
         NEW f \in Events, NEW c \in BOOLEAN, DeadLetter(f, c)
  PROVE  Bound(e)'
<1> DEFINE n == Len(letters) + 1
           o == 1 - topic[e]
           m == PriorAttempts(e)
<1>0. /\ UNCHANGED <<row, replays, pc, at>> /\ Settle(f, c)
      /\ topic[f] > 0 /\ letters' = Append(letters, f)
  BY DEF DeadLetter, tick
<1>1. /\ n \in Nat /\ n >= 1 /\ n \notin DOMAIN letters /\ n \notin DOMAIN row
      /\ DOMAIN letters' = DOMAIN letters \cup {n} /\ letters'[n] = f
      /\ \A p \in DOMAIN letters : letters'[p] = letters[p] /\ p \in Int /\ p >= 1
  <2>1. letters \in Seq(Events)
    BY DEF TypeOK, ConsumerOK
  <2>2. Len(row) <= Len(letters)
    BY DEF TypeOK, LedgerOK
  <2> QED BY <1>0, <2>1, <2>2, Registered
<1>2. Flying(e)' <=> Flying(e)
  <2>1. \A w \in Workers : pc[w] = "replayed" => at[w] \in DOMAIN letters
    BY Registered DEF TypeOK, WorkersOK
  <2> QED BY <1>0, <1>1, <2>1 DEF Flying
<1>3. m \in 0..Budget
  BY SpentWithinBudget
<1>4. PriorAttempts(e)' = m /\ Left(e)' = LeftOf(e, Owing(e)')
  <2>1. \A p \in DOMAIN row : letters'[p] = letters[p]
    BY <1>1, Registered
  <2> QED BY <1>0, <2>1, SameRows
<1>5. /\ Advance(e) \in 0..(Budget + 1) /\ Advance(e)' \in 0..(Budget + 1)
      /\ replays[e] \in Nat /\ topic[e] \in Nat
      /\ IsFiniteSet(Left(e)) /\ Cardinality(Left(e)) \in Nat
  BY AdvanceType, AdvanceNext, LeftFinite DEF TypeOK, ConsumerOK
<1>6. CASE f # e
  <2>1. topic'[e] = topic[e]
    BY <1>0, <1>6 DEF Settle, Fault, TypeOK, ConsumerOK
  <2>2. Owing(e)' = Owing(e)
    BY <1>1, <1>6, <2>1 DEF Owing
  <2>3. Left(e)' = Left(e) /\ (Loose(e)' <=> Loose(e))
    BY <1>0, <1>4, <2>2 DEF Left, Loose
  <2>4. Advance(e)' = Advance(e)
    BY <1>2, <1>4, <2>3 DEF Advance
  <2>5. CASE c
    BY <1>0, <1>5, <2>3, <2>4, <2>5, Account DEF Settle
  <2>6. CASE ~c
    BY <1>0, <1>5, <2>3, <2>4, <2>6, Faulted DEF Settle, Fault
  <2> QED BY <2>5, <2>6
<1>7. CASE f = e
  <2>1. Loose(e) /\ Loose(e)'
    <3>1. o \in Owing(e) /\ o \notin DOMAIN row
      <4>1. o \in Int /\ 1 - topic[e] <= o /\ o <= 0
        BY <1>0, <1>5, <1>7
      <4>2. o \in Owing(e)
        BY <4>1, OwingType
      <4>3. \A p \in DOMAIN row : p >= 1
        BY Registered
      <4> QED BY <4>1, <4>2, <4>3
    <3>2. n \in Owing(e)'
      BY <1>1, <1>7 DEF Owing
    <3> QED BY <1>0, <1>1, <3>1, <3>2 DEF Loose
  <2>2. Advance(e)' = Advance(e)
    BY <1>2, <1>4, <2>1 DEF Advance
  <2>3. CASE ~c
    <3>1. topic' = topic /\ faults' = faults + 1
      BY <1>0, <2>3 DEF Settle, Fault
    <3>2. Owing(e)' = Owing(e) \cup {n} /\ n \notin Owing(e)
      BY <1>1, <1>5, <1>7, <3>1 DEF Owing
    <3>3. /\ IsFiniteSet(Left(e)')
          /\ Cardinality(Left(e)') = Cardinality(Left(e)) + Budget - m
      <4> DEFINE S == Owing(e)
      <4>1. IsFiniteSet(LeftOf(e, S)) /\ n \notin S /\ n \notin DOMAIN row
        BY <1>1, <1>5, <3>2 DEF Left
      <4> HIDE DEF S, n
      <4>2. /\ IsFiniteSet(LeftOf(e, S \cup {n}))
            /\ Cardinality(LeftOf(e, S \cup {n})) = Cardinality(LeftOf(e, S)) + Budget - PriorAttempts(e)
        BY <4>1, OneMore
      <4> QED BY <1>4, <3>2, <4>2 DEF Left, S
    <3> HIDE DEF m
    <3>4. Cardinality(Left(e)') \in Nat
      BY <1>3, <1>5, <3>3
    <3>5. (replays'[e] - replays[e]) + Cardinality(Left(e)') + Advance(e)
            <= Cardinality(Left(e)) + Budget + 1 + Advance(e)'
      BY <1>0, <1>3, <1>5, <2>2, <3>3
    <3> QED BY <3>1, <3>4, <3>5, Faulted
  <2>4. CASE c
    <3> DEFINE S == Owing(e) \ {o}
    <3>1. topic' = [topic EXCEPT ![e] = topic[e] - 1] /\ faults' = faults
      BY <1>0, <1>7, <2>4 DEF Settle
    <3>2. topic'[e] = topic[e] - 1 /\ topic[e] > 0
      BY <1>0, <1>7, <3>1 DEF TypeOK, ConsumerOK
    <3>3. /\ Owing(e) = S \cup {o} /\ Owing(e)' = S \cup {n} /\ o \notin S /\ n \notin S
          /\ o \notin DOMAIN row
      <4>1. o \in Owing(e) /\ o \notin DOMAIN row
        <5>1. topic[e] \in Nat /\ o \in Int /\ 1 - topic[e] <= o /\ o <= 0
          BY <3>2 DEF TypeOK, ConsumerOK
        <5>2. o \in Owing(e)
          BY <5>1, OwingType
        <5>3. \A p \in DOMAIN row : p >= 1
          BY Registered
        <5> QED BY <5>1, <5>2, <5>3
      <4>2. n \notin Owing(e)
        BY <1>1, <1>5 DEF Owing
      <4>3. Owing(e)' = S \cup {n}
        BY <1>1, <1>5, <1>7, <3>2 DEF Owing
      <4> QED BY <4>1, <4>2, <4>3
    <3>4. IsFiniteSet(LeftOf(e, S))
      <4>1. LeftOf(e, S) \subseteq Left(e)
        BY DEF Left, LeftOf
      <4> QED BY <1>5, <4>1, FS_Subset
    <3> HIDE DEF S, n, o
    <3>5. Cardinality(LeftOf(e, S \cup {o})) = Cardinality(LeftOf(e, S)) + Budget - PriorAttempts(e)
      BY <3>3, <3>4, OneMore
    <3>6. /\ IsFiniteSet(LeftOf(e, S \cup {n}))
          /\ Cardinality(LeftOf(e, S \cup {n})) = Cardinality(LeftOf(e, S)) + Budget - PriorAttempts(e)
      BY <1>1, <3>3, <3>4, OneMore
    <3>7. Cardinality(Left(e)') = Cardinality(Left(e))
      BY <1>4, <3>3, <3>5, <3>6 DEF Left
    <3> QED BY <1>0, <1>5, <2>2, <3>1, <3>7, Account
  <2> QED BY <2>3, <2>4
<1> QED BY <1>6, <1>7

\* A republish adds a copy.
LEMMA OneCopyMore ==
  ASSUME TypeOK, AttemptsOK, NEW e \in Events, UNCHANGED <<row, letters>>, topic'[e] = topic[e] + 1
  PROVE  /\ PriorAttempts(e)' = PriorAttempts(e) /\ Loose(e)'
         /\ IsFiniteSet(Left(e)')
         /\ Cardinality(Left(e)') = Cardinality(Left(e)) + Budget - PriorAttempts(e)
<1> DEFINE o == 0 - topic[e]
           S == Owing(e)
<1>1. topic[e] \in Nat
  BY DEF TypeOK, ConsumerOK
<1>2. o \in Int /\ o <= 0 /\ o \notin DOMAIN row
  BY <1>1, Registered
<1>3. Owing(e)' = S \cup {o} /\ o \notin S
  <2>1. \A x \in DOMAIN letters : x \in Int /\ x >= 1
    BY Registered
  <2> QED BY <1>1, <2>1 DEF Owing
<1>4. PriorAttempts(e)' = PriorAttempts(e) /\ Left(e)' = LeftOf(e, Owing(e)')
  BY SameRows
<1>5. Loose(e)'
  BY <1>2, <1>3 DEF Loose
<1>6. IsFiniteSet(LeftOf(e, S))
  BY LeftFinite DEF Left
<1> HIDE DEF o
<1>7. /\ IsFiniteSet(LeftOf(e, S \cup {o}))
      /\ Cardinality(LeftOf(e, S \cup {o})) = Cardinality(LeftOf(e, S)) + Budget - PriorAttempts(e)
  <2> HIDE DEF S
  <2> QED BY <1>2, <1>3, <1>6, OneMore
<1> QED BY <1>3, <1>4, <1>5, <1>7 DEF Left

\* Replay: one republish more, one copy more, and the advance that pays for both.
LEMMA ReplaySpending ==
  ASSUME TypeOK, TypeOK', AttemptsOK, AttemptsOK', OneWorker, NEW e \in Events, Bound(e),
         NEW w \in Workers, NEW o \in DOMAIN claim[w], Replay(w, o)
  PROVE  Bound(e)'
<1>0. /\ UNCHANGED <<row, letters, faults>> /\ pc[w] = "work"
      /\ topic' = [topic EXCEPT ![letters[o]] = topic[letters[o]] + 1]
      /\ replays' = [replays EXCEPT ![letters[o]] = replays[letters[o]] + 1]
      /\ pc' = [pc EXCEPT ![w] = "replayed"] /\ at' = [at EXCEPT ![w] = o]
  BY DEF Replay, Republished, Pick, At
<1>1. letters[o] \in Events
  BY Registered DEF TypeOK, WorkersOK
<1>2. ~Flying(e) /\ (Flying(e)' <=> letters[o] = e)
  <2>1. \A v \in Workers : v = w
    BY DEF OneWorker
  <2>2. pc'[w] = "replayed" /\ at'[w] = o
    BY <1>0 DEF TypeOK, WorkersOK
  <2> QED BY <1>0, <2>1, <2>2 DEF Flying
<1>3. /\ Cardinality(Left(e)) \in Nat /\ replays[e] \in Nat
      /\ topic \in [Events -> Nat] /\ replays \in [Events -> Nat]
  BY LeftFinite DEF TypeOK, ConsumerOK
<1>4. Advance(e) = 0
  BY <1>2 DEF Advance
<1>5. CASE letters[o] = e
  <2>1. topic'[e] = topic[e] + 1 /\ replays'[e] = replays[e] + 1
    BY <1>0, <1>3, <1>5
  <2>2. /\ PriorAttempts(e)' = PriorAttempts(e) /\ Loose(e)'
        /\ Cardinality(Left(e)') = Cardinality(Left(e)) + Budget - PriorAttempts(e)
    BY <1>0, <2>1, OneCopyMore
  <2>3. Advance(e)' = 1 + Budget - PriorAttempts(e)
    BY <1>2, <1>5, <2>2 DEF Advance
  <2>4. PriorAttempts(e) \in 0..Budget
    BY SpentWithinBudget
  <2>5. /\ Cardinality(Left(e)') \in Nat
        /\ (replays'[e] - replays[e]) + Cardinality(Left(e)') + Advance(e) <= Cardinality(Left(e)) + Advance(e)'
    BY <1>3, <1>4, <2>1, <2>2, <2>3, <2>4
  <2> QED BY <1>0, <2>5, Account
<1>6. CASE letters[o] # e
  <2>1. topic'[e] = topic[e] /\ replays'[e] = replays[e]
    BY <1>0, <1>1, <1>3, <1>6
  <2>2. Left(e)' = Left(e)
    BY <1>0, <2>1, SameLeft
  <2>3. Advance(e)' = 0
    BY <1>2, <1>6 DEF Advance
  <2> QED BY <1>0, <1>3, <1>4, <2>1, <2>2, <2>3, Account
<1> QED BY <1>5, <1>6

\* ReplayFails: a republish the worker does not know of is paid for by its fault.
LEMMA ReplayFailsSpending ==
  ASSUME TypeOK, TypeOK', AttemptsOK, AttemptsOK', OneWorker, NEW e \in Events, Bound(e),
         NEW w \in Workers, NEW o \in DOMAIN claim[w], NEW b \in BOOLEAN, ReplayFails(w, o, b)
  PROVE  Bound(e)'
<1>0. /\ UNCHANGED <<row, letters>> /\ pc[w] = "work"
      /\ pc' = [pc EXCEPT ![w] = "refused"] /\ at' = [at EXCEPT ![w] = o]
      /\ b => /\ topic' = [topic EXCEPT ![letters[o]] = topic[letters[o]] + 1]
              /\ replays' = [replays EXCEPT ![letters[o]] = replays[letters[o]] + 1]
              /\ faults' = faults + 1
      /\ ~b => UNCHANGED <<topic, replays, faults>>
  BY DEF ReplayFails, Republished, Pick, At, Fault, consumer
<1>1. letters[o] \in Events
  BY Registered DEF TypeOK, WorkersOK
<1>2. ~Flying(e) /\ ~Flying(e)'
  <2>1. \A v \in Workers : v = w
    BY DEF OneWorker
  <2>2. pc'[w] = "refused"
    BY <1>0 DEF TypeOK, WorkersOK
  <2> QED BY <1>0, <2>1, <2>2 DEF Flying
<1>3. CASE ~b
  BY <1>0, <1>2, <1>3, QuietSpending
<1>4. CASE b
  <2>1. /\ Cardinality(Left(e)) \in Nat /\ replays[e] \in Nat
        /\ topic \in [Events -> Nat] /\ replays \in [Events -> Nat]
    BY LeftFinite DEF TypeOK, ConsumerOK
  <2>2. Advance(e) = 0 /\ Advance(e)' = 0
    BY <1>2 DEF Advance
  <2>3. CASE letters[o] = e
    <3>1. topic'[e] = topic[e] + 1 /\ replays'[e] = replays[e] + 1
      BY <1>0, <1>4, <2>1, <2>3
    <3>2. Cardinality(Left(e)') = Cardinality(Left(e)) + Budget - PriorAttempts(e)
      BY <1>0, <3>1, OneCopyMore
    <3>3. PriorAttempts(e) \in 0..Budget
      BY SpentWithinBudget
    <3>4. /\ Cardinality(Left(e)') \in Nat
          /\ (replays'[e] - replays[e]) + Cardinality(Left(e)') + Advance(e)
               <= Cardinality(Left(e)) + Budget + 1 + Advance(e)'
      BY <2>1, <2>2, <3>1, <3>2, <3>3
    <3> QED BY <1>0, <1>4, <3>4, Faulted
  <2>4. CASE letters[o] # e
    <3>1. topic'[e] = topic[e] /\ replays'[e] = replays[e]
      BY <1>0, <1>1, <1>4, <2>1, <2>4
    <3>2. Left(e)' = Left(e)
      BY <1>0, <3>1, SameLeft
    <3> QED BY <1>0, <1>4, <2>1, <2>2, <3>1, <3>2, Faulted
  <2> QED BY <2>3, <2>4
<1> QED BY <1>3, <1>4

\* What a part of a set leaves to another.
LEMMA TakenOut ==
  ASSUME NEW S, IsFiniteSet(S), NEW T \in SUBSET S, NEW G \in SUBSET S, T \cap G = {}
  PROVE  /\ Cardinality(T) \in Nat /\ Cardinality(G) \in Nat /\ Cardinality(S) \in Nat
         /\ Cardinality(T) + Cardinality(G) <= Cardinality(S)
<1>1. IsFiniteSet(T) /\ IsFiniteSet(G)
  BY FS_Subset
<1>2. Cardinality(T) \in Nat /\ Cardinality(G) \in Nat /\ Cardinality(S) \in Nat
  BY <1>1, FS_CardinalityType
<1>3. Cardinality(T \cup G) = Cardinality(T) + Cardinality(G)
  BY <1>1, Together
<1>4. Cardinality(T \cup G) <= Cardinality(S)
  <2>1. T \cup G \in SUBSET S
    OBVIOUS
  <2> QED BY <2>1, FS_Subset
<1> QED BY <1>2, <1>3, <1>4

\* A step on rows while nothing of the event is in flight.
LEMMA RowsSpending ==
  ASSUME TypeOK, TypeOK', AttemptsOK, AttemptsOK', NEW e \in Events, Retryable(e), Bound(e),
         UNCHANGED <<topic, letters, replays, faults>>, Left(e)' \subseteq Left(e),
         Advance(e)' = Advance(e)
  PROVE  Bound(e)'
<1>1. Cardinality(Left(e)') <= Cardinality(Left(e)) /\ Cardinality(Left(e)') \in Nat
  BY LeftFinite, FS_Subset, FS_CardinalityType
<1>2. /\ Cardinality(Left(e)) \in Nat /\ replays[e] \in Nat
      /\ Advance(e) \in 0..(Budget + 1)
  BY LeftFinite, AdvanceType DEF TypeOK, ConsumerOK
<1> QED BY <1>1, <1>2, Account

\* RecordSuccess: the row is past everything, and gives back what was in advance.
LEMMA SuccessSpending ==
  ASSUME TypeOK, TypeOK', ClaimsOK, AttemptsOK, AttemptsOK', OneWorker,
         NEW e \in Events, Retryable(e), Bound(e), NEW w \in Workers, RecordSuccess(w)
  PROVE  Bound(e)'
<1> DEFINE o == at[w]
           a == row[o].attempts
           m == PriorAttempts(e)
<1>1. /\ o \in DOMAIN row /\ row[o] \in Rows /\ row[o].state = "RETRYING" /\ letters[o] \in Events
      /\ a \in Nat /\ a < Budget /\ pc[w] = "replayed"
      /\ \A p \in DOMAIN row : row[p].attempts \in Nat
  <2>1. pc[w] = "replayed"
    BY DEF RecordSuccess
  <2>2. o \in 1..Len(row)
    BY <2>1 DEF TypeOK, WorkersOK
  <2>3. row[o].state = "RETRYING" /\ a < Budget
    BY <2>1 DEF ClaimsOK, FlightKept
  <2> QED BY <2>1, <2>2, <2>3, Registered DEF Rows
<1>2. /\ UNCHANGED <<topic, letters, replays, faults, at>>
      /\ row' = [row EXCEPT ![o] = Succeeded(row[o])]
      /\ pc'[w] # "replayed"
  BY <1>1 DEF RecordSuccess, NextLetter, consumer, TypeOK, WorkersOK
<1>3. /\ DOMAIN row' = DOMAIN row /\ row'[o].state = "REDRIVEN" /\ row'[o].attempts = a + 1
      /\ \A p \in DOMAIN row : p # o => row'[p] = row[p]
  BY <1>1, <1>2 DEF Succeeded, Rows
<1>4. Left(e)' \subseteq Left(e)
  <2>1. \A p \in DOMAIN row :
          /\ row[p].attempts <= row'[p].attempts
          /\ row'[p].state = "RETRYING" => row[p].state = "RETRYING"
    BY <1>1, <1>3
  <2> QED BY <1>2, <1>3, <2>1, LeftShrinks
<1>5. ~Flying(e)' /\ (Flying(e) <=> letters[o] = e)
  <2>1. \A v \in Workers : v = w
    BY DEF OneWorker
  <2> QED BY <1>1, <1>2, <2>1 DEF Flying
<1>6. CASE letters[o] # e
  <2>1. Advance(e)' = Advance(e)
    BY <1>5, <1>6 DEF Advance
  <2> QED BY <1>2, <1>4, <2>1, RowsSpending
<1>7. CASE letters[o] = e
  <2>1. m \in 0..Budget /\ a <= m
    <3>1. FailsAs[e] # "UNDECODABLE"
      BY DEF Retryable
    <3> QED BY <1>1, <1>7, <3>1, SpentWithinBudget, PriorIsGreatest
  <2>2. PriorAttempts(e)' \in Nat /\ a + 1 <= PriorAttempts(e)'
    <3>1. PriorOK(e)' /\ FailsAs[e] # "UNDECODABLE"
      BY PriorNext DEF Retryable
    <3>2. o \in DOMAIN row' /\ letters'[o] = e /\ row'[o].attempts = a + 1
      BY <1>1, <1>2, <1>3, <1>7
    <3> QED BY <3>1, <3>2 DEF PriorOK
  <2> HIDE DEF a, m, o
  <2>3. Rest(o, a) \subseteq Left(e) /\ Left(e)' \cap Rest(o, a) = {}
    <3>1. Floor(e, o) = a /\ Floor(e, o)' = Budget
      BY <1>1, <1>2, <1>3 DEF Floor, a, o
    <3>2. o \in Owing(e)
      BY <1>1, <1>7, Registered DEF Owing
    <3>3. Rest(o, a) \subseteq Left(e)
      BY <3>1, <3>2, RestOfLoose
    <3>4. \A i : <<o, i>> \notin Left(e)'
      <4>1. \A p, i : <<p, i>> \in Left(e)' => i \in 1..Budget /\ i > Floor(e, p)'
        BY DEF Left, LeftOf
      <4> QED BY <1>2, <3>1, <4>1 DEF o
    <3> QED BY <3>3, <3>4 DEF Rest
  <2>4. IsFiniteSet(Rest(o, a)) /\ Cardinality(Rest(o, a)) = Budget - a
    BY <1>1, RestSize
  <2>5. /\ Cardinality(Left(e)') \in Nat
        /\ Cardinality(Left(e)') + Advance(e) <= Cardinality(Left(e))
    <3>1. CASE m > a \/ ~Loose(e)
      <4>1. Advance(e) <= Budget - a
        BY <1>1, <1>5, <1>7, <2>1, <3>1 DEF Advance, m
      <4>2. /\ Cardinality(Left(e)') \in Nat
            /\ Cardinality(Left(e)') + Cardinality(Rest(o, a)) <= Cardinality(Left(e))
        BY <1>4, <2>3, LeftFinite, TakenOut
      <4> QED BY <1>1, <2>4, <4>1, <4>2, AdvanceType, LeftFinite
    <3>2. CASE m = a /\ Loose(e)
      <4>1. PICK p \in Owing(e) : p \notin DOMAIN row
        BY <3>2 DEF Loose
      <4> DEFINE x == <<p, a + 1>>
                 G == Rest(o, a) \cup {x}
      <4>2. x \in Left(e)
        <5>1. Floor(e, p) = a
          BY <3>2, <4>1 DEF Floor, m
        <5> QED BY <1>1, <4>1, <5>1, LeftIs
      <4>3. x \notin Left(e)'
        <5>1. Floor(e, p)' = PriorAttempts(e)'
          BY <1>3, <4>1 DEF Floor
        <5>2. x \in Left(e)' => a + 1 > Floor(e, p)'
          BY DEF Left, LeftOf
        <5> QED BY <1>1, <2>2, <5>1, <5>2
      <4>4. x \notin Rest(o, a)
        BY <1>1, <4>1 DEF Rest
      <4>5. Cardinality(G) = Budget - a + 1
        <5> HIDE DEF x
        <5>1. Cardinality(G) = Cardinality(Rest(o, a)) + 1
          BY <2>4, <4>4, FS_AddElement
        <5> QED BY <2>4, <5>1
      <4>6. Advance(e) = 1 + Budget - a
        BY <1>5, <1>7, <3>2 DEF Advance, m
      <4>7. G \in SUBSET Left(e) /\ Left(e)' \cap G = {}
        BY <2>3, <4>2, <4>3
      <4> HIDE DEF G
      <4>8. /\ Cardinality(Left(e)') \in Nat
            /\ Cardinality(Left(e)') + Cardinality(G) <= Cardinality(Left(e))
        BY <1>4, <4>7, LeftFinite, TakenOut
      <4> QED BY <1>1, <4>5, <4>6, <4>8
    <3> QED BY <1>1, <2>1, <3>1, <3>2
  <2>6. Advance(e)' = 0
    BY <1>5 DEF Advance
  <2>7. (replays'[e] - replays[e]) + Cardinality(Left(e)') + Advance(e) <= Cardinality(Left(e)) + Advance(e)'
    <3>1. /\ replays[e] \in Nat /\ Cardinality(Left(e)) \in Nat
          /\ Advance(e) \in 0..(Budget + 1)
      BY LeftFinite, AdvanceType DEF TypeOK, ConsumerOK
    <3> QED BY <1>2, <2>5, <2>6, <3>1
  <2> QED BY <1>2, <2>5, <2>7, Account
<1> QED BY <1>6, <1>7

----------------------------------------------------------------------------
\* With one process, what its worker relies on is kept by every step.
LEMMA Alone ==
  ASSUME OneWorker, NEW w \in Workers, ClaimKept(w)', FlightKept(w)'
  PROVE  ClaimsOK'
<1>1. \A v \in Workers : v = w
  BY DEF OneWorker
<1> QED BY <1>1 DEF ClaimsOK

\* A step that leaves its worker and the rows' states and attempts alone.
LEMMA Unmoved ==
  ASSUME TypeOK, ClaimsOK, UNCHANGED <<pc, at, claim>>, DOMAIN row' = DOMAIN row,
         \A o \in DOMAIN row :
           /\ row'[o].state = row[o].state /\ row'[o].attempts = row[o].attempts
           /\ letters'[o] = letters[o]
  PROVE  ClaimsOK'
<1> SUFFICES ASSUME NEW w \in Workers
             PROVE  ClaimKept(w)' /\ FlightKept(w)'
  BY DEF ClaimsOK
<1>1. DOMAIN claim[w] \subseteq DOMAIN row
  BY Registered DEF TypeOK, WorkersOK
<1>2. pc[w] \in { "replayed", "refused" } => at[w] \in DOMAIN row
  BY Registered DEF TypeOK, WorkersOK
<1>3. ClaimKept(w) /\ FlightKept(w)
  BY DEF ClaimsOK
<1>4. ClaimKept(w)'
  BY <1>1, <1>3 DEF ClaimKept
<1>5. FlightKept(w)'
  BY <1>2, <1>3 DEF FlightKept, Retryable
<1> QED BY <1>4, <1>5

\* A worker that is not working, or starts working on nothing.
LEMMA AtRest ==
  ASSUME TypeOK, ClaimsOK, OneWorker, NEW w \in Workers, UNCHANGED <<row, at>>,
         (claim'[w] = claim[w] /\ pc'[w] # "work") \/ DOMAIN claim'[w] = {},
         pc'[w] \notin { "replayed", "refused" }
  PROVE  ClaimsOK'
<1>1. ClaimKept(w)
  BY DEF ClaimsOK
<1>2. ClaimKept(w)' /\ FlightKept(w)'
  BY <1>1 DEF ClaimKept, FlightKept
<1> QED BY <1>2, Alone

\* The end of one letter: the rest of the claim, but for it, is as claimed.
LEMMA Onward ==
  ASSUME TypeOK, ClaimsOK, OneWorker, NEW w \in Workers, pc[w] # "work", NextLetter(w),
         \A o \in DOMAIN row \ { at[w] } :
           /\ row[o].state = "RETRYING" => row'[o].state = "RETRYING"
           /\ row'[o].attempts = row[o].attempts
  PROVE  ClaimsOK'
<1>1. /\ claim'[w] = [o \in DOMAIN claim[w] \ { at[w] } |-> claim[w][o]]
      /\ pc'[w] \in { "idle", "work" }
  BY DEF NextLetter, TypeOK, WorkersOK
<1>2. DOMAIN claim[w] \subseteq DOMAIN row
  BY Registered DEF TypeOK, WorkersOK
<1>3. ClaimKept(w)
  BY DEF ClaimsOK
<1>4. ClaimKept(w)'
  BY <1>1, <1>2, <1>3 DEF ClaimKept
<1>5. FlightKept(w)'
  BY <1>1 DEF FlightKept
<1> QED BY <1>4, <1>5, Alone

\* A claimed letter is picked up.
LEMMA PickedUp ==
  ASSUME TypeOK, ClaimsOK, OneWorker, NEW w \in Workers, NEW o \in DOMAIN claim[w], NEW step,
         Pick(w, o, step), step # "work", UNCHANGED letters, DOMAIN row' = DOMAIN row,
         \A p \in DOMAIN row \ {o} : row'[p] = row[p],
         step \in { "replayed", "refused" } => row'[o] = row[o] /\ Decision(w, o) = "REDRIVE"
  PROVE  ClaimsOK'
<1>1. /\ pc[w] = "work" /\ pc'[w] = step /\ at'[w] = o /\ claim' = claim
  BY DEF Pick, At, TypeOK, WorkersOK
<1>2. DOMAIN claim[w] \subseteq DOMAIN row
  BY Registered DEF TypeOK, WorkersOK
<1>3. \A p \in DOMAIN claim[w] : row[p].state = "RETRYING" /\ row[p].attempts = claim[w][p].attempts
  BY <1>1 DEF ClaimsOK, ClaimKept
<1>4. ClaimKept(w)'
  BY <1>1, <1>2, <1>3 DEF ClaimKept
<1>5. FlightKept(w)'
  <2>1. SUFFICES ASSUME step \in { "replayed", "refused" }
                 PROVE  /\ row'[o].state = "RETRYING" /\ row'[o].attempts < Budget
                        /\ Retryable(letters[o])
    BY <1>1 DEF FlightKept, Retryable
  <2>2. Retryable(letters[o]) /\ ~(claim[w][o].attempts >= Budget)
    <3>1. Decision(w, o) = "REDRIVE"
      BY <2>1
    <3>2. letters[o] \in Events
      BY <1>2, Registered
    <3>3. FailsAs[letters[o]] # "REDRIVE"
      BY <3>2
    <3> QED BY <3>1, <3>3 DEF Decision, DecideRedrive
  <2>3. row[o].attempts \in Nat
    BY <1>2, Registered DEF Rows
  <2> QED BY <1>2, <1>3, <2>1, <2>2, <2>3
<1> QED BY <1>4, <1>5, Alone

\* What parking does to the rows.
LEMMA ParkedRows ==
  ASSUME TypeOK, NEW o \in DOMAIN row, NEW reason, ParkRow(o, reason)
  PROVE  /\ DOMAIN row' = DOMAIN row
         /\ \A p \in DOMAIN row \ {o} : row'[p] = row[p]
         /\ \A p \in DOMAIN row :
              /\ row'[p].attempts = row[p].attempts
              /\ row'[p].state = "RETRYING" => row[p].state = "RETRYING"
<1>1. row[o] \in Rows
  BY Registered
<1> QED BY <1>1 DEF ParkRow, Parked, Rows

\* Every action keeps the claims and the letters in flight as they were claimed.
LEMMA ClaimsStep ==
  ASSUME TypeOK, TypeOK', ClaimsOK, OneWorker, Next
  PROVE  ClaimsOK'
<1> USE DEF consumer, leader, tick
<1>0. WorkersOK /\ \A o \in DOMAIN row : row[o] \in Rows
  BY Registered DEF TypeOK
<1>1. ASSUME NEW f \in Events, NEW c \in BOOLEAN, Handle(f, c) PROVE ClaimsOK'
  <2>1. UNCHANGED <<pc, at, claim, row, letters>>
    BY <1>1 DEF Handle
  <2> QED BY <2>1, Unmoved
<1>2. ASSUME NEW f \in Events, NEW c \in BOOLEAN, DeadLetter(f, c) PROVE ClaimsOK'
  <2>1. UNCHANGED <<pc, at, claim, row>> /\ letters' = Append(letters, f)
    BY <1>2 DEF DeadLetter
  <2>2. \A o \in DOMAIN row : letters'[o] = letters[o]
    <3>1. letters \in Seq(Events)
      BY DEF TypeOK, ConsumerOK
    <3> QED BY <2>1, <3>1, Registered
  <2> QED BY <2>1, <2>2, Unmoved
<1>3. ASSUME NEW w \in Workers, Start(w) PROVE ClaimsOK'
  <2>1. claim' = claim /\ pc'[w] \in { "idle", "standby" } /\ UNCHANGED <<row, at>>
    BY <1>0, <1>3 DEF Start, WorkersOK
  <2> QED BY <2>1, AtRest
<1>4. ASSUME NEW w \in Workers, Recycle(w) PROVE ClaimsOK'
  <2>1. UNCHANGED <<pc, at, claim, row, letters>>
    BY <1>4 DEF Recycle
  <2> QED BY <2>1, Unmoved
<1>5. ASSUME NEW w \in Workers, Stop(w) PROVE ClaimsOK'
  <2>1. UNCHANGED <<pc, at, claim, row, letters>>
    BY <1>5 DEF Stop
  <2> QED BY <2>1, Unmoved
<1>6. ASSUME NEW w \in Workers, Exit(w) PROVE ClaimsOK'
  <2>1. claim' = claim /\ pc'[w] = "down" /\ UNCHANGED <<row, at>>
    BY <1>0, <1>6 DEF Exit, WorkersOK
  <2> QED BY <2>1, AtRest
<1>7. ASSUME NEW w \in Workers, NEW step \in { "down", "idle" }, AbandonTick(w, step), row' = row
      PROVE  ClaimsOK'
  <2>1. DOMAIN claim'[w] = {} /\ pc'[w] = step /\ at' = at
    BY <1>0, <1>7 DEF AbandonTick, WorkersOK
  <2> QED BY <1>7, <2>1, AtRest
<1>8. ASSUME NEW w \in Workers, Crash(w) PROVE ClaimsOK'
  BY <1>7, <1>8 DEF Crash
<1>9. ASSUME NEW w \in Workers, TickFails(w) PROVE ClaimsOK'
  BY <1>7, <1>9 DEF TickFails
<1>10. ASSUME NEW w \in Workers, IntakeFails(w) PROVE ClaimsOK'
  <2>1. claim' = claim /\ pc'[w] = "claim" /\ UNCHANGED <<row, at>>
    BY <1>0, <1>10 DEF IntakeFails, WorkersOK
  <2> QED BY <2>1, AtRest
<1>11. ASSUME NEW w \in Workers, ScanNew(w) PROVE ClaimsOK'
  <2>1. claim' = claim /\ pc'[w] = "intake" /\ UNCHANGED <<row, at>>
    BY <1>0, <1>11 DEF ScanNew, GoTo, WorkersOK
  <2> QED BY <2>1, AtRest
<1>12. ASSUME NEW w \in Workers, ScanCutShort(w) PROVE ClaimsOK'
  <2>1. claim' = claim /\ pc'[w] = "intake" /\ UNCHANGED <<row, at>>
    BY <1>0, <1>12 DEF ScanCutShort, WorkersOK
  <2> QED BY <2>1, AtRest
<1>13. ASSUME NEW w \in Workers, Intake(w) PROVE ClaimsOK'
  <2>1. pc[w] = "intake" /\ pc'[w] = "claim" /\ UNCHANGED <<at, claim>>
    BY <1>0, <1>13 DEF Intake, GoTo, WorkersOK
  <2>2. \A o \in DOMAIN row : row'[o] = row[o]
    BY <1>0, <1>13, Registered DEF Intake, WorkersOK
  <2>3. DOMAIN claim[w] \subseteq DOMAIN row
    BY <1>0, Registered DEF WorkersOK
  <2>4. ClaimKept(w)
    BY DEF ClaimsOK
  <2>5. ClaimKept(w)' /\ FlightKept(w)'
    BY <2>1, <2>2, <2>3, <2>4 DEF ClaimKept, FlightKept
  <2> QED BY <2>5, Alone
<1>14. ASSUME NEW w \in Workers, ClaimDue(w) PROVE ClaimsOK'
  <2>1. /\ row' = row
        /\ \E C \in SUBSET { o \in DOMAIN row : Due(o) } :
             /\ claim' = [claim EXCEPT ![w] = [o \in C |-> row[o]]]
             /\ GoTo(w, IF C = {} THEN "idle" ELSE "work")
    BY <1>14 DEF ClaimDue
  <2>2. PICK C \in SUBSET { o \in DOMAIN row : Due(o) } :
          /\ claim' = [claim EXCEPT ![w] = [o \in C |-> row[o]]]
          /\ GoTo(w, IF C = {} THEN "idle" ELSE "work")
    BY <2>1
  <2>3. claim'[w] = [o \in C |-> row[o]] /\ pc'[w] \in { "idle", "work" }
    BY <1>0, <2>2 DEF GoTo, WorkersOK
  <2>4. ClaimKept(w)'
    BY <2>1, <2>3 DEF ClaimKept, Due
  <2>5. FlightKept(w)'
    BY <2>3 DEF FlightKept
  <2> QED BY <2>4, <2>5, Alone
<1>15. ASSUME NEW w \in Workers, NEW o \in DOMAIN claim[w], Park(w, o) PROVE ClaimsOK'
  <2>1. Pick(w, o, "signal") /\ ParkRow(o, Decision(w, o)) /\ letters' = letters /\ o \in DOMAIN row
    BY <1>0, <1>15, Registered DEF Park, WorkersOK
  <2>2. DOMAIN row' = DOMAIN row /\ \A p \in DOMAIN row \ {o} : row'[p] = row[p]
    BY <2>1, ParkedRows
  <2> QED BY <2>1, <2>2, PickedUp
<1>16. ASSUME NEW w \in Workers, NEW o \in DOMAIN claim[w], ParkMissing(w, o) PROVE ClaimsOK'
  <2>1. Pick(w, o, "signal") /\ ParkRow(o, "ATTEMPTS_EXHAUSTED") /\ letters' = letters /\ o \in DOMAIN row
    BY <1>0, <1>16, Registered DEF ParkMissing, WorkersOK
  <2>2. DOMAIN row' = DOMAIN row /\ \A p \in DOMAIN row \ {o} : row'[p] = row[p]
    BY <2>1, ParkedRows
  <2> QED BY <2>1, <2>2, PickedUp
<1>17. ASSUME NEW w \in Workers, NEW o \in DOMAIN claim[w], Replay(w, o) PROVE ClaimsOK'
  <2>1. Pick(w, o, "replayed") /\ UNCHANGED <<letters, row>> /\ Decision(w, o) = "REDRIVE"
    BY <1>17 DEF Replay, Republished
  <2> QED BY <2>1, PickedUp
<1>18. ASSUME NEW w \in Workers, NEW o \in DOMAIN claim[w], NEW b \in BOOLEAN, ReplayFails(w, o, b)
       PROVE  ClaimsOK'
  <2>1. Pick(w, o, "refused") /\ UNCHANGED <<letters, row>> /\ Decision(w, o) = "REDRIVE"
    BY <1>18 DEF ReplayFails, Republished
  <2> QED BY <2>1, PickedUp
<1>19. ASSUME NEW w \in Workers, ParkSignal(w) PROVE ClaimsOK'
  <2>1. pc[w] = "signal" /\ NextLetter(w) /\ row' = row
    BY <1>19 DEF ParkSignal
  <2> QED BY <2>1, Onward
<1>20. ASSUME NEW w \in Workers, RecordSuccess(w) PROVE ClaimsOK'
  <2>1. pc[w] = "replayed" /\ row[at[w]].state = "RETRYING"
    BY <1>20 DEF RecordSuccess, ClaimsOK, FlightKept
  <2>2. NextLetter(w) /\ \A p \in DOMAIN row \ { at[w] } : row'[p] = row[p]
    BY <1>20, <2>1 DEF RecordSuccess
  <2> QED BY <2>1, <2>2, Onward
<1>21. ASSUME NEW w \in Workers, RecordFailure(w) PROVE ClaimsOK'
  <2>1. /\ pc[w] = "refused" /\ pc'[w] = "spread" /\ UNCHANGED <<at, claim>>
        /\ \A p \in DOMAIN row \ { at[w] } : row'[p] = row[p]
    BY <1>0, <1>21 DEF RecordFailure, GoTo, WorkersOK
  <2>2. DOMAIN claim[w] \subseteq DOMAIN row
    BY <1>0, Registered DEF WorkersOK
  <2>3. ClaimKept(w)
    BY DEF ClaimsOK
  <2>4. ClaimKept(w)' /\ FlightKept(w)'
    BY <2>1, <2>2, <2>3 DEF ClaimKept, FlightKept
  <2> QED BY <2>4, Alone
<1>22. ASSUME NEW w \in Workers, SpreadFailure(w) PROVE ClaimsOK'
  <2>1. pc[w] = "spread" /\ NextLetter(w)
    BY <1>22 DEF SpreadFailure
  <2>2. \A p \in DOMAIN row : row'[p].state = row[p].state /\ row'[p].attempts = row[p].attempts
    BY <1>0, <1>22 DEF SpreadFailure, Inherited, Rows
  <2> QED BY <2>1, <2>2, Onward
<1>23. ASSUME NEW o \in DOMAIN row, FallDue(o) PROVE ClaimsOK'
  <2>1. UNCHANGED <<pc, at, claim, letters>> /\ DOMAIN row' = DOMAIN row
    BY <1>23 DEF FallDue
  <2>2. \A p \in DOMAIN row : row'[p].state = row[p].state /\ row'[p].attempts = row[p].attempts
    BY <1>0, <1>23 DEF FallDue, Rows
  <2> QED BY <2>1, <2>2, Unmoved
<1> QED
  <2>1. ASSUME NEW e \in Events, Consume(e) PROVE ClaimsOK'
    BY <2>1, <1>1, <1>2 DEF Consume
  <2>2. ASSUME NEW w \in Workers, Disturb(w) PROVE ClaimsOK'
    BY <2>2, <1>4, <1>5, <1>6, <1>8, <1>9, <1>10, <1>12 DEF Disturb
  <2>3. ASSUME NEW w \in Workers, NEW o \in DOMAIN claim[w], OnLetter(w, o) PROVE ClaimsOK'
    BY <2>3, <1>15, <1>16, <1>17, <1>18 DEF OnLetter
  <2>4. ASSUME NEW w \in Workers, Step(w) PROVE ClaimsOK'
    BY <2>3, <2>4, <1>3, <1>11, <1>13, <1>14, <1>19, <1>20, <1>21, <1>22 DEF Step
  <2> QED BY <2>1, <2>2, <2>4, <1>23 DEF Next

----------------------------------------------------------------------------
\* Registered letters start with what their event has spent.
LEMMA IntakeRows ==
  ASSUME TypeOK, NEW w \in Workers, Intake(w)
  PROVE  /\ DOMAIN row \subseteq DOMAIN row'
         /\ \A o \in DOMAIN row : row'[o] = row[o]
         /\ \A o \in DOMAIN row' \ DOMAIN row :
              letters[o] \in Events /\ row'[o].attempts = PriorAttempts(letters[o])
<1>1. scanned[w] \in Nat /\ scanned[w] <= Len(letters)
  BY Registered DEF TypeOK, WorkersOK
<1>2. CASE scanned[w] <= Len(row)
  BY <1>2 DEF Intake
<1>3. CASE ~(scanned[w] <= Len(row))
  <2>1. row' = [o \in 1..scanned[w] |-> IF o \in DOMAIN row THEN row[o] ELSE NewRow(letters[o])]
    BY <1>3 DEF Intake
  <2>2. DOMAIN row \subseteq 1..scanned[w]
    BY <1>1, <1>3, Registered
  <2>3. \A o \in 1..scanned[w] : letters[o] \in Events
    BY <1>1 DEF TypeOK, ConsumerOK
  <2> QED BY <2>1, <2>2, <2>3 DEF NewRow
<1> QED BY <1>2, <1>3

\* No letter is past the end of the schedule.
LEMMA AttemptsStep ==
  ASSUME TypeOK, ClaimsOK, AttemptsOK, Next
  PROVE  AttemptsOK'
<1>0. WorkersOK /\ \A o \in DOMAIN row : row[o] \in Rows /\ row[o].attempts \in Nat
  BY Registered DEF TypeOK, Rows
<1>1. ASSUME DOMAIN row' = DOMAIN row, \A o \in DOMAIN row : row'[o].attempts = row[o].attempts
      PROVE  AttemptsOK'
  BY <1>1 DEF AttemptsOK
<1>2. ASSUME row' = row PROVE AttemptsOK'
  BY <1>2 DEF AttemptsOK
<1>3. ASSUME NEW w \in Workers, Intake(w) PROVE AttemptsOK'
  <2>1. \A e \in Events : PriorAttempts(e) <= Budget
    BY SpentWithinBudget
  <2> QED BY <1>3, <2>1, IntakeRows DEF AttemptsOK
<1>4. ASSUME NEW w \in Workers, pc[w] \in { "replayed", "refused" }, NEW r,
             r.attempts = row[at[w]].attempts + 1, row' = [row EXCEPT ![at[w]] = r]
      PROVE  AttemptsOK'
  <2>1. at[w] \in DOMAIN row
    BY <1>0, <1>4, Registered DEF WorkersOK
  <2>2. row[at[w]].attempts < Budget
    BY <1>4 DEF ClaimsOK, FlightKept
  <2>3. r.attempts <= Budget
    BY <1>0, <1>4, <2>1, <2>2
  <2> QED BY <1>4, <2>3 DEF AttemptsOK
<1>5. ASSUME NEW w \in Workers, RecordSuccess(w) PROVE AttemptsOK'
  <2>1. at[w] \in DOMAIN row /\ pc[w] = "replayed"
    BY <1>0, <1>5, Registered DEF RecordSuccess, WorkersOK
  <2>2. Succeeded(row[at[w]]).attempts = row[at[w]].attempts + 1
    BY <1>0, <2>1 DEF Succeeded, Rows
  <2>3. row' = row \/ row' = [row EXCEPT ![at[w]] = Succeeded(row[at[w]])]
    BY <1>5 DEF RecordSuccess
  <2> QED BY <1>2, <1>4, <2>1, <2>2, <2>3
<1>6. ASSUME NEW w \in Workers, RecordFailure(w) PROVE AttemptsOK'
  <2>1. at[w] \in DOMAIN row /\ pc[w] = "refused"
    BY <1>0, <1>6, Registered DEF RecordFailure, WorkersOK
  <2>2. Refused(row[at[w]]).attempts = row[at[w]].attempts + 1
    BY <1>0, <2>1 DEF Refused, Rows
  <2>3. row' = [row EXCEPT ![at[w]] = Refused(row[at[w]])]
    BY <1>6 DEF RecordFailure
  <2> QED BY <1>4, <2>1, <2>2, <2>3
<1>7. ASSUME NEW w \in Workers, SpreadFailure(w) PROVE AttemptsOK'
  BY <1>0, <1>1, <1>7 DEF SpreadFailure, Inherited, Rows
<1>8. ASSUME NEW o \in DOMAIN row, FallDue(o) PROVE AttemptsOK'
  BY <1>0, <1>1, <1>8 DEF FallDue, Rows
<1>9. ASSUME NEW w \in Workers, NEW o \in DOMAIN claim[w], OnLetter(w, o) PROVE AttemptsOK'
  <2>0. o \in DOMAIN row
    BY <1>0, Registered DEF WorkersOK
  <2>1. CASE Park(w, o)
    BY <1>1, <2>0, <2>1, ParkedRows DEF Park
  <2>2. CASE ParkMissing(w, o)
    BY <1>1, <2>0, <2>2, ParkedRows DEF ParkMissing
  <2>3. CASE Replay(w, o)
    BY <1>2, <2>3 DEF Replay
  <2>4. ASSUME NEW b \in BOOLEAN, ReplayFails(w, o, b) PROVE AttemptsOK'
    BY <1>2, <2>4 DEF ReplayFails
  <2> QED BY <1>9, <2>1, <2>2, <2>3, <2>4 DEF OnLetter
<1>10. ASSUME NEW e \in Events, Consume(e) PROVE AttemptsOK'
  BY <1>2, <1>10 DEF Consume, Handle, DeadLetter
<1>11. ASSUME NEW w \in Workers, Disturb(w) PROVE AttemptsOK'
  BY <1>2, <1>11 DEF Disturb, Recycle, Stop, Exit, Crash, TickFails, ScanCutShort, IntakeFails
<1>12. ASSUME NEW w \in Workers, Start(w) \/ ScanNew(w) \/ ClaimDue(w) \/ ParkSignal(w)
       PROVE  AttemptsOK'
  BY <1>2, <1>12 DEF Start, ScanNew, ClaimDue, ParkSignal
<1> QED BY <1>3, <1>5, <1>6, <1>7, <1>8, <1>9, <1>10, <1>11, <1>12 DEF Next, Step

\* What was refused for good is never republished.
LEMMA RefusedForGood ==
  ASSUME TypeOK, NEW e \in Events, ~Retryable(e), replays[e] = 0, Next
  PROVE  replays'[e] = 0
<1>1. ASSUME NEW w \in Workers, NEW o \in DOMAIN claim[w], Decision(w, o) = "REDRIVE",
             Republished(letters[o])
      PROVE  replays'[e] = 0
  <2>1. letters[o] \in Events
    BY Registered DEF TypeOK, WorkersOK
  <2>2. Retryable(letters[o])
    BY <1>1, <2>1 DEF Decision, DecideRedrive
  <2> QED BY <1>1, <2>1, <2>2 DEF Republished, TypeOK, ConsumerOK
<1>2. ASSUME NEW w \in Workers, NEW o \in DOMAIN claim[w], OnLetter(w, o) PROVE replays'[e] = 0
  <2>1. CASE Park(w, o) \/ ParkMissing(w, o)
    BY <2>1 DEF Park, ParkMissing
  <2>2. CASE Replay(w, o)
    BY <1>1, <2>2 DEF Replay
  <2>3. ASSUME NEW b \in BOOLEAN, ReplayFails(w, o, b) PROVE replays'[e] = 0
    BY <1>1, <2>3 DEF ReplayFails
  <2> QED BY <1>2, <2>1, <2>2, <2>3 DEF OnLetter
<1>3. ASSUME NEW f \in Events, Consume(f) PROVE replays'[e] = 0
  BY <1>3 DEF Consume, Handle, DeadLetter
<1>4. ASSUME NEW w \in Workers, Disturb(w) PROVE replays'[e] = 0
  BY <1>4 DEF Disturb, Recycle, Stop, Exit, Crash, TickFails, ScanCutShort, IntakeFails
<1>5. ASSUME NEW w \in Workers,
             \/ Start(w) \/ ScanNew(w) \/ Intake(w) \/ ClaimDue(w) \/ ParkSignal(w)
             \/ RecordSuccess(w) \/ RecordFailure(w) \/ SpreadFailure(w)
      PROVE  replays'[e] = 0
  BY <1>5 DEF Start, ScanNew, Intake, ClaimDue, ParkSignal, RecordSuccess, RecordFailure,
              SpreadFailure, GoTo
<1>6. ASSUME NEW o \in DOMAIN row, FallDue(o) PROVE replays'[e] = 0
  BY <1>6 DEF FallDue
<1> QED BY <1>2, <1>3, <1>4, <1>5, <1>6 DEF Next, Step

\* Every step is accounted for.
LEMMA SpendingStep ==
  ASSUME TypeOK, TypeOK', ClaimsOK, AttemptsOK, AttemptsOK', OneWorker, Next,
         NEW e \in Events, Retryable(e), Bound(e)
  PROVE  Bound(e)'
<1> USE DEF consumer, leader, tick
<1>0. /\ WorkersOK
      /\ \A o \in DOMAIN row : row[o] \in Rows /\ row[o].attempts \in Nat
      /\ \A v, w \in Workers : v = w
  BY Registered DEF TypeOK, Rows, OneWorker
\* Steps that leave rows and events alone.
<1>1. ASSUME UNCHANGED <<topic, letters, row, replays>>,
             \/ faults' = faults + 1
             \/ /\ faults' = faults
                /\ \E w \in Workers :
                     \/ UNCHANGED <<pc, at>>
                     \/ pc[w] # "replayed" /\ pc'[w] # "replayed"
      PROVE  Bound(e)'
  <2>1. faults' = faults + 1 \/ (faults' = faults /\ (Flying(e)' <=> Flying(e)))
    BY <1>0, <1>1 DEF Flying
  <2> QED BY <1>1, <2>1, QuietSpending
<1>2. ASSUME NEW w \in Workers, Start(w) PROVE Bound(e)'
  BY <1>0, <1>1, <1>2 DEF Start, WorkersOK
<1>3. ASSUME NEW w \in Workers, Disturb(w) PROVE Bound(e)'
  <2>1. CASE Recycle(w)
    BY <1>1, <2>1 DEF Recycle
  <2>2. CASE Exit(w)
    BY <1>0, <1>1, <2>2 DEF Exit, WorkersOK
  <2>3. CASE Stop(w) \/ Crash(w) \/ TickFails(w) \/ ScanCutShort(w) \/ IntakeFails(w)
    BY <1>1, <2>3 DEF Stop, Crash, TickFails, ScanCutShort, IntakeFails, Fault
  <2> QED BY <1>3, <2>1, <2>2, <2>3 DEF Disturb
<1>4. ASSUME NEW w \in Workers, ScanNew(w) \/ ClaimDue(w) PROVE Bound(e)'
  <2>1. CASE ScanNew(w)
    BY <1>0, <1>1, <2>1 DEF ScanNew, GoTo, WorkersOK
  <2>2. CASE ClaimDue(w)
    <3>1. /\ pc[w] = "claim" /\ row' = row
          /\ GoTo(w, "idle") \/ GoTo(w, "work")
      BY <2>2 DEF ClaimDue
    <3> QED BY <1>0, <1>1, <3>1 DEF GoTo, WorkersOK
  <2> QED BY <1>4, <2>1, <2>2
<1>5. ASSUME NEW w \in Workers, ParkSignal(w) PROVE Bound(e)'
  BY <1>0, <1>1, <1>5 DEF ParkSignal, NextLetter, WorkersOK
<1>6. ASSUME NEW f \in Events, Consume(f) PROVE Bound(e)'
  BY <1>6, HandleSpending, DeadLetterSpending DEF Consume
\* Steps of a worker on rows.
<1>7. ASSUME NEW w \in Workers, pc[w] # "replayed", pc'[w] # "replayed",
             UNCHANGED <<topic, letters, replays, faults>>, Left(e)' \subseteq Left(e)
      PROVE  Bound(e)'
  <2>1. Advance(e)' = Advance(e)
    BY <1>0, <1>7 DEF Advance, Flying
  <2> QED BY <1>7, <2>1, RowsSpending
<1>8. ASSUME NEW w \in Workers, Intake(w) PROVE Bound(e)'
  <2>1. /\ pc[w] = "intake" /\ pc'[w] = "claim"
        /\ UNCHANGED <<topic, letters, replays, faults>>
    BY <1>0, <1>8 DEF Intake, GoTo, WorkersOK
  <2>2. Left(e)' \subseteq Left(e)
    BY <1>0, <1>8, <2>1, IntakeRows, LeftShrinks
  <2> QED BY <1>7, <2>1, <2>2
<1>9. ASSUME NEW w \in Workers, NEW o \in DOMAIN claim[w], OnLetter(w, o) PROVE Bound(e)'
  <2>0. o \in DOMAIN row
    BY <1>0, Registered DEF WorkersOK
  <2>1. ASSUME NEW reason, Pick(w, o, "signal"), ParkRow(o, reason),
               UNCHANGED <<topic, letters, replays, faults>>
        PROVE  Bound(e)'
    <3>1. pc[w] = "work" /\ pc'[w] = "signal"
      BY <1>0, <2>1 DEF Pick, At, WorkersOK
    <3>2. /\ DOMAIN row' = DOMAIN row
          /\ \A p \in DOMAIN row :
               /\ row'[p].attempts = row[p].attempts
               /\ row'[p].state = "RETRYING" => row[p].state = "RETRYING"
      BY <2>0, <2>1, ParkedRows
    <3>3. Left(e)' \subseteq Left(e)
      BY <1>0, <2>1, <3>2, LeftShrinks
    <3> QED BY <1>7, <2>1, <3>1, <3>3
  <2>2. CASE Park(w, o)
    BY <2>1, <2>2 DEF Park
  <2>3. CASE ParkMissing(w, o)
    BY <2>1, <2>3 DEF ParkMissing
  <2>4. CASE Replay(w, o)
    BY <2>4, ReplaySpending
  <2>5. ASSUME NEW b \in BOOLEAN, ReplayFails(w, o, b) PROVE Bound(e)'
    BY <2>5, ReplayFailsSpending
  <2> QED BY <1>9, <2>2, <2>3, <2>4, <2>5 DEF OnLetter
<1>10. ASSUME NEW w \in Workers, RecordFailure(w) PROVE Bound(e)'
  <2>1. /\ pc[w] = "refused" /\ pc'[w] = "spread"
        /\ UNCHANGED <<topic, letters, replays, faults>>
    BY <1>0, <1>10 DEF RecordFailure, GoTo, WorkersOK
  <2>2. /\ DOMAIN row' = DOMAIN row
        /\ \A p \in DOMAIN row :
             /\ row[p].attempts <= row'[p].attempts
             /\ row'[p].state = "RETRYING" => row[p].state = "RETRYING"
    BY <1>0, <1>10 DEF RecordFailure, Refused, Rows
  <2>3. Left(e)' \subseteq Left(e)
    BY <2>1, <2>2, LeftShrinks
  <2> QED BY <1>7, <2>1, <2>3
<1>11. ASSUME NEW w \in Workers, SpreadFailure(w) PROVE Bound(e)'
  <2>1. /\ pc[w] = "spread" /\ pc'[w] # "replayed"
        /\ UNCHANGED <<topic, letters, replays, faults>>
    BY <1>0, <1>11 DEF SpreadFailure, NextLetter, WorkersOK
  <2>2. /\ DOMAIN row' = DOMAIN row
        /\ \A p \in DOMAIN row :
             row'[p].state = row[p].state /\ row'[p].attempts = row[p].attempts
    BY <1>0, <1>11 DEF SpreadFailure, Inherited, Rows
  <2>3. Left(e)' \subseteq Left(e)
    BY <1>0, <2>1, <2>2, LeftShrinks
  <2> QED BY <1>7, <2>1, <2>3
<1>12. ASSUME NEW o \in DOMAIN row, FallDue(o) PROVE Bound(e)'
  <2>1. UNCHANGED <<topic, letters, replays, faults, pc, at>>
    BY <1>12 DEF FallDue
  <2>2. /\ DOMAIN row' = DOMAIN row
        /\ \A p \in DOMAIN row :
             row'[p].state = row[p].state /\ row'[p].attempts = row[p].attempts
    BY <1>0, <1>12 DEF FallDue, Rows
  <2>3. Left(e)' \subseteq Left(e)
    BY <1>0, <2>1, <2>2, LeftShrinks
  <2>4. PriorAttempts(e)' = PriorAttempts(e)
    BY <2>1, <2>2, PriorStays
  <2>5. (Loose(e)' <=> Loose(e)) /\ (Flying(e)' <=> Flying(e))
    BY <2>1, <2>2 DEF Loose, Owing, Flying
  <2>6. Advance(e)' = Advance(e)
    BY <2>4, <2>5 DEF Advance
  <2> QED BY <2>1, <2>3, <2>6, RowsSpending
<1>13. ASSUME NEW w \in Workers, RecordSuccess(w) PROVE Bound(e)'
  BY <1>13, SuccessSpending
<1> QED
  <2>1. ASSUME NEW w \in Workers, Step(w) PROVE Bound(e)'
    BY <2>1, <1>2, <1>4, <1>5, <1>8, <1>9, <1>10, <1>11, <1>13 DEF Step
  <2> QED BY <2>1, <1>3, <1>6, <1>12 DEF Next

\* At first every event has its copy on the topic, and the whole budget.
LEMMA BoundAtFirst ==
  ASSUME Init
  PROVE  BInv
<1>1. TypeOK
  BY Start0 DEF IInv
<1>2. DOMAIN row = {} /\ \A w \in Workers : pc[w] = "down" /\ DOMAIN claim[w] = {}
  BY DEF Init
<1>3. ClaimsOK /\ AttemptsOK
  BY <1>2 DEF ClaimsOK, ClaimKept, FlightKept, AttemptsOK
<1>4. ASSUME NEW e \in Events, Retryable(e) PROVE Bound(e)
  <2>1. PriorAttempts(e) = 0
    BY <1>1, <1>2, <1>4, PriorIsGreatest DEF Retryable
  <2>2. \A o : o \in Owing(e) <=> o = 0
    <3>1. topic[e] = 1 /\ DOMAIN letters = {}
      BY DEF Init
    <3> QED BY <1>1, <3>1, OwingType
  <2>3. Floor(e, 0) = 0 /\ Owing(e) = {0}
    BY <1>2, <2>1, <2>2 DEF Floor
  <2>4. Left(e) = Rest(0, 0)
    BY <2>3 DEF Left, LeftOf, Rest
  <2>5. Cardinality(Left(e)) = Budget
    BY <2>4, RestSize
  <2>6. Advance(e) = 0
    BY <1>2 DEF Advance, Flying
  <2>7. Allowance = Budget /\ replays[e] = 0
    <3>1. faults = 0 /\ replays[e] = 0
      BY DEF Init
    <3> QED BY <3>1 DEF Allowance
  <2> QED BY <2>5, <2>6, <2>7 DEF Bound
<1>5. \A e \in Events : replays[e] = 0
  BY DEF Init
<1> QED BY <1>1, <1>3, <1>4, <1>5 DEF BInv, SpendingOK

\* Every step of a service of one process keeps it.
LEMMA BoundKept ==
  ASSUME OneWorker, BInv, [Next]_vars
  PROVE  BInv'
<1>0. TypeOK /\ ClaimsOK /\ AttemptsOK /\ SpendingOK
  BY DEF BInv
<1>1. CASE Next
  <2>1. TypeOK' /\ AttemptsOK'
    BY <1>0, <1>1, TypeStep, AttemptsStep
  <2>2. ClaimsOK'
    BY <1>0, <1>1, <2>1, ClaimsStep
  <2>3. ASSUME NEW e \in Events PROVE IF Retryable(e) THEN Bound(e)' ELSE replays'[e] = 0
    <3>1. CASE Retryable(e)
      BY <1>0, <1>1, <2>1, <3>1, SpendingStep DEF SpendingOK
    <3>2. CASE ~Retryable(e)
      BY <1>0, <1>1, <3>2, RefusedForGood DEF SpendingOK
    <3> QED BY <3>1, <3>2
  <2>4. SpendingOK'
    BY <2>3 DEF SpendingOK, Retryable
  <2> QED BY <2>1, <2>2, <2>4 DEF BInv
<1>2. CASE UNCHANGED vars
  <2>0. UNCHANGED <<topic, handled, letters, row, holder, leads, pc, scanned, claim, at,
                    signalled, replays, faults>>
    BY <1>2 DEF vars
  <2>1. TypeOK'
    BY <1>0, <2>0 DEF TypeOK, ConsumerOK, LedgerOK, WorkersOK
  <2>2. AttemptsOK'
    BY <1>0, <2>0 DEF AttemptsOK
  <2>3. ClaimsOK'
    BY <1>0, <2>0 DEF ClaimsOK, ClaimKept, FlightKept
  <2>4. ASSUME NEW e \in Events PROVE IF Retryable(e) THEN Bound(e)' ELSE replays'[e] = 0
    <3>1. Flying(e)' <=> Flying(e)
      BY <2>0 DEF Flying
    <3> QED BY <1>0, <2>0, <2>1, <2>2, <3>1, QuietSpending DEF SpendingOK
  <2>5. SpendingOK'
    BY <2>4 DEF SpendingOK, Retryable
  <2> QED BY <2>1, <2>2, <2>3, <2>5 DEF BInv
<1> QED BY <1>1, <1>2

\* What an event has in advance it has left as well: the letter in flight has an
\* attempt left, and each letter or copy that is not registered has the rest.
LEMMA AdvanceCovered ==
  ASSUME BInv, NEW e \in Events
  PROVE  Advance(e) <= Cardinality(Left(e))
<1> DEFINE M == PriorAttempts(e)
<1>0. TypeOK /\ ClaimsOK /\ AttemptsOK
  BY DEF BInv
<1>1. M \in 0..Budget /\ IsFiniteSet(Left(e)) /\ Cardinality(Left(e)) \in Nat
  BY <1>0, SpentWithinBudget, LeftFinite
<1>2. CASE ~Flying(e)
  BY <1>1, <1>2 DEF Advance
<1>3. CASE Flying(e)
  <2>1. PICK w \in Workers : pc[w] = "replayed" /\ letters[at[w]] = e
    BY <1>3 DEF Flying
  <2> DEFINE o == at[w]
             a == row[o].attempts
  <2>2. o \in DOMAIN row /\ o \in DOMAIN letters /\ a \in Nat /\ a < Budget
        /\ row[o].state = "RETRYING"
    BY <1>0, <2>1, Registered DEF TypeOK, WorkersOK, ClaimsOK, FlightKept, Rows
  <2> HIDE DEF o
  <2>3. Floor(e, o) = a /\ o \in Owing(e)
    <3>1. letters[o] = e
      BY <2>1 DEF o
    <3> QED BY <2>2, <3>1 DEF Floor, Owing
  <2>4. Rest(o, a) \subseteq Left(e)
    BY <1>0, <2>3, RestOfLoose
  <2>5. Cardinality(Rest(o, a)) = Budget - a
    BY <2>2, RestSize
  <2>6. CASE ~Loose(e)
    <3>1. Cardinality(Rest(o, a)) <= Cardinality(Left(e))
      BY <1>1, <2>4, FS_Subset
    <3> QED BY <1>1, <1>3, <2>2, <2>5, <2>6, <3>1 DEF Advance
  <2>7. CASE Loose(e)
    <3>1. PICK p \in Owing(e) : p \notin DOMAIN row
      BY <2>7 DEF Loose
    <3>2. Floor(e, p) = M
      BY <3>1 DEF Floor
    <3>3. Rest(p, M) \subseteq Left(e) /\ Cardinality(Rest(p, M)) = Budget - M
      <4>1. Rest(p, M) \subseteq Left(e)
        BY <1>0, <3>1, <3>2, RestOfLoose
      <4> QED BY <1>1, <4>1, RestSize
    <3>4. Rest(o, a) \cap Rest(p, M) = {}
      BY <2>2, <3>1 DEF Rest
    <3>5. Cardinality(Rest(o, a)) + Cardinality(Rest(p, M)) <= Cardinality(Left(e))
      BY <1>1, <2>4, <3>3, <3>4, TakenOut
    <3> QED BY <1>1, <1>3, <2>2, <2>5, <2>7, <3>3, <3>5 DEF Advance
  <2> QED BY <2>6, <2>7
<1> QED BY <1>2, <1>3

\* So the attempts made stay within the allowance.
LEMMA BoundGives == BInv => RedrivesBounded
<1> SUFFICES ASSUME BInv, NEW e \in Events
             PROVE  replays[e] <= Allowance
  BY DEF RedrivesBounded, Allowance
<1>0. TypeOK /\ AttemptsOK /\ SpendingOK
  BY DEF BInv
<1>1. Allowance \in Nat /\ replays[e] \in Nat
  BY <1>0, AllowanceType DEF TypeOK, ConsumerOK
<1>2. CASE ~Retryable(e)
  BY <1>0, <1>1, <1>2 DEF SpendingOK
<1>3. CASE Retryable(e)
  <2>1. replays[e] + Cardinality(Left(e)) <= Allowance + Advance(e)
    BY <1>0, <1>3 DEF SpendingOK, Bound
  <2>2. Cardinality(Left(e)) \in Nat /\ Advance(e) \in 0..(Budget + 1)
    BY <1>0, LeftFinite, AdvanceType
  <2>3. Advance(e) <= Cardinality(Left(e))
    BY AdvanceCovered
  <2>4. \A r, l, A, d \in Nat : r + l <= A + d /\ d <= l => r <= A
    OBVIOUS
  <2> QED BY <1>1, <2>1, <2>2, <2>3
<1> QED BY <1>2, <1>3

\* With one process of the service, every event is republished at most once per
\* number of the schedule, and each crash, refused call or lost commit allows
\* one more round and one more republish: for any budget and any other constants.
THEOREM BoundedRedrives ==
  ASSUME OneWorker
  PROVE  Spec => []RedrivesBounded
<1>1. Init => BInv
  BY BoundAtFirst
<1>2. BInv /\ [Next]_vars => BInv'
  BY BoundKept
<1> QED BY <1>1, <1>2, BoundGives, PTL DEF Spec
=============================================================================
