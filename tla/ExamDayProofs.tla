---------------------------- MODULE ExamDayProofs ----------------------------
(***************************************************************************)
(* Proofs about ExamDay, for any number of sessions, officers, tablets,    *)
(* scans, records and tests and finitely many applications.                *)
(*                                                                         *)
(* The invariant says, besides what the rows promise, what every session   *)
(* may rely on while it holds a lock: the row lock freezes an application's*)
(* status, scores and admission, the identity lock its evidence, and the   *)
(* venue's lock everything its counts are made of.                         *)
(***************************************************************************)
EXTENDS ExamDay, FiniteSetTheorems, WellFoundedInduction, TLAPS

----------------------------------------------------------------------------
(* Types *)

Days == {"before", "exam", "after"}
Modes == {r.mode : r \in Records}
Ids == {r.id : r \in Records}
Metrics == {t.metrics : t \in Tests}
Clocks == [Devices -> Nat]
Methods == {"NATIONAL_ID_CARD+SUPERVISOR", "NATIONAL_ID_CARD+CARD_PORTRAIT", "NATIONAL_ID_CARD"}
Entries == {"ACCEPT", "SUPERSEDE", "CONFLICT"}
Tally == [expected : Nat, admitted : Nat, captured : Nat, conflicts : Nat]

Admission == [app : Apps, by : Officers, method : Methods, seen : SUBSET Ids]
Evidence == [id : Ids, app : Apps, outcome : Outcomes, mode : Modes, officer : Officers,
             record : Records, late : BOOLEAN]
Capturing == [app : Apps, device : Devices, officer : {t.officer : t \in Tests}, metrics : Metrics,
              genuine : {t.genuine : t \in Tests}, clock : Clocks]
Score == [app : Apps, device : Devices, officer : Officers, metrics : Metrics, clock : Clocks,
          conflict : BOOLEAN, chosen : BOOLEAN, entered : Entries]
Picked == [device : Devices, clock : Clocks]
Change == [app : Apps, status : AppStatuses, scores : SUBSET Score, admit : SUBSET Admission]

\* What a session is doing, step by step.
GateAsk == [op : {"gate"}, pc : {"row", "identity"}, app : Apps, officer : Officers,
            scan : Scans, today : Days]
GateWrite == [op : {"gate"}, pc : {"venue", "commit"}, app : Apps, fresh : Tally \cup {None},
              change : Change]
EvidenceAsk == [op : {"evidence"}, pc : {"identity"}, app : Apps, officer : Officers, record : Records]
EvidenceWrite == [op : {"evidence"}, pc : {"key"}, app : Apps, row : Evidence]
Confirming == [op : {"confirm"}, pc : {"identity", "key"}, app : Apps, officer : Officers,
               found : Evidence]
SyncAsk == [op : {"sync"}, pc : {"device", "row"}, app : Apps, officer : Officers, record : Capturing]
SyncWrite == [op : {"sync"}, pc : {"venue", "commit"}, app : Apps, officer : Officers,
              record : Capturing, fresh : Tally \cup {None}, tell : BOOLEAN, change : Change]
SyncTell == [op : {"sync"}, pc : {"announce"}, app : Apps, officer : Officers,
             record : Capturing, fresh : {None}, tell : BOOLEAN, change : {None}]
ResolveAsk == [op : {"resolve"}, pc : {"row"}, app : Apps, pick : Picked]
ResolveWrite == [op : {"resolve"}, pc : {"venue", "commit"}, app : Apps, fresh : Tally \cup {None},
                 hash : Metrics, change : Change]
ResolveTell == [op : {"resolve"}, pc : {"announce"}, app : Apps, fresh : {None}, hash : Metrics,
                change : {None}]

Writing == GateWrite \cup SyncWrite \cup ResolveWrite
Session == {Idle} \cup GateAsk \cup EvidenceAsk \cup EvidenceWrite \cup Confirming \cup SyncAsk
             \cup SyncTell \cup ResolveAsk \cup ResolveTell \cup Writing

\* The session's op and pc tell its shape.
LEMMA Shapes ==
  ASSUME NEW s \in Session
  PROVE  /\ s.op = "idle" => s = Idle
         /\ s.op # "idle" => s.app \in Apps
         /\ s.op = "gate" /\ s.pc \in {"row", "identity"} => s \in GateAsk
         /\ s.op = "gate" /\ s.pc \notin {"row", "identity"} => s \in GateWrite
         /\ s.op = "evidence" /\ s.pc = "identity" => s \in EvidenceAsk
         /\ s.op = "evidence" /\ s.pc # "identity" => s \in EvidenceWrite
         /\ s.op = "confirm" => s \in Confirming
         /\ s.op = "sync" /\ s.pc \in {"device", "row"} => s \in SyncAsk
         /\ s.op = "sync" /\ s.pc \in {"venue", "commit"} => s \in SyncWrite
         /\ s.op = "sync" /\ s.pc = "announce" => s \in SyncTell
         /\ s.op = "resolve" /\ s.pc = "row" => s \in ResolveAsk
         /\ s.op = "resolve" /\ s.pc \in {"venue", "commit"} => s \in ResolveWrite
         /\ s.op = "resolve" /\ s.pc = "announce" => s \in ResolveTell
         /\ s.op # "idle" /\ s.pc \in {"venue", "commit"} => s \in Writing
         /\ s.op \in {"idle", "gate", "evidence", "confirm", "sync", "resolve"}
<1>1. CASE s \in {Idle} \cup GateAsk \cup GateWrite
  BY <1>1 DEF Idle, GateAsk, GateWrite, Writing
<1>2. CASE s \in EvidenceAsk \cup EvidenceWrite \cup Confirming
  BY <1>2 DEF EvidenceAsk, EvidenceWrite, Confirming
<1>3. CASE s \in SyncAsk \cup SyncWrite \cup SyncTell
  BY <1>3 DEF SyncAsk, SyncWrite, SyncTell, Writing
<1>4. CASE s \in ResolveAsk \cup ResolveWrite \cup ResolveTell
  BY <1>4 DEF ResolveAsk, ResolveWrite, ResolveTell, Writing
<1> QED BY <1>1, <1>2, <1>3, <1>4 DEF Session, Writing

----------------------------------------------------------------------------
(* Locks *)

\* The keys a session holds at each of its steps.
RowKeys(s) ==
  IF \/ s.op = "gate" /\ s.pc \in {"identity", "venue", "commit"}
     \/ s.op \in {"sync", "resolve"} /\ s.pc \in {"venue", "commit"}
  THEN {s.app} ELSE {}

IdentityKeys(s) ==
  IF \/ s.op = "gate" /\ s.pc \in {"venue", "commit"}
     \/ s.op \in {"evidence", "confirm"} /\ s.pc = "key"
  THEN {s.app} ELSE {}

VenueKeys(s) ==
  IF s.op # "idle" /\ s.pc = "commit" /\ VenueOf[s.app] # None THEN {VenueOf[s.app]} ELSE {}

\* A lock names a session exactly when the session holds the key.
Agrees(lock, keys) ==
  \A w \in Sessions, k \in DOMAIN lock : lock[k] = w <=> k \in keys[w]

LocksOK ==
  /\ rowLock \in [Apps -> Sessions \cup {None}]
  /\ identityLock \in [Apps -> Sessions \cup {None}]
  /\ venueLock \in [Venues -> Sessions \cup {None}]
  /\ Agrees(rowLock, [w \in Sessions |-> RowKeys(sess[w])])
  /\ Agrees(identityLock, [w \in Sessions |-> IdentityKeys(sess[w])])
  /\ Agrees(venueLock, [w \in Sessions |-> VenueKeys(sess[w])])

\* A lock is left alone, dropped with all the session's keys, or taken when free.
LockMove(lock, lock2, w, keys, keys2) ==
  \/ lock2 = lock /\ keys2 = keys
  \/ lock2 = Dropped(lock, w) /\ keys2 = {}
  \/ \E k \in DOMAIN lock : lock[k] = None /\ lock2 = [lock EXCEPT ![k] = w] /\ keys2 = keys \cup {k}

LEMMA LockStep ==
  ASSUME NEW D, NEW lock \in [D -> Sessions \cup {None}], NEW keys, NEW keys2, Agrees(lock, keys),
         NEW w \in Sessions, NEW lock2, LockMove(lock, lock2, w, keys[w], keys2[w]),
         \A v \in Sessions \ {w} : keys2[v] = keys[v]
  PROVE  lock2 \in [D -> Sessions \cup {None}] /\ Agrees(lock2, keys2)
<1>0. None \notin Sessions
  BY VenueAssumption
<1>1. CASE lock2 = lock /\ keys2[w] = keys[w]
  BY <1>1 DEF Agrees
<1>2. CASE lock2 = Dropped(lock, w) /\ keys2[w] = {}
  BY <1>0, <1>2 DEF Agrees, Dropped
<1>3. CASE \E k \in DOMAIN lock : lock[k] = None /\ lock2 = [lock EXCEPT ![k] = w]
                                    /\ keys2[w] = keys[w] \cup {k}
  BY <1>0, <1>3 DEF Agrees
<1> QED BY <1>1, <1>2, <1>3 DEF LockMove

----------------------------------------------------------------------------
(* Clocks *)

\* The maximum of a finite set of numbers is one of them and the greatest.
LEMMA GreatestClock ==
  ASSUME NEW S \in SUBSET Nat, IsFiniteSet(S), S # {}
  PROVE  Max(S) \in S /\ \A y \in S : Max(S) >= y
<1> DEFINE Above(x) == { y \in S : y > x }
           T == { Cardinality(Above(x)) : x \in S }
           R == OpToRel(<, Nat)
<1>1. \A x \in S : IsFiniteSet(Above(x)) /\ Cardinality(Above(x)) \in Nat
  <2> TAKE x \in S
  <2>1. Above(x) \subseteq S
    OBVIOUS
  <2> QED BY <2>1, FS_Subset, FS_CardinalityType
<1>2. T \subseteq Nat /\ T # {}
  BY <1>1
<1>3. \A m, n \in Nat : m < n => <<m, n>> \in R
  BY DEF OpToRel
<1> HIDE DEF R
<1>4. PICK m \in T : \A n \in T : ~(<<n, m>> \in R)
  <2>1. IsWellFoundedOn(R, Nat)
    BY NatLessThanWellFounded DEF R
  <2> QED BY <2>1, <1>2, WFMin
<1>5. PICK x \in S : m = Cardinality(Above(x))
  OBVIOUS
<1>6. ASSUME NEW y \in S, y > x PROVE FALSE
  <2>0. x \in Nat /\ y \in Nat /\ \A z \in S : z \in Nat
    OBVIOUS
  <2>1. Above(y) \subseteq Above(x) /\ y \in Above(x) /\ y \notin Above(y)
    <3>1. \A z \in S : z > y => z > x
      BY <2>0, <1>6
    <3>2. ~(y > y)
      BY <2>0
    <3> QED BY <3>1, <3>2, <1>6, Zenon
  <2>2. Cardinality(Above(y)) < Cardinality(Above(x))
    BY <2>1, <1>1, FS_Subset
  <2> QED BY <2>2, <1>1, <1>3, <1>4, <1>5
<1>7. \E z \in S : \A y \in S : z >= y
  BY <1>6
<1> QED BY <1>7, Zenon DEF Max

\* Joining finitely many clocks gives a clock.
LEMMA JoinedType ==
  ASSUME NEW S, IsFiniteSet(S), NEW f \in [S -> Clocks]
  PROVE  Joined({f[x] : x \in S}) \in Clocks
<1> DEFINE C == {f[x] : x \in S} \cup {ZeroClock}
<1>1. IsFiniteSet({f[x] : x \in S})
  <2>1. f \in Surjection(S, {f[x] : x \in S})
    BY DEF Surjection
  <2> QED BY <2>1, FS_Surjection
<1>2. IsFiniteSet(C)
  BY <1>1, FS_AddElement
<1>3. ZeroClock \in C /\ \A c \in C : c \in Clocks
  BY DEF Clocks, ZeroClock
<1>4. ASSUME NEW d \in Devices PROVE Max({c[d] : c \in C}) \in Nat
  <2> DEFINE N == {c[d] : c \in C}
             g == [c \in C |-> c[d]]
  <2>1. N \in SUBSET Nat /\ N # {}
    BY <1>3 DEF Clocks
  <2>2. g \in Surjection(C, N)
    BY DEF Surjection
  <2>3. IsFiniteSet(N)
    BY <2>2, <1>2, FS_Surjection
  <2> QED BY <2>1, <2>3, GreatestClock
<1> HIDE DEF C
<1>5. [d \in Devices |-> Max({c[d] : c \in C})] \in Clocks
  BY <1>4 DEF Clocks
<1> QED BY <1>5 DEF Joined, C

----------------------------------------------------------------------------
(* The typed state *)

\* A session works on one application from its first step to its last.
Own(s) ==
  /\ s.op = "gate" /\ s.pc \in {"row", "identity"} => s.scan.app = s.app
  /\ s.op = "evidence" /\ s.pc = "identity" => s.record.app = s.app
  /\ s.op = "evidence" /\ s.pc = "key" => s.row.app = s.app
  /\ s.op = "confirm" => s.found.app = s.app
  /\ s.op = "sync" => s.record.app = s.app
  /\ s.op # "idle" /\ s.pc \in {"venue", "commit"} => s.change.app = s.app

SessOK ==
  /\ sess \in [Sessions -> Session]
  /\ \A w \in Sessions : Own(sess[w])

RowsOK ==
  /\ status \in [Apps -> AppStatuses]
  /\ admissions \in SUBSET Admission
  /\ scores \in SUBSET Score
  /\ counts \in [Venues -> Tally]
  /\ official \in [Apps -> Picked \cup {None}]
  /\ device \in [Devices -> {"absent", "active", "revoked"}]

GateOK ==
  /\ day \in Days
  /\ evidence \in SUBSET Evidence
  /\ confirmed \in SUBSET [evidence : Ids, by : Officers]
  /\ told \in [Apps -> Nat]

FieldOK ==
  /\ captured \in SUBSET Capturing /\ IsFiniteSet(captured)
  /\ settled \in SUBSET Capturing
  /\ announced \in [Apps -> Seq(Metrics)]

\* A transaction that has written, up to its commit.
Busy(s) == s.op # "idle" /\ s.pc \in {"venue", "commit"}

Written(s) ==
  /\ IsFiniteSet(s.change.scores)
  /\ \A m \in s.change.admit : m.app = s.app
  /\ \A y \in s.change.scores : y.app = s.app
  /\ s.pc = "commit" /\ VenueOf[s.app] # None => s.fresh \in Tally

WritesOK ==
  /\ IsFiniteSet(scores)
  /\ \A w \in Sessions : Busy(sess[w]) => Written(sess[w])

TInv == SessOK /\ LocksOK /\ RowsOK /\ GateOK /\ FieldOK /\ WritesOK

\* Counting gives numbers.
LEMMA RecountType ==
  ASSUME NEW v, NEW st, NEW adm, NEW sc
  PROVE  Recount(v, st, adm, sc) \in Tally
<1> DEFINE here == {a \in Apps : VenueOf[a] = v}
<1>1. ASSUME NEW S \in SUBSET here PROVE Cardinality(S) \in Nat
  <2>1. S \subseteq Apps
    OBVIOUS
  <2> QED BY <2>1, FS_Subset, FS_CardinalityType, ExamDayAssumption
<1>2. /\ {a \in here : st[a] \in Roster} \in SUBSET here
      /\ {a \in here : \E m \in adm : m.app = a} \in SUBSET here
      /\ {a \in here : \E s \in sc : s.app = a} \in SUBSET here
      /\ {a \in here : \E s \in sc : s.app = a /\ s.conflict} \in SUBSET here
  OBVIOUS
<1> HIDE DEF here
<1>3. /\ Cardinality({a \in here : st[a] \in Roster}) \in Nat
      /\ Cardinality({a \in here : \E m \in adm : m.app = a}) \in Nat
      /\ Cardinality({a \in here : \E s \in sc : s.app = a}) \in Nat
      /\ Cardinality({a \in here : \E s \in sc : s.app = a /\ s.conflict}) \in Nat
  BY <1>1, <1>2
<1> QED BY <1>3 DEF Recount, Tally, here

\* A session's step that moves the locks as its keys move keeps the locks in
\* agreement with the sessions.
SessStep(w, s2) ==
  /\ s2 \in Session /\ Own(s2)
  /\ sess' = [sess EXCEPT ![w] = s2]
  /\ LockMove(rowLock, rowLock', w, RowKeys(sess[w]), RowKeys(s2))
  /\ LockMove(identityLock, identityLock', w, IdentityKeys(sess[w]), IdentityKeys(s2))
  /\ LockMove(venueLock, venueLock', w, VenueKeys(sess[w]), VenueKeys(s2))

LEMMA SessKeeps ==
  ASSUME SessOK, LocksOK, NEW w \in Sessions, NEW s2, SessStep(w, s2)
  PROVE  /\ SessOK' /\ LocksOK'
         /\ sess'[w] = s2 /\ \A v \in Sessions \ {w} : sess'[v] = sess[v]
<1>1. sess'[w] = s2 /\ (\A v \in Sessions \ {w} : sess'[v] = sess[v]) /\ SessOK'
  BY DEF SessOK, SessStep
<1>2. rowLock' \in [Apps -> Sessions \cup {None}] /\ Agrees(rowLock', [v \in Sessions |-> RowKeys(sess'[v])])
  <2> DEFINE keys == [v \in Sessions |-> RowKeys(sess[v])]
             keys2 == [v \in Sessions |-> RowKeys(sess'[v])]
  <2>1. LockMove(rowLock, rowLock', w, keys[w], keys2[w]) /\ \A v \in Sessions \ {w} : keys2[v] = keys[v]
    BY <1>1 DEF SessStep
  <2>2. rowLock \in [Apps -> Sessions \cup {None}] /\ Agrees(rowLock, keys)
    BY DEF LocksOK
  <2> HIDE DEF keys, keys2
  <2>3. rowLock' \in [Apps -> Sessions \cup {None}] /\ Agrees(rowLock', keys2)
    BY <2>1, <2>2, LockStep
  <2> QED BY <2>3 DEF keys2
<1>3. identityLock' \in [Apps -> Sessions \cup {None}]
      /\ Agrees(identityLock', [v \in Sessions |-> IdentityKeys(sess'[v])])
  <2> DEFINE keys == [v \in Sessions |-> IdentityKeys(sess[v])]
             keys2 == [v \in Sessions |-> IdentityKeys(sess'[v])]
  <2>1. LockMove(identityLock, identityLock', w, keys[w], keys2[w]) /\ \A v \in Sessions \ {w} : keys2[v] = keys[v]
    BY <1>1 DEF SessStep
  <2>2. identityLock \in [Apps -> Sessions \cup {None}] /\ Agrees(identityLock, keys)
    BY DEF LocksOK
  <2> HIDE DEF keys, keys2
  <2>3. identityLock' \in [Apps -> Sessions \cup {None}] /\ Agrees(identityLock', keys2)
    BY <2>1, <2>2, LockStep
  <2> QED BY <2>3 DEF keys2
<1>4. venueLock' \in [Venues -> Sessions \cup {None}] /\ Agrees(venueLock', [v \in Sessions |-> VenueKeys(sess'[v])])
  <2> DEFINE keys == [v \in Sessions |-> VenueKeys(sess[v])]
             keys2 == [v \in Sessions |-> VenueKeys(sess'[v])]
  <2>1. LockMove(venueLock, venueLock', w, keys[w], keys2[w]) /\ \A v \in Sessions \ {w} : keys2[v] = keys[v]
    BY <1>1 DEF SessStep
  <2>2. venueLock \in [Venues -> Sessions \cup {None}] /\ Agrees(venueLock, keys)
    BY DEF LocksOK
  <2> HIDE DEF keys, keys2
  <2>3. venueLock' \in [Venues -> Sessions \cup {None}] /\ Agrees(venueLock', keys2)
    BY <2>1, <2>2, LockStep
  <2> QED BY <2>3 DEF keys2
<1> QED BY <1>1, <1>2, <1>3, <1>4 DEF LocksOK

----------------------------------------------------------------------------
(* What every step does to its session *)

\* The session takes or leaves no lock.
LEMMA PlainStep ==
  ASSUME NEW w \in Sessions, NEW s2 \in Session, Own(s2), sess' = [sess EXCEPT ![w] = s2],
         RowKeys(s2) = RowKeys(sess[w]), IdentityKeys(s2) = IdentityKeys(sess[w]),
         VenueKeys(s2) = VenueKeys(sess[w]), UNCHANGED locks
  PROVE  SessStep(w, s2)
BY DEF SessStep, LockMove, locks

\* The session leaves all its locks.
LEMMA LeavingStep ==
  ASSUME NEW w \in Sessions, NEW s2 \in Session, Own(s2), sess' = [sess EXCEPT ![w] = s2],
         RowKeys(s2) = {}, IdentityKeys(s2) = {}, VenueKeys(s2) = {}, Release(w)
  PROVE  SessStep(w, s2)
BY DEF SessStep, LockMove, Release

LEMMA IdleKeys ==
  /\ Idle \in Session /\ Own(Idle)
  /\ RowKeys(Idle) = {} /\ IdentityKeys(Idle) = {} /\ VenueKeys(Idle) = {}
BY DEF Idle, Session, Own, RowKeys, IdentityKeys, VenueKeys

LEMMA ScanSess ==
  ASSUME TInv, NEW w \in Sessions, NEW o \in Officers, NEW s \in Scans, Scan(w, o, s)
  PROVE  SessStep(w, [op |-> "gate", pc |-> "row", app |-> s.app, officer |-> o, scan |-> s, today |-> day])
<1> DEFINE s2 == [op |-> "gate", pc |-> "row", app |-> s.app, officer |-> o, scan |-> s, today |-> day]
<1>1. s.app \in Apps /\ day \in Days
  BY ExamDayAssumption DEF Scan, TInv, GateOK
<1>2. s2 \in GateAsk
  BY <1>1 DEF GateAsk
<1>3. s2 \in Session /\ Own(s2)
  BY <1>2 DEF Session, Own
<1>4. RowKeys(s2) = {} /\ IdentityKeys(s2) = {} /\ VenueKeys(s2) = {}
  BY DEF RowKeys, IdentityKeys, VenueKeys
<1>5. sess[w] = Idle /\ sess' = [sess EXCEPT ![w] = s2] /\ UNCHANGED locks
  BY Shapes DEF Scan, TInv, SessOK
<1> QED BY <1>3, <1>4, <1>5, IdleKeys, PlainStep

LEMMA LockApplicationSess ==
  ASSUME TInv, NEW w \in Sessions, LockApplication(w)
  PROVE  /\ sess[w] \in GateAsk /\ sess[w].scan.app = sess[w].app
         /\ \/ SessStep(w, Idle) /\ UNCHANGED locks
            \/ /\ SessStep(w, [sess[w] EXCEPT !.pc = "identity"])
               /\ DecideBeforeIdentity(sess[w].scan, sess[w].today) = "CHECK_IDENTITY"
<1>1. sess[w] \in GateAsk /\ sess[w].scan.app = sess[w].app /\ sess[w].pc = "row"
  BY Shapes DEF LockApplication, TInv, SessOK, Own
<1>2. RowKeys(sess[w]) = {} /\ IdentityKeys(sess[w]) = {} /\ VenueKeys(sess[w]) = {}
  BY <1>1 DEF RowKeys, IdentityKeys, VenueKeys, GateAsk
<1>3. CASE sess' = [sess EXCEPT ![w] = Idle] /\ UNCHANGED rowLock
  <2>1. UNCHANGED locks
    BY <1>3 DEF LockApplication, locks
  <2> QED BY <1>1, <1>2, <1>3, <2>1, IdleKeys, PlainStep
<1>4. CASE /\ rowLock' = [rowLock EXCEPT ![sess[w].scan.app] = w]
           /\ sess' = [sess EXCEPT ![w].pc = "identity"]
           /\ DecideBeforeIdentity(sess[w].scan, sess[w].today) = "CHECK_IDENTITY"
  <2> DEFINE s2 == [sess[w] EXCEPT !.pc = "identity"]
  <2>1. s2 \in GateAsk /\ s2.app = sess[w].app /\ s2.scan = sess[w].scan /\ s2.pc = "identity" /\ s2.op = "gate"
    BY <1>1 DEF GateAsk
  <2>2. s2 \in Session /\ Own(s2)
    BY <2>1, <1>1 DEF Session, Own
  <2>3. sess' = [sess EXCEPT ![w] = s2]
    BY <1>4
  <2>4. RowKeys(s2) = {sess[w].app} /\ IdentityKeys(s2) = {} /\ VenueKeys(s2) = {}
    BY <2>1 DEF RowKeys, IdentityKeys, VenueKeys
  <2>5. sess[w].app \in DOMAIN rowLock /\ rowLock[sess[w].app] = None
    BY <1>1 DEF TInv, LocksOK, GateAsk, LockApplication, RowFree
  <2>6. LockMove(rowLock, rowLock', w, RowKeys(sess[w]), RowKeys(s2))
    BY <1>1, <1>2, <1>4, <2>4, <2>5 DEF LockMove
  <2>7. identityLock' = identityLock /\ venueLock' = venueLock
    BY DEF LockApplication
  <2> HIDE DEF s2
  <2>8. SessStep(w, s2)
    BY <1>2, <2>2, <2>3, <2>4, <2>6, <2>7 DEF SessStep, LockMove
  <2> QED BY <1>1, <1>4, <2>8 DEF s2
<1> QED BY <1>3, <1>4 DEF LockApplication

\* The admission a gate inserts.
GateEntry(w) ==
  [app |-> sess[w].app, by |-> sess[w].officer, method |-> IdentityMethod(sess[w].app),
   seen |-> {e.id : e \in VisibleEvidence(sess[w].app)}]

GateWriting(w) ==
  [op |-> "gate", pc |-> "venue", app |-> sess[w].app, fresh |-> None,
   change |-> [app |-> sess[w].app, status |-> "PHYSICAL_TEST_SCHEDULED",
               scores |-> OwnScores(sess[w].app), admit |-> {GateEntry(w)}]]

LEMMA ResolveGateIdentitySess ==
  ASSUME TInv, NEW w \in Sessions, ResolveGateIdentity(w)
  PROVE  /\ sess[w] \in GateAsk /\ sess[w].pc = "identity"
         /\ \/ SessStep(w, Idle) /\ Release(w)
            \/ /\ SessStep(w, GateWriting(w)) /\ GateEntry(w) \in Admission /\ IdentityFree(sess[w].app)
               /\ Unresolved(sess[w].app, sess[w].officer) = {}
<1>1. sess[w] \in GateAsk /\ sess[w].pc = "identity" /\ sess[w].op = "gate"
  BY Shapes DEF ResolveGateIdentity, TInv, SessOK
<1>2. sess[w].app \in Apps /\ sess[w].officer \in Officers
  BY <1>1 DEF GateAsk
<1>3. RowKeys(sess[w]) = {sess[w].app} /\ IdentityKeys(sess[w]) = {} /\ VenueKeys(sess[w]) = {}
  BY <1>1 DEF RowKeys, IdentityKeys, VenueKeys, GateAsk
<1>4. CASE sess' = [sess EXCEPT ![w] = Idle] /\ Release(w)
  BY <1>1, <1>4, IdleKeys, LeavingStep
<1>5. CASE /\ Unresolved(sess[w].app, sess[w].officer) = {}
           /\ identityLock' = [identityLock EXCEPT ![sess[w].app] = w]
           /\ sess' = [sess EXCEPT ![w] = GateWriting(w)]
           /\ UNCHANGED <<rowLock, venueLock>>
  <2>1. GateEntry(w) \in Admission
    <3>1. IdentityMethod(sess[w].app) \in Methods
      BY DEF IdentityMethod, Methods
    <3>2. {e.id : e \in VisibleEvidence(sess[w].app)} \in SUBSET Ids
      BY DEF VisibleEvidence, TInv, GateOK, Evidence
    <3> QED BY <1>2, <3>1, <3>2 DEF Admission, GateEntry
  <2>2. OwnScores(sess[w].app) \in SUBSET Score
    BY DEF OwnScores, TInv, RowsOK
  <2>3. GateWriting(w) \in GateWrite
    <3>1. [app |-> sess[w].app, status |-> "PHYSICAL_TEST_SCHEDULED",
           scores |-> OwnScores(sess[w].app), admit |-> {GateEntry(w)}] \in Change
      BY <1>2, <2>1, <2>2 DEF Change, AppStatuses, Roster
    <3> QED BY <1>2, <3>1 DEF GateWrite, GateWriting
  <2>4. GateWriting(w) \in Session /\ Own(GateWriting(w))
    <3>1. GateWriting(w) \in Session
      BY <2>3 DEF Session, Writing
    <3>2. Own(GateWriting(w))
      BY DEF Own, GateWriting
    <3> QED BY <3>1, <3>2
  <2>5. RowKeys(GateWriting(w)) = {sess[w].app} /\ IdentityKeys(GateWriting(w)) = {sess[w].app}
        /\ VenueKeys(GateWriting(w)) = {}
    BY DEF RowKeys, IdentityKeys, VenueKeys, GateWriting
  <2>6. sess[w].app \in DOMAIN identityLock /\ identityLock[sess[w].app] = None
    BY <1>2 DEF TInv, LocksOK, ResolveGateIdentity, IdentityFree
  <2>7. LockMove(identityLock, identityLock', w, IdentityKeys(sess[w]), IdentityKeys(GateWriting(w)))
    BY <1>3, <1>5, <2>5, <2>6 DEF LockMove
  <2>8. SessStep(w, GateWriting(w))
    BY <1>3, <1>5, <2>4, <2>5, <2>7 DEF SessStep, LockMove
  <2> QED BY <1>1, <1>5, <2>1, <2>6, <2>8 DEF IdentityFree
<1> QED BY <1>4, <1>5 DEF ResolveGateIdentity, GateWriting, GateEntry

LEMMA SubmitSess ==
  ASSUME TInv, NEW w \in Sessions, NEW o \in Officers, NEW r \in Records, Submit(w, o, r)
  PROVE  SessStep(w, [op |-> "evidence", pc |-> "identity", app |-> r.app, officer |-> o, record |-> r])
<1> DEFINE s2 == [op |-> "evidence", pc |-> "identity", app |-> r.app, officer |-> o, record |-> r]
<1>1. s2 \in EvidenceAsk
  BY ExamDayAssumption DEF EvidenceAsk
<1>2. s2 \in Session /\ Own(s2)
  BY <1>1 DEF Session, Own
<1>3. RowKeys(s2) = {} /\ IdentityKeys(s2) = {} /\ VenueKeys(s2) = {}
  BY DEF RowKeys, IdentityKeys, VenueKeys
<1>4. sess[w] = Idle /\ sess' = [sess EXCEPT ![w] = s2] /\ UNCHANGED locks
  BY Shapes DEF Submit, TInv, SessOK
<1> QED BY <1>2, <1>3, <1>4, IdleKeys, PlainStep

\* The evidence a record becomes.
EvidenceRow(r, o) ==
  [id |-> r.id, app |-> r.app, outcome |-> r.outcome, mode |-> r.mode, officer |-> o, record |-> r,
   late |-> Admitted(r.app)]

EvidenceWriting(r, o) == [op |-> "evidence", pc |-> "key", app |-> r.app, row |-> EvidenceRow(r, o)]

LEMMA RecordEvidenceSess ==
  ASSUME TInv, NEW w \in Sessions, RecordEvidence(w)
  PROVE  /\ sess[w] \in EvidenceAsk /\ sess[w].record.app = sess[w].app
         /\ \/ SessStep(w, Idle) /\ UNCHANGED locks
            \/ /\ SessStep(w, EvidenceWriting(sess[w].record, sess[w].officer))
               /\ EvidenceRow(sess[w].record, sess[w].officer) \in Evidence
               /\ IdentityFree(sess[w].app) /\ IndexFree(sess[w].record.id)
               /\ ~\E e \in evidence : e.id = sess[w].record.id
<1>1. sess[w] \in EvidenceAsk /\ sess[w].record.app = sess[w].app /\ sess[w].pc = "identity"
  BY Shapes DEF RecordEvidence, TInv, SessOK, Own
<1>2. sess[w].app \in Apps /\ sess[w].officer \in Officers /\ sess[w].record \in Records
  BY <1>1 DEF EvidenceAsk
<1>3. RowKeys(sess[w]) = {} /\ IdentityKeys(sess[w]) = {} /\ VenueKeys(sess[w]) = {}
  BY <1>1 DEF RowKeys, IdentityKeys, VenueKeys, EvidenceAsk
<1>4. CASE sess' = [sess EXCEPT ![w] = Idle] /\ UNCHANGED identityLock
  <2>1. UNCHANGED locks
    BY <1>4 DEF RecordEvidence, locks
  <2> QED BY <1>1, <1>3, <1>4, <2>1, IdleKeys, PlainStep
<1>5. CASE /\ ~\E e \in evidence : e.id = sess[w].record.id
           /\ sess' = [sess EXCEPT ![w] = EvidenceWriting(sess[w].record, sess[w].officer)]
           /\ identityLock' = [identityLock EXCEPT ![sess[w].record.app] = w]
  <2> DEFINE r == sess[w].record
             s2 == EvidenceWriting(r, sess[w].officer)
  <2>1. EvidenceRow(r, sess[w].officer) \in Evidence
    <3>1. r.id \in Ids /\ r.mode \in Modes /\ r.app \in Apps /\ r.outcome \in Outcomes
      BY <1>2, ExamDayAssumption DEF Ids, Modes
    <3>2. Admitted(r.app) \in BOOLEAN
      BY DEF Admitted
    <3> QED BY <1>2, <3>1, <3>2 DEF EvidenceRow, Evidence
  <2>2. s2 \in EvidenceWrite
    BY <1>1, <1>2, <2>1 DEF EvidenceWrite, EvidenceWriting
  <2>3. s2 \in Session /\ Own(s2)
    <3>1. s2 \in Session
      BY <2>2 DEF Session
    <3>2. Own(s2)
      BY DEF Own, EvidenceWriting, EvidenceRow
    <3> QED BY <3>1, <3>2
  <2>4. RowKeys(s2) = {} /\ IdentityKeys(s2) = {r.app} /\ VenueKeys(s2) = {}
    BY DEF RowKeys, IdentityKeys, VenueKeys, EvidenceWriting
  <2>5. r.app \in DOMAIN identityLock /\ identityLock[r.app] = None /\ IndexFree(r.id)
    BY <1>1, <1>2 DEF TInv, LocksOK, RecordEvidence, IdentityFree
  <2>6. LockMove(identityLock, identityLock', w, IdentityKeys(sess[w]), IdentityKeys(s2))
    BY <1>3, <1>5, <2>4, <2>5 DEF LockMove
  <2>7. rowLock' = rowLock /\ venueLock' = venueLock /\ sess' = [sess EXCEPT ![w] = s2]
    BY <1>5 DEF RecordEvidence
  <2> HIDE DEF s2
  <2>8. SessStep(w, s2)
    BY <1>3, <2>3, <2>4, <2>6, <2>7 DEF SessStep, LockMove
  <2> QED BY <1>1, <1>5, <2>1, <2>5, <2>8 DEF s2, IdentityFree
<1> QED BY <1>4, <1>5 DEF RecordEvidence, EvidenceWriting, EvidenceRow

LEMMA ConfirmSess ==
  ASSUME TInv, NEW w \in Sessions, NEW o \in Officers, NEW e \in evidence, Confirm(w, o, e)
  PROVE  SessStep(w, [op |-> "confirm", pc |-> "identity", app |-> e.app, officer |-> o, found |-> e])
<1> DEFINE s2 == [op |-> "confirm", pc |-> "identity", app |-> e.app, officer |-> o, found |-> e]
<1>1. e \in Evidence /\ e.app \in Apps
  BY DEF TInv, GateOK, Evidence
<1>2. s2 \in Confirming
  BY <1>1 DEF Confirming
<1>3. s2 \in Session /\ Own(s2)
  BY <1>2 DEF Session, Own
<1>4. RowKeys(s2) = {} /\ IdentityKeys(s2) = {} /\ VenueKeys(s2) = {}
  BY DEF RowKeys, IdentityKeys, VenueKeys
<1>5. sess[w] = Idle /\ sess' = [sess EXCEPT ![w] = s2] /\ UNCHANGED locks
  BY Shapes DEF Confirm, TInv, SessOK
<1> QED BY <1>3, <1>4, <1>5, IdleKeys, PlainStep

LEMMA ConfirmManualIdentitySess ==
  ASSUME TInv, NEW w \in Sessions, ConfirmManualIdentity(w)
  PROVE  /\ sess[w] \in Confirming /\ sess[w].found.app = sess[w].app
         /\ \/ SessStep(w, Idle) /\ UNCHANGED locks
            \/ /\ SessStep(w, [sess[w] EXCEPT !.pc = "key"])
               /\ MayConfirm(sess[w].found, sess[w].officer)
<1>1. sess[w] \in Confirming /\ sess[w].found.app = sess[w].app /\ sess[w].pc = "identity"
  BY Shapes DEF ConfirmManualIdentity, TInv, SessOK, Own
<1>2. RowKeys(sess[w]) = {} /\ IdentityKeys(sess[w]) = {} /\ VenueKeys(sess[w]) = {}
  BY <1>1 DEF RowKeys, IdentityKeys, VenueKeys, Confirming
<1>3. CASE sess' = [sess EXCEPT ![w] = Idle] /\ UNCHANGED identityLock
  <2>1. UNCHANGED locks
    BY <1>3 DEF ConfirmManualIdentity, locks
  <2> QED BY <1>1, <1>2, <1>3, <2>1, IdleKeys, PlainStep
<1>4. CASE /\ identityLock' = [identityLock EXCEPT ![sess[w].found.app] = w]
           /\ sess' = [sess EXCEPT ![w].pc = "key"]
           /\ MayConfirm(sess[w].found, sess[w].officer)
  <2> DEFINE s2 == [sess[w] EXCEPT !.pc = "key"]
  <2>1. s2 \in Confirming /\ s2.app = sess[w].app /\ s2.found = sess[w].found /\ s2.pc = "key" /\ s2.op = "confirm"
    BY <1>1 DEF Confirming
  <2>2. s2 \in Session /\ Own(s2)
    BY <2>1, <1>1 DEF Session, Own
  <2>3. sess' = [sess EXCEPT ![w] = s2]
    BY <1>4
  <2>4. RowKeys(s2) = {} /\ IdentityKeys(s2) = {sess[w].app} /\ VenueKeys(s2) = {}
    BY <2>1 DEF RowKeys, IdentityKeys, VenueKeys
  <2>5. sess[w].app \in DOMAIN identityLock /\ identityLock[sess[w].app] = None
    BY <1>1 DEF TInv, LocksOK, Confirming, ConfirmManualIdentity, IdentityFree
  <2>6. LockMove(identityLock, identityLock', w, IdentityKeys(sess[w]), IdentityKeys(s2))
    BY <1>1, <1>2, <1>4, <2>4, <2>5 DEF LockMove
  <2>7. rowLock' = rowLock /\ venueLock' = venueLock
    BY DEF ConfirmManualIdentity
  <2> HIDE DEF s2
  <2>8. SessStep(w, s2)
    BY <1>2, <2>2, <2>3, <2>4, <2>6, <2>7 DEF SessStep, LockMove
  <2> QED BY <1>1, <1>4, <2>8 DEF s2
<1> QED BY <1>3, <1>4 DEF ConfirmManualIdentity

\* Commits and roll-backs end with no lock held.
LEMMA EndingSess ==
  ASSUME NEW w \in Sessions, sess' = [sess EXCEPT ![w] = Idle], Release(w)
  PROVE  SessStep(w, Idle)
BY IdleKeys, LeavingStep

\* The venue's counts are computed under its lock.
Counting(w) ==
  IF VenueOf[sess[w].app] = None THEN [sess[w] EXCEPT !.pc = "commit"]
  ELSE [sess[w] EXCEPT !.pc = "commit",
                       !.fresh = Recount(VenueOf[sess[w].app], StatusAfter(sess[w].change),
                                         AdmissionsAfter(sess[w].change), ScoresAfter(sess[w].change))]

CountsTo(s, f, s2) ==
  s2 = [s EXCEPT !.pc = "commit"] \/ s2 = [s EXCEPT !.pc = "commit", !.fresh = f]

LEMMA CountingIs ==
  ASSUME NEW s \in Writing, NEW f \in Tally, NEW s2, CountsTo(s, f, s2)
  PROVE  /\ s2 \in Writing /\ s2.pc = "commit" /\ s2.op = s.op /\ s2.op # "idle"
         /\ s2.app = s.app /\ s2.change = s.change
         /\ s.op = "gate" => s2 \in GateWrite
         /\ s.op = "sync" => s2 \in SyncWrite /\ s2.record = s.record /\ s2.tell = s.tell /\ s2.officer = s.officer
         /\ s.op = "resolve" => s2 \in ResolveWrite /\ s2.hash = s.hash
<1>1. CASE s \in GateWrite
  BY <1>1 DEF CountsTo, Writing, GateWrite
<1>2. CASE s \in SyncWrite
  BY <1>2 DEF CountsTo, Writing, SyncWrite
<1>3. CASE s \in ResolveWrite
  BY <1>3 DEF CountsTo, Writing, ResolveWrite
<1> QED BY <1>1, <1>2, <1>3 DEF Writing

LEMMA WritingFields ==
  ASSUME NEW s \in Writing
  PROVE  /\ s.app \in Apps /\ s.change \in Change /\ s.op \in {"gate", "sync", "resolve"}
         /\ s.pc \in {"venue", "commit"} /\ s.fresh \in Tally \cup {None}
BY DEF Writing, GateWrite, SyncWrite, ResolveWrite

LEMMA VenueIn ==
  ASSUME NEW a \in Apps, VenueOf[a] # None
  PROVE  VenueOf[a] \in Venues
BY VenueAssumption DEF Venues

LEMMA RefreshVenueSess ==
  ASSUME TInv, NEW w \in Sessions, RefreshVenue(w)
  PROVE  /\ SessStep(w, Counting(w)) /\ sess[w] \in Writing /\ sess[w].pc = "venue"
         /\ sess[w].change.app = sess[w].app
         /\ VenueOf[sess[w].app] # None => VenueFree(VenueOf[sess[w].app])
<1>1. sess[w] \in Writing /\ sess[w].pc = "venue" /\ sess[w].change.app = sess[w].app /\ sess[w].op # "idle"
  BY Shapes DEF RefreshVenue, TInv, SessOK, Own
<1>2. sess[w].app \in Apps
  BY <1>1, WritingFields
<1> DEFINE c == sess[w].change
           v == VenueOf[sess[w].app]
           f == Recount(v, StatusAfter(c), AdmissionsAfter(c), ScoresAfter(c))
           s2 == Counting(w)
<1>3. f \in Tally
  BY RecountType
<1>4. CountsTo(sess[w], f, s2)
  BY DEF Counting, CountsTo
<1>5. sess' = [sess EXCEPT ![w] = s2]
  <2>1. CASE v = None
    <3>1. sess' = [sess EXCEPT ![w].pc = "commit"] /\ s2 = [sess[w] EXCEPT !.pc = "commit"]
      BY <1>1, <2>1 DEF RefreshVenue, Counting
    <3> QED BY <3>1
  <2>2. CASE v # None
    <3>1. sess' = [sess EXCEPT ![w].pc = "commit", ![w].fresh = f]
      BY <1>1, <2>2 DEF RefreshVenue
    <3>2. s2 = [sess[w] EXCEPT !.pc = "commit", !.fresh = f]
      BY <2>2 DEF Counting
    <3> HIDE DEF s2, f
    <3>3. w \in DOMAIN sess
      BY DEF TInv, SessOK
    <3> QED BY <3>1, <3>2, <3>3
  <2> QED BY <2>1, <2>2
<1> HIDE DEF s2, f
<1>6. /\ s2 \in Writing /\ s2.pc = "commit" /\ s2.op = sess[w].op /\ s2.app = sess[w].app /\ s2.change = c
      /\ sess[w].op = "sync" => s2.record = sess[w].record
  BY <1>1, <1>3, <1>4, CountingIs
<1>7. s2 \in Session
  BY <1>6 DEF Session
<1>8. Own(s2)
  <2>1. Own(sess[w]) /\ s2.op \in {"gate", "sync", "resolve"}
    BY <1>6, WritingFields DEF TInv, SessOK
  <2> QED BY <1>1, <1>6, <2>1 DEF Own
<1>9. RowKeys(s2) = RowKeys(sess[w]) /\ IdentityKeys(s2) = IdentityKeys(sess[w]) /\ VenueKeys(sess[w]) = {}
  BY <1>1, <1>6 DEF RowKeys, IdentityKeys, VenueKeys
<1>10. rowLock' = rowLock /\ identityLock' = identityLock
  BY DEF RefreshVenue
<1>11. CASE v = None
  <2>1. VenueKeys(s2) = {} /\ venueLock' = venueLock
    BY <1>1, <1>6, <1>11 DEF VenueKeys, RefreshVenue
  <2>2. SessStep(w, s2)
    BY <2>1, <1>5, <1>7, <1>8, <1>9, <1>10 DEF SessStep, LockMove
  <2> QED BY <2>2, <1>1, <1>11 DEF s2
<1>12. CASE v # None
  <2>1. VenueKeys(s2) = {v} /\ venueLock' = [venueLock EXCEPT ![v] = w] /\ venueLock[v] = None
    BY <1>1, <1>6, <1>12 DEF VenueKeys, RefreshVenue, VenueFree
  <2>2. v \in DOMAIN venueLock
    BY <1>2, <1>12, VenueIn DEF TInv, LocksOK
  <2>3. LockMove(venueLock, venueLock', w, VenueKeys(sess[w]), VenueKeys(s2))
    BY <1>9, <2>1, <2>2 DEF LockMove
  <2>4. SessStep(w, s2)
    BY <2>3, <1>5, <1>7, <1>8, <1>9, <1>10 DEF SessStep, LockMove
  <2> QED BY <2>1, <2>4, <1>1, <1>12 DEF s2, VenueFree
<1> QED BY <1>11, <1>12

LEMMA UploadSess ==
  ASSUME TInv, NEW w \in Sessions, NEW o \in Officers, NEW r \in captured, Upload(w, o, r)
  PROVE  SessStep(w, [op |-> "sync", pc |-> "device", app |-> r.app, officer |-> o, record |-> r])
<1> DEFINE s2 == [op |-> "sync", pc |-> "device", app |-> r.app, officer |-> o, record |-> r]
<1>1. r \in Capturing /\ r.app \in Apps
  BY DEF TInv, FieldOK, Capturing
<1>2. s2 \in SyncAsk
  BY <1>1 DEF SyncAsk
<1>3. s2 \in Session /\ Own(s2)
  BY <1>2 DEF Session, Own
<1>4. RowKeys(s2) = {} /\ IdentityKeys(s2) = {} /\ VenueKeys(s2) = {}
  BY DEF RowKeys, IdentityKeys, VenueKeys
<1>5. sess[w] = Idle /\ sess' = [sess EXCEPT ![w] = s2] /\ UNCHANGED locks
  BY Shapes DEF Upload, TInv, SessOK
<1> QED BY <1>3, <1>4, <1>5, IdleKeys, PlainStep

LEMMA CheckDeviceSess ==
  ASSUME TInv, NEW w \in Sessions, CheckDevice(w)
  PROVE  /\ sess[w] \in SyncAsk /\ sess[w].record.app = sess[w].app /\ UNCHANGED locks
         /\ \/ SessStep(w, Idle) /\ settled' = settled
            \/ /\ SessStep(w, [sess[w] EXCEPT !.pc = "row"]) /\ settled' = settled
               /\ RecordTrusted(sess[w].record, sess[w].officer)
<1>1. sess[w] \in SyncAsk /\ sess[w].record.app = sess[w].app /\ sess[w].pc = "device" /\ sess[w].op = "sync"
  BY Shapes DEF CheckDevice, TInv, SessOK, Own
<1>2. RowKeys(sess[w]) = {} /\ IdentityKeys(sess[w]) = {} /\ VenueKeys(sess[w]) = {} /\ UNCHANGED locks
  BY <1>1 DEF RowKeys, IdentityKeys, VenueKeys, CheckDevice
<1>3. CASE Answer(w, FALSE)
  <2>1. sess' = [sess EXCEPT ![w] = Idle] /\ settled' = settled
    BY <1>3 DEF Answer
  <2> QED BY <1>1, <1>2, <2>1, IdleKeys, PlainStep
<1>4. CASE sess' = [sess EXCEPT ![w].pc = "row"] /\ UNCHANGED settled /\ RecordTrusted(sess[w].record, sess[w].officer)
  <2> DEFINE s2 == [sess[w] EXCEPT !.pc = "row"]
  <2>1. s2 \in SyncAsk /\ s2.app = sess[w].app /\ s2.record = sess[w].record /\ s2.pc = "row" /\ s2.op = "sync"
    BY <1>1 DEF SyncAsk
  <2>2. s2 \in Session /\ Own(s2)
    BY <1>1, <2>1 DEF Session, Own
  <2>3. RowKeys(s2) = {} /\ IdentityKeys(s2) = {} /\ VenueKeys(s2) = {}
    BY <2>1 DEF RowKeys, IdentityKeys, VenueKeys
  <2>4. sess' = [sess EXCEPT ![w] = s2]
    BY <1>4
  <2> HIDE DEF s2
  <2>5. SessStep(w, s2)
    BY <1>2, <2>2, <2>3, <2>4, PlainStep
  <2> QED BY <1>1, <1>2, <1>4, <2>5 DEF s2
<1> QED BY <1>3, <1>4 DEF CheckDevice

\* The set of an application's scores with a record added to it.
Stored(r, o, k, S) == Flagged(S \cup {ScoreRow(r, o, k)}, k = "CONFLICT")

SyncWriting(w, k) ==
  [op |-> "sync", pc |-> "venue", app |-> sess[w].record.app, officer |-> sess[w].officer,
   record |-> sess[w].record, fresh |-> None, tell |-> k # "CONFLICT",
   change |-> [app |-> sess[w].record.app, status |-> status[sess[w].record.app], admit |-> {},
               scores |-> Stored(sess[w].record, sess[w].officer, k, OwnScores(sess[w].record.app))]]

LEMMA FlaggedType ==
  ASSUME NEW S \in SUBSET Score, NEW f \in BOOLEAN
  PROVE  Flagged(S, f) \in SUBSET Score
<1>1. ASSUME NEW s \in Score PROVE [s EXCEPT !.conflict = f] \in Score
  BY DEF Score
<1> QED BY <1>1 DEF Flagged

LEMMA StoredType ==
  ASSUME NEW S \in SUBSET Score, NEW r \in Capturing, NEW o \in Officers, NEW k \in Entries
  PROVE  ScoreRow(r, o, k) \in Score /\ Stored(r, o, k, S) \in SUBSET Score
<1>1. ScoreRow(r, o, k) \in Score
  BY DEF ScoreRow, Score, Capturing
<1> QED BY <1>1, FlaggedType DEF Stored

LEMMA StoreScoreSess ==
  ASSUME TInv, NEW w \in Sessions, StoreScore(w)
  PROVE  /\ sess[w] \in SyncAsk /\ sess[w].record.app = sess[w].app /\ sess[w].pc = "row" /\ RowFree(sess[w].app)
         /\ \E k : /\ k = StoreOutcome(sess[w].record, sess[w].officer)
                   /\ \/ SessStep(w, Idle) /\ UNCHANGED locks /\ k \notin Entries
                         /\ settled' = IF k \in {"DUPLICATE", "STALE"} THEN settled \cup {sess[w].record} ELSE settled
                      \/ k \in Entries /\ SessStep(w, SyncWriting(w, k)) /\ settled' = settled
<1>1. sess[w] \in SyncAsk /\ sess[w].record.app = sess[w].app /\ sess[w].pc = "row" /\ sess[w].op = "sync"
  BY Shapes DEF StoreScore, TInv, SessOK, Own
<1>2. RowKeys(sess[w]) = {} /\ IdentityKeys(sess[w]) = {} /\ VenueKeys(sess[w]) = {}
  BY <1>1 DEF RowKeys, IdentityKeys, VenueKeys
<1>3. sess[w].app \in Apps /\ sess[w].officer \in Officers /\ sess[w].record \in Capturing /\ RowFree(sess[w].app)
  BY <1>1 DEF SyncAsk, StoreScore, RowFree
<1>4. PICK k : k = StoreOutcome(sess[w].record, sess[w].officer)
  OBVIOUS
<1>5. CASE k \notin Entries
  <2>1. Answer(w, k \in {"DUPLICATE", "STALE"}) /\ UNCHANGED locks
    BY <1>4, <1>5 DEF StoreScore, Entries, locks
  <2>2. /\ sess' = [sess EXCEPT ![w] = Idle]
        /\ settled' = IF k \in {"DUPLICATE", "STALE"} THEN settled \cup {sess[w].record} ELSE settled
    BY <2>1 DEF Answer
  <2>3. SessStep(w, Idle)
    BY <1>2, <2>1, <2>2, IdleKeys, PlainStep
  <2> QED BY <1>1, <1>3, <1>4, <1>5, <2>1, <2>2, <2>3
<1>6. CASE k \in Entries
  <2> DEFINE s2 == SyncWriting(w, k)
  <2>1. /\ rowLock' = [rowLock EXCEPT ![sess[w].app] = w] /\ settled' = settled
        /\ identityLock' = identityLock /\ venueLock' = venueLock
    BY <1>1, <1>4, <1>6 DEF StoreScore, Entries
  <2>2. sess' = [sess EXCEPT ![w] = s2]
    BY <1>4, <1>6 DEF StoreScore, Entries, SyncWriting, Stored
  <2>3. s2 \in SyncWrite
    <3>1. OwnScores(sess[w].app) \in SUBSET Score /\ status[sess[w].app] \in AppStatuses
      BY <1>3 DEF TInv, RowsOK, OwnScores
    <3>2. s2.change \in Change
      BY <1>1, <1>3, <1>6, <3>1, StoredType DEF SyncWriting, Change
    <3> QED BY <1>1, <1>3, <3>2 DEF SyncWriting, SyncWrite
  <2>4. s2 \in Session /\ Own(s2)
    <3>1. s2 \in Session
      BY <2>3 DEF Session, Writing
    <3>2. Own(s2)
      BY DEF Own, SyncWriting
    <3> QED BY <3>1, <3>2
  <2>5. RowKeys(s2) = {sess[w].app} /\ IdentityKeys(s2) = {} /\ VenueKeys(s2) = {}
    BY <1>1 DEF RowKeys, IdentityKeys, VenueKeys, SyncWriting
  <2>6. sess[w].app \in DOMAIN rowLock /\ rowLock[sess[w].app] = None
    BY <1>3 DEF TInv, LocksOK, RowFree
  <2> HIDE DEF s2
  <2>7. LockMove(rowLock, rowLock', w, RowKeys(sess[w]), RowKeys(s2))
    BY <1>2, <2>1, <2>5, <2>6 DEF LockMove
  <2>8. SessStep(w, s2)
    BY <1>2, <2>1, <2>2, <2>4, <2>5, <2>7 DEF SessStep, LockMove
  <2> QED BY <1>1, <1>3, <1>4, <1>6, <2>1, <2>8 DEF s2
<1> QED BY <1>5, <1>6

\* A stored score or a choice is announced after its commit.
Telling(s) == [s EXCEPT !.pc = "announce", !.change = None, !.fresh = None]

LEMMA TellingStep ==
  ASSUME TInv, NEW w \in Sessions, sess[w].op \in {"sync", "resolve"}, sess[w].pc = "commit",
         sess' = [sess EXCEPT ![w].pc = "announce", ![w].change = None, ![w].fresh = None], Release(w)
  PROVE  /\ SessStep(w, Telling(sess[w])) /\ sess[w] \in Writing /\ sess[w].change.app = sess[w].app
         /\ sess[w].op = "sync" => /\ sess[w] \in SyncWrite /\ Telling(sess[w]) \in SyncTell
                                   /\ Telling(sess[w]).record = sess[w].record /\ Telling(sess[w]).tell = sess[w].tell
         /\ sess[w].op = "resolve" => /\ sess[w] \in ResolveWrite /\ Telling(sess[w]) \in ResolveTell
                                      /\ Telling(sess[w]).hash = sess[w].hash
         /\ Telling(sess[w]).app = sess[w].app
<1>1. sess[w] \in Session /\ Own(sess[w]) /\ w \in DOMAIN sess
  BY DEF TInv, SessOK
<1>2. sess[w] \in Writing /\ sess[w].change.app = sess[w].app
  BY <1>1, Shapes DEF Own
<1> DEFINE s2 == Telling(sess[w])
<1>3. CASE sess[w].op = "sync"
  <2>1. sess[w] \in SyncWrite /\ sess[w].record.app = sess[w].app
    BY <1>1, <1>3, Shapes DEF Own
  <2>2. /\ s2 \in SyncTell /\ s2.record = sess[w].record /\ s2.app = sess[w].app /\ s2.tell = sess[w].tell
        /\ s2.op = "sync" /\ s2.pc = "announce"
    BY <2>1 DEF SyncWrite, SyncTell, Telling
  <2>3. s2 \in Session /\ Own(s2)
    BY <2>1, <2>2 DEF Session, Own
  <2>4. RowKeys(s2) = {} /\ IdentityKeys(s2) = {} /\ VenueKeys(s2) = {}
    BY <2>2 DEF RowKeys, IdentityKeys, VenueKeys
  <2>5. sess' = [sess EXCEPT ![w] = s2]
    BY <1>1 DEF Telling
  <2> HIDE DEF s2
  <2>6. SessStep(w, s2)
    BY <2>3, <2>4, <2>5, LeavingStep
  <2> QED BY <1>2, <1>3, <2>1, <2>2, <2>6 DEF s2
<1>4. CASE sess[w].op = "resolve"
  <2>1. sess[w] \in ResolveWrite
    BY <1>1, <1>4, Shapes
  <2>2. /\ s2 \in ResolveTell /\ s2.hash = sess[w].hash /\ s2.app = sess[w].app
        /\ s2.op = "resolve" /\ s2.pc = "announce"
    BY <2>1 DEF ResolveWrite, ResolveTell, Telling
  <2>3. s2 \in Session /\ Own(s2)
    BY <2>2 DEF Session, Own
  <2>4. RowKeys(s2) = {} /\ IdentityKeys(s2) = {} /\ VenueKeys(s2) = {}
    BY <2>2 DEF RowKeys, IdentityKeys, VenueKeys
  <2>5. sess' = [sess EXCEPT ![w] = s2]
    BY <1>1 DEF Telling
  <2> HIDE DEF s2
  <2>6. SessStep(w, s2)
    BY <2>3, <2>4, <2>5, LeavingStep
  <2> QED BY <1>2, <1>4, <2>1, <2>2, <2>6 DEF s2
<1> QED BY <1>3, <1>4

LEMMA MaterialiseSess ==
  ASSUME TInv, NEW w \in Sessions, Materialise(w)
  PROVE  /\ SessStep(w, Idle) /\ UNCHANGED locks /\ sess[w] \in SyncTell /\ sess[w].record.app = sess[w].app
         /\ settled' = settled \cup {sess[w].record}
         /\ announced' = IF sess[w].tell THEN [announced EXCEPT ![sess[w].app] = Append(@, sess[w].record.metrics)]
                         ELSE announced
<1>1. sess[w] \in SyncTell /\ sess[w].record.app = sess[w].app /\ sess[w].pc = "announce" /\ sess[w].op = "sync"
  BY Shapes DEF Materialise, TInv, SessOK, Own
<1>2. RowKeys(sess[w]) = {} /\ IdentityKeys(sess[w]) = {} /\ VenueKeys(sess[w]) = {} /\ UNCHANGED locks
  BY <1>1 DEF RowKeys, IdentityKeys, VenueKeys, Materialise
<1>3. sess' = [sess EXCEPT ![w] = Idle] /\ settled' = settled \cup {sess[w].record}
  BY DEF Materialise, Answer
<1>4. announced' = IF sess[w].tell THEN [announced EXCEPT ![sess[w].app] = Append(@, sess[w].record.metrics)]
                   ELSE announced
  BY <1>1 DEF Materialise, Emitted, Announces, PayloadHash
<1> QED BY <1>1, <1>2, <1>3, <1>4, IdleKeys, PlainStep

LEMMA ResolveSess ==
  ASSUME TInv, NEW w \in Sessions, NEW o \in Officers, NEW s \in scores, Resolve(w, o, s)
  PROVE  SessStep(w, [op |-> "resolve", pc |-> "row", app |-> s.app,
                      pick |-> [device |-> s.device, clock |-> s.clock]])
<1> DEFINE s2 == [op |-> "resolve", pc |-> "row", app |-> s.app,
                  pick |-> [device |-> s.device, clock |-> s.clock]]
<1>1. s \in Score /\ s.app \in Apps /\ s.device \in Devices /\ s.clock \in Clocks
  BY DEF TInv, RowsOK, Score
<1>2. s2 \in ResolveAsk
  BY <1>1 DEF ResolveAsk, Picked
<1>3. s2 \in Session /\ Own(s2)
  BY <1>2 DEF Session, Own
<1>4. RowKeys(s2) = {} /\ IdentityKeys(s2) = {} /\ VenueKeys(s2) = {}
  BY DEF RowKeys, IdentityKeys, VenueKeys
<1>5. sess[w] = Idle /\ sess' = [sess EXCEPT ![w] = s2] /\ UNCHANGED locks
  BY Shapes DEF Resolve, TInv, SessOK
<1> QED BY <1>3, <1>4, <1>5, IdleKeys, PlainStep

\* The set of an application's scores with the found ones chosen.
Chosen(S, found) == Flagged((S \ found) \cup {[s EXCEPT !.chosen = TRUE] : s \in found}, FALSE)

Found(a, pick) == {s \in OwnScores(a) : s.device = pick.device /\ s.clock = pick.clock /\ s.conflict}

ResolveWriting(w, x) ==
  [op |-> "resolve", pc |-> "venue", app |-> sess[w].app, fresh |-> None, hash |-> x.metrics,
   change |-> [app |-> sess[w].app, status |-> status[sess[w].app], admit |-> {},
               scores |-> Chosen(OwnScores(sess[w].app), Found(sess[w].app, sess[w].pick))]]

LEMMA ChosenType ==
  ASSUME NEW S \in SUBSET Score, NEW found \in SUBSET S
  PROVE  Chosen(S, found) \in SUBSET Score
<1>1. ASSUME NEW s \in Score PROVE [s EXCEPT !.chosen = TRUE] \in Score
  BY DEF Score
<1>2. (S \ found) \cup {[s EXCEPT !.chosen = TRUE] : s \in found} \in SUBSET Score
  BY <1>1
<1> QED BY <1>2, FlaggedType DEF Chosen

LEMMA ResolveConflictSess ==
  ASSUME TInv, NEW w \in Sessions, ResolveConflict(w)
  PROVE  /\ sess[w] \in ResolveAsk /\ RowFree(sess[w].app)
         /\ \/ SessStep(w, Idle) /\ UNCHANGED locks
            \/ \E x \in Found(sess[w].app, sess[w].pick) : SessStep(w, ResolveWriting(w, x))
<1>1. sess[w] \in ResolveAsk /\ sess[w].pc = "row" /\ sess[w].op = "resolve"
  BY Shapes DEF ResolveConflict, TInv, SessOK
<1>2. RowKeys(sess[w]) = {} /\ IdentityKeys(sess[w]) = {} /\ VenueKeys(sess[w]) = {}
  BY <1>1 DEF RowKeys, IdentityKeys, VenueKeys
<1>3. sess[w].app \in Apps /\ RowFree(sess[w].app)
  BY <1>1 DEF ResolveAsk, ResolveConflict, RowFree
<1> DEFINE found == Found(sess[w].app, sess[w].pick)
<1>4. CASE found = {}
  <2>1. sess' = [sess EXCEPT ![w] = Idle] /\ UNCHANGED locks
    BY <1>4 DEF ResolveConflict, Found, locks
  <2> QED BY <1>1, <1>2, <1>3, <2>1, IdleKeys, PlainStep
<1>5. CASE found # {}
  <2>1. PICK x \in found : x = CHOOSE s \in found : TRUE
    BY <1>5
  <2> DEFINE s2 == ResolveWriting(w, x)
  <2>2. sess' = [sess EXCEPT ![w] = s2]
    BY <1>5, <2>1 DEF ResolveConflict, Found, ResolveWriting, Chosen, PayloadHash
  <2>3. rowLock' = [rowLock EXCEPT ![sess[w].app] = w] /\ identityLock' = identityLock /\ venueLock' = venueLock
    BY <1>5 DEF ResolveConflict, Found
  <2>4. s2 \in ResolveWrite
    <3>1. OwnScores(sess[w].app) \in SUBSET Score /\ status[sess[w].app] \in AppStatuses
      BY <1>3 DEF TInv, RowsOK, OwnScores
    <3>2. found \in SUBSET OwnScores(sess[w].app)
      BY DEF Found
    <3>3. x.metrics \in Metrics
      BY <3>1, <3>2 DEF Score
    <3> HIDE DEF found
    <3>4. Chosen(OwnScores(sess[w].app), found) \in SUBSET Score
      BY <3>1, <3>2, ChosenType
    <3>5. [app |-> sess[w].app, status |-> status[sess[w].app], admit |-> {},
           scores |-> Chosen(OwnScores(sess[w].app), found)] \in Change
      BY <1>3, <3>1, <3>4 DEF Change
    <3> QED BY <1>3, <3>3, <3>5 DEF ResolveWriting, ResolveWrite, found
  <2>5. s2 \in Session /\ Own(s2)
    <3>1. s2 \in Session
      BY <2>4 DEF Session, Writing
    <3>2. Own(s2)
      BY DEF Own, ResolveWriting
    <3> QED BY <3>1, <3>2
  <2>6. RowKeys(s2) = {sess[w].app} /\ IdentityKeys(s2) = {} /\ VenueKeys(s2) = {}
    BY DEF RowKeys, IdentityKeys, VenueKeys, ResolveWriting
  <2>7. sess[w].app \in DOMAIN rowLock /\ rowLock[sess[w].app] = None
    BY <1>3 DEF TInv, LocksOK, RowFree
  <2> HIDE DEF s2
  <2>8. LockMove(rowLock, rowLock', w, RowKeys(sess[w]), RowKeys(s2))
    BY <1>2, <2>3, <2>6, <2>7 DEF LockMove
  <2>9. SessStep(w, s2)
    BY <1>2, <2>2, <2>3, <2>5, <2>6, <2>8 DEF SessStep, LockMove
  <2> QED BY <1>1, <1>3, <2>1, <2>9 DEF s2
<1> QED BY <1>4, <1>5

LEMMA AnnounceChosenSess ==
  ASSUME TInv, NEW w \in Sessions, AnnounceChosen(w)
  PROVE  /\ SessStep(w, Idle) /\ UNCHANGED locks /\ sess[w] \in ResolveTell
         /\ announced' = [announced EXCEPT ![sess[w].app] = Append(@, sess[w].hash)]
<1>1. sess[w] \in ResolveTell /\ sess[w].pc = "announce" /\ sess[w].op = "resolve"
  BY Shapes DEF AnnounceChosen, TInv, SessOK
<1>2. RowKeys(sess[w]) = {} /\ IdentityKeys(sess[w]) = {} /\ VenueKeys(sess[w]) = {} /\ UNCHANGED locks
  BY <1>1 DEF RowKeys, IdentityKeys, VenueKeys, AnnounceChosen
<1>3. sess' = [sess EXCEPT ![w] = Idle] /\ announced' = [announced EXCEPT ![sess[w].app] = Append(@, sess[w].hash)]
  BY DEF AnnounceChosen, Emitted
<1> QED BY <1>1, <1>2, <1>3, IdleKeys, PlainStep

----------------------------------------------------------------------------
(* The typed state is kept *)

LEMMA FlaggedFinite ==
  ASSUME NEW S, IsFiniteSet(S), NEW f
  PROVE  IsFiniteSet(Flagged(S, f))
<1> DEFINE g == [s \in S |-> [s EXCEPT !.conflict = f]]
<1>1. g \in Surjection(S, Flagged(S, f))
  BY DEF Surjection, Flagged
<1> QED BY <1>1, FS_Surjection

LEMMA OwnFinite ==
  ASSUME TInv, NEW a
  PROVE  IsFiniteSet(OwnScores(a)) /\ OwnScores(a) \in SUBSET Score /\ \A y \in OwnScores(a) : y.app = a
<1>1. OwnScores(a) \subseteq scores /\ \A y \in OwnScores(a) : y.app = a
  BY DEF OwnScores
<1> QED BY <1>1, FS_Subset DEF TInv, WritesOK, RowsOK

\* The rows written for an application are its own.
LEMMA StoredOwn ==
  ASSUME NEW S \in SUBSET Score, NEW a, \A y \in S : y.app = a,
         NEW r \in Capturing, r.app = a, NEW o \in Officers, NEW k \in Entries
  PROVE  \A y \in Stored(r, o, k, S) : y.app = a
<1> TAKE y \in Stored(r, o, k, S)
<1>1. PICK s \in S \cup {ScoreRow(r, o, k)} : y = [s EXCEPT !.conflict = (k = "CONFLICT")]
  BY DEF Stored, Flagged
<1>2. s \in Score /\ s.app = a
  BY StoredType DEF ScoreRow
<1> QED BY <1>1, <1>2 DEF Score

LEMMA ChosenOwn ==
  ASSUME NEW S \in SUBSET Score, NEW a, \A y \in S : y.app = a, NEW found \in SUBSET S
  PROVE  \A y \in Chosen(S, found) : y.app = a
<1> TAKE y \in Chosen(S, found)
<1>1. PICK s \in (S \ found) \cup {[x EXCEPT !.chosen = TRUE] : x \in found} : y = [s EXCEPT !.conflict = FALSE]
  BY DEF Chosen, Flagged
<1>2. s \in Score /\ s.app = a
  <2>1. CASE s \in S \ found
    BY <2>1
  <2>2. CASE s \in {[x EXCEPT !.chosen = TRUE] : x \in found}
    <3>1. PICK x \in found : s = [x EXCEPT !.chosen = TRUE]
      BY <2>2
    <3>2. x \in Score /\ x.app = a
      OBVIOUS
    <3> QED BY <3>1, <3>2 DEF Score
  <2> QED BY <1>1, <2>1, <2>2
<1> QED BY <1>1, <1>2 DEF Score

LEMMA WrittenFinite ==
  ASSUME NEW S, IsFiniteSet(S), NEW found \in SUBSET S, NEW r, NEW o, NEW k
  PROVE  IsFiniteSet(Stored(r, o, k, S)) /\ IsFiniteSet(Chosen(S, found))
<1>1. IsFiniteSet(S \cup {ScoreRow(r, o, k)})
  BY FS_AddElement
<1>2. IsFiniteSet(S \ found) /\ IsFiniteSet(found)
  BY FS_Subset
<1> DEFINE g == [s \in found |-> [s EXCEPT !.chosen = TRUE]]
<1>3. g \in Surjection(found, {[s EXCEPT !.chosen = TRUE] : s \in found})
  BY DEF Surjection
<1>4. IsFiniteSet({[s EXCEPT !.chosen = TRUE] : s \in found})
  BY <1>2, <1>3, FS_Surjection
<1>5. IsFiniteSet((S \ found) \cup {[s EXCEPT !.chosen = TRUE] : s \in found})
  BY <1>2, <1>4, FS_Union
<1> QED BY <1>1, <1>5, FlaggedFinite DEF Stored, Chosen

\* A step of a session that changes no row.
LEMMA QuietType ==
  ASSUME TInv, NEW w \in Sessions, NEW s2, SessStep(w, s2), UNCHANGED rows, GateOK', FieldOK',
         Busy(s2) => Written(s2)
  PROVE  TInv'
<1>1. SessOK' /\ LocksOK' /\ sess'[w] = s2 /\ \A v \in Sessions \ {w} : sess'[v] = sess[v]
  BY SessKeeps DEF TInv
<1>2. RowsOK'
  BY DEF TInv, RowsOK, rows
<1>3. WritesOK'
  BY <1>1 DEF TInv, WritesOK, rows
<1> QED BY <1>1, <1>2, <1>3 DEF TInv

\* The rows a commit leaves.
LEMMA PublishType ==
  ASSUME TInv, NEW w \in Sessions, sess[w] \in Writing, sess[w].change.app = sess[w].app, Publish(w),
         sess[w].pc = "commit", UNCHANGED <<official, device>>
  PROVE  RowsOK' /\ IsFiniteSet(scores')
<1> DEFINE c == sess[w].change
<1>1. c \in Change /\ sess[w].app \in Apps /\ Busy(sess[w]) /\ Written(sess[w])
  BY WritingFields DEF Busy, TInv, WritesOK
<1>2. status' \in [Apps -> AppStatuses] /\ admissions' \in SUBSET Admission /\ scores' \in SUBSET Score
  BY <1>1 DEF TInv, RowsOK, Publish, StatusAfter, AdmissionsAfter, ScoresAfter, Change
<1>3. counts' \in [Venues -> Tally]
  BY <1>1, VenueIn DEF TInv, RowsOK, Publish, Written
<1>4. IsFiniteSet(scores')
  <2>1. IsFiniteSet(c.scores) /\ IsFiniteSet(scores)
    BY <1>1 DEF TInv, WritesOK, Written
  <2>2. {s \in scores : s.app # c.app} \subseteq scores
    OBVIOUS
  <2> QED BY <2>1, <2>2, FS_Subset, FS_Union DEF Publish, ScoresAfter
<1> QED BY <1>2, <1>3, <1>4 DEF RowsOK, TInv

\* A committing step.
LEMMA CommitType ==
  ASSUME TInv, NEW w \in Sessions, sess[w] \in Writing, sess[w].change.app = sess[w].app, Publish(w),
         sess[w].pc = "commit", UNCHANGED <<official, device>>,
         NEW s2, SessStep(w, s2), ~Busy(s2), GateOK', FieldOK'
  PROVE  TInv'
<1>1. SessOK' /\ LocksOK' /\ sess'[w] = s2 /\ \A v \in Sessions \ {w} : sess'[v] = sess[v]
  BY SessKeeps DEF TInv
<1>2. RowsOK' /\ IsFiniteSet(scores')
  BY PublishType
<1>3. WritesOK'
  BY <1>1, <1>2 DEF TInv, WritesOK
<1> QED BY <1>1, <1>2, <1>3 DEF TInv

\* Another component's write of one row.
LEMMA WriteRowType ==
  ASSUME TInv, NEW a \in Apps, NEW st \in AppStatuses, WriteRow(a, st), UNCHANGED device,
         official' \in [Apps -> Picked \cup {None}], GateOK', FieldOK'
  PROVE  TInv'
<1>1. SessOK' /\ LocksOK' /\ WritesOK'
  BY DEF TInv, SessOK, LocksOK, WritesOK, WriteRow, locks
<1>2. RowsOK'
  <2>1. counts' \in [Venues -> Tally]
    <3>1. CASE VenueOf[a] = None
      BY <3>1 DEF WriteRow, TInv, RowsOK
    <3>2. CASE VenueOf[a] # None
      <4>1. PICK f : f = Recount(VenueOf[a], [status EXCEPT ![a] = st], admissions, scores)
        OBVIOUS
      <4>2. counts' = [counts EXCEPT ![VenueOf[a]] = f] /\ f \in Tally
        BY <3>2, <4>1, RecountType DEF WriteRow
      <4> QED BY <4>2 DEF TInv, RowsOK
    <3> QED BY <3>1, <3>2
  <2> QED BY <2>1 DEF TInv, RowsOK, WriteRow
<1> QED BY <1>1, <1>2 DEF TInv

LEMMA AsksAreNotBusy ==
  ASSUME NEW s, \/ s = Idle
                \/ s \in GateAsk \cup EvidenceAsk \cup EvidenceWrite \cup Confirming \cup SyncAsk
                         \cup SyncTell \cup ResolveAsk \cup ResolveTell
  PROVE  ~Busy(s)
BY DEF Busy, Idle, GateAsk, EvidenceAsk, EvidenceWrite, Confirming, SyncAsk, SyncTell, ResolveAsk, ResolveTell

LEMMA GateStepType ==
  ASSUME TInv, NEW w \in Sessions, GateStep(w), UNCHANGED fieldVars
  PROVE  TInv'
<1>0. FieldOK'
  BY DEF TInv, FieldOK, fieldVars
<1>1. ASSUME NEW o \in Officers, NEW s \in Scans, Scan(w, o, s) PROVE TInv'
  <2>1. GateOK' /\ UNCHANGED rows
    BY <1>1 DEF Scan, gateVars, TInv, GateOK
  <2> DEFINE s2 == [op |-> "gate", pc |-> "row", app |-> s.app, officer |-> o, scan |-> s, today |-> day]
  <2>2. SessStep(w, s2)
    BY <1>1, ScanSess
  <2>3. s2.op = "gate" /\ s2.pc = "row"
    OBVIOUS
  <2> HIDE DEF s2
  <2> QED BY <1>0, <2>1, <2>2, <2>3, QuietType DEF Busy
<1>2. ASSUME NEW o \in Officers, NEW r \in Records, Submit(w, o, r) PROVE TInv'
  <2>1. GateOK' /\ UNCHANGED rows
    BY <1>2 DEF Submit, gateVars, TInv, GateOK
  <2> DEFINE s2 == [op |-> "evidence", pc |-> "identity", app |-> r.app, officer |-> o, record |-> r]
  <2>2. SessStep(w, s2)
    BY <1>2, SubmitSess
  <2>3. s2.op = "evidence" /\ s2.pc = "identity"
    OBVIOUS
  <2> HIDE DEF s2
  <2> QED BY <1>0, <2>1, <2>2, <2>3, QuietType DEF Busy
<1>3. ASSUME NEW o \in Officers, NEW e \in evidence, Confirm(w, o, e) PROVE TInv'
  <2>1. GateOK' /\ UNCHANGED rows
    BY <1>3 DEF Confirm, gateVars, TInv, GateOK
  <2> DEFINE s2 == [op |-> "confirm", pc |-> "identity", app |-> e.app, officer |-> o, found |-> e]
  <2>2. SessStep(w, s2)
    BY <1>3, ConfirmSess
  <2>3. s2.op = "confirm" /\ s2.pc = "identity"
    OBVIOUS
  <2> HIDE DEF s2
  <2> QED BY <1>0, <2>1, <2>2, <2>3, QuietType DEF Busy
<1>4. ASSUME LockApplication(w) PROVE TInv'
  <2>1. GateOK' /\ UNCHANGED rows
    BY <1>4 DEF LockApplication, gateVars, TInv, GateOK
  <2>2. PICK s2 : SessStep(w, s2) /\ (s2 = Idle \/ s2 \in GateAsk)
    <3>1. [sess[w] EXCEPT !.pc = "identity"] \in GateAsk
      BY <1>4, LockApplicationSess DEF GateAsk
    <3> QED BY <1>4, <3>1, LockApplicationSess
  <2> QED BY <1>0, <2>1, <2>2, QuietType, AsksAreNotBusy
<1>5. ASSUME ResolveGateIdentity(w) PROVE TInv'
  <2>1. GateOK' /\ UNCHANGED rows
    BY <1>5 DEF ResolveGateIdentity, gateVars, TInv, GateOK
  <2>2. CASE SessStep(w, Idle)
    BY <1>0, <2>1, <2>2, QuietType, AsksAreNotBusy
  <2>3. CASE SessStep(w, GateWriting(w))
    <3>1. Written(GateWriting(w))
      BY OwnFinite DEF Written, GateWriting, GateEntry
    <3> QED BY <1>0, <2>1, <2>3, <3>1, QuietType
  <2> QED BY <1>5, <2>2, <2>3, ResolveGateIdentitySess
<1>6. ASSUME CommitAdmission(w) PROVE TInv'
  <2>1. sess[w] \in Writing /\ sess[w].change.app = sess[w].app /\ sess[w].app \in Apps /\ sess[w].pc = "commit"
    BY <1>6, Shapes, WritingFields DEF CommitAdmission, TInv, SessOK, Own
  <2>2. GateOK' /\ UNCHANGED <<official, device>> /\ Publish(w)
    BY <1>6, <2>1 DEF CommitAdmission, TInv, GateOK
  <2>3. SessStep(w, Idle)
    BY <1>6, EndingSess DEF CommitAdmission
  <2> QED BY <1>0, <2>1, <2>2, <2>3, CommitType, AsksAreNotBusy
<1>7. ASSUME RecordEvidence(w) PROVE TInv'
  <2>1. GateOK' /\ UNCHANGED rows
    BY <1>7 DEF RecordEvidence, gateVars, TInv, GateOK
  <2> DEFINE s2 == EvidenceWriting(sess[w].record, sess[w].officer)
  <2>2. SessStep(w, Idle) \/ SessStep(w, s2)
    BY <1>7, RecordEvidenceSess
  <2>3. ~Busy(s2)
    BY DEF EvidenceWriting, Busy
  <2> HIDE DEF s2
  <2> QED BY <1>0, <2>1, <2>2, <2>3, QuietType, AsksAreNotBusy
<1>8. ASSUME CommitEvidence(w) PROVE TInv'
  <2>1. sess[w].row \in Evidence
    BY <1>8, Shapes DEF CommitEvidence, TInv, SessOK, EvidenceWrite
  <2>2. GateOK' /\ UNCHANGED rows
    BY <1>8, <2>1 DEF CommitEvidence, TInv, GateOK
  <2>3. SessStep(w, Idle)
    BY <1>8, EndingSess DEF CommitEvidence
  <2> QED BY <1>0, <2>2, <2>3, QuietType, AsksAreNotBusy
<1>9. ASSUME ConfirmManualIdentity(w) PROVE TInv'
  <2>1. GateOK' /\ UNCHANGED rows
    BY <1>9 DEF ConfirmManualIdentity, gateVars, TInv, GateOK
  <2>2. PICK s2 : SessStep(w, s2) /\ (s2 = Idle \/ s2 \in Confirming)
    <3>1. [sess[w] EXCEPT !.pc = "key"] \in Confirming
      BY <1>9, ConfirmManualIdentitySess DEF Confirming
    <3> QED BY <1>9, <3>1, ConfirmManualIdentitySess
  <2> QED BY <1>0, <2>1, <2>2, QuietType, AsksAreNotBusy
<1>10. ASSUME CommitConfirmation(w) PROVE TInv'
  <2>1. sess[w] \in Confirming
    BY <1>10, Shapes DEF CommitConfirmation, TInv, SessOK
  <2>2. [evidence |-> sess[w].found.id, by |-> sess[w].officer] \in [evidence : Ids, by : Officers]
    BY <2>1 DEF Confirming, Evidence
  <2>3. GateOK' /\ UNCHANGED rows
    BY <1>10, <2>2 DEF CommitConfirmation, TInv, GateOK
  <2>4. SessStep(w, Idle)
    BY <1>10, EndingSess DEF CommitConfirmation
  <2> QED BY <1>0, <2>3, <2>4, QuietType, AsksAreNotBusy
<1>11. ASSUME DeadlockVictim(w) PROVE TInv'
  <2>1. GateOK' /\ UNCHANGED rows
    BY <1>11 DEF DeadlockVictim, Abandon, TInv, GateOK
  <2>2. SessStep(w, Idle)
    BY <1>11, EndingSess DEF DeadlockVictim, Abandon
  <2> QED BY <1>0, <2>1, <2>2, QuietType, AsksAreNotBusy
<1> QED BY <1>1, <1>2, <1>3, <1>4, <1>5, <1>6, <1>7, <1>8, <1>9, <1>10, <1>11 DEF GateStep

LEMMA EmittedType ==
  ASSUME NEW f \in [Apps -> Seq(Metrics)], NEW a \in Apps, NEW h \in Metrics
  PROVE  [f EXCEPT ![a] = Append(@, h)] \in [Apps -> Seq(Metrics)]
<1>1. Append(f[a], h) \in Seq(Metrics)
  OBVIOUS
<1> QED BY <1>1

LEMMA FieldStepType ==
  ASSUME TInv, NEW w \in Sessions, FieldStep(w), UNCHANGED gateVars
  PROVE  TInv'
<1>0. GateOK'
  BY DEF TInv, GateOK, gateVars
<1>1. ASSUME NEW o \in Officers, NEW r \in captured, Upload(w, o, r) PROVE TInv'
  <2>1. FieldOK' /\ UNCHANGED rows
    BY <1>1 DEF Upload, fieldVars, TInv, FieldOK
  <2> DEFINE s2 == [op |-> "sync", pc |-> "device", app |-> r.app, officer |-> o, record |-> r]
  <2>2. SessStep(w, s2)
    BY <1>1, UploadSess
  <2>3. s2.op = "sync" /\ s2.pc = "device"
    OBVIOUS
  <2> HIDE DEF s2
  <2> QED BY <1>0, <2>1, <2>2, <2>3, QuietType DEF Busy
<1>2. ASSUME NEW o \in Officers, NEW s \in scores, Resolve(w, o, s) PROVE TInv'
  <2>1. FieldOK' /\ UNCHANGED rows
    BY <1>2 DEF Resolve, fieldVars, TInv, FieldOK
  <2> DEFINE s2 == [op |-> "resolve", pc |-> "row", app |-> s.app,
                    pick |-> [device |-> s.device, clock |-> s.clock]]
  <2>2. SessStep(w, s2)
    BY <1>2, ResolveSess
  <2>3. s2.op = "resolve" /\ s2.pc = "row"
    OBVIOUS
  <2> HIDE DEF s2
  <2> QED BY <1>0, <2>1, <2>2, <2>3, QuietType DEF Busy
<1>3. ASSUME CheckDevice(w) PROVE TInv'
  <2>1. FieldOK' /\ UNCHANGED rows
    BY <1>3, CheckDeviceSess DEF CheckDevice, TInv, FieldOK
  <2>2. [sess[w] EXCEPT !.pc = "row"] \in SyncAsk
    BY <1>3, CheckDeviceSess DEF SyncAsk
  <2>3. PICK s2 : SessStep(w, s2) /\ (s2 = Idle \/ s2 \in SyncAsk)
    BY <1>3, <2>2, CheckDeviceSess
  <2> QED BY <1>0, <2>1, <2>3, QuietType, AsksAreNotBusy
<1>4. ASSUME StoreScore(w) PROVE TInv'
  <2>1. PICK k : /\ sess[w] \in SyncAsk /\ sess[w].record.app = sess[w].app
                 /\ \/ SessStep(w, Idle)
                       /\ settled' = IF k \in {"DUPLICATE", "STALE"} THEN settled \cup {sess[w].record} ELSE settled
                    \/ k \in Entries /\ SessStep(w, SyncWriting(w, k)) /\ settled' = settled
    BY <1>4, StoreScoreSess
  <2>2. settled' \in SUBSET Capturing
    BY <2>1 DEF TInv, FieldOK, SyncAsk
  <2>3. FieldOK' /\ UNCHANGED rows
    BY <1>4, <2>2 DEF StoreScore, TInv, FieldOK
  <2>4. CASE SessStep(w, Idle)
    BY <1>0, <2>3, <2>4, QuietType, AsksAreNotBusy
  <2>5. CASE k \in Entries /\ SessStep(w, SyncWriting(w, k))
    <3>1. IsFiniteSet(Stored(sess[w].record, sess[w].officer, k, OwnScores(sess[w].record.app)))
      BY OwnFinite, WrittenFinite
    <3>2. \A y \in Stored(sess[w].record, sess[w].officer, k, OwnScores(sess[w].record.app)) :
             y.app = sess[w].record.app
      <4>1. sess[w].record \in Capturing /\ sess[w].officer \in Officers
        BY <2>1 DEF SyncAsk
      <4>2. PICK S : S = OwnScores(sess[w].record.app)
        OBVIOUS
      <4>3. S \in SUBSET Score /\ \A y \in S : y.app = sess[w].record.app
        BY <4>2, OwnFinite
      <4> QED BY <2>5, <4>1, <4>2, <4>3, StoredOwn
    <3>3. Written(SyncWriting(w, k))
      BY <3>1, <3>2 DEF Written, SyncWriting
    <3> QED BY <1>0, <2>3, <2>5, <3>3, QuietType
  <2> QED BY <2>1, <2>4, <2>5
<1>5. ASSUME CommitScore(w) \/ CommitResolution(w) PROVE TInv'
  <2>1. /\ sess[w].op \in {"sync", "resolve"} /\ sess[w].pc = "commit" /\ Release(w) /\ Publish(w)
        /\ sess' = [sess EXCEPT ![w].pc = "announce", ![w].change = None, ![w].fresh = None]
        /\ UNCHANGED <<official, device, fieldVars>>
    BY <1>5 DEF CommitScore, CommitResolution
  <2>2. /\ SessStep(w, Telling(sess[w])) /\ sess[w] \in Writing /\ sess[w].change.app = sess[w].app
        /\ Telling(sess[w]) \in SyncTell \cup ResolveTell
    BY <2>1, TellingStep
  <2>3. ~Busy(Telling(sess[w]))
    BY <2>2, AsksAreNotBusy
  <2>4. FieldOK'
    BY <2>1 DEF TInv, FieldOK, fieldVars
  <2> QED BY <1>0, <2>1, <2>2, <2>3, <2>4, CommitType
<1>6. ASSUME Materialise(w) PROVE TInv'
  <2>1. sess[w].app \in Apps /\ sess[w].record \in Capturing /\ sess[w].record.metrics \in Metrics
    BY <1>6, MaterialiseSess DEF SyncTell, Capturing
  <2>2. SessStep(w, Idle) /\ settled' \in SUBSET Capturing
    BY <1>6, <2>1, MaterialiseSess DEF TInv, FieldOK
  <2>3. announced' \in [Apps -> Seq(Metrics)]
    <3>1. announced \in [Apps -> Seq(Metrics)]
      BY DEF TInv, FieldOK
    <3>2. [announced EXCEPT ![sess[w].app] = Append(@, sess[w].record.metrics)] \in [Apps -> Seq(Metrics)]
      BY <2>1, <3>1, EmittedType
    <3> QED BY <1>6, <3>1, <3>2, MaterialiseSess
  <2>4. FieldOK' /\ UNCHANGED rows
    BY <1>6, <2>2, <2>3 DEF Materialise, TInv, FieldOK
  <2> QED BY <1>0, <2>2, <2>4, QuietType, AsksAreNotBusy
<1>7. ASSUME ResolveConflict(w) PROVE TInv'
  <2>1. FieldOK' /\ UNCHANGED rows
    BY <1>7 DEF ResolveConflict, fieldVars, TInv, FieldOK
  <2>2. CASE SessStep(w, Idle)
    BY <1>0, <2>1, <2>2, QuietType, AsksAreNotBusy
  <2>3. ASSUME NEW x \in Found(sess[w].app, sess[w].pick), SessStep(w, ResolveWriting(w, x)) PROVE TInv'
    <3>1. Found(sess[w].app, sess[w].pick) \in SUBSET OwnScores(sess[w].app)
      BY DEF Found
    <3>2. IsFiniteSet(Chosen(OwnScores(sess[w].app), Found(sess[w].app, sess[w].pick)))
      BY <3>1, OwnFinite, WrittenFinite
    <3>4. \A y \in Chosen(OwnScores(sess[w].app), Found(sess[w].app, sess[w].pick)) : y.app = sess[w].app
      BY <3>1, OwnFinite, ChosenOwn
    <3>3. Written(ResolveWriting(w, x))
      BY <3>2, <3>4 DEF Written, ResolveWriting
    <3> QED BY <1>0, <2>1, <2>3, <3>3, QuietType
  <2> QED BY <1>7, <2>2, <2>3, ResolveConflictSess
<1>8. ASSUME AnnounceChosen(w) PROVE TInv'
  <2>1. sess[w].app \in Apps /\ sess[w].hash \in Metrics /\ SessStep(w, Idle)
    BY <1>8, AnnounceChosenSess DEF ResolveTell
  <2>2. announced' \in [Apps -> Seq(Metrics)]
    <3>1. announced \in [Apps -> Seq(Metrics)]
      BY DEF TInv, FieldOK
    <3>2. [announced EXCEPT ![sess[w].app] = Append(@, sess[w].hash)] \in [Apps -> Seq(Metrics)]
      BY <2>1, <3>1, EmittedType
    <3> QED BY <1>8, <3>1, <3>2, AnnounceChosenSess
  <2>3. FieldOK' /\ UNCHANGED rows
    BY <1>8, <2>2 DEF AnnounceChosen, TInv, FieldOK
  <2> QED BY <1>0, <2>1, <2>3, QuietType, AsksAreNotBusy
<1> QED BY <1>1, <1>2, <1>3, <1>4, <1>5, <1>6, <1>7, <1>8 DEF FieldStep

LEMMA VenueStepType ==
  ASSUME TInv, NEW w \in Sessions, RefreshVenue(w) \/ Crash(w), UNCHANGED <<gateVars, fieldVars>>
  PROVE  TInv'
<1>0. GateOK' /\ FieldOK' /\ UNCHANGED rows
  BY DEF TInv, GateOK, FieldOK, gateVars, fieldVars, RefreshVenue, Crash, Abandon
<1>1. CASE Crash(w)
  <2>1. SessStep(w, Idle)
    BY <1>1, EndingSess DEF Crash, Abandon
  <2> QED BY <1>0, <2>1, QuietType, AsksAreNotBusy
<1>2. CASE RefreshVenue(w)
  <2> DEFINE s2 == Counting(w)
             f == Recount(VenueOf[sess[w].app], StatusAfter(sess[w].change),
                          AdmissionsAfter(sess[w].change), ScoresAfter(sess[w].change))
  <2>1. SessStep(w, s2) /\ sess[w] \in Writing /\ Busy(sess[w])
    BY <1>2, RefreshVenueSess, WritingFields DEF Busy
  <2>2. f \in Tally
    BY RecountType
  <2>3. CountsTo(sess[w], f, s2)
    BY DEF Counting, CountsTo
  <2>4. s2.change = sess[w].change /\ s2.app = sess[w].app
    BY <2>1, <2>2, <2>3, CountingIs
  <2>5. VenueOf[sess[w].app] # None => s2.fresh = f
    <3>1. ASSUME VenueOf[sess[w].app] # None PROVE s2 = [sess[w] EXCEPT !.pc = "commit", !.fresh = f]
      BY <3>1 DEF Counting
    <3>2. \A s \in Writing : [s EXCEPT !.pc = "commit", !.fresh = f].fresh = f
      BY DEF Writing, GateWrite, SyncWrite, ResolveWrite
    <3> QED BY <3>1, <3>2, <2>1
  <2>6. Written(sess[w])
    BY <2>1 DEF TInv, WritesOK
  <2> HIDE DEF s2, f
  <2>7. Written(s2)
    BY <2>2, <2>4, <2>5, <2>6 DEF Written
  <2> QED BY <1>0, <2>1, <2>7, QuietType
<1> QED BY <1>1, <1>2

\* What a tablet captures.
CaptureOf(t) ==
  LET own == OwnClock(t.device, t.app)
      c   == IF t.online THEN MergeVectorClock(own, SeenClock(t.app)) ELSE own
  IN  [app |-> t.app, device |-> t.device, officer |-> t.officer, metrics |-> t.metrics,
       genuine |-> t.genuine, clock |-> [c EXCEPT ![t.device] = @ + 1]]

LEMMA CaptureType ==
  ASSUME TInv, NEW t \in Tests
  PROVE  CaptureOf(t) \in Capturing
<1>1. OwnClock(t.device, t.app) \in Clocks
  <2> DEFINE S == {x \in captured : x.device = t.device /\ x.app = t.app}
             f == [r \in S |-> r.clock]
  <2>1. IsFiniteSet(S) /\ f \in [S -> Clocks]
    BY FS_Subset DEF TInv, FieldOK, Capturing
  <2>2. {f[x] : x \in S} = {r.clock : r \in S} /\ OwnClock(t.device, t.app) = Joined({r.clock : r \in S})
    BY DEF OwnClock
  <2> HIDE DEF f, S
  <2>3. Joined({f[x] : x \in S}) \in Clocks
    BY <2>1, JoinedType
  <2> QED BY <2>2, <2>3
<1>2. SeenClock(t.app) \in Clocks
  <2> DEFINE S == OwnScores(t.app)
             f == [r \in S |-> r.clock]
  <2>1. IsFiniteSet(S) /\ f \in [S -> Clocks]
    BY OwnFinite DEF Score
  <2>2. {f[x] : x \in S} = {r.clock : r \in S} /\ SeenClock(t.app) = Joined({r.clock : r \in S})
    BY DEF SeenClock
  <2> HIDE DEF f, S
  <2>3. Joined({f[x] : x \in S}) \in Clocks
    BY <2>1, JoinedType
  <2> QED BY <2>2, <2>3
<1>3. PICK c : c = IF t.online THEN MergeVectorClock(OwnClock(t.device, t.app), SeenClock(t.app))
                   ELSE OwnClock(t.device, t.app)
  OBVIOUS
<1>4. c \in Clocks
  BY <1>1, <1>2, <1>3 DEF MergeVectorClock, Clocks
<1>5. t.app \in Apps /\ t.device \in Devices
  BY ExamDayAssumption
<1>6. [c EXCEPT ![t.device] = @ + 1] \in Clocks
  BY <1>4, <1>5 DEF Clocks
<1> QED BY <1>3, <1>5, <1>6 DEF CaptureOf, Capturing, Metrics

\* A step that touches neither sessions, locks nor what is typed with them.
LEMMA StillType ==
  ASSUME TInv, UNCHANGED <<sess, locks, scores>>, RowsOK', GateOK', FieldOK'
  PROVE  TInv'
BY DEF TInv, SessOK, LocksOK, WritesOK, locks

\* What the consumer of announcements does.
Completes(a, acknowledged) ==
  /\ announced[a] # << >>
  /\ \E to \in AppStatuses, s \in OwnScores(a) :
        /\ to = Completion(a) /\ s.metrics = Head(announced[a])
        /\ MayComplete(a)
        /\ WriteRow(a, to)
        /\ official' = [official EXCEPT ![a] = [device |-> s.device, clock |-> s.clock]]
        /\ UNCHANGED device
  /\ announced' = IF acknowledged THEN [announced EXCEPT ![a] = Tail(@)] ELSE announced
  /\ UNCHANGED <<captured, settled>>

Passes(a, acknowledged) ==
  /\ announced[a] # << >>
  /\ UNCHANGED <<rows, locks, sess, captured, settled>>
  /\ announced' = IF acknowledged THEN [announced EXCEPT ![a] = Tail(@)] ELSE announced

LEMMA ConsumerCases ==
  ASSUME NEW a \in Apps, NEW acknowledged \in BOOLEAN, ApplyPhysicalTestComplete(a, acknowledged)
  PROVE  Completes(a, acknowledged) \/ Passes(a, acknowledged)
<1> DEFINE found == {s \in OwnScores(a) : PayloadHash(s) = Head(announced[a])}
<1>1. CASE Completion(a) # None /\ MayComplete(a) /\ found # {}
  <2>1. /\ announced[a] # << >> /\ WriteRow(a, Completion(a)) /\ UNCHANGED <<device, captured, settled>>
        /\ announced' = IF acknowledged THEN [announced EXCEPT ![a] = Tail(@)] ELSE announced
    BY <1>1 DEF ApplyPhysicalTestComplete
  <2>2. PICK s \in found : official' = [official EXCEPT ![a] = [device |-> s.device, clock |-> s.clock]]
    BY <1>1 DEF ApplyPhysicalTestComplete
  <2>3. Completion(a) \in AppStatuses
    BY <1>1 DEF Completion, AppStatuses, Roster
  <2>4. s \in OwnScores(a) /\ s.metrics = Head(announced[a])
    BY DEF PayloadHash
  <2> QED BY <1>1, <2>1, <2>2, <2>3, <2>4 DEF Completes
<1>2. CASE ~(Completion(a) # None /\ MayComplete(a) /\ found # {})
  BY <1>2 DEF ApplyPhysicalTestComplete, Passes, rows, locks
<1> QED BY <1>1, <1>2

LEMMA TailType ==
  ASSUME TInv, NEW a \in Apps, announced[a] # << >>, NEW acknowledged \in BOOLEAN,
         announced' = IF acknowledged THEN [announced EXCEPT ![a] = Tail(@)] ELSE announced,
         UNCHANGED <<captured, settled>>
  PROVE  FieldOK'
<1>1. announced \in [Apps -> Seq(Metrics)]
  BY DEF TInv, FieldOK
<1>2. Tail(announced[a]) \in Seq(Metrics)
  BY <1>1
<1> QED BY <1>1, <1>2 DEF TInv, FieldOK

LEMMA FieldEnvironmentType ==
  ASSUME TInv, FieldEnvironment, UNCHANGED gateVars
  PROVE  TInv'
<1>0. GateOK'
  BY DEF TInv, GateOK, gateVars
<1>1. ASSUME NEW t \in Tests, Capture(t) PROVE TInv'
  <2>1. captured' = captured \cup {CaptureOf(t)} /\ UNCHANGED <<rows, locks, sess, announced, settled>>
    BY <1>1 DEF Capture, CaptureOf
  <2>2. captured' \in SUBSET Capturing /\ IsFiniteSet(captured')
    BY <2>1, CaptureType, FS_AddElement DEF TInv, FieldOK
  <2>3. FieldOK' /\ RowsOK'
    BY <2>1, <2>2 DEF TInv, FieldOK, RowsOK, rows
  <2> QED BY <1>0, <2>1, <2>3, StillType DEF rows
<1>2. ASSUME NEW a \in Apps, NEW acknowledged \in BOOLEAN, ApplyPhysicalTestComplete(a, acknowledged) PROVE TInv'
  <2>1. CASE Completes(a, acknowledged)
    <3>1. FieldOK'
      BY <2>1, TailType DEF Completes
    <3>2. PICK to \in AppStatuses, s \in OwnScores(a) :
             /\ WriteRow(a, to) /\ UNCHANGED device
             /\ official' = [official EXCEPT ![a] = [device |-> s.device, clock |-> s.clock]]
      BY <2>1 DEF Completes
    <3>3. [device |-> s.device, clock |-> s.clock] \in Picked
      BY OwnFinite DEF Score, Picked
    <3>4. official' \in [Apps -> Picked \cup {None}]
      BY <3>2, <3>3 DEF TInv, RowsOK
    <3> QED BY <1>0, <3>1, <3>2, <3>4, WriteRowType
  <2>2. CASE Passes(a, acknowledged)
    <3>1. FieldOK' /\ RowsOK' /\ UNCHANGED <<sess, locks, scores>>
      BY <2>2, TailType DEF Passes, TInv, RowsOK, rows
    <3> QED BY <1>0, <3>1, StillType
  <2> QED BY <1>2, <2>1, <2>2, ConsumerCases
<1>3. ASSUME NEW o \in Officers, NEW d \in Devices, Enroll(o, d) \/ Revoke(o, d) PROVE TInv'
  <2>1. FieldOK' /\ UNCHANGED <<sess, locks, scores>>
    BY <1>3 DEF Enroll, Revoke, TInv, FieldOK, fieldVars
  <2>2. device' \in [Devices -> {"absent", "active", "revoked"}]
    BY <1>3 DEF Enroll, Revoke, EnrolledAs, RevokedAs, TInv, RowsOK
  <2>3. RowsOK'
    BY <1>3, <2>2 DEF Enroll, Revoke, TInv, RowsOK
  <2> QED BY <1>0, <2>1, <2>3, StillType
<1> QED BY <1>1, <1>2, <1>3 DEF FieldEnvironment

LEMMA InitTInv == Init => TInv
<1> SUFFICES ASSUME Init PROVE TInv
  OBVIOUS
<1>1. SessOK
  BY IdleKeys DEF Init, SessOK
<1>2. LocksOK
  <2>1. \A w \in Sessions : w # None /\ sess[w] = Idle
    BY VenueAssumption DEF Init
  <2>2. /\ Agrees(rowLock, [w \in Sessions |-> RowKeys(sess[w])])
        /\ Agrees(identityLock, [w \in Sessions |-> IdentityKeys(sess[w])])
        /\ Agrees(venueLock, [w \in Sessions |-> VenueKeys(sess[w])])
    BY <2>1, IdleKeys DEF Init, Agrees
  <2> QED BY <2>2 DEF Init, LocksOK
<1>3. RowsOK
  <2>1. status \in [Apps -> AppStatuses]
    BY ExamDayAssumption DEF Init, AppStatuses, Roster, AdmissibleStatuses
  <2>2. counts \in [Venues -> Tally]
    BY RecountType DEF Init
  <2> QED BY <2>1, <2>2 DEF Init, RowsOK
<1>4. GateOK /\ FieldOK
  BY ExamDayAssumption, FS_EmptySet DEF Init, GateOK, FieldOK, Days
<1>5. WritesOK
  BY FS_EmptySet DEF Init, WritesOK, Busy, Idle
<1> QED BY <1>1, <1>2, <1>3, <1>4, <1>5 DEF TInv

LEMMA NextTInv == TInv /\ [Next]_vars => TInv'
<1> SUFFICES ASSUME TInv, [Next]_vars PROVE TInv'
  OBVIOUS
<1>1. CASE UNCHANGED vars
  BY <1>1 DEF vars, rows, locks, gateVars, fieldVars, TInv, SessOK, LocksOK, RowsOK, GateOK, FieldOK, WritesOK
<1>2. ASSUME NEW w \in Sessions, GateStep(w) /\ UNCHANGED fieldVars PROVE TInv'
  BY <1>2, GateStepType
<1>3. ASSUME NEW w \in Sessions, FieldStep(w) /\ UNCHANGED gateVars PROVE TInv'
  BY <1>3, FieldStepType
<1>4. ASSUME NEW w \in Sessions, (RefreshVenue(w) \/ Crash(w)) /\ UNCHANGED <<gateVars, fieldVars>> PROVE TInv'
  BY <1>4, VenueStepType
<1>5. CASE FieldEnvironment /\ UNCHANGED gateVars
  BY <1>5, FieldEnvironmentType
<1>6. CASE (NextDay \/ \E m \in {"ADVISORY", "OFF"} : SetMode(m)) /\ UNCHANGED fieldVars
  <2>1. UNCHANGED <<rows, locks, sess, evidence, confirmed, told, fieldVars>> /\ day' \in Days
    BY <1>6 DEF NextDay, SetMode, TInv, GateOK, Days
  <2>2. RowsOK' /\ GateOK' /\ FieldOK'
    BY <2>1 DEF TInv, RowsOK, GateOK, FieldOK, rows, fieldVars
  <2> QED BY <2>1, <2>2, StillType DEF rows
<1>7. ASSUME NEW a \in Apps, Withdraw(a) /\ UNCHANGED <<gateVars, fieldVars>> PROVE TInv'
  <2>1. GateOK' /\ FieldOK' /\ official' \in [Apps -> Picked \cup {None}]
    BY <1>7 DEF TInv, GateOK, FieldOK, gateVars, fieldVars, Withdraw, RowsOK
  <2> QED BY <1>7, <2>1, WriteRowType DEF Withdraw, AppStatuses
<1> QED BY <1>1, <1>2, <1>3, <1>4, <1>5, <1>6, <1>7 DEF Next

LEMMA Typed == Spec => []TInv
BY InitTInv, NextTInv, PTL DEF Spec

\* While an application has flagged scores, no step of any session, consumer or
\* officer changes the score it was completed with.
THEOREM HeldUntilResolved == Spec => HeldWhileOpen
<1>1. TInv /\ [Next]_vars => [\A a \in Apps : InConflict(a) => official'[a] = official[a]]_vars
  <2> SUFFICES ASSUME TInv, Next PROVE \A a \in Apps : InConflict(a) => official'[a] = official[a]
    OBVIOUS
  <2>1. CASE UNCHANGED official
    BY <2>1
  <2>2. ASSUME NEW b \in Apps, NEW acknowledged \in BOOLEAN, ApplyPhysicalTestComplete(b, acknowledged)
        PROVE  \A a \in Apps : InConflict(a) => official'[a] = official[a]
    <3>1. CASE Completes(b, acknowledged)
      <4>1. ~InConflict(b)
        BY <3>1 DEF Completes, MayComplete
      <4>2. \A a \in Apps \ {b} : official'[a] = official[a]
        BY <3>1 DEF Completes, TInv, RowsOK
      <4> QED BY <4>1, <4>2
    <3>2. CASE Passes(b, acknowledged)
      BY <3>2 DEF Passes, rows
    <3> QED BY <2>2, <3>1, <3>2, ConsumerCases
  <2>3. ASSUME NEW w \in Sessions, GateStep(w) PROVE UNCHANGED official
    BY <2>3 DEF GateStep, Scan, Submit, Confirm, LockApplication, ResolveGateIdentity, CommitAdmission,
                RecordEvidence, CommitEvidence, ConfirmManualIdentity, CommitConfirmation, DeadlockVictim,
                Abandon, rows
  <2>4. ASSUME NEW w \in Sessions, FieldStep(w) \/ RefreshVenue(w) \/ Crash(w) PROVE UNCHANGED official
    BY <2>4 DEF FieldStep, Upload, Resolve, CheckDevice, StoreScore, CommitScore, Materialise,
                ResolveConflict, CommitResolution, AnnounceChosen, RefreshVenue, Crash, Abandon, rows
  <2>5. ASSUME \/ \E t \in Tests : Capture(t)
               \/ \E o \in Officers, d \in Devices : Enroll(o, d) \/ Revoke(o, d)
               \/ NextDay \/ (\E m \in {"ADVISORY", "OFF"} : SetMode(m))
               \/ \E a \in Apps : Withdraw(a)
        PROVE  UNCHANGED official
    BY <2>5 DEF Capture, Enroll, Revoke, NextDay, SetMode, Withdraw, rows
  <2> QED BY <2>1, <2>2, <2>3, <2>4, <2>5 DEF Next, FieldEnvironment
<1> QED BY <1>1, Typed, PTL DEF Spec, HeldWhileOpen

----------------------------------------------------------------------------
(* The counts *)

\* Two sessions never hold the same key, and a free key is nobody's.
LEMMA Exclusive ==
  ASSUME TInv, NEW x \in Sessions
  PROVE  /\ \A y \in Sessions : RowKeys(sess[x]) \cap RowKeys(sess[y]) \cap Apps # {} => x = y
         /\ \A y \in Sessions : IdentityKeys(sess[x]) \cap IdentityKeys(sess[y]) \cap Apps # {} => x = y
         /\ \A y \in Sessions : VenueKeys(sess[x]) \cap VenueKeys(sess[y]) \cap Venues # {} => x = y
         /\ \A a \in Apps : RowFree(a) => a \notin RowKeys(sess[x])
         /\ \A a \in Apps : IdentityFree(a) => a \notin IdentityKeys(sess[x])
         /\ \A v \in Venues : VenueFree(v) => v \notin VenueKeys(sess[x])
<1>1. x # None
  BY VenueAssumption
<1>2. /\ \A w \in Sessions, k \in Apps : rowLock[k] = w <=> k \in RowKeys(sess[w])
      /\ \A w \in Sessions, k \in Apps : identityLock[k] = w <=> k \in IdentityKeys(sess[w])
      /\ \A w \in Sessions, k \in Venues : venueLock[k] = w <=> k \in VenueKeys(sess[w])
  BY DEF TInv, LocksOK, Agrees
<1> QED BY <1>1, <1>2 DEF RowFree, IdentityFree, VenueFree

\* What an application contributes to the counts of its venue.
Counted(a, st, adm, sc) ==
  <<st[a] \in Roster, \E m \in adm : m.app = a, \E s \in sc : s.app = a, \E s \in sc : s.app = a /\ s.conflict>>

\* The counts of a venue are those of its applications.
LEMMA RecountLocal ==
  ASSUME NEW v, NEW st, NEW adm, NEW sc, NEW st2, NEW adm2, NEW sc2,
         \A a \in Apps : VenueOf[a] = v => Counted(a, st, adm, sc) = Counted(a, st2, adm2, sc2)
  PROVE  Recount(v, st, adm, sc) = Recount(v, st2, adm2, sc2)
<1> DEFINE here == {a \in Apps : VenueOf[a] = v}
<1>1. ASSUME NEW a \in here
      PROVE  /\ st[a] \in Roster <=> st2[a] \in Roster
             /\ (\E m \in adm : m.app = a) <=> (\E m \in adm2 : m.app = a)
             /\ (\E s \in sc : s.app = a) <=> (\E s \in sc2 : s.app = a)
             /\ (\E s \in sc : s.app = a /\ s.conflict) <=> (\E s \in sc2 : s.app = a /\ s.conflict)
  BY DEF Counted
<1> HIDE DEF here
<1>2. /\ {a \in here : st[a] \in Roster} = {a \in here : st2[a] \in Roster}
      /\ {a \in here : \E m \in adm : m.app = a} = {a \in here : \E m \in adm2 : m.app = a}
      /\ {a \in here : \E s \in sc : s.app = a} = {a \in here : \E s \in sc2 : s.app = a}
      /\ {a \in here : \E s \in sc : s.app = a /\ s.conflict} = {a \in here : \E s \in sc2 : s.app = a /\ s.conflict}
  BY <1>1
<1> QED BY <1>2 DEF Recount, here

\* The counts a session computed are still what its commit will leave.
FreshOK(s, st, adm, sc) ==
  s.pc = "commit" /\ VenueOf[s.app] # None =>
     s.fresh = Recount(VenueOf[s.app], [st EXCEPT ![s.change.app] = s.change.status], adm \cup s.change.admit,
                       {x \in sc : x.app # s.change.app} \cup s.change.scores)

CInv == CountsAreExact /\ \A w \in Sessions : Busy(sess[w]) => FreshOK(sess[w], status, admissions, scores)

\* The rows of one application are written: nothing else changes, the counts
\* of its venue are computed again, and no other session holds its locks.
Apart(b) ==
  \A a \in Apps \ {b} : /\ status'[a] = status[a]
                        /\ {m \in admissions' : m.app = a} = {m \in admissions : m.app = a}
                        /\ {s \in scores' : s.app = a} = {s \in scores : s.app = a}

Wrote(b) ==
  /\ Apart(b)
  /\ counts' = IF VenueOf[b] = None THEN counts
               ELSE [counts EXCEPT ![VenueOf[b]] = Recount(VenueOf[b], status', admissions', scores')]
  /\ \A x \in Sessions : Busy(sess'[x]) => /\ sess'[x] = sess[x]
                                           /\ b \notin RowKeys(sess[x])
                                           /\ VenueOf[b] # None => VenueOf[b] \notin VenueKeys(sess[x])

\* No row is written: a session with counts has them from before or just now.
Still ==
  /\ UNCHANGED <<status, admissions, scores, counts>>
  /\ \A x \in Sessions : \/ sess'[x] = sess[x]
                         \/ ~(Busy(sess'[x]) /\ sess'[x].pc = "commit")
                         \/ sess[x] \in Writing /\ sess[x].pc = "venue" /\ sess'[x] = Counting(x)

LEMMA StillCounts ==
  ASSUME TInv, CInv, Still
  PROVE  CInv'
<1>0. status' = status /\ admissions' = admissions /\ scores' = scores
  BY DEF Still
<1>1. CountsAreExact'
  BY <1>0 DEF CInv, CountsAreExact, Still
<1>2. ASSUME NEW x \in Sessions, Busy(sess'[x]) PROVE FreshOK(sess'[x], status, admissions, scores)
  <2>1. CASE sess'[x] = sess[x]
    BY <1>2, <2>1 DEF CInv
  <2>2. CASE sess'[x].pc # "commit"
    BY <2>2 DEF FreshOK
  <2>3. CASE sess[x] \in Writing /\ sess[x].pc = "venue" /\ sess'[x] = Counting(x)
    <3> DEFINE s2 == Counting(x)
               c == sess[x].change
               f == Recount(VenueOf[sess[x].app], StatusAfter(c), AdmissionsAfter(c), ScoresAfter(c))
    <3>1. CountsTo(sess[x], f, s2) /\ f \in Tally
      BY RecountType DEF Counting, CountsTo
    <3>2. VenueOf[sess[x].app] # None => s2.fresh = f
      <4>1. ASSUME VenueOf[sess[x].app] # None PROVE s2 = [sess[x] EXCEPT !.pc = "commit", !.fresh = f]
        BY <4>1 DEF Counting
      <4> HIDE DEF f, s2
      <4>2. \A s \in Writing : [s EXCEPT !.pc = "commit", !.fresh = f].fresh = f
        BY DEF Writing, GateWrite, SyncWrite, ResolveWrite
      <4> QED BY <2>3, <4>1, <4>2
    <3>3. f = Recount(VenueOf[sess[x].app], [status EXCEPT ![c.app] = c.status], admissions \cup c.admit,
                      {y \in scores : y.app # c.app} \cup c.scores)
      BY DEF StatusAfter, AdmissionsAfter, ScoresAfter
    <3> HIDE DEF s2, f
    <3>4. s2.change = c /\ s2.app = sess[x].app
      BY <2>3, <3>1, CountingIs
    <3>5. FreshOK(s2, status, admissions, scores)
      BY <3>2, <3>3, <3>4 DEF FreshOK
    <3> QED BY <2>3, <3>5 DEF s2
  <2> QED BY <1>2, <2>1, <2>2, <2>3 DEF Still
<1> QED BY <1>0, <1>1, <1>2 DEF CInv

LEMMA WroteCounts ==
  ASSUME TInv, TInv', CInv, NEW b \in Apps, Wrote(b)
  PROVE  CInv'
<1>1. ASSUME NEW a \in Apps, a # b
      PROVE  Counted(a, status', admissions', scores') = Counted(a, status, admissions, scores)
  <2>1. /\ status'[a] = status[a]
        /\ {m \in admissions' : m.app = a} = {m \in admissions : m.app = a}
        /\ {s \in scores' : s.app = a} = {s \in scores : s.app = a}
    BY <1>1 DEF Wrote, Apart
  <2>2. (\E m \in admissions' : m.app = a) <=> (\E m \in admissions : m.app = a)
    BY <2>1
  <2>3. (\E s \in scores' : s.app = a) <=> (\E s \in scores : s.app = a)
    BY <2>1
  <2>4. (\E s \in scores' : s.app = a /\ s.conflict) <=> (\E s \in scores : s.app = a /\ s.conflict)
    BY <2>1
  <2> QED BY <2>1, <2>2, <2>3, <2>4 DEF Counted
<1>2. ASSUME NEW v \in Venues PROVE counts'[v] = Recount(v, status', admissions', scores')
  <2>1. CASE v = VenueOf[b]
    <3>1. v # None
      BY VenueAssumption DEF Venues
    <3> QED BY <2>1, <3>1 DEF Wrote, TInv, RowsOK
  <2>2. CASE v # VenueOf[b]
    <3>1. counts'[v] = counts[v]
      BY <2>2 DEF Wrote, TInv, RowsOK
    <3>2. \A a \in Apps : VenueOf[a] = v =>
             Counted(a, status', admissions', scores') = Counted(a, status, admissions, scores)
      BY <1>1, <2>2
    <3>3. Recount(v, status', admissions', scores') = Recount(v, status, admissions, scores)
      BY <3>2, RecountLocal
    <3> QED BY <3>1, <3>3 DEF CInv, CountsAreExact
  <2> QED BY <2>1, <2>2
<1>3. ASSUME NEW x \in Sessions, Busy(sess'[x]) PROVE FreshOK(sess'[x], status', admissions', scores')
  <2> DEFINE s == sess[x]
             c == sess[x].change
             v == VenueOf[s.app]
  <2>1. sess'[x] = s /\ Busy(s) /\ s \in Writing /\ c.app = s.app /\ s.app \in Apps
    <3>1. sess'[x] = s /\ Busy(s)
      BY <1>3 DEF Wrote
    <3> QED BY <3>1, Shapes DEF Busy, TInv, SessOK, Own
  <2>2. SUFFICES ASSUME s.pc = "commit", v # None
                 PROVE s.fresh = Recount(v, [status' EXCEPT ![c.app] = c.status], admissions' \cup c.admit,
                                         {y \in scores' : y.app # c.app} \cup c.scores)
    BY <2>1 DEF FreshOK
  <2>3. v \in VenueKeys(s) /\ v # VenueOf[b]
    BY <1>3, <2>1, <2>2 DEF VenueKeys, Busy, Wrote
  <2> DEFINE st1 == [status EXCEPT ![c.app] = c.status]
             st2 == [status' EXCEPT ![c.app] = c.status]
             ad1 == admissions \cup c.admit
             ad2 == admissions' \cup c.admit
             sc1 == {y \in scores : y.app # c.app} \cup c.scores
             sc2 == {y \in scores' : y.app # c.app} \cup c.scores
  <2>4. ASSUME NEW a \in Apps, VenueOf[a] = v
        PROVE  Counted(a, st2, ad2, sc2) = Counted(a, st1, ad1, sc1)
    <3>1. a # b
      BY <2>3, <2>4
    <3>2. /\ status'[a] = status[a]
          /\ {m \in admissions' : m.app = a} = {m \in admissions : m.app = a}
          /\ {y \in scores' : y.app = a} = {y \in scores : y.app = a}
      BY <3>1 DEF Wrote, Apart
    <3>3. st2[a] = st1[a]
      <4>1. status' \in [Apps -> AppStatuses] /\ status \in [Apps -> AppStatuses]
        BY DEF TInv, RowsOK
      <4> QED BY <2>4, <3>2, <4>1
    <3>4. (\E m \in ad2 : m.app = a) <=> (\E m \in ad1 : m.app = a)
      BY <3>2
    <3>5. (\E y \in sc2 : y.app = a) <=> (\E y \in sc1 : y.app = a)
      BY <3>2
    <3>6. (\E y \in sc2 : y.app = a /\ y.conflict) <=> (\E y \in sc1 : y.app = a /\ y.conflict)
      BY <3>2
    <3> HIDE DEF st1, st2, ad1, ad2, sc1, sc2
    <3> QED BY <3>3, <3>4, <3>5, <3>6 DEF Counted
  <2>5. s.fresh = Recount(v, st1, ad1, sc1)
    BY <2>1, <2>2 DEF CInv, FreshOK
  <2> HIDE DEF st1, st2, ad1, ad2, sc1, sc2
  <2>6. Recount(v, st2, ad2, sc2) = Recount(v, st1, ad1, sc1)
    BY <2>4, RecountLocal
  <2> QED BY <2>5, <2>6 DEF st2, ad2, sc2
<1> QED BY <1>2, <1>3 DEF CInv, CountsAreExact

\* The commit of a session's writes.
Commits(w) ==
  /\ sess[w] \in Writing /\ sess[w].pc = "commit" /\ sess[w].change.app = sess[w].app
  /\ Publish(w)
  /\ ~Busy(sess'[w]) /\ \A x \in Sessions \ {w} : sess'[x] = sess[x]

LEMMA CommitWrote ==
  ASSUME TInv, CInv, NEW w \in Sessions, Commits(w)
  PROVE  Wrote(sess[w].app)
<1> DEFINE s == sess[w]
           c == sess[w].change
           b == sess[w].app
<1>1. b \in Apps /\ c \in Change /\ c.app = b /\ Busy(s) /\ s.op \in {"gate", "sync", "resolve"} /\ s.pc = "commit"
  BY WritingFields DEF Commits, Busy
<1>2. /\ status' = [status EXCEPT ![c.app] = c.status] /\ admissions' = admissions \cup c.admit
      /\ scores' = {y \in scores : y.app # c.app} \cup c.scores
      /\ counts' = IF VenueOf[b] = None THEN counts ELSE [counts EXCEPT ![VenueOf[b]] = s.fresh]
  BY <1>1 DEF Commits, Publish, StatusAfter, AdmissionsAfter, ScoresAfter
<1>3. (\A m \in c.admit : m.app = b) /\ (\A y \in c.scores : y.app = b)
  BY <1>1 DEF TInv, WritesOK, Written
<1>4. Apart(b)
  <2> SUFFICES ASSUME NEW a \in Apps \ {b}
               PROVE  /\ status'[a] = status[a]
                      /\ {m \in admissions' : m.app = a} = {m \in admissions : m.app = a}
                      /\ {y \in scores' : y.app = a} = {y \in scores : y.app = a}
    BY DEF Apart
  <2>1. status'[a] = status[a]
    BY <1>1, <1>2 DEF TInv, RowsOK
  <2> QED BY <1>1, <1>2, <1>3, <2>1
<1>5. VenueOf[b] # None => s.fresh = Recount(VenueOf[b], status', admissions', scores')
  BY <1>1, <1>2 DEF CInv, FreshOK
<1>6. ASSUME NEW x \in Sessions, Busy(sess'[x])
      PROVE  /\ sess'[x] = sess[x] /\ b \notin RowKeys(sess[x])
             /\ VenueOf[b] # None => VenueOf[b] \notin VenueKeys(sess[x])
  <2>1. x # w /\ sess'[x] = sess[x]
    BY <1>6 DEF Commits
  <2>2. b \in RowKeys(s) /\ (VenueOf[b] # None => VenueOf[b] \in VenueKeys(s) /\ VenueOf[b] \in Venues)
    BY <1>1, VenueIn DEF RowKeys, VenueKeys
  <2> QED BY <1>1, <2>1, <2>2, Exclusive
<1> QED BY <1>2, <1>4, <1>5, <1>6 DEF Wrote

LEMMA RowWrote ==
  ASSUME TInv, NEW a \in Apps, NEW st, WriteRow(a, st)
  PROVE  Wrote(a)
<1>1. Apart(a)
  BY DEF Apart, WriteRow, TInv, RowsOK
<1>2. counts' = IF VenueOf[a] = None THEN counts
                ELSE [counts EXCEPT ![VenueOf[a]] = Recount(VenueOf[a], status', admissions', scores')]
  BY DEF WriteRow
<1>3. \A x \in Sessions : /\ sess'[x] = sess[x] /\ a \notin RowKeys(sess[x])
                          /\ VenueOf[a] # None => VenueOf[a] \notin VenueKeys(sess[x])
  BY Exclusive, VenueIn DEF WriteRow, RowFree
<1> QED BY <1>1, <1>2, <1>3 DEF Wrote

\* Every step leaves the rows alone, commits a session's change or writes one
\* application's row.
LEMMA Kinds ==
  ASSUME TInv, [Next]_vars
  PROVE  \/ Still
         \/ \E w \in Sessions : Commits(w)
         \/ \E a \in Apps, st \in AppStatuses : WriteRow(a, st)
<1>0. ASSUME NEW w \in Sessions, NEW s2, SessStep(w, s2), UNCHANGED rows,
             \/ ~(Busy(s2) /\ s2.pc = "commit")
             \/ sess[w] \in Writing /\ sess[w].pc = "venue" /\ s2 = Counting(w)
      PROVE  Still
  <2>1. sess'[w] = s2 /\ \A v \in Sessions \ {w} : sess'[v] = sess[v]
    BY <1>0, SessKeeps DEF TInv
  <2> QED BY <1>0, <2>1 DEF Still, rows
<1>1. ASSUME NEW w \in Sessions, GateStep(w) PROVE Still \/ Commits(w)
  <2>1. ASSUME NEW o \in Officers, NEW s \in Scans, Scan(w, o, s) PROVE Still
    <3> DEFINE s2 == [op |-> "gate", pc |-> "row", app |-> s.app, officer |-> o, scan |-> s, today |-> day]
    <3>1. SessStep(w, s2) /\ s2.pc = "row" /\ UNCHANGED rows
      BY <2>1, ScanSess DEF Scan
    <3> HIDE DEF s2
    <3> QED BY <1>0, <3>1
  <2>2. ASSUME NEW o \in Officers, NEW r \in Records, Submit(w, o, r) PROVE Still
    <3> DEFINE s2 == [op |-> "evidence", pc |-> "identity", app |-> r.app, officer |-> o, record |-> r]
    <3>1. SessStep(w, s2) /\ s2.pc = "identity" /\ UNCHANGED rows
      BY <2>2, SubmitSess DEF Submit
    <3> HIDE DEF s2
    <3> QED BY <1>0, <3>1
  <2>3. ASSUME NEW o \in Officers, NEW e \in evidence, Confirm(w, o, e) PROVE Still
    <3> DEFINE s2 == [op |-> "confirm", pc |-> "identity", app |-> e.app, officer |-> o, found |-> e]
    <3>1. SessStep(w, s2) /\ s2.pc = "identity" /\ UNCHANGED rows
      BY <2>3, ConfirmSess DEF Confirm
    <3> HIDE DEF s2
    <3> QED BY <1>0, <3>1
  <2>4. ASSUME LockApplication(w) PROVE Still
    <3>1. [sess[w] EXCEPT !.pc = "identity"] \in GateAsk /\ UNCHANGED rows
      BY <2>4, LockApplicationSess DEF GateAsk, LockApplication
    <3> QED BY <1>0, <2>4, <3>1, LockApplicationSess, AsksAreNotBusy
  <2>5. ASSUME ResolveGateIdentity(w) PROVE Still
    <3>1. GateWriting(w).pc # "commit" /\ UNCHANGED rows
      BY <2>5 DEF GateWriting, ResolveGateIdentity
    <3> QED BY <1>0, <2>5, <3>1, ResolveGateIdentitySess, AsksAreNotBusy
  <2>6. ASSUME CommitAdmission(w) PROVE Commits(w)
    <3>1. sess[w] \in Writing /\ sess[w].change.app = sess[w].app /\ sess[w].pc = "commit"
      BY <2>6, Shapes DEF CommitAdmission, TInv, SessOK, Own
    <3>2. sess'[w] = Idle /\ \A x \in Sessions \ {w} : sess'[x] = sess[x]
      BY <2>6 DEF CommitAdmission, TInv, SessOK
    <3> QED BY <2>6, <3>1, <3>2, AsksAreNotBusy DEF Commits, CommitAdmission
  <2>7. ASSUME RecordEvidence(w) PROVE Still
    <3>1. ~Busy(EvidenceWriting(sess[w].record, sess[w].officer)) /\ UNCHANGED rows
      BY <2>7 DEF EvidenceWriting, Busy, RecordEvidence
    <3> QED BY <1>0, <2>7, <3>1, RecordEvidenceSess, AsksAreNotBusy
  <2>8. ASSUME ConfirmManualIdentity(w) PROVE Still
    <3>1. [sess[w] EXCEPT !.pc = "key"] \in Confirming /\ UNCHANGED rows
      BY <2>8, ConfirmManualIdentitySess DEF Confirming, ConfirmManualIdentity
    <3> QED BY <1>0, <2>8, <3>1, ConfirmManualIdentitySess, AsksAreNotBusy
  <2>9. ASSUME CommitEvidence(w) \/ CommitConfirmation(w) \/ DeadlockVictim(w) PROVE Still
    <3>1. SessStep(w, Idle) /\ UNCHANGED rows
      BY <2>9, EndingSess DEF CommitEvidence, CommitConfirmation, DeadlockVictim, Abandon
    <3> QED BY <1>0, <3>1, AsksAreNotBusy
  <2> QED BY <1>1, <2>1, <2>2, <2>3, <2>4, <2>5, <2>6, <2>7, <2>8, <2>9 DEF GateStep
<1>2. ASSUME NEW w \in Sessions, FieldStep(w) PROVE Still \/ Commits(w)
  <2>1. ASSUME NEW o \in Officers, NEW r \in captured, Upload(w, o, r) PROVE Still
    <3> DEFINE s2 == [op |-> "sync", pc |-> "device", app |-> r.app, officer |-> o, record |-> r]
    <3>1. SessStep(w, s2) /\ s2.pc = "device" /\ UNCHANGED rows
      BY <2>1, UploadSess DEF Upload
    <3> HIDE DEF s2
    <3> QED BY <1>0, <3>1
  <2>2. ASSUME NEW o \in Officers, NEW s \in scores, Resolve(w, o, s) PROVE Still
    <3> DEFINE s2 == [op |-> "resolve", pc |-> "row", app |-> s.app,
                      pick |-> [device |-> s.device, clock |-> s.clock]]
    <3>1. SessStep(w, s2) /\ s2.pc = "row" /\ UNCHANGED rows
      BY <2>2, ResolveSess DEF Resolve
    <3> HIDE DEF s2
    <3> QED BY <1>0, <3>1
  <2>3. ASSUME CheckDevice(w) PROVE Still
    <3>1. [sess[w] EXCEPT !.pc = "row"] \in SyncAsk /\ UNCHANGED rows
      BY <2>3, CheckDeviceSess DEF SyncAsk, CheckDevice
    <3> QED BY <1>0, <2>3, <3>1, CheckDeviceSess, AsksAreNotBusy
  <2>4. ASSUME StoreScore(w) PROVE Still
    <3>1. (\A k : SyncWriting(w, k).pc # "commit") /\ UNCHANGED rows
      BY <2>4 DEF SyncWriting, StoreScore
    <3> QED BY <1>0, <2>4, <3>1, StoreScoreSess, AsksAreNotBusy
  <2>5. ASSUME CommitScore(w) \/ CommitResolution(w) PROVE Commits(w)
    <3>1. /\ sess[w].op \in {"sync", "resolve"} /\ sess[w].pc = "commit" /\ Release(w) /\ Publish(w)
          /\ sess' = [sess EXCEPT ![w].pc = "announce", ![w].change = None, ![w].fresh = None]
      BY <2>5 DEF CommitScore, CommitResolution
    <3>2. /\ SessStep(w, Telling(sess[w])) /\ sess[w] \in Writing /\ sess[w].change.app = sess[w].app
          /\ Telling(sess[w]) \in SyncTell \cup ResolveTell
      BY <3>1, TellingStep
    <3>3. sess'[w] = Telling(sess[w]) /\ \A x \in Sessions \ {w} : sess'[x] = sess[x]
      BY <3>2, SessKeeps DEF TInv
    <3> QED BY <3>1, <3>2, <3>3, AsksAreNotBusy DEF Commits
  <2>6. ASSUME Materialise(w) \/ AnnounceChosen(w) PROVE Still
    <3>1. SessStep(w, Idle) /\ UNCHANGED rows
      BY <2>6, MaterialiseSess, AnnounceChosenSess DEF Materialise, AnnounceChosen
    <3> QED BY <1>0, <3>1, AsksAreNotBusy
  <2>7. ASSUME ResolveConflict(w) PROVE Still
    <3>1. (\A x : ResolveWriting(w, x).pc # "commit") /\ UNCHANGED rows
      BY <2>7 DEF ResolveWriting, ResolveConflict
    <3> QED BY <1>0, <2>7, <3>1, ResolveConflictSess, AsksAreNotBusy
  <2> QED BY <1>2, <2>1, <2>2, <2>3, <2>4, <2>5, <2>6, <2>7 DEF FieldStep
<1>3. ASSUME NEW w \in Sessions, RefreshVenue(w) PROVE Still
  <2>1. UNCHANGED rows
    BY <1>3 DEF RefreshVenue
  <2> QED BY <1>0, <1>3, <2>1, RefreshVenueSess
<1>4. ASSUME NEW w \in Sessions, Crash(w) PROVE Still
  <2>1. SessStep(w, Idle) /\ UNCHANGED rows
    BY <1>4, EndingSess DEF Crash, Abandon
  <2> QED BY <1>0, <2>1, AsksAreNotBusy
<1>5. ASSUME FieldEnvironment PROVE Still \/ \E a \in Apps, st \in AppStatuses : WriteRow(a, st)
  <2>1. ASSUME NEW a \in Apps, NEW acknowledged \in BOOLEAN, ApplyPhysicalTestComplete(a, acknowledged)
        PROVE  Still \/ \E b \in Apps, st \in AppStatuses : WriteRow(b, st)
    BY <2>1, ConsumerCases DEF Completes, Passes, Still, rows
  <2>2. ASSUME (\E t \in Tests : Capture(t)) \/ \E o \in Officers, d \in Devices : Enroll(o, d) \/ Revoke(o, d)
        PROVE  Still
    BY <2>2 DEF Capture, Enroll, Revoke, Still, rows
  <2> QED BY <1>5, <2>1, <2>2 DEF FieldEnvironment
<1>6. ASSUME NextDay \/ (\E m \in {"ADVISORY", "OFF"} : SetMode(m)) \/ UNCHANGED vars PROVE Still
  BY <1>6 DEF NextDay, SetMode, Still, vars, rows
<1>7. ASSUME NEW a \in Apps, Withdraw(a) PROVE \E b \in Apps, st \in AppStatuses : WriteRow(b, st)
  BY <1>7 DEF Withdraw, AppStatuses
<1> QED BY <1>1, <1>2, <1>3, <1>4, <1>5, <1>6, <1>7 DEF Next

LEMMA InitCInv == Init => CInv
BY DEF Init, CInv, CountsAreExact, Busy, Idle

LEMMA NextCInv == TInv /\ TInv' /\ CInv /\ [Next]_vars => CInv'
BY Kinds, CommitWrote, RowWrote, StillCounts, WroteCounts, WritingFields DEF Commits

LEMMA Exact == Spec => []CInv
BY Typed, InitCInv, NextCInv, PTL DEF Spec

----------------------------------------------------------------------------
(* The gate's books *)

\* A stored result is the one its record states, and the record is consistent.
RowMeans(e) == e.outcome = e.record.outcome /\ e.mode = e.record.mode /\ CheckEvidenceConsistency(e.record)

\* What an admission lists is visible evidence of its application.
SeenOK(m) == \A i \in m.seen : \E e \in evidence : e.id = i /\ e.app = m.app /\ e.mode # "SHADOW"

AllSeen(m) == \A e \in evidence : e.app = m.app /\ e.mode # "SHADOW" => e.id \in m.seen

NegativesConfirmed(m) ==
  \A e \in evidence : e.id \in m.seen /\ RequiresManualIdentity(e) =>
     \E x \in Supervisors \ {m.by, e.officer} : ConfirmedBy(e, x)

SeenOrLate(m) ==
  \A e \in evidence : e.app = m.app /\ e.mode # "SHADOW" => (e.id \in m.seen) # e.late

Books ==
  /\ \A m, n \in admissions : m.app = n.app => m = n
  /\ \A a \in Apps : told[a] = IF Admitted(a) THEN 1 ELSE 0
  /\ \A e, f \in evidence : e.id = f.id => e = f
  /\ \A e \in evidence : RowMeans(e) /\ (e.late => Admitted(e.app)) /\ (mode = "SHADOW" => e.mode = "SHADOW")
  /\ \A c \in confirmed : c.by \in Supervisors /\ \E e \in evidence : e.id = c.evidence /\ e.officer # c.by
  /\ \A m \in admissions : SeenOK(m) /\ NegativesConfirmed(m) /\ SeenOrLate(m)

Keyed(s) == s.op = "evidence" /\ s.pc = "key"

\* What a session at the gate, at the tablet or at the supervisor's desk relies on.
AtGate(w) ==
  /\ sess[w].op = "gate" /\ sess[w].pc # "row" => ~Admitted(sess[w].app)
  /\ sess[w].op = "gate" /\ Busy(sess[w]) =>
        \E m \in Admission : /\ sess[w].change.admit = {m} /\ m.app = sess[w].app
                             /\ SeenOK(m) /\ AllSeen(m) /\ NegativesConfirmed(m)

Idling(w) == sess[w].op \in {"sync", "resolve"} /\ Busy(sess[w]) => sess[w].change.admit = {}

AtTablet(w) ==
  /\ sess[w].op = "evidence" /\ sess[w].pc = "identity" =>
        CheckEvidenceConsistency(sess[w].record) /\ (mode = "SHADOW" => sess[w].record.mode = "SHADOW")
  /\ Keyed(sess[w]) =>
        /\ RowMeans(sess[w].row) /\ (mode = "SHADOW" => sess[w].row.mode = "SHADOW")
        /\ sess[w].row.late = Admitted(sess[w].app)
        /\ \A e \in evidence : e.id # sess[w].row.id

AtDesk(w) ==
  sess[w].op = "confirm" =>
     /\ sess[w].found \in evidence /\ sess[w].officer \in Supervisors
     /\ sess[w].pc = "key" => sess[w].officer # sess[w].found.officer

SessGate(w) == AtGate(w) /\ Idling(w) /\ AtTablet(w) /\ AtDesk(w)

\* The unique index: no two transactions hold the same record id.
InFlight ==
  \A w, x \in Sessions : Keyed(sess[w]) /\ Keyed(sess[x]) /\ sess[w].row.id = sess[x].row.id => w = x

GInv == Books /\ InFlight /\ \A w \in Sessions : SessGate(w)

LEMMA GateFrame ==
  ASSUME GInv, UNCHANGED <<admissions, evidence, confirmed, told>>, mode' = "SHADOW" => mode = "SHADOW",
         \A x \in Sessions : sess'[x] = sess[x] \/ SessGate(x)', InFlight'
  PROVE  GInv'
<1>1. Books'
  BY DEF GInv, Books, SeenOK, NegativesConfirmed, SeenOrLate, Admitted, ConfirmedBy
<1>2. ASSUME NEW x \in Sessions, sess'[x] = sess[x] PROVE SessGate(x)'
  <2>1. AtGate(x)' /\ Idling(x)'
    BY <1>2 DEF GInv, SessGate, AtGate, Idling, SeenOK, AllSeen, NegativesConfirmed, Admitted, ConfirmedBy
  <2>2. AtTablet(x)' /\ AtDesk(x)'
    BY <1>2, ZenonT(60) DEF GInv, SessGate, AtTablet, AtDesk, Admitted
  <2> QED BY <2>1, <2>2 DEF SessGate
<1> QED BY <1>1, <1>2 DEF GInv

\* The sessions at work elsewhere rely on nothing here.
LEMMA AwayFromGate ==
  ASSUME NEW w, NEW s2, sess'[w] = s2,
         s2.op \notin {"gate", "evidence", "confirm"} \/ (s2.op = "gate" /\ s2.pc = "row"),
         Busy(s2) => s2.change.admit = {}
  PROVE  SessGate(w)' /\ ~Keyed(s2)
BY DEF SessGate, AtGate, Idling, AtTablet, AtDesk, Keyed, Busy

\* A session's step that leaves the gate's books alone.
LEMMA GateQuiet ==
  ASSUME TInv, GInv, NEW w \in Sessions, NEW s2, SessStep(w, s2), SessGate(w)',
         Keyed(s2) => IndexFree(s2.row.id), UNCHANGED <<admissions, mode, evidence, confirmed, told>>
  PROVE  GInv'
<1>1. sess'[w] = s2 /\ \A x \in Sessions \ {w} : sess'[x] = sess[x]
  BY SessKeeps DEF TInv
<1>2. InFlight'
  BY <1>1 DEF InFlight, GInv, Keyed, IndexFree
<1> QED BY <1>1, <1>2, GateFrame

\* A session that ends or starts away from the books.
LEMMA GateAway ==
  ASSUME TInv, GInv, NEW w \in Sessions, NEW s2, SessStep(w, s2),
         s2.op \notin {"gate", "evidence", "confirm"} \/ (s2.op = "gate" /\ s2.pc = "row"),
         Busy(s2) => s2.change.admit = {}, UNCHANGED <<admissions, mode, evidence, confirmed, told>>
  PROVE  GInv'
<1>1. sess'[w] = s2
  BY SessKeeps DEF TInv
<1>2. SessGate(w)' /\ ~Keyed(s2)
  BY <1>1, AwayFromGate
<1> QED BY <1>2, GateQuiet

LEMMA IdleAway == Idle.op \notin {"gate", "evidence", "confirm"} /\ ~Busy(Idle)
BY DEF Idle, Busy

\* The gate: the row is locked, the evidence looked at.
LEMMA GateLockG ==
  ASSUME TInv, GInv, NEW w \in Sessions, LockApplication(w)
  PROVE  GInv'
<1>0. UNCHANGED <<admissions, mode, evidence, confirmed, told>>
  BY DEF LockApplication, rows, gateVars
<1>1. CASE SessStep(w, Idle)
  BY <1>0, <1>1, GateAway, IdleAway
<1>2. CASE /\ SessStep(w, [sess[w] EXCEPT !.pc = "identity"])
           /\ DecideBeforeIdentity(sess[w].scan, sess[w].today) = "CHECK_IDENTITY"
  <2> DEFINE s2 == [sess[w] EXCEPT !.pc = "identity"]
  <2>1. sess[w] \in GateAsk /\ sess[w].scan.app = sess[w].app
    BY LockApplicationSess
  <2>2. s2.op = "gate" /\ s2.pc = "identity" /\ s2.app = sess[w].app /\ ~Busy(s2) /\ ~Keyed(s2)
    BY <2>1 DEF GateAsk, Busy, Keyed
  <2>3. ~Admitted(sess[w].app)
    BY <1>2, <2>1 DEF DecideBeforeIdentity
  <2> HIDE DEF s2
  <2>4. sess'[w] = s2
    BY <1>2, SessKeeps DEF TInv, s2
  <2>5. SessGate(w)'
    BY <1>0, <2>2, <2>3, <2>4 DEF SessGate, AtGate, Idling, AtTablet, AtDesk, Admitted, Busy, Keyed
  <2> QED BY <1>0, <1>2, <2>2, <2>5, GateQuiet DEF s2
<1> QED BY <1>1, <1>2, LockApplicationSess

LEMMA GateLookG ==
  ASSUME TInv, GInv, NEW w \in Sessions, ResolveGateIdentity(w)
  PROVE  GInv'
<1>0. UNCHANGED <<admissions, mode, evidence, confirmed, told>>
  BY DEF ResolveGateIdentity, rows, gateVars
<1>1. CASE SessStep(w, Idle)
  BY <1>0, <1>1, GateAway, IdleAway
<1>2. CASE /\ SessStep(w, GateWriting(w)) /\ GateEntry(w) \in Admission
           /\ Unresolved(sess[w].app, sess[w].officer) = {}
  <2> DEFINE s2 == GateWriting(w)
  <2>0. PICK m \in Admission, a \in {sess[w].app} : m = GateEntry(w) /\ a = sess[w].app
    BY <1>2
  <2>1. sess[w] \in GateAsk /\ sess[w].pc = "identity" /\ sess[w].op = "gate"
    BY ResolveGateIdentitySess DEF GateAsk
  <2>2. ~Admitted(a)
    BY <2>0, <2>1 DEF GInv, SessGate, AtGate
  <2>3. /\ s2.op = "gate" /\ s2.pc = "venue" /\ s2.app = a /\ s2.change.admit = {m} /\ ~Keyed(s2)
        /\ m.app = a /\ m.by = sess[w].officer /\ m.seen = {e.id : e \in VisibleEvidence(a)}
    BY <2>0 DEF GateWriting, GateEntry, Keyed
  <2>4. SeenOK(m)
    BY <2>3 DEF SeenOK, VisibleEvidence
  <2>5. AllSeen(m)
    BY <2>3 DEF AllSeen, VisibleEvidence
  <2>6. NegativesConfirmed(m)
    <3> SUFFICES ASSUME NEW e \in evidence, e.id \in m.seen, RequiresManualIdentity(e)
                 PROVE \E x \in Supervisors \ {m.by, e.officer} : ConfirmedBy(e, x)
      BY DEF NegativesConfirmed
    <3>1. e \in VisibleEvidence(a)
      <4>1. PICK f \in VisibleEvidence(a) : f.id = e.id
        BY <2>3
      <4> QED BY <4>1 DEF VisibleEvidence, GInv, Books
    <3>2. PICK x \in Officers \ {sess[w].officer} : ConfirmedBy(e, x)
      BY <1>2, <2>0, <3>1 DEF Unresolved
    <3>3. [evidence |-> e.id, by |-> x] \in confirmed
      BY <3>2 DEF ConfirmedBy
    <3>4. x \in Supervisors /\ \E f \in evidence : f.id = e.id /\ f.officer # x
      BY <3>3 DEF GInv, Books
    <3>5. e.officer # x
      BY <3>4 DEF GInv, Books
    <3> QED BY <2>3, <3>2, <3>4, <3>5
  <2> HIDE DEF s2
  <2>7. sess'[w] = s2
    BY <1>2, SessKeeps DEF TInv, s2
  <2>8. SeenOK(m)' /\ AllSeen(m)' /\ NegativesConfirmed(m)' /\ ~Admitted(a)'
    BY <1>0, <2>2, <2>4, <2>5, <2>6 DEF SeenOK, AllSeen, NegativesConfirmed, ConfirmedBy, Admitted
  <2>9. AtGate(w)'
    BY <2>3, <2>7, <2>8 DEF AtGate
  <2>10. SessGate(w)'
    BY <2>3, <2>7, <2>9 DEF SessGate, Idling, AtTablet, AtDesk, Keyed
  <2> QED BY <1>0, <1>2, <2>3, <2>10, GateQuiet DEF s2
<1> QED BY <1>1, <1>2, ResolveGateIdentitySess

LEMMA CountingG ==
  ASSUME TInv, GInv, NEW w \in Sessions, RefreshVenue(w), UNCHANGED gateVars
  PROVE  GInv'
<1>0. UNCHANGED <<admissions, mode, evidence, confirmed, told>>
  BY DEF RefreshVenue, rows, gateVars
<1> DEFINE s2 == Counting(w)
           f == Recount(VenueOf[sess[w].app], StatusAfter(sess[w].change),
                        AdmissionsAfter(sess[w].change), ScoresAfter(sess[w].change))
<1>1. SessStep(w, s2) /\ sess[w] \in Writing /\ sess[w].pc = "venue" /\ f \in Tally /\ CountsTo(sess[w], f, s2)
  BY RefreshVenueSess, RecountType DEF Counting, CountsTo
<1> HIDE DEF s2, f
<1>2. s2.op = sess[w].op /\ s2.pc = "commit" /\ s2.app = sess[w].app /\ s2.change = sess[w].change
  BY <1>1, CountingIs
<1>3. Busy(sess[w]) /\ Busy(s2) /\ ~Keyed(s2) /\ sess[w].op \in {"gate", "sync", "resolve"}
  BY <1>1, <1>2, WritingFields DEF Busy, Keyed
<1>4. sess'[w] = s2
  BY <1>1, SessKeeps DEF TInv
<1>5. AtGate(w)'
  BY <1>0, <1>1, <1>2, <1>3, <1>4 DEF GInv, SessGate, AtGate, SeenOK, AllSeen, NegativesConfirmed, ConfirmedBy, Admitted
<1>6. SessGate(w)'
  BY <1>2, <1>3, <1>4, <1>5 DEF GInv, SessGate, Idling, AtTablet, AtDesk, Keyed
<1> QED BY <1>0, <1>1, <1>3, <1>6, GateQuiet

\* The tablet: a record is checked, then written.
LEMMA SubmitG ==
  ASSUME TInv, GInv, NEW w \in Sessions, NEW o \in Officers, NEW r \in Records, Submit(w, o, r)
  PROVE  GInv'
<1>0. UNCHANGED <<admissions, mode, evidence, confirmed, told>>
  BY DEF Submit, rows, gateVars
<1> DEFINE s2 == [op |-> "evidence", pc |-> "identity", app |-> r.app, officer |-> o, record |-> r]
<1>1. SessStep(w, s2) /\ s2.op = "evidence" /\ s2.pc = "identity" /\ s2.record = r
  BY SubmitSess
<1>2. CheckEvidenceConsistency(r) /\ r.mode = mode
  BY DEF Submit, Accepts, ModeGate
<1> HIDE DEF s2
<1>3. sess'[w] = s2
  BY <1>1, SessKeeps DEF TInv
<1>4. SessGate(w)' /\ ~Keyed(s2)
  BY <1>0, <1>1, <1>2, <1>3 DEF SessGate, AtGate, Idling, AtTablet, AtDesk, Keyed, Busy
<1> QED BY <1>0, <1>1, <1>4, GateQuiet

LEMMA RecordEvidenceG ==
  ASSUME TInv, GInv, NEW w \in Sessions, RecordEvidence(w)
  PROVE  GInv'
<1>0. UNCHANGED <<admissions, mode, evidence, confirmed, told>>
  BY DEF RecordEvidence, rows, gateVars
<1>1. CASE SessStep(w, Idle)
  BY <1>0, <1>1, GateAway, IdleAway
<1>2. CASE /\ SessStep(w, EvidenceWriting(sess[w].record, sess[w].officer))
           /\ IndexFree(sess[w].record.id) /\ ~\E e \in evidence : e.id = sess[w].record.id
  <2> DEFINE r == sess[w].record
             s2 == EvidenceWriting(r, sess[w].officer)
  <2>1. sess[w] \in EvidenceAsk /\ r.app = sess[w].app /\ sess[w].op = "evidence" /\ sess[w].pc = "identity"
    BY RecordEvidenceSess DEF EvidenceAsk
  <2>2. CheckEvidenceConsistency(r) /\ (mode = "SHADOW" => r.mode = "SHADOW")
    BY <2>1 DEF GInv, SessGate, AtTablet
  <2>3. /\ s2.op = "evidence" /\ s2.pc = "key" /\ s2.app = r.app
        /\ s2.row.id = r.id /\ s2.row.outcome = r.outcome /\ s2.row.mode = r.mode /\ s2.row.record = r
        /\ s2.row.late = Admitted(r.app)
    BY DEF EvidenceWriting, EvidenceRow
  <2> HIDE DEF s2
  <2>4. sess'[w] = s2
    BY <1>2, SessKeeps DEF TInv, s2
  <2>5. AtTablet(w)'
    BY <1>0, <1>2, <2>2, <2>3, <2>4 DEF AtTablet, RowMeans, Admitted, Keyed
  <2>6. SessGate(w)'
    BY <2>3, <2>4, <2>5 DEF SessGate, AtGate, Idling, AtDesk
  <2> QED BY <1>0, <1>2, <2>3, <2>6, GateQuiet DEF s2
<1> QED BY <1>1, <1>2, RecordEvidenceSess

\* The supervisor: the evidence is found, then confirmed.
LEMMA ConfirmG ==
  ASSUME TInv, GInv, NEW w \in Sessions, NEW o \in Officers, NEW e \in evidence, Confirm(w, o, e)
  PROVE  GInv'
<1>0. UNCHANGED <<admissions, mode, evidence, confirmed, told>>
  BY DEF Confirm, rows, gateVars
<1> DEFINE s2 == [op |-> "confirm", pc |-> "identity", app |-> e.app, officer |-> o, found |-> e]
<1>1. SessStep(w, s2) /\ s2.op = "confirm" /\ s2.pc = "identity" /\ s2.found = e /\ s2.officer = o
  BY ConfirmSess
<1>2. o \in Supervisors
  BY DEF Confirm, ActiveOfficer
<1> HIDE DEF s2
<1>3. sess'[w] = s2
  BY <1>1, SessKeeps DEF TInv
<1>4. SessGate(w)' /\ ~Keyed(s2)
  BY <1>0, <1>1, <1>2, <1>3 DEF SessGate, AtGate, Idling, AtTablet, AtDesk, Keyed, Busy
<1> QED BY <1>0, <1>1, <1>4, GateQuiet

LEMMA ConfirmManualIdentityG ==
  ASSUME TInv, GInv, NEW w \in Sessions, ConfirmManualIdentity(w)
  PROVE  GInv'
<1>0. UNCHANGED <<admissions, mode, evidence, confirmed, told>>
  BY DEF ConfirmManualIdentity, rows, gateVars
<1>1. CASE SessStep(w, Idle)
  BY <1>0, <1>1, GateAway, IdleAway
<1>2. CASE SessStep(w, [sess[w] EXCEPT !.pc = "key"]) /\ MayConfirm(sess[w].found, sess[w].officer)
  <2> DEFINE s2 == [sess[w] EXCEPT !.pc = "key"]
  <2>1. sess[w] \in Confirming /\ sess[w].op = "confirm"
    BY ConfirmManualIdentitySess DEF Confirming
  <2>2. s2.op = "confirm" /\ s2.pc = "key" /\ s2.found = sess[w].found /\ s2.officer = sess[w].officer
    BY <2>1 DEF Confirming
  <2>3. sess[w].found \in evidence /\ sess[w].officer \in Supervisors /\ sess[w].officer # sess[w].found.officer
    BY <1>2, <2>1 DEF GInv, SessGate, AtDesk, MayConfirm
  <2> HIDE DEF s2
  <2>4. sess'[w] = s2
    BY <1>2, SessKeeps DEF TInv, s2
  <2>5. SessGate(w)' /\ ~Keyed(s2)
    BY <1>0, <2>2, <2>3, <2>4 DEF SessGate, AtGate, Idling, AtTablet, AtDesk, Keyed, Busy
  <2> QED BY <1>0, <1>2, <2>5, GateQuiet DEF s2
<1> QED BY <1>1, <1>2, ConfirmManualIdentitySess

\* The three commits of the gate.
LEMMA CommitConfirmationG ==
  ASSUME TInv, GInv, NEW w \in Sessions, CommitConfirmation(w)
  PROVE  GInv'
<1>1. sess[w] \in Confirming /\ sess[w].op = "confirm" /\ sess[w].pc = "key"
  BY Shapes DEF CommitConfirmation, TInv, SessOK
<1>2. sess[w].found \in evidence /\ sess[w].officer \in Supervisors /\ sess[w].officer # sess[w].found.officer
  BY <1>1 DEF GInv, SessGate, AtDesk
<1>3. PICK c : c = [evidence |-> sess[w].found.id, by |-> sess[w].officer]
  OBVIOUS
<1>4. /\ c.by \in Supervisors /\ \E e \in evidence : e.id = c.evidence /\ e.officer # c.by
      /\ confirmed' = confirmed \cup {c}
      /\ UNCHANGED <<admissions, mode, evidence, told>>
  BY <1>2, <1>3 DEF CommitConfirmation, rows
<1>5. sess'[w] = Idle /\ \A x \in Sessions \ {w} : sess'[x] = sess[x]
  BY DEF CommitConfirmation, TInv, SessOK
<1>6. ASSUME NEW m, NegativesConfirmed(m) PROVE NegativesConfirmed(m)'
  BY <1>4, <1>6 DEF NegativesConfirmed, ConfirmedBy
<1>7. Books'
  <2>1. \A m \in admissions' : SeenOK(m)' /\ NegativesConfirmed(m)' /\ SeenOrLate(m)'
    BY <1>4, <1>6 DEF GInv, Books, SeenOK, SeenOrLate
  <2>2. \A d \in confirmed' : d.by \in Supervisors /\ \E e \in evidence' : e.id = d.evidence /\ e.officer # d.by
    BY <1>4 DEF GInv, Books
  <2> QED BY <1>4, <2>1, <2>2 DEF GInv, Books, Admitted
<1>8. ASSUME NEW x \in Sessions PROVE SessGate(x)' /\ (Keyed(sess'[x]) => x # w)
  <2>1. CASE x = w
    BY <1>5, <2>1, AwayFromGate, IdleAway
  <2>2. CASE x # w
    <3>1. sess'[x] = sess[x]
      BY <1>5, <2>2
    <3>2. AtGate(x)'
      BY <1>4, <1>6, <3>1 DEF GInv, SessGate, AtGate, SeenOK, AllSeen, Admitted
    <3>3. Idling(x)' /\ AtTablet(x)' /\ AtDesk(x)'
      <4>1. Idling(x) /\ AtTablet(x) /\ AtDesk(x) /\ UNCHANGED <<admissions, mode, evidence>>
        BY <1>4 DEF GInv, SessGate
      <4>2. Idling(x)'
        BY <3>1, <4>1 DEF Idling
      <4>3. AtTablet(x)'
        BY <3>1, <4>1 DEF AtTablet, Admitted
      <4>4. AtDesk(x)'
        BY <3>1, <4>1 DEF AtDesk
      <4> QED BY <4>2, <4>3, <4>4
    <3> QED BY <2>2, <3>2, <3>3 DEF SessGate
  <2> QED BY <2>1, <2>2
<1>9. InFlight'
  BY <1>5, <1>8 DEF GInv, InFlight
<1> QED BY <1>7, <1>8, <1>9 DEF GInv

LEMMA CommitEvidenceG ==
  ASSUME TInv, GInv, NEW w \in Sessions, CommitEvidence(w)
  PROVE  GInv'
<1>1. sess[w] \in EvidenceWrite /\ Keyed(sess[w]) /\ sess[w].row.app = sess[w].app
  BY Shapes DEF CommitEvidence, TInv, SessOK, Own, Keyed
<1>2. PICK n, a : n = sess[w].row /\ a = sess[w].app
  OBVIOUS
<1>3. /\ n \in Evidence /\ n.app = a /\ a \in Apps /\ RowMeans(n) /\ (mode = "SHADOW" => n.mode = "SHADOW")
      /\ n.late = Admitted(a) /\ \A e \in evidence : e.id # n.id
  BY <1>1, <1>2 DEF GInv, SessGate, AtTablet, EvidenceWrite
<1>4. evidence' = evidence \cup {n} /\ UNCHANGED <<admissions, mode, confirmed, told>>
  BY <1>2 DEF CommitEvidence, rows
<1>5. sess'[w] = Idle /\ \A x \in Sessions \ {w} : sess'[x] = sess[x]
  BY DEF CommitEvidence, TInv, SessOK
<1>6. ASSUME NEW m, SeenOK(m) PROVE SeenOK(m)' /\ n.id \notin m.seen
  BY <1>3, <1>4, <1>6 DEF SeenOK
<1>7. ASSUME NEW m, SeenOK(m), NegativesConfirmed(m) PROVE NegativesConfirmed(m)'
  BY <1>4, <1>6, <1>7 DEF NegativesConfirmed, ConfirmedBy
<1>8. ASSUME NEW m \in admissions PROVE SeenOrLate(m)'
  <2>1. m.app = a => Admitted(a)
    BY DEF Admitted
  <2>2. n.id \notin m.seen /\ SeenOrLate(m)
    BY <1>6 DEF GInv, Books
  <2> QED BY <1>3, <1>4, <2>1, <2>2 DEF SeenOrLate
<1>9. Books'
  <2>1. \A m \in admissions' : SeenOK(m)' /\ NegativesConfirmed(m)' /\ SeenOrLate(m)'
    BY <1>4, <1>6, <1>7, <1>8 DEF GInv, Books
  <2>2. \A e, f \in evidence' : e.id = f.id => e = f
    BY <1>3, <1>4 DEF GInv, Books
  <2>3. \A e \in evidence' : RowMeans(e) /\ (e.late => Admitted(e.app)) /\ (mode = "SHADOW" => e.mode = "SHADOW")
    BY <1>3, <1>4 DEF GInv, Books
  <2>4. \A c \in confirmed' : c.by \in Supervisors /\ \E e \in evidence' : e.id = c.evidence /\ e.officer # c.by
    BY <1>4 DEF GInv, Books
  <2> QED BY <1>4, <2>1, <2>2, <2>3, <2>4 DEF GInv, Books, Admitted, RowMeans
<1>10. ASSUME NEW x \in Sessions PROVE SessGate(x)' /\ (Keyed(sess'[x]) => x # w)
  <2>1. CASE x = w
    BY <1>5, <2>1, AwayFromGate, IdleAway
  <2>2. CASE x # w
    <3>1. sess'[x] = sess[x]
      BY <1>5, <2>2
    <3>2. AtGate(x)'
      <4>1. CASE sess[x].op = "gate" /\ Busy(sess[x])
        <5>1. sess[x].app \in IdentityKeys(sess[x]) /\ a \in IdentityKeys(sess[w])
          BY <1>1, <1>2, <4>1 DEF IdentityKeys, Busy, Keyed
        <5>2. sess[x].app # a
          BY <1>3, <2>2, <5>1, Exclusive
        <5>3. PICK m \in Admission : /\ sess[x].change.admit = {m} /\ m.app = sess[x].app
                                     /\ SeenOK(m) /\ AllSeen(m) /\ NegativesConfirmed(m)
          BY <4>1 DEF GInv, SessGate, AtGate
        <5>4. AllSeen(m)'
          BY <1>3, <1>4, <5>2, <5>3 DEF AllSeen
        <5>5. SeenOK(m)' /\ NegativesConfirmed(m)'
          BY <1>6, <1>7, <5>3
        <5>6. ~Admitted(sess[x].app)
          BY <4>1 DEF GInv, SessGate, AtGate, Busy
        <5> QED BY <1>4, <3>1, <5>3, <5>4, <5>5, <5>6 DEF AtGate, Admitted
      <4>2. CASE ~(sess[x].op = "gate" /\ Busy(sess[x]))
        BY <1>4, <3>1, <4>2 DEF GInv, SessGate, AtGate, Admitted
      <4> QED BY <4>1, <4>2
    <3>3. AtTablet(x)'
      <4>1. Keyed(sess[x]) => sess[x].row.id # n.id
        BY <1>1, <1>2, <2>2 DEF GInv, InFlight
      <4> QED BY <1>4, <3>1, <4>1 DEF GInv, SessGate, AtTablet, Admitted
    <3>4. Idling(x)' /\ AtDesk(x)'
      BY <1>4, <3>1 DEF GInv, SessGate, Idling, AtDesk
    <3> QED BY <2>2, <3>2, <3>3, <3>4 DEF SessGate
  <2> QED BY <2>1, <2>2
<1>11. InFlight'
  BY <1>5, <1>10 DEF GInv, InFlight
<1> QED BY <1>9, <1>10, <1>11 DEF GInv

LEMMA CommitAdmissionG ==
  ASSUME TInv, GInv, NEW w \in Sessions, CommitAdmission(w)
  PROVE  GInv'
<1>1. sess[w] \in Writing /\ sess[w].op = "gate" /\ sess[w].pc = "commit" /\ Busy(sess[w])
      /\ sess[w].app \in Apps /\ sess[w].change.app = sess[w].app
  BY Shapes, WritingFields DEF CommitAdmission, TInv, SessOK, Own, Busy
<1>2. PICK a : a = sess[w].app
  OBVIOUS
<1>3. ~Admitted(a)
  BY <1>1, <1>2 DEF GInv, SessGate, AtGate
<1>4. PICK m \in Admission : /\ sess[w].change.admit = {m} /\ m.app = a
                             /\ SeenOK(m) /\ AllSeen(m) /\ NegativesConfirmed(m)
  BY <1>1, <1>2 DEF GInv, SessGate, AtGate
<1>5. /\ admissions' = admissions \cup {m} /\ told' = [told EXCEPT ![a] = @ + 1]
      /\ UNCHANGED <<mode, evidence, confirmed>>
  BY <1>2, <1>4 DEF CommitAdmission, Publish, AdmissionsAfter
<1>6. sess'[w] = Idle /\ \A x \in Sessions \ {w} : sess'[x] = sess[x]
  BY DEF CommitAdmission, TInv, SessOK
<1>7. Admitted(a)' /\ \A b : b # a => Admitted(b)' = Admitted(b)
  BY <1>4, <1>5 DEF Admitted
<1>8. ASSUME NEW k, SeenOK(k), NegativesConfirmed(k) PROVE SeenOK(k)' /\ NegativesConfirmed(k)'
  BY <1>5, <1>8 DEF SeenOK, NegativesConfirmed, ConfirmedBy
<1>9. SeenOrLate(m)
  <2>1. \A e \in evidence : e.app = a => ~e.late
    BY <1>3 DEF GInv, Books
  <2>2. \A e \in evidence : e.late \in BOOLEAN
    BY DEF TInv, GateOK, Evidence
  <2> QED BY <1>4, <2>1, <2>2 DEF SeenOrLate, AllSeen
<1>10. Books'
  <2>1. \A k \in admissions' : SeenOK(k)' /\ NegativesConfirmed(k)' /\ SeenOrLate(k)'
    BY <1>4, <1>5, <1>8, <1>9 DEF GInv, Books, SeenOrLate
  <2>2. \A k, n \in admissions' : k.app = n.app => k = n
    BY <1>3, <1>4, <1>5 DEF GInv, Books, Admitted
  <2>3. ASSUME NEW b \in Apps PROVE told'[b] = IF Admitted(b)' THEN 1 ELSE 0
    <3>1. told[b] = IF Admitted(b) THEN 1 ELSE 0
      BY DEF GInv, Books
    <3> QED BY <1>1, <1>2, <1>3, <1>5, <1>7, <3>1 DEF TInv, GateOK
  <2>4. \A e \in evidence' : e.late => Admitted(e.app)'
    BY <1>5, <1>7 DEF GInv, Books
  <2> QED BY <1>5, <2>1, <2>2, <2>3, <2>4 DEF GInv, Books, RowMeans
<1>11. ASSUME NEW x \in Sessions PROVE SessGate(x)' /\ (Keyed(sess'[x]) => x # w)
  <2>1. CASE x = w
    BY <1>6, <2>1, AwayFromGate, IdleAway
  <2>2. CASE x # w
    <3>1. sess'[x] = sess[x] /\ sess[x] \in Session
      BY <1>6, <2>2 DEF TInv, SessOK
    <3>2. a \in RowKeys(sess[w]) /\ a \in IdentityKeys(sess[w])
      BY <1>1, <1>2 DEF RowKeys, IdentityKeys
    <3>3. AtGate(x)'
      <4>1. CASE sess[x].op = "gate" /\ sess[x].pc # "row"
        <5>1. sess[x].app \in RowKeys(sess[x])
          BY <4>1, <3>1, Shapes DEF RowKeys, GateAsk, GateWrite
        <5>2. sess[x].app # a
          BY <1>1, <1>2, <2>2, <3>2, <5>1, Exclusive
        <5>3. ~Admitted(sess[x].app) /\ ~Admitted(sess[x].app)'
          BY <1>7, <3>1, <4>1, <5>2 DEF GInv, SessGate, AtGate
        <5>4. Busy(sess[x]) => \E k \in Admission : /\ sess[x].change.admit = {k} /\ k.app = sess[x].app
                                                     /\ SeenOK(k)' /\ AllSeen(k)' /\ NegativesConfirmed(k)'
          BY <1>5, <1>8, <4>1 DEF GInv, SessGate, AtGate, AllSeen
        <5> QED BY <3>1, <5>3, <5>4 DEF AtGate
      <4>2. CASE ~(sess[x].op = "gate" /\ sess[x].pc # "row")
        BY <3>1, <4>2 DEF AtGate, Busy
      <4> QED BY <4>1, <4>2
    <3>4. AtTablet(x)'
      <4>1. ASSUME Keyed(sess[x]) PROVE sess[x].app # a
        <5>1. sess[x].app \in IdentityKeys(sess[x])
          BY <4>1 DEF IdentityKeys, Keyed
        <5> QED BY <1>1, <1>2, <2>2, <3>2, <5>1, Exclusive
      <4>2. Keyed(sess[x]) => Admitted(sess[x].app)' = Admitted(sess[x].app)
        BY <1>7, <3>1, <4>1
      <4> QED BY <1>5, <3>1, <4>2 DEF GInv, SessGate, AtTablet
    <3>5. Idling(x)' /\ AtDesk(x)'
      BY <1>5, <3>1 DEF GInv, SessGate, Idling, AtDesk
    <3> QED BY <2>2, <3>3, <3>4, <3>5 DEF SessGate
  <2> QED BY <2>1, <2>2
<1>12. InFlight'
  BY <1>6, <1>11 DEF GInv, InFlight
<1> QED BY <1>10, <1>11, <1>12 DEF GInv

LEMMA GateStepG ==
  ASSUME TInv, GInv, NEW w \in Sessions, GateStep(w)
  PROVE  GInv'
<1>1. ASSUME NEW o \in Officers, NEW s \in Scans, Scan(w, o, s) PROVE GInv'
  <2> DEFINE s2 == [op |-> "gate", pc |-> "row", app |-> s.app, officer |-> o, scan |-> s, today |-> day]
  <2>1. SessStep(w, s2) /\ s2.op = "gate" /\ s2.pc = "row" /\ UNCHANGED <<admissions, mode, evidence, confirmed, told>>
    BY <1>1, ScanSess DEF Scan, rows, gateVars
  <2> HIDE DEF s2
  <2> QED BY <2>1, GateAway DEF Busy
<1>2. ASSUME DeadlockVictim(w) PROVE GInv'
  <2>1. SessStep(w, Idle) /\ UNCHANGED <<admissions, mode, evidence, confirmed, told>>
    BY <1>2, EndingSess DEF DeadlockVictim, Abandon, rows
  <2> QED BY <2>1, GateAway, IdleAway
<1>3. ASSUME NEW o \in Officers, NEW r \in Records, Submit(w, o, r) PROVE GInv'
  BY <1>3, SubmitG
<1>4. ASSUME NEW o \in Officers, NEW e \in evidence, Confirm(w, o, e) PROVE GInv'
  BY <1>4, ConfirmG
<1> QED BY <1>1, <1>2, <1>3, <1>4, GateLockG, GateLookG, CommitAdmissionG, RecordEvidenceG, CommitEvidenceG,
           ConfirmManualIdentityG, CommitConfirmationG DEF GateStep

LEMMA FieldStepG ==
  ASSUME TInv, GInv, NEW w \in Sessions, FieldStep(w), UNCHANGED gateVars
  PROVE  GInv'
<1>0. UNCHANGED <<mode, evidence, confirmed, told>>
  BY DEF gateVars
<1>1. ASSUME NEW o \in Officers, NEW r \in captured, Upload(w, o, r) PROVE GInv'
  <2> DEFINE s2 == [op |-> "sync", pc |-> "device", app |-> r.app, officer |-> o, record |-> r]
  <2>1. SessStep(w, s2) /\ s2.op = "sync" /\ s2.pc = "device" /\ UNCHANGED admissions
    BY <1>1, UploadSess DEF Upload, rows
  <2> HIDE DEF s2
  <2> QED BY <1>0, <2>1, GateAway DEF Busy
<1>2. ASSUME NEW o \in Officers, NEW s \in scores, Resolve(w, o, s) PROVE GInv'
  <2> DEFINE s2 == [op |-> "resolve", pc |-> "row", app |-> s.app,
                    pick |-> [device |-> s.device, clock |-> s.clock]]
  <2>1. SessStep(w, s2) /\ s2.op = "resolve" /\ s2.pc = "row" /\ UNCHANGED admissions
    BY <1>2, ResolveSess DEF Resolve, rows
  <2> HIDE DEF s2
  <2> QED BY <1>0, <2>1, GateAway DEF Busy
<1>3. ASSUME CheckDevice(w) PROVE GInv'
  <2>1. [sess[w] EXCEPT !.pc = "row"] \in SyncAsk /\ UNCHANGED admissions
    BY <1>3, CheckDeviceSess DEF SyncAsk, CheckDevice, rows
  <2>2. PICK s2 : SessStep(w, s2) /\ (s2 = Idle \/ s2 \in SyncAsk)
    BY <1>3, <2>1, CheckDeviceSess
  <2>3. s2.op \notin {"gate", "evidence", "confirm"} /\ ~Busy(s2)
    BY <2>2, IdleAway, AsksAreNotBusy DEF SyncAsk
  <2> QED BY <1>0, <2>1, <2>2, <2>3, GateAway
<1>4. ASSUME StoreScore(w) PROVE GInv'
  <2>1. UNCHANGED admissions
    BY <1>4 DEF StoreScore, rows
  <2>2. PICK k : SessStep(w, Idle) \/ SessStep(w, SyncWriting(w, k))
    BY <1>4, StoreScoreSess
  <2>3. SyncWriting(w, k).op = "sync" /\ SyncWriting(w, k).change.admit = {}
    BY DEF SyncWriting
  <2> QED BY <1>0, <2>1, <2>2, <2>3, GateAway, IdleAway
<1>5. ASSUME CommitScore(w) \/ CommitResolution(w) PROVE GInv'
  <2>1. /\ sess[w].op \in {"sync", "resolve"} /\ sess[w].pc = "commit" /\ Release(w) /\ Publish(w)
        /\ sess' = [sess EXCEPT ![w].pc = "announce", ![w].change = None, ![w].fresh = None]
    BY <1>5 DEF CommitScore, CommitResolution
  <2>2. SessStep(w, Telling(sess[w])) /\ Telling(sess[w]) \in SyncTell \cup ResolveTell
    BY <2>1, TellingStep
  <2>3. Telling(sess[w]).op \notin {"gate", "evidence", "confirm"} /\ ~Busy(Telling(sess[w]))
    BY <2>2, AsksAreNotBusy DEF SyncTell, ResolveTell
  <2>4. UNCHANGED admissions
    BY <2>1 DEF GInv, SessGate, Idling, Busy, Publish, AdmissionsAfter
  <2> QED BY <1>0, <2>2, <2>3, <2>4, GateAway
<1>6. ASSUME Materialise(w) \/ AnnounceChosen(w) PROVE GInv'
  <2>1. SessStep(w, Idle) /\ UNCHANGED admissions
    BY <1>6, MaterialiseSess, AnnounceChosenSess DEF Materialise, AnnounceChosen, rows
  <2> QED BY <1>0, <2>1, GateAway, IdleAway
<1>7. ASSUME ResolveConflict(w) PROVE GInv'
  <2>1. UNCHANGED admissions
    BY <1>7 DEF ResolveConflict, rows
  <2>2. PICK x : SessStep(w, Idle) \/ SessStep(w, ResolveWriting(w, x))
    BY <1>7, ResolveConflictSess
  <2>3. ResolveWriting(w, x).op = "resolve" /\ ResolveWriting(w, x).change.admit = {}
    BY DEF ResolveWriting
  <2> QED BY <1>0, <2>1, <2>2, <2>3, GateAway, IdleAway
<1> QED BY <1>1, <1>2, <1>3, <1>4, <1>5, <1>6, <1>7 DEF FieldStep

LEMMA InitGInv == Init => GInv
<1> SUFFICES ASSUME Init PROVE GInv
  OBVIOUS
<1>1. Books
  BY DEF Init, Books, Admitted
<1>2. \A w \in Sessions : SessGate(w) /\ ~Keyed(sess[w])
  BY DEF Init, SessGate, AtGate, Idling, AtTablet, AtDesk, Keyed, Idle
<1> QED BY <1>1, <1>2 DEF GInv, InFlight

LEMMA NextGInv == TInv /\ GInv /\ [Next]_vars => GInv'
<1> SUFFICES ASSUME TInv, GInv, [Next]_vars PROVE GInv'
  OBVIOUS
<1>0. ASSUME UNCHANGED <<admissions, evidence, confirmed, told, sess>>, mode' = "SHADOW" => mode = "SHADOW" PROVE GInv'
  <2>1. InFlight'
    BY <1>0 DEF GInv, InFlight
  <2> QED BY <1>0, <2>1, GateFrame
<1>1. CASE UNCHANGED vars
  BY <1>0, <1>1 DEF vars, rows, gateVars
<1>2. ASSUME NEW w \in Sessions, GateStep(w) PROVE GInv'
  BY <1>2, GateStepG
<1>3. ASSUME NEW w \in Sessions, FieldStep(w) /\ UNCHANGED gateVars PROVE GInv'
  BY <1>3, FieldStepG
<1>4. ASSUME NEW w \in Sessions, RefreshVenue(w) /\ UNCHANGED gateVars PROVE GInv'
  BY <1>4, CountingG
<1>5. ASSUME NEW w \in Sessions, Crash(w) /\ UNCHANGED gateVars PROVE GInv'
  <2>1. SessStep(w, Idle) /\ UNCHANGED <<admissions, mode, evidence, confirmed, told>>
    BY <1>5, EndingSess DEF Crash, Abandon, rows, gateVars
  <2> QED BY <2>1, GateAway, IdleAway
<1>6. ASSUME FieldEnvironment /\ UNCHANGED gateVars PROVE GInv'
  <2>1. UNCHANGED <<admissions, sess>>
    <3>1. ASSUME NEW a \in Apps, NEW acknowledged \in BOOLEAN, ApplyPhysicalTestComplete(a, acknowledged)
          PROVE  UNCHANGED <<admissions, sess>>
      BY <3>1, ConsumerCases DEF Completes, Passes, WriteRow, rows
    <3> QED BY <1>6, <3>1 DEF FieldEnvironment, Capture, Enroll, Revoke, rows
  <2> QED BY <1>0, <1>6, <2>1 DEF gateVars
<1>7. ASSUME NextDay \/ \E m \in {"ADVISORY", "OFF"} : SetMode(m) PROVE GInv'
  BY <1>0, <1>7 DEF NextDay, SetMode, rows
<1>8. ASSUME NEW a \in Apps, Withdraw(a) /\ UNCHANGED gateVars PROVE GInv'
  BY <1>0, <1>8 DEF Withdraw, WriteRow, gateVars
<1> QED BY <1>1, <1>2, <1>3, <1>4, <1>5, <1>6, <1>7, <1>8 DEF Next

LEMMA Gated == Spec => []GInv
BY Typed, InitGInv, NextGInv, PTL DEF Spec

\* The rows are typed, locks have an owner at work, an application is admitted
\* once and one gate is told so, the live counts are the rows at every moment,
\* and a ticket the portal calls READY opens its gate: for any number of
\* sessions, officers and applications.
THEOREM AdmissionExact == Spec => []AdmissionIsExact
<1>1. TInv => TypeOK
  <2> SUFFICES ASSUME TInv PROVE TypeOK
    OBVIOUS
  <2>1. ASSUME NEW lock \in {rowLock, identityLock, venueLock}, NEW k \in DOMAIN lock, lock[k] # None
        PROVE  lock[k] \in Sessions /\ sess[lock[k]].op # "idle"
    <3>1. PICK w : w = lock[k]
      OBVIOUS
    <3>2. w \in Sessions
      BY <2>1, <3>1 DEF TInv, LocksOK
    <3>3. k \in RowKeys(sess[w]) \/ k \in IdentityKeys(sess[w]) \/ k \in VenueKeys(sess[w])
      BY <2>1, <3>1, <3>2 DEF TInv, LocksOK, Agrees
    <3> QED BY <3>1, <3>2, <3>3 DEF RowKeys, IdentityKeys, VenueKeys
  <2>2. (\A m \in admissions : m.app \in Apps /\ m.by \in Officers)
        /\ (\A s \in scores : s.app \in Apps /\ s.clock \in [Devices -> Nat] /\ s.conflict \in BOOLEAN)
        /\ (\A e \in evidence : e.app \in Apps /\ e.outcome \in Outcomes /\ e.late \in BOOLEAN)
    BY DEF TInv, RowsOK, GateOK, Admission, Score, Clocks, Evidence
  <2> QED BY <2>1, <2>2 DEF TypeOK, TInv, RowsOK
<1>2. GInv => AdmittedOnce
  <2> SUFFICES ASSUME GInv, NEW a \in Apps
               PROVE Cardinality({m \in admissions : m.app = a}) <= 1 /\ told[a] <= 1
    BY DEF AdmittedOnce
  <2>1. told[a] <= 1
    BY DEF GInv, Books
  <2>2. CASE \E m \in admissions : m.app = a
    <3>1. PICK m \in admissions : m.app = a
      BY <2>2
    <3>2. {n \in admissions : n.app = a} = {m}
      BY <3>1 DEF GInv, Books
    <3> QED BY <2>1, <3>2, FS_Singleton
  <2>3. CASE ~\E m \in admissions : m.app = a
    <3>1. {n \in admissions : n.app = a} = {}
      BY <2>3
    <3> QED BY <2>1, <3>1, FS_EmptySet
  <2> QED BY <2>2, <2>3
<1>3. TInv => ReadyIsAdmissible
  <2> SUFFICES ASSUME TInv, NEW a \in Apps, DecideInvitation(a) = "READY", day = "exam"
               PROVE DecideBeforeIdentity([app |-> a, genuine |-> TRUE, venue |-> VenueOf[a]], day) = "CHECK_IDENTITY"
    BY DEF ReadyIsAdmissible
  <2>1. status[a] \in AppStatuses
    BY DEF TInv, RowsOK
  <2>2. status[a] \in AdmissibleStatuses /\ ~Admitted(a)
    BY <2>1 DEF DecideInvitation, AppStatuses, Roster, AdmissibleStatuses
  <2> QED BY <2>2 DEF DecideBeforeIdentity
<1>4. TInv /\ CInv /\ GInv => AdmissionIsExact
  BY <1>1, <1>2, <1>3 DEF AdmissionIsExact, CInv
<1> QED BY <1>4, Typed, Exact, Gated, PTL

\* The evidence a gate may see is among what the admission looked at or marked
\* late, a negative result it looked at had a second person's confirmation, the
\* shadow pilot decides nothing, and a stored result follows from its scores.
THEOREM EvidenceHeeded == Spec => []EvidenceIsHeeded
<1>1. GInv => EvidenceSeenOrLate /\ NegativeHadASecondPair
  BY DEF GInv, Books, EvidenceSeenOrLate, SeenOrLate, NegativeHadASecondPair, NegativesConfirmed
<1>2. GInv => ShadowHasNoInfluence
  BY DEF GInv, Books, ShadowHasNoInfluence, SeenOK
<1>3. TInv /\ GInv => StoredMeansWhatItSays
  <2> SUFFICES ASSUME TInv, GInv, NEW e \in evidence
               PROVE  /\ e.outcome = "MATCH" => e.record.liveness >= Policy.livenessPass /\ e.record.match >= Policy.match
                      /\ e.outcome = "NO_MATCH" => e.record.liveness >= Policy.livenessPass /\ e.record.match < Policy.noMatchBelow
                      /\ mode = "SHADOW" => e.mode = "SHADOW"
    BY DEF StoredMeansWhatItSays
  <2>1. RowMeans(e) /\ (mode = "SHADOW" => e.mode = "SHADOW")
    BY DEF GInv, Books
  <2>2. e.record.liveness \in Nat \cup {None} /\ e.record.match \in Nat \cup {None}
    BY ExamDayAssumption DEF TInv, GateOK, Evidence
  <2>3. e.outcome \in {"MATCH", "NO_MATCH"} =>
           /\ e.record.liveness # None /\ e.record.match # None
           /\ AttemptedOutcome(e.record.liveness, e.record.match) = e.outcome
    BY <2>1 DEF RowMeans, CheckEvidenceConsistency
  <2> QED BY <2>1, <2>2, <2>3 DEF AttemptedOutcome, Policy
<1>4. TInv /\ GInv => EvidenceIsHeeded
  BY <1>1, <1>2, <1>3 DEF EvidenceIsHeeded
<1> QED BY <1>4, Typed, Gated, PTL

----------------------------------------------------------------------------
(* The log of scores: clocks and heads *)

Above(c, e) == (\A d \in Devices : c[d] >= e[d]) /\ \E d \in Devices : c[d] > e[d]

LEMMA Comparing ==
  ASSUME NEW c \in Clocks, NEW e \in Clocks
  PROVE  /\ CompareClocks(c, e) \in {"CONCURRENT", "DOMINATES", "DOMINATED", "EQUAL"}
         /\ CompareClocks(c, e) = "DOMINATES" <=> Above(c, e)
         /\ CompareClocks(c, e) \in {"DOMINATED", "EQUAL"} => \A d \in Devices : e[d] >= c[d]
         /\ CompareClocks(c, e) = "CONCURRENT" => ~Above(c, e) /\ ~Above(e, c) /\ c # e
<1>1. \A d \in Devices : c[d] \in Nat /\ e[d] \in Nat
  BY DEF Clocks
<1>2. \A d \in Devices : /\ ~(c[d] < e[d]) <=> c[d] >= e[d]
                         /\ ~(c[d] > e[d]) <=> e[d] >= c[d]
                         /\ ~(c[d] > c[d]) /\ (c[d] < e[d] <=> e[d] > c[d])
  BY <1>1
<1> QED BY <1>2, Zenon DEF CompareClocks, Above

LEMMA AboveOrder ==
  ASSUME NEW c \in Clocks, NEW e \in Clocks, NEW f \in Clocks
  PROVE  /\ ~Above(c, c)
         /\ Above(c, e) /\ Above(e, f) => Above(c, f)
         /\ Above(c, e) => ~Above(e, c)
<1>1. \A d \in Devices : c[d] \in Nat /\ e[d] \in Nat /\ f[d] \in Nat
  BY DEF Clocks
<1>2. \A d \in Devices : /\ ~(c[d] > c[d])
                         /\ c[d] >= e[d] /\ e[d] >= f[d] => c[d] >= f[d]
                         /\ c[d] > e[d] /\ e[d] >= f[d] => c[d] > f[d]
                         /\ c[d] > e[d] => ~(e[d] >= c[d])
  BY <1>1
<1> QED BY <1>2, Zenon DEF Above

LEMMA HeadsAre ==
  ASSUME NEW S \in SUBSET Score
  PROVE  ComputeHeads(S) = {s \in S : ~\E x \in S : Above(x.clock, s.clock)}
<1>1. \A x, s \in S : CompareClocks(x.clock, s.clock) = "DOMINATES" <=> Above(x.clock, s.clock)
  BY Comparing DEF Score
<1> QED BY <1>1 DEF ComputeHeads

\* In a finite log, every score is a head or below one.
LEMMA HeadAbove ==
  ASSUME NEW S \in SUBSET Score, IsFiniteSet(S), NEW x \in S
  PROVE  \E h \in ComputeHeads(S) : h = x \/ Above(h.clock, x.clock)
<1> DEFINE Over(y) == {z \in S : Above(z.clock, y.clock)}
           T == {y \in S : y = x \/ Above(y.clock, x.clock)}
           N == {Cardinality(Over(y)) : y \in T}
           R == OpToRel(<, Nat)
<1>0. \A y \in S : y.clock \in Clocks
  BY DEF Score
<1>1. \A y \in S : IsFiniteSet(Over(y)) /\ Cardinality(Over(y)) \in Nat
  <2> TAKE y \in S
  <2>1. Over(y) \subseteq S
    OBVIOUS
  <2> QED BY <2>1, FS_Subset, FS_CardinalityType
<1>2. N \subseteq Nat /\ N # {}
  BY <1>1
<1>3. \A m, n \in Nat : m < n => <<m, n>> \in R
  BY DEF OpToRel
<1> HIDE DEF R
<1>4. PICK m \in N : \A n \in N : ~(<<n, m>> \in R)
  <2>1. IsWellFoundedOn(R, Nat)
    BY NatLessThanWellFounded DEF R
  <2> QED BY <2>1, <1>2, WFMin
<1>5. PICK h \in T : m = Cardinality(Over(h))
  OBVIOUS
<1>6. ASSUME NEW y \in S, Above(y.clock, h.clock) PROVE FALSE
  <2>1. y \in T
    BY <1>0, <1>6, AboveOrder
  <2>2. Over(y) \subseteq Over(h) /\ y \in Over(h) /\ y \notin Over(y)
    <3>1. \A z \in S : Above(z.clock, y.clock) => Above(z.clock, h.clock)
      BY <1>0, <1>6, AboveOrder
    <3>2. ~Above(y.clock, y.clock)
      BY <1>0, AboveOrder
    <3> QED BY <1>6, <3>1, <3>2, Zenon
  <2>3. Cardinality(Over(y)) < Cardinality(Over(h))
    <3>1. PICK A, B : A = Over(y) /\ B = Over(h)
      OBVIOUS
    <3>2. A \in SUBSET B /\ A # B /\ IsFiniteSet(B) /\ Cardinality(A) \in Nat /\ Cardinality(B) \in Nat
      BY <1>1, <2>2, <3>1
    <3>3. Cardinality(A) < Cardinality(B)
      BY <3>2, FS_Subset
    <3> QED BY <3>1, <3>3
  <2> QED BY <1>1, <1>3, <1>4, <1>5, <2>1, <2>3
<1>7. h \in ComputeHeads(S)
  BY <1>6, HeadsAre
<1> QED BY <1>7

LEMMA TwoOfThem ==
  ASSUME NEW S, IsFiniteSet(S), NEW x \in S, NEW y \in S, x # y
  PROVE  Cardinality(S) > 1
<1>1. IsFiniteSet({x}) /\ Cardinality({x}) = 1
  BY FS_Singleton
<1>2. Cardinality({x, y}) = 2 /\ IsFiniteSet({x, y})
  <2>1. {x, y} = {x} \cup {y} /\ y \notin {x}
    OBVIOUS
  <2> QED BY <1>1, <2>1, FS_AddElement
<1>3. Cardinality({x, y}) <= Cardinality(S) /\ Cardinality(S) \in Nat
  <2>1. {x, y} \subseteq S
    OBVIOUS
  <2> QED BY <2>1, FS_Subset, FS_CardinalityType
<1> QED BY <1>2, <1>3

FlagsOK(S) ==
  /\ \A s, x \in S : s.conflict = x.conflict
  /\ (\E s \in S : s.conflict) => Cardinality(ComputeHeads(S)) > 1
  /\ Cardinality(ComputeHeads(S)) > 1 => (\E s \in S : s.conflict) \/ \E s \in S : s.chosen

\* The row of a score with its flags apart: only the flag and the choice may
\* change, and a choice stays.
Same(s, t) ==
  /\ t.app = s.app /\ t.device = s.device /\ t.officer = s.officer /\ t.metrics = s.metrics
  /\ t.clock = s.clock /\ t.entered = s.entered
  /\ s.chosen => t.chosen

Extends(S, T) == \A s \in S : \E t \in T : Same(s, t)

Distinct(S) == \A s, x \in S : s.metrics = x.metrics => s = x

LEMMA Flagging ==
  ASSUME NEW S \in SUBSET Score, NEW f \in BOOLEAN
  PROVE  /\ Flagged(S, f) \in SUBSET Score
         /\ \A s \in S : \E t \in Flagged(S, f) : Same(s, t)
         /\ \A t \in Flagged(S, f) : t.conflict = f /\ \E s \in S : Same(s, t) /\ (t.chosen => s.chosen)
         /\ Distinct(S) => Distinct(Flagged(S, f))
<1>1. ASSUME NEW s \in Score
      PROVE  /\ [s EXCEPT !.conflict = f].conflict = f
             /\ Same(s, [s EXCEPT !.conflict = f])
             /\ [s EXCEPT !.conflict = f].chosen = s.chosen
             /\ [s EXCEPT !.conflict = f].metrics = s.metrics
  BY DEF Score, Same
<1>2. \A s \in S : [s EXCEPT !.conflict = f] \in Flagged(S, f)
  BY DEF Flagged
<1>3. \A s \in S : \E t \in Flagged(S, f) : Same(s, t)
  BY <1>1, <1>2
<1>4. ASSUME NEW t \in Flagged(S, f)
      PROVE  \E s \in S : t = [s EXCEPT !.conflict = f]
  BY DEF Flagged
<1>5. \A t \in Flagged(S, f) : t.conflict = f /\ \E s \in S : Same(s, t) /\ (t.chosen => s.chosen)
  BY <1>1, <1>4, ZenonT(60)
<1>6. ASSUME Distinct(S), NEW t \in Flagged(S, f), NEW u \in Flagged(S, f), t.metrics = u.metrics PROVE t = u
  <2>1. PICK s \in S : t = [s EXCEPT !.conflict = f]
    BY <1>4
  <2>2. PICK x \in S : u = [x EXCEPT !.conflict = f]
    BY <1>4
  <2>3. s.metrics = x.metrics
    BY <1>1, <1>6, <2>1, <2>2
  <2>4. s = x
    BY <1>6, <2>3 DEF Distinct
  <2> QED BY <2>1, <2>2, <2>4
<1> QED BY <1>3, <1>5, <1>6, FlaggedType DEF Distinct

\* A record that is accepted or supersedes is after everything in the log.
LEMMA AfterAll ==
  ASSUME NEW S \in SUBSET Score, IsFiniteSet(S), NEW r \in Capturing,
         DecideMerge(r, S) \in {"ACCEPT", "SUPERSEDE"}
  PROVE  \A s \in S : Above(r.clock, s.clock)
<1>0. r.clock \in Clocks /\ \A s \in S : s.clock \in Clocks
  BY DEF Score, Capturing
<1>1. ComputeHeads(S) \subseteq S
  BY DEF ComputeHeads
<1>2. ASSUME NEW h \in ComputeHeads(S) PROVE Above(r.clock, h.clock)
  <2>1. CompareClocks(r.clock, h.clock) \notin {"CONCURRENT", "DOMINATED", "EQUAL"}
    BY <1>2 DEF DecideMerge
  <2> QED BY <1>0, <1>1, <2>1, Comparing
<1> TAKE s \in S
<1>3. PICK h \in ComputeHeads(S) : h = s \/ Above(h.clock, s.clock)
  BY HeadAbove
<1> QED BY <1>0, <1>1, <1>2, <1>3, AboveOrder

\* A record that meets a concurrent head leaves at least two heads.
TwoTops(U) ==
  \E g, h \in U : g.clock # h.clock /\ ~\E x \in U : Above(x.clock, g.clock) \/ Above(x.clock, h.clock)

LEMMA TwoHeads ==
  ASSUME NEW S \in SUBSET Score, IsFiniteSet(S), NEW r \in Capturing, NEW row \in Score, row.clock = r.clock,
         DecideMerge(r, S) = "CONFLICT"
  PROVE  TwoTops(S \cup {row})
<1>0. r.clock \in Clocks /\ \A s \in S : s.clock \in Clocks
  BY DEF Score, Capturing
<1>1. PICK h \in ComputeHeads(S) : CompareClocks(r.clock, h.clock) = "CONCURRENT"
  BY DEF DecideMerge
<1>2. h \in S /\ ~\E x \in S : Above(x.clock, h.clock)
  BY <1>1, HeadsAre
<1>3. ~Above(r.clock, h.clock) /\ ~Above(h.clock, r.clock) /\ r.clock # h.clock
  BY <1>0, <1>1, <1>2, Comparing
<1>4. ~Above(r.clock, r.clock)
  BY <1>0, AboveOrder
<1>5. CASE ~\E x \in S : Above(x.clock, r.clock)
  <2>1. ~\E x \in S \cup {row} : Above(x.clock, row.clock) \/ Above(x.clock, h.clock)
    BY <1>2, <1>3, <1>4, <1>5
  <2> QED BY <1>2, <1>3, <2>1 DEF TwoTops
<1>6. CASE \E x \in S : Above(x.clock, r.clock)
  <2>1. PICK x \in S : Above(x.clock, r.clock)
    BY <1>6
  <2>2. PICK g \in ComputeHeads(S) : g = x \/ Above(g.clock, x.clock)
    BY HeadAbove
  <2>3. g \in S /\ ~\E y \in S : Above(y.clock, g.clock)
    BY <2>2, HeadsAre
  <2>4. Above(g.clock, r.clock) /\ ~Above(r.clock, g.clock)
    BY <1>0, <2>1, <2>2, <2>3, AboveOrder
  <2>5. g.clock # h.clock
    BY <1>3, <2>4
  <2>6. ~\E y \in S \cup {row} : Above(y.clock, g.clock) \/ Above(y.clock, h.clock)
    BY <1>2, <1>3, <2>3, <2>4
  <2> QED BY <1>2, <2>3, <2>5, <2>6 DEF TwoTops
<1> QED BY <1>5, <1>6

LEMMA Merging ==
  ASSUME NEW S \in SUBSET Score, IsFiniteSet(S), Distinct(S), NEW r \in Capturing, NEW o \in Officers,
         NEW k \in Entries, k = DecideMerge(r, S)
  PROVE  /\ FlagsOK(Stored(r, o, k, S)) /\ Distinct(Stored(r, o, k, S)) /\ Extends(S, Stored(r, o, k, S))
         /\ \E t \in Stored(r, o, k, S) : t.metrics = r.metrics /\ t.entered = k
         /\ \A t \in Stored(r, o, k, S) : \E s \in S \cup {ScoreRow(r, o, k)} : Same(s, t)
<1>0. PICK f \in BOOLEAN : f = (k = "CONFLICT")
  OBVIOUS
<1>1. PICK row, U, T : /\ row = ScoreRow(r, o, k) /\ U = S \cup {row}
                       /\ T = Flagged(U, f) /\ T = Stored(r, o, k, S)
  BY <1>0, Zenon DEF Stored
<1>2. row \in Score /\ row.clock = r.clock /\ row.metrics = r.metrics /\ row.entered = k
  <2>1. ScoreRow(r, o, k) \in Score
    BY StoredType
  <2>2. ScoreRow(r, o, k).clock = r.clock /\ ScoreRow(r, o, k).metrics = r.metrics /\ ScoreRow(r, o, k).entered = k
    BY DEF ScoreRow
  <2> QED BY <1>1, <2>1, <2>2
<1>3. U \in SUBSET Score
  BY <1>1, <1>2
<1>4. Distinct(U)
  <2>1. k # "DUPLICATE"
    BY DEF Entries
  <2>2. ~\E x \in S : x.metrics = r.metrics
    BY <2>1, Zenon DEF DecideMerge, PayloadHash
  <2> QED BY <1>1, <1>2, <2>2 DEF Distinct
<1>5. /\ T \in SUBSET Score /\ Distinct(T)
      /\ \A s \in U : \E t \in T : Same(s, t)
      /\ \A t \in T : t.conflict = f /\ \E s \in U : Same(s, t)
  <2>1. /\ Flagged(U, f) \in SUBSET Score
        /\ \A s \in U : \E t \in Flagged(U, f) : Same(s, t)
        /\ \A t \in Flagged(U, f) : t.conflict = f /\ \E s \in U : Same(s, t) /\ (t.chosen => s.chosen)
        /\ Distinct(U) => Distinct(Flagged(U, f))
    BY <1>0, <1>3, Flagging, ZenonT(60)
  <2>2. Flagged(U, f) = T
    BY <1>1
  <2> QED BY <1>4, <2>1, <2>2, Zenon
<1>6. Extends(S, T) /\ \E t \in T : t.metrics = r.metrics /\ t.entered = k
  <2>1. S \subseteq U /\ row \in U
    BY <1>1
  <2>2. PICK t \in T : Same(row, t)
    BY <1>5, <2>1
  <2>3. t.metrics = r.metrics /\ t.entered = k
    BY <1>2, <2>2 DEF Same
  <2> QED BY <1>5, <2>1, <2>3 DEF Extends
<1>7. IsFiniteSet(T)
  BY <1>1, WrittenFinite
<1>8. IsFiniteSet(ComputeHeads(T)) /\ ComputeHeads(T) = {t \in T : ~\E u \in T : Above(u.clock, t.clock)}
  <2>1. ComputeHeads(T) \subseteq T
    BY DEF ComputeHeads
  <2> QED BY <1>5, <1>7, <2>1, FS_Subset, HeadsAre
<1>9. CASE k = "CONFLICT"
  <2>1. PICK g, h \in U : /\ g.clock # h.clock
                          /\ ~\E x \in U : Above(x.clock, g.clock) \/ Above(x.clock, h.clock)
    <3>1. DecideMerge(r, S) = "CONFLICT" /\ row \in Score /\ row.clock = r.clock
      BY <1>2, <1>9
    <3>2. TwoTops(S \cup {row})
      BY <3>1, TwoHeads
    <3> QED BY <1>1, <3>2 DEF TwoTops
  <2>2. PICK g2 \in T : Same(g, g2)
    BY <1>5
  <2>3. PICK h2 \in T : Same(h, h2)
    BY <1>5
  <2>4. g2 \in ComputeHeads(T) /\ h2 \in ComputeHeads(T) /\ g2 # h2
    BY <1>5, <1>8, <2>1, <2>2, <2>3 DEF Same
  <2>5. Cardinality(ComputeHeads(T)) > 1
    BY <1>8, <2>4, TwoOfThem
  <2>6. f = TRUE
    BY <1>0, <1>9
  <2>7. (\A t \in T : t.conflict = TRUE) /\ \E t \in T : t.conflict
    BY <1>5, <2>2, <2>6
  <2>8. FlagsOK(T)
    BY <2>5, <2>7 DEF FlagsOK
  <2> QED BY <1>1, <1>5, <1>6, <2>8
<1>10. CASE k # "CONFLICT"
  <2>1. f = FALSE /\ \A s \in S : Above(r.clock, s.clock)
    BY <1>0, <1>10, AfterAll DEF Entries
  <2>2. PICK t0 \in T : Same(row, t0)
    BY <1>1, <1>5
  <2>3. ASSUME NEW t \in ComputeHeads(T) PROVE t = t0
    <3>1. PICK s \in U : Same(s, t)
      BY <1>5, <1>8
    <3>2. s = row
      BY <1>1, <1>2, <1>8, <2>1, <2>2, <3>1 DEF Same
    <3> QED BY <1>5, <1>8, <2>2, <3>1, <3>2 DEF Same, Distinct
  <2>4. ~(Cardinality(ComputeHeads(T)) > 1)
    <3>1. ComputeHeads(T) \in SUBSET {t0}
      BY <2>3
    <3>2. Cardinality({t0}) = 1 /\ IsFiniteSet({t0})
      BY FS_Singleton
    <3>3. Cardinality(ComputeHeads(T)) <= 1 /\ Cardinality(ComputeHeads(T)) \in Nat
      BY <1>8, <3>1, <3>2, FS_Subset, FS_CardinalityType
    <3> QED BY <3>3
  <2>5. \A t \in T : t.conflict = FALSE
    BY <1>5, <2>1
  <2>6. FlagsOK(T)
    BY <2>4, <2>5 DEF FlagsOK
  <2> QED BY <1>1, <1>5, <1>6, <2>6
<1> QED BY <1>9, <1>10

LEMMA Choosing ==
  ASSUME NEW S \in SUBSET Score, Distinct(S), NEW found \in SUBSET S, NEW x \in found
  PROVE  /\ FlagsOK(Chosen(S, found)) /\ Distinct(Chosen(S, found)) /\ Extends(S, Chosen(S, found))
         /\ \E t \in Chosen(S, found) : t.metrics = x.metrics /\ t.chosen
         /\ \A t \in Chosen(S, found) : \E s \in S : Same(s, t)
<1>1. PICK U, T : /\ U = (S \ found) \cup {[s EXCEPT !.chosen = TRUE] : s \in found}
                  /\ T = Flagged(U, FALSE) /\ T = Chosen(S, found)
  BY DEF Chosen
<1>2. ASSUME NEW s \in Score
      PROVE  /\ [s EXCEPT !.chosen = TRUE] \in Score /\ Same(s, [s EXCEPT !.chosen = TRUE])
             /\ [s EXCEPT !.chosen = TRUE].chosen = TRUE
             /\ [s EXCEPT !.chosen = TRUE].metrics = s.metrics
  BY DEF Score, Same
<1>3. ASSUME NEW u \in U
      PROVE  u \in Score /\ \E s \in S : /\ Same(s, u)
                                         /\ u = IF s \in found THEN [s EXCEPT !.chosen = TRUE] ELSE s
  <2>1. CASE u \in S \ found
    BY <2>1 DEF Same
  <2>2. CASE u \notin S \ found
    <3>1. PICK s \in found : u = [s EXCEPT !.chosen = TRUE]
      BY <1>1, <2>2
    <3>2. s \in Score
      OBVIOUS
    <3> QED BY <1>2, <3>1, <3>2
  <2> QED BY <2>1, <2>2
<1>4. ASSUME NEW s \in S PROVE \E u \in U : Same(s, u) /\ (s \in found => u.chosen)
  <2>1. CASE s \in found
    BY <1>1, <1>2, <2>1
  <2>2. CASE s \notin found
    BY <1>1, <2>2 DEF Same
  <2> QED BY <2>1, <2>2
<1>5. Distinct(U)
  <2> SUFFICES ASSUME NEW u \in U, NEW v \in U, u.metrics = v.metrics PROVE u = v
    BY DEF Distinct
  <2>1. PICK s \in S : Same(s, u) /\ u = IF s \in found THEN [s EXCEPT !.chosen = TRUE] ELSE s
    BY <1>3
  <2>2. PICK y \in S : Same(y, v) /\ v = IF y \in found THEN [y EXCEPT !.chosen = TRUE] ELSE y
    BY <1>3
  <2>3. s = y
    BY <2>1, <2>2 DEF Same, Distinct
  <2> QED BY <2>1, <2>2, <2>3
<1>6. /\ T \in SUBSET Score /\ Distinct(T)
      /\ \A u \in U : \E t \in T : Same(u, t)
      /\ \A t \in T : t.conflict = FALSE /\ \E u \in U : Same(u, t)
  <2>1. U \in SUBSET Score
    BY <1>3
  <2> QED BY <1>1, <1>5, <2>1, Flagging, ZenonT(60)
<1>7. \A s \in S : \E t \in T : Same(s, t) /\ (s \in found => t.chosen)
  BY <1>4, <1>6 DEF Same
<1>8. \A t \in T : \E s \in S : Same(s, t)
  BY <1>3, <1>6 DEF Same
<1>9. \E t \in T : t.metrics = x.metrics /\ t.chosen
  BY <1>7 DEF Same
<1>10. FlagsOK(T)
  BY <1>6, <1>9 DEF FlagsOK
<1> QED BY <1>1, <1>6, <1>7, <1>8, <1>9, <1>10 DEF Extends

----------------------------------------------------------------------------
(* The log of scores: what is kept *)

LetIn == WalkIns \cup {m.app : m \in admissions}

\* The score comes from a genuine capture of someone let in.
Genuine(s, let, cap) ==
  /\ s.app \in let
  /\ \E r \in cap : /\ r.genuine /\ r.app = s.app /\ r.device = s.device /\ r.clock = s.clock
                    /\ r.officer = s.officer /\ r.metrics = s.metrics

Good(S, let, cap) == Distinct(S) /\ FlagsOK(S) /\ \A s \in S : Genuine(s, let, cap)

\* A score that may be made official.
ClearOrChosen(s) == s.entered # "CONFLICT" \/ s.chosen

VouchedIn(S, h) == \E s \in S : s.metrics = h /\ ClearOrChosen(s)

Holds(S, r) == \E s \in S : s.metrics = r.metrics \/ \A d \in Devices : s.clock[d] >= r.clock[d]

OfficialIn(S, p) == p # None => \E s \in S : s.device = p.device /\ s.clock = p.clock /\ ClearOrChosen(s)

Queued(q) == {q[i] : i \in DOMAIN q}

LogOK(a) ==
  /\ Good(OwnScores(a), LetIn, captured)
  /\ \A r \in settled : r.app = a => Holds(OwnScores(a), r)
  /\ OfficialIn(OwnScores(a), official[a])
  /\ \A h \in Queued(announced[a]) : VouchedIn(OwnScores(a), h)

\* What an upload or an adjudication relies on: the log S of its application
\* has only grown since it looked, or not changed while it holds the row.
AtLog(s, S, let, cap) ==
  /\ Busy(s) => Good(s.change.scores, let, cap) /\ Extends(S, s.change.scores)
  /\ s.op = "sync" => s.record \in cap
  /\ s.op = "sync" /\ s.pc = "row" => s.record.officer = s.officer
  /\ s.op = "sync" /\ Busy(s) =>
        Holds(s.change.scores, s.record) /\ (s.tell => VouchedIn(s.change.scores, s.record.metrics))
  /\ s.op = "sync" /\ s.pc = "announce" =>
        Holds(S, s.record) /\ (s.tell => VouchedIn(S, s.record.metrics))
  /\ s.op = "resolve" /\ Busy(s) => VouchedIn(s.change.scores, s.hash)
  /\ s.op = "resolve" /\ s.pc = "announce" => VouchedIn(S, s.hash)

SessLog(w) == AtLog(sess[w], OwnScores(sess[w].app), LetIn, captured)

SInv == (\A a \in Apps : LogOK(a)) /\ \A w \in Sessions : SessLog(w)

LEMMA Grows ==
  ASSUME NEW S, NEW T, Extends(S, T)
  PROVE  /\ \A h : VouchedIn(S, h) => VouchedIn(T, h)
         /\ \A r : Holds(S, r) => Holds(T, r)
         /\ \A p : OfficialIn(S, p) => OfficialIn(T, p)
<1>1. ASSUME NEW s \in S
      PROVE  \E t \in T : /\ t.metrics = s.metrics /\ t.clock = s.clock /\ t.device = s.device
                          /\ ClearOrChosen(s) => ClearOrChosen(t)
  BY DEF Extends, Same, ClearOrChosen
<1>2. ASSUME NEW h, VouchedIn(S, h) PROVE VouchedIn(T, h)
  BY <1>1, <1>2 DEF VouchedIn
<1>3. ASSUME NEW r, Holds(S, r) PROVE Holds(T, r)
  <2>1. PICK s \in S : s.metrics = r.metrics \/ \A d \in Devices : s.clock[d] >= r.clock[d]
    BY <1>3 DEF Holds
  <2>2. PICK t \in T : t.metrics = s.metrics /\ t.clock = s.clock
    BY <1>1
  <2> QED BY <2>1, <2>2 DEF Holds
<1>4. ASSUME NEW p, OfficialIn(S, p) PROVE OfficialIn(T, p)
  BY <1>1, <1>4 DEF OfficialIn
<1> QED BY <1>2, <1>3, <1>4

LEMMA ExtendsSelf ==
  ASSUME NEW S
  PROVE  Extends(S, S)
BY DEF Extends, Same

LEMMA StaysGood ==
  ASSUME NEW S, NEW let, NEW let2, let \subseteq let2, NEW cap, NEW cap2, cap \subseteq cap2, Good(S, let, cap)
  PROVE  Good(S, let2, cap2)
<1>1. ASSUME NEW s, Genuine(s, let, cap) PROVE Genuine(s, let2, cap2)
  BY <1>1 DEF Genuine
<1> QED BY <1>1 DEF Good

\* What a session relies on stays true while nothing of its own changes.
LEMMA StaysAtLog ==
  ASSUME NEW s, NEW S, NEW T, Extends(S, T), Busy(s) => T = S,
         NEW let, NEW let2, let \subseteq let2, NEW cap, NEW cap2, cap \subseteq cap2, AtLog(s, S, let, cap)
  PROVE  AtLog(s, T, let2, cap2)
<1>1. Busy(s) => Good(s.change.scores, let2, cap2) /\ Extends(T, s.change.scores)
  <2> SUFFICES ASSUME Busy(s) PROVE Good(s.change.scores, let2, cap2) /\ Extends(T, s.change.scores)
    OBVIOUS
  <2>1. Good(s.change.scores, let, cap) /\ Extends(S, s.change.scores) /\ T = S
    BY DEF AtLog
  <2> QED BY <2>1, StaysGood
<1>2. s.op = "sync" /\ s.pc = "announce" => Holds(T, s.record) /\ (s.tell => VouchedIn(T, s.record.metrics))
  BY Grows DEF AtLog
<1>3. s.op = "resolve" /\ s.pc = "announce" => VouchedIn(T, s.hash)
  BY Grows DEF AtLog
<1>4. s.op = "sync" => s.record \in cap2
  BY DEF AtLog
<1> QED BY <1>1, <1>2, <1>3, <1>4 DEF AtLog

LEMMA CapturesStay ==
  ASSUME [Next]_vars
  PROVE  captured \subseteq captured'
<1>1. ASSUME NEW w \in Sessions, FieldStep(w) PROVE captured \subseteq captured'
  BY <1>1 DEF FieldStep, Upload, Resolve, CheckDevice, StoreScore, CommitScore, Materialise,
              ResolveConflict, CommitResolution, AnnounceChosen, fieldVars
<1>2. ASSUME FieldEnvironment PROVE captured \subseteq captured'
  <2>1. ASSUME NEW t \in Tests, Capture(t) PROVE captured \subseteq captured'
    BY <2>1 DEF Capture
  <2>2. ASSUME NEW a \in Apps, NEW acknowledged \in BOOLEAN, ApplyPhysicalTestComplete(a, acknowledged)
        PROVE  captured \subseteq captured'
    BY <2>2 DEF ApplyPhysicalTestComplete
  <2>3. ASSUME NEW o \in Officers, NEW d \in Devices, Enroll(o, d) \/ Revoke(o, d)
        PROVE  captured \subseteq captured'
    BY <2>3 DEF Enroll, Revoke, fieldVars
  <2> QED BY <1>2, <2>1, <2>2, <2>3 DEF FieldEnvironment
<1>3. UNCHANGED fieldVars => captured \subseteq captured'
  BY DEF fieldVars
<1> QED BY <1>1, <1>2, <1>3 DEF Next, vars

\* A commit replaces the log of its application and touches no other.
LEMMA CommittedLog ==
  ASSUME TInv, NEW w \in Sessions, Commits(w), NEW b, b = sess[w].app
  PROVE  /\ b \in Apps /\ Busy(sess[w])
         /\ OwnScores(b)' = sess[w].change.scores
         /\ \A a \in Apps \ {b} : OwnScores(a)' = OwnScores(a)
         /\ admissions \subseteq admissions'
         /\ \A x \in Sessions : Busy(sess'[x]) => sess'[x] = sess[x] /\ sess[x].app # b
<1>1. PICK c : c = sess[w].change
  OBVIOUS
<1>2. /\ b \in Apps /\ c.app = b /\ Busy(sess[w]) /\ sess[w].op \in {"gate", "sync", "resolve"}
      /\ sess[w].pc = "commit"
  BY <1>1, WritingFields DEF Commits, Busy
<1>3. \A y \in c.scores : y.app = b
  BY <1>1, <1>2 DEF TInv, WritesOK, Written
<1>4. scores' = {y \in scores : y.app # b} \cup c.scores /\ admissions' = admissions \cup c.admit
  BY <1>1, <1>2 DEF Commits, Publish, AdmissionsAfter, ScoresAfter
<1>5. {s \in scores' : s.app = b} = c.scores
  BY <1>3, <1>4
<1>6. ASSUME NEW a \in Apps \ {b} PROVE {s \in scores' : s.app = a} = {s \in scores : s.app = a}
  BY <1>3, <1>4, <1>6
<1>7. ASSUME NEW x \in Sessions, Busy(sess'[x]) PROVE sess'[x] = sess[x] /\ sess[x].app # b
  <2>1. x # w /\ sess'[x] = sess[x]
    BY <1>7 DEF Commits
  <2>2. sess[x] \in Writing
    BY <1>7, <2>1, Shapes DEF Busy, TInv, SessOK
  <2>3. sess[x].app \in Apps /\ sess[x].app \in RowKeys(sess[x])
    BY <2>2, WritingFields DEF RowKeys
  <2>4. b \in RowKeys(sess[w])
    BY <1>1, <1>2 DEF RowKeys
  <2> QED BY <1>2, <2>1, <2>3, <2>4, Exclusive
<1> QED BY <1>1, <1>2, <1>4, <1>5, <1>6, <1>7 DEF OwnScores

\* In every step the logs only grow and stay good, and the log under a row
\* lock does not change but by its holder's commit.
LEMMA Growing ==
  ASSUME TInv, SInv, [Next]_vars
  PROVE  /\ captured \subseteq captured' /\ LetIn \subseteq LetIn'
         /\ \A a \in Apps : Extends(OwnScores(a), OwnScores(a)') /\ Good(OwnScores(a)', LetIn', captured')
         /\ \A x \in Sessions : sess'[x] = sess[x] => SessLog(x)'
<1>1. captured \subseteq captured'
  BY CapturesStay
<1>2. ASSUME admissions \subseteq admissions' PROVE LetIn \subseteq LetIn'
  BY <1>2 DEF LetIn
<1>3. \A a \in Apps : Good(OwnScores(a), LetIn, captured)
  BY DEF SInv, LogOK
<1>4. ASSUME scores' = scores, admissions' = admissions
      PROVE  /\ LetIn \subseteq LetIn'
             /\ \A a \in Apps : Extends(OwnScores(a), OwnScores(a)') /\ Good(OwnScores(a)', LetIn', captured')
             /\ \A x \in Sessions : sess'[x] = sess[x] => SessLog(x)'
  <2>1. LetIn \subseteq LetIn'
    BY <1>2, <1>4
  <2>2. \A a : OwnScores(a)' = OwnScores(a)
    BY <1>4 DEF OwnScores
  <2>3. \A a \in Apps : Extends(OwnScores(a), OwnScores(a)') /\ Good(OwnScores(a)', LetIn', captured')
    BY <1>1, <1>3, <2>1, <2>2, ExtendsSelf, StaysGood
  <2>4. ASSUME NEW x \in Sessions, sess'[x] = sess[x] PROVE SessLog(x)'
    <3>1. PICK s, S : s = sess[x] /\ S = OwnScores(sess[x].app)
      OBVIOUS
    <3>2. OwnScores(s.app)' = S
      BY <2>2, <3>1
    <3>3. AtLog(s, S, LetIn, captured)
      BY <3>1 DEF SInv, SessLog
    <3>4. AtLog(s, S, LetIn', captured')
      BY <1>1, <2>1, <3>3, ExtendsSelf, StaysAtLog
    <3>5. OwnScores(sess[x].app)' = S
      BY <2>4, <3>1, <3>2 DEF OwnScores
    <3> QED BY <2>4, <3>1, <3>4, <3>5 DEF SessLog
  <2> QED BY <2>1, <2>3, <2>4
<1>5. CASE Still
  BY <1>1, <1>4, <1>5 DEF Still
<1>6. ASSUME NEW a \in Apps, NEW st \in AppStatuses, WriteRow(a, st)
      PROVE  scores' = scores /\ admissions' = admissions
  BY <1>6 DEF WriteRow
<1>7. ASSUME NEW w \in Sessions, Commits(w)
      PROVE  /\ LetIn \subseteq LetIn'
             /\ \A a \in Apps : Extends(OwnScores(a), OwnScores(a)') /\ Good(OwnScores(a)', LetIn', captured')
             /\ \A x \in Sessions : sess'[x] = sess[x] => SessLog(x)'
  <2>1. PICK b, T : b = sess[w].app /\ T = sess[w].change.scores
    OBVIOUS
  <2>2. /\ b \in Apps /\ Busy(sess[w]) /\ OwnScores(b)' = T /\ LetIn \subseteq LetIn'
        /\ \A a \in Apps \ {b} : OwnScores(a)' = OwnScores(a)
        /\ \A x \in Sessions : Busy(sess'[x]) => sess'[x] = sess[x] /\ sess[x].app # b
    <3>1. /\ b \in Apps /\ Busy(sess[w]) /\ OwnScores(b)' = sess[w].change.scores
          /\ \A a \in Apps \ {b} : OwnScores(a)' = OwnScores(a)
          /\ admissions \subseteq admissions'
          /\ \A x \in Sessions : Busy(sess'[x]) => sess'[x] = sess[x] /\ sess[x].app # b
      BY <1>7, <2>1, CommittedLog
    <3> QED BY <1>2, <2>1, <3>1
  <2>3. Good(T, LetIn, captured) /\ Extends(OwnScores(b), T)
    BY <2>1, <2>2 DEF SInv, SessLog, AtLog
  <2>4. ASSUME NEW a \in Apps PROVE Extends(OwnScores(a), OwnScores(a)') /\ Good(OwnScores(a)', LetIn', captured')
    <3>1. CASE a = b
      BY <1>1, <2>2, <2>3, <3>1, StaysGood
    <3>2. CASE a # b
      BY <1>1, <1>3, <2>2, <3>2, ExtendsSelf, StaysGood
    <3> QED BY <3>1, <3>2
  <2>5. ASSUME NEW x \in Sessions, sess'[x] = sess[x] PROVE SessLog(x)'
    <3>1. PICK s : s = sess[x]
      OBVIOUS
    <3>2. AtLog(s, OwnScores(s.app), LetIn, captured) /\ s \in Session
      BY <3>1 DEF SInv, SessLog, TInv, SessOK
    <3>3. CASE s.op = "idle"
      BY <2>5, <3>1, <3>3 DEF SessLog, AtLog, Busy
    <3>4. CASE s.op # "idle"
      <4>1. s.app \in Apps
        BY <3>2, <3>4, Shapes
      <4>2. PICK S, S2 : S = OwnScores(s.app) /\ S2 = OwnScores(s.app)'
        OBVIOUS
      <4>3. Extends(S, S2) /\ (Busy(s) => S2 = S)
        BY <2>2, <2>4, <2>5, <3>1, <4>1, <4>2
      <4>4. AtLog(s, S2, LetIn', captured')
        BY <1>1, <2>2, <3>2, <4>2, <4>3, StaysAtLog
      <4>5. OwnScores(sess[x].app)' = S2
        BY <2>5, <3>1, <4>2 DEF OwnScores
      <4> QED BY <2>5, <3>1, <4>4, <4>5 DEF SessLog
    <3> QED BY <3>3, <3>4
  <2> QED BY <2>2, <2>4, <2>5
<1> QED BY <1>1, <1>4, <1>5, <1>6, <1>7, Kinds

LEMMA LogStep ==
  ASSUME TInv, SInv, [Next]_vars,
         \A x \in Sessions : sess'[x] = sess[x] \/ SessLog(x)',
         \A a \in Apps, r \in settled' : r.app = a => r \in settled \/ Holds(OwnScores(a)', r),
         \A a \in Apps : official'[a] = official[a] \/ OfficialIn(OwnScores(a)', official'[a]),
         \A a \in Apps : \A h \in Queued(announced'[a]) : h \in Queued(announced[a]) \/ VouchedIn(OwnScores(a)', h)
  PROVE  SInv'
<1>1. ASSUME NEW a \in Apps PROVE LogOK(a)'
  <2>1. PICK S, T : S = OwnScores(a) /\ T = OwnScores(a)'
    OBVIOUS
  <2>2. Extends(S, T) /\ Good(T, LetIn', captured')
    BY <2>1, Growing
  <2>3. /\ \A r \in settled : r.app = a => Holds(S, r)
        /\ OfficialIn(S, official[a])
        /\ \A h \in Queued(announced[a]) : VouchedIn(S, h)
    BY <2>1 DEF SInv, LogOK
  <2>4. \A r \in settled' : r.app = a => Holds(T, r)
    BY <2>1, <2>2, <2>3, Grows
  <2>5. OfficialIn(T, official'[a])
    <3>1. CASE official'[a] = official[a]
      BY <2>2, <2>3, <3>1, Grows
    <3> QED BY <2>1, <3>1
  <2>6. \A h \in Queued(announced'[a]) : VouchedIn(T, h)
    BY <2>1, <2>2, <2>3, Grows
  <2> QED BY <2>1, <2>2, <2>4, <2>5, <2>6 DEF LogOK
<1>2. \A x \in Sessions : SessLog(x)'
  BY Growing
<1> QED BY <1>1, <1>2 DEF SInv

\* A session's step that settles, announces and completes nothing.
LEMMA LogQuiet ==
  ASSUME TInv, SInv, [Next]_vars, NEW w \in Sessions, NEW s2, SessStep(w, s2), SessLog(w)',
         UNCHANGED <<settled, official, announced>>
  PROVE  SInv'
<1>1. \A x \in Sessions \ {w} : sess'[x] = sess[x]
  BY SessKeeps DEF TInv
<1> QED BY <1>1, LogStep

\* The sessions that have nothing of the log in hand.
Away(s) == ~Busy(s) /\ (s.op \notin {"sync", "resolve"} \/ (s.op = "resolve" /\ s.pc = "row"))

LEMMA AwayFromLog ==
  ASSUME NEW w, NEW s2, sess'[w] = s2, Away(s2)
  PROVE  SessLog(w)'
BY DEF SessLog, AtLog, Away, Busy

LEMMA IdleIsAway == Away(Idle)
BY DEF Away, Busy, Idle

LEMMA LogAway ==
  ASSUME TInv, SInv, [Next]_vars, NEW w \in Sessions, NEW s2, SessStep(w, s2), Away(s2),
         UNCHANGED <<settled, official, announced>>
  PROVE  SInv'
<1>1. sess'[w] = s2
  BY SessKeeps DEF TInv
<1> QED BY <1>1, AwayFromLog, LogQuiet

LEMMA GateStepS ==
  ASSUME TInv, SInv, [Next]_vars, NEW w \in Sessions, GateStep(w), UNCHANGED fieldVars
  PROVE  SInv'
<1>0. UNCHANGED <<settled, official, announced>>
  BY DEF GateStep, Scan, Submit, Confirm, LockApplication, ResolveGateIdentity, CommitAdmission,
         RecordEvidence, CommitEvidence, ConfirmManualIdentity, CommitConfirmation, DeadlockVictim,
         Abandon, rows, fieldVars
<1>1. ASSUME NEW o \in Officers, NEW s \in Scans, Scan(w, o, s) PROVE SInv'
  <2> DEFINE s2 == [op |-> "gate", pc |-> "row", app |-> s.app, officer |-> o, scan |-> s, today |-> day]
  <2>1. SessStep(w, s2) /\ s2.op = "gate" /\ s2.pc = "row"
    BY <1>1, ScanSess
  <2> HIDE DEF s2
  <2> QED BY <1>0, <2>1, LogAway DEF Away, Busy
<1>2. ASSUME NEW o \in Officers, NEW r \in Records, Submit(w, o, r) PROVE SInv'
  <2> DEFINE s2 == [op |-> "evidence", pc |-> "identity", app |-> r.app, officer |-> o, record |-> r]
  <2>1. SessStep(w, s2) /\ s2.op = "evidence" /\ s2.pc = "identity"
    BY <1>2, SubmitSess
  <2> HIDE DEF s2
  <2> QED BY <1>0, <2>1, LogAway DEF Away, Busy
<1>3. ASSUME NEW o \in Officers, NEW e \in evidence, Confirm(w, o, e) PROVE SInv'
  <2> DEFINE s2 == [op |-> "confirm", pc |-> "identity", app |-> e.app, officer |-> o, found |-> e]
  <2>1. SessStep(w, s2) /\ s2.op = "confirm" /\ s2.pc = "identity"
    BY <1>3, ConfirmSess
  <2> HIDE DEF s2
  <2> QED BY <1>0, <2>1, LogAway DEF Away, Busy
<1>4. ASSUME LockApplication(w) PROVE SInv'
  <2>1. [sess[w] EXCEPT !.pc = "identity"] \in GateAsk
    BY <1>4, LockApplicationSess DEF GateAsk
  <2>2. PICK s2 : SessStep(w, s2) /\ (s2 = Idle \/ s2 \in GateAsk)
    BY <1>4, <2>1, LockApplicationSess
  <2>3. Away(s2)
    BY <2>2, IdleIsAway, AsksAreNotBusy DEF Away, GateAsk
  <2> QED BY <1>0, <2>2, <2>3, LogAway
<1>5. ASSUME ResolveGateIdentity(w) PROVE SInv'
  <2>1. CASE SessStep(w, Idle)
    BY <1>0, <2>1, LogAway, IdleIsAway
  <2>2. CASE SessStep(w, GateWriting(w))
    <3> DEFINE s2 == GateWriting(w)
    <3>0. PICK a : a = sess[w].app
      OBVIOUS
    <3>1. a \in Apps /\ UNCHANGED scores
      BY <1>5, <3>0, ResolveGateIdentitySess DEF GateAsk, ResolveGateIdentity, rows
    <3>2. OwnScores(a)' = OwnScores(a) /\ Good(OwnScores(a), LetIn', captured')
      <4>1. OwnScores(a)' = OwnScores(a)
        BY <3>1 DEF OwnScores
      <4> QED BY <3>1, <4>1, Growing
    <3>3. s2.op = "gate" /\ s2.app = a /\ s2.change.scores = OwnScores(a)
      BY <3>0 DEF GateWriting
    <3>4. sess'[w] = s2
      BY <2>2, SessKeeps DEF TInv
    <3> HIDE DEF s2
    <3>5. SessLog(w)'
      <4>1. AtLog(s2, OwnScores(a), LetIn', captured')
        BY <3>2, <3>3, ExtendsSelf DEF AtLog
      <4>2. OwnScores(sess[w].app)' = OwnScores(a)
        BY <3>2, <3>3, <3>4 DEF OwnScores
      <4> QED BY <3>4, <4>1, <4>2 DEF SessLog
    <3> QED BY <1>0, <2>2, <3>5, LogQuiet
  <2> QED BY <1>5, <2>1, <2>2, ResolveGateIdentitySess
<1>6. ASSUME RecordEvidence(w) PROVE SInv'
  <2>1. Away(EvidenceWriting(sess[w].record, sess[w].officer))
    BY DEF EvidenceWriting, Away, Busy
  <2> QED BY <1>0, <1>6, <2>1, RecordEvidenceSess, LogAway, IdleIsAway
<1>7. ASSUME ConfirmManualIdentity(w) PROVE SInv'
  <2>1. [sess[w] EXCEPT !.pc = "key"] \in Confirming
    BY <1>7, ConfirmManualIdentitySess DEF Confirming
  <2>2. PICK s2 : SessStep(w, s2) /\ (s2 = Idle \/ s2 \in Confirming)
    BY <1>7, <2>1, ConfirmManualIdentitySess
  <2>3. Away(s2)
    BY <2>2, IdleIsAway, AsksAreNotBusy DEF Away, Confirming
  <2> QED BY <1>0, <2>2, <2>3, LogAway
<1>8. ASSUME CommitAdmission(w) \/ CommitEvidence(w) \/ CommitConfirmation(w) \/ DeadlockVictim(w) PROVE SInv'
  <2>1. SessStep(w, Idle)
    BY <1>8, EndingSess DEF CommitAdmission, CommitEvidence, CommitConfirmation, DeadlockVictim, Abandon
  <2> QED BY <1>0, <2>1, LogAway, IdleIsAway
<1> QED BY <1>1, <1>2, <1>3, <1>4, <1>5, <1>6, <1>7, <1>8 DEF GateStep

LEMMA CountingS ==
  ASSUME TInv, SInv, [Next]_vars, NEW w \in Sessions, RefreshVenue(w), UNCHANGED fieldVars
  PROVE  SInv'
<1>0. UNCHANGED <<settled, official, announced, scores>>
  BY DEF RefreshVenue, rows, fieldVars
<1> DEFINE s2 == Counting(w)
           f == Recount(VenueOf[sess[w].app], StatusAfter(sess[w].change),
                        AdmissionsAfter(sess[w].change), ScoresAfter(sess[w].change))
<1>1. SessStep(w, s2) /\ sess[w] \in Writing /\ sess[w].pc = "venue" /\ f \in Tally /\ CountsTo(sess[w], f, s2)
  BY RefreshVenueSess, RecountType DEF Counting, CountsTo
<1> HIDE DEF s2, f
<1>2. PICK s : s = sess[w]
  OBVIOUS
<1>3. /\ s2.op = s.op /\ s2.pc = "commit" /\ s2.app = s.app /\ s2.change = s.change
      /\ s.op = "sync" => s2.record = s.record /\ s2.tell = s.tell
      /\ s.op = "resolve" => s2.hash = s.hash
  BY <1>1, <1>2, CountingIs
<1>4. Busy(s) /\ s.app \in Apps
  BY <1>1, <1>2, WritingFields DEF Busy
<1>5. PICK S : S = OwnScores(s.app)
  OBVIOUS
<1>6. AtLog(s, S, LetIn, captured)
  BY <1>2, <1>5 DEF SInv, SessLog
<1>7. AtLog(s, S, LetIn', captured')
  BY <1>6, Growing, ExtendsSelf, StaysAtLog
<1>8. AtLog(s2, S, LetIn', captured')
  BY <1>3, <1>4, <1>7 DEF AtLog, Busy
<1>9. sess'[w] = s2
  BY <1>1, SessKeeps DEF TInv
<1>10. OwnScores(sess[w].app)' = S
  BY <1>0, <1>3, <1>5, <1>9 DEF OwnScores
<1>11. SessLog(w)'
  BY <1>8, <1>9, <1>10 DEF SessLog
<1> QED BY <1>0, <1>1, <1>11, LogQuiet

LEMMA CheckDeviceS ==
  ASSUME TInv, SInv, [Next]_vars, NEW w \in Sessions, CheckDevice(w)
  PROVE  SInv'
<1>0. UNCHANGED <<settled, official, announced, captured>>
  BY CheckDeviceSess DEF CheckDevice, rows
<1>1. CASE SessStep(w, Idle)
  BY <1>0, <1>1, LogAway, IdleIsAway
<1>2. CASE SessStep(w, [sess[w] EXCEPT !.pc = "row"]) /\ RecordTrusted(sess[w].record, sess[w].officer)
  <2> DEFINE s2 == [sess[w] EXCEPT !.pc = "row"]
  <2>1. sess[w] \in SyncAsk
    BY CheckDeviceSess
  <2>2. s2.op = "sync" /\ s2.pc = "row" /\ s2.record = sess[w].record /\ s2.officer = sess[w].officer
    BY <2>1 DEF SyncAsk
  <2>3. sess'[w] = s2
    BY <1>2, SessKeeps DEF TInv
  <2> HIDE DEF s2
  <2>4. s2.record \in captured /\ s2.record.officer = s2.officer
    BY <1>2, <2>1, <2>2 DEF SInv, SessLog, AtLog, SyncAsk, RecordTrusted
  <2>5. SessLog(w)'
    BY <1>0, <2>2, <2>3, <2>4 DEF SessLog, AtLog, Busy
  <2> QED BY <1>0, <1>2, <2>5, LogQuiet DEF s2
<1> QED BY <1>1, <1>2, CheckDeviceSess

\* A record refused as a repetition or as stale is held already.
LEMMA HeldAlready ==
  ASSUME NEW S \in SUBSET Score, NEW r \in Capturing, DecideMerge(r, S) \in {"DUPLICATE", "STALE"}
  PROVE  Holds(S, r)
<1>0. PICK k : k = DecideMerge(r, S)
  OBVIOUS
<1>1. CASE \E x \in S : x.metrics = r.metrics
  BY <1>1 DEF Holds
<1>2. CASE ~\E x \in S : x.metrics = r.metrics
  <2>1. PICK h \in ComputeHeads(S) : CompareClocks(r.clock, h.clock) \in {"DOMINATED", "EQUAL"}
    BY <1>2 DEF DecideMerge, PayloadHash
  <2>2. h \in S /\ h.clock \in Clocks /\ r.clock \in Clocks
    BY <2>1 DEF ComputeHeads, Score, Capturing
  <2>3. \A d \in Devices : h.clock[d] >= r.clock[d]
    BY <2>1, <2>2, Comparing
  <2> QED BY <2>2, <2>3 DEF Holds
<1> QED BY <1>1, <1>2

\* A record stored on top of a good log gives a good log that holds it.
LEMMA StoredGood ==
  ASSUME NEW a \in Apps, NEW S \in SUBSET Score, IsFiniteSet(S), NEW let, NEW cap, Good(S, let, cap),
         NEW r \in Capturing, r.app = a, NEW o \in Officers, NEW k \in Entries, k = DecideMerge(r, S),
         a \in let, r \in cap, r.genuine, r.officer = o
  PROVE  /\ Good(Stored(r, o, k, S), let, cap) /\ Extends(S, Stored(r, o, k, S))
         /\ Holds(Stored(r, o, k, S), r)
         /\ k # "CONFLICT" => VouchedIn(Stored(r, o, k, S), r.metrics)
<1>1. PICK T, row : T = Stored(r, o, k, S) /\ row = ScoreRow(r, o, k)
  OBVIOUS
<1>2. /\ FlagsOK(T) /\ Distinct(T) /\ Extends(S, T)
      /\ \E t \in T : t.metrics = r.metrics /\ t.entered = k
      /\ \A t \in T : \E s \in S \cup {row} : Same(s, t)
  BY <1>1, Merging DEF Good
<1>3. row.app = r.app /\ row.device = r.device /\ row.officer = o /\ row.metrics = r.metrics /\ row.clock = r.clock
  BY <1>1 DEF ScoreRow
<1>4. Genuine(row, let, cap)
  BY <1>3 DEF Genuine
<1>5. ASSUME NEW t \in T PROVE Genuine(t, let, cap)
  <2>1. PICK s \in S \cup {row} : Same(s, t)
    BY <1>2
  <2>2. Genuine(s, let, cap)
    BY <1>4 DEF Good
  <2> QED BY <2>1, <2>2 DEF Genuine, Same
<1>6. Holds(T, r) /\ (k # "CONFLICT" => VouchedIn(T, r.metrics))
  BY <1>2 DEF Holds, VouchedIn, ClearOrChosen
<1> QED BY <1>1, <1>2, <1>5, <1>6 DEF Good

LEMMA StoreScoreS ==
  ASSUME TInv, SInv, [Next]_vars, NEW w \in Sessions, StoreScore(w)
  PROVE  SInv'
<1>0. UNCHANGED <<official, announced, captured, scores, admissions>>
  BY DEF StoreScore, rows
<1>1. PICK r, o, a, S : r = sess[w].record /\ o = sess[w].officer /\ a = r.app /\ S = OwnScores(a)
  OBVIOUS
<1>2. /\ sess[w] \in SyncAsk /\ a = sess[w].app /\ sess[w].pc = "row" /\ sess[w].op = "sync"
      /\ r \in Capturing /\ o \in Officers /\ a \in Apps
  BY <1>1, StoreScoreSess DEF SyncAsk
<1>3. PICK k : /\ k = StoreOutcome(r, o)
               /\ \/ SessStep(w, Idle) /\ k \notin Entries
                     /\ settled' = IF k \in {"DUPLICATE", "STALE"} THEN settled \cup {r} ELSE settled
                  \/ k \in Entries /\ SessStep(w, SyncWriting(w, k)) /\ settled' = settled
  BY <1>1, StoreScoreSess
<1>4. S \in SUBSET Score /\ IsFiniteSet(S)
  BY <1>1, OwnFinite
<1>5. OwnScores(a)' = S
  BY <1>0, <1>1 DEF OwnScores
<1>6. k \in {"DUPLICATE", "STALE"} \cup Entries =>
        k = DecideMerge(r, S) /\ r.genuine /\ (a \in WalkIns \/ Admitted(a))
  BY <1>1, <1>3 DEF StoreOutcome, Entries
<1>7. CASE SessStep(w, Idle) /\ settled' = IF k \in {"DUPLICATE", "STALE"} THEN settled \cup {r} ELSE settled
  <2>1. k \in {"DUPLICATE", "STALE"} => Holds(S, r)
    BY <1>2, <1>4, <1>6, HeldAlready
  <2>2. \A b \in Apps, x \in settled' : x.app = b => x \in settled \/ Holds(OwnScores(b)', x)
    BY <1>1, <1>5, <1>7, <2>1
  <2>3. sess'[w] = Idle /\ \A x \in Sessions \ {w} : sess'[x] = sess[x]
    BY <1>7, SessKeeps DEF TInv
  <2>4. \A x \in Sessions : sess'[x] = sess[x] \/ SessLog(x)'
    BY <2>3, AwayFromLog, IdleIsAway
  <2> QED BY <1>0, <2>2, <2>4, LogStep
<1>8. CASE k \in Entries /\ SessStep(w, SyncWriting(w, k)) /\ settled' = settled
  <2> DEFINE s2 == SyncWriting(w, k)
  <2>1. PICK T : T = Stored(r, o, k, S)
    OBVIOUS
  <2>2. a \in LetIn' /\ LetIn' = LetIn /\ r \in captured /\ r.officer = o
    <3>1. a \in LetIn
      BY <1>6, <1>8 DEF LetIn, Admitted
    <3>2. r \in captured /\ r.officer = o
      BY <1>1, <1>2 DEF SInv, SessLog, AtLog
    <3> QED BY <1>0, <3>1, <3>2 DEF LetIn
  <2>3. /\ Good(T, LetIn, captured) /\ Extends(S, T) /\ Holds(T, r)
        /\ k # "CONFLICT" => VouchedIn(T, r.metrics)
    <3>1. Good(S, LetIn, captured)
      BY <1>1, <1>2 DEF SInv, LogOK
    <3>2. k \in Entries /\ k = DecideMerge(r, S) /\ r.genuine
      BY <1>6, <1>8
    <3> QED BY <1>1, <1>2, <1>4, <2>1, <2>2, <3>1, <3>2, StoredGood, ZenonT(60)
  <2>4. /\ s2.op = "sync" /\ s2.pc = "venue" /\ s2.app = a /\ s2.record = r /\ s2.officer = o
        /\ s2.tell = (k # "CONFLICT") /\ s2.change.scores = T
    BY <1>1, <2>1 DEF SyncWriting
  <2>5. sess'[w] = s2
    BY <1>8, SessKeeps DEF TInv
  <2> HIDE DEF s2
  <2>6. AtLog(s2, S, LetIn, captured)
    <3>1. s2.tell => VouchedIn(T, r.metrics)
      BY <2>3, <2>4
    <3> QED BY <2>2, <2>3, <2>4, <3>1 DEF AtLog
  <2>7. OwnScores(sess[w].app)' = S
    BY <1>5, <2>4, <2>5 DEF OwnScores
  <2>8. SessLog(w)'
    BY <1>0, <2>2, <2>5, <2>6, <2>7 DEF SessLog
  <2> QED BY <1>0, <1>8, <2>8, LogQuiet DEF s2
<1> QED BY <1>3, <1>7, <1>8

LEMMA ResolveConflictS ==
  ASSUME TInv, SInv, [Next]_vars, NEW w \in Sessions, ResolveConflict(w)
  PROVE  SInv'
<1>0. UNCHANGED <<settled, official, announced, captured, scores, admissions>>
  BY DEF ResolveConflict, rows, fieldVars
<1>1. CASE SessStep(w, Idle)
  BY <1>0, <1>1, LogAway, IdleIsAway
<1>2. ASSUME NEW x \in Found(sess[w].app, sess[w].pick), SessStep(w, ResolveWriting(w, x)) PROVE SInv'
  <2> DEFINE s2 == ResolveWriting(w, x)
  <2>1. PICK a, S, found, T : /\ a = sess[w].app /\ S = OwnScores(a) /\ found = Found(a, sess[w].pick)
                              /\ T = Chosen(S, found)
    OBVIOUS
  <2>2. a \in Apps /\ S \in SUBSET Score /\ found \in SUBSET S /\ x \in found
    BY <1>2, <2>1, ResolveConflictSess, OwnFinite DEF ResolveAsk, Found
  <2>3. Good(S, LetIn, captured)
    BY <2>1, <2>2 DEF SInv, LogOK
  <2>4. /\ FlagsOK(T) /\ Distinct(T) /\ Extends(S, T)
        /\ \E t \in T : t.metrics = x.metrics /\ t.chosen
        /\ \A t \in T : \E s \in S : Same(s, t)
    BY <2>1, <2>2, <2>3, Choosing DEF Good
  <2>5. ASSUME NEW t \in T PROVE Genuine(t, LetIn, captured)
    <3>1. PICK s \in S : Same(s, t)
      BY <2>4
    <3>2. Genuine(s, LetIn, captured)
      BY <2>3 DEF Good
    <3> QED BY <3>1, <3>2 DEF Genuine, Same
  <2>6. Good(T, LetIn, captured) /\ VouchedIn(T, x.metrics)
    BY <2>4, <2>5 DEF Good, VouchedIn, ClearOrChosen
  <2>7. /\ s2.op = "resolve" /\ s2.pc = "venue" /\ s2.app = a /\ s2.hash = x.metrics
        /\ s2.change.scores = T
    BY <2>1 DEF ResolveWriting
  <2>8. sess'[w] = s2
    BY <1>2, SessKeeps DEF TInv
  <2> HIDE DEF s2
  <2>9. AtLog(s2, S, LetIn, captured)
    BY <2>4, <2>6, <2>7 DEF AtLog
  <2>10. OwnScores(sess[w].app)' = S /\ LetIn' = LetIn
    BY <1>0, <2>1, <2>7, <2>8 DEF OwnScores, LetIn
  <2>11. SessLog(w)'
    BY <1>0, <2>8, <2>9, <2>10 DEF SessLog
  <2> QED BY <1>0, <1>2, <2>11, LogQuiet DEF s2
<1> QED BY <1>1, <1>2, ResolveConflictSess

\* What was written is the log when the session announces it.
LEMMA CommitS ==
  ASSUME TInv, SInv, [Next]_vars, NEW w \in Sessions, CommitScore(w) \/ CommitResolution(w)
  PROVE  SInv'
<1>0. UNCHANGED <<settled, official, announced, captured>>
  BY DEF CommitScore, CommitResolution, fieldVars
<1>1. /\ sess[w].op \in {"sync", "resolve"} /\ sess[w].pc = "commit" /\ Release(w) /\ Publish(w)
      /\ sess' = [sess EXCEPT ![w].pc = "announce", ![w].change = None, ![w].fresh = None]
  BY DEF CommitScore, CommitResolution
<1>2. PICK s, s2 : s = sess[w] /\ s2 = Telling(sess[w])
  OBVIOUS
<1>3. /\ SessStep(w, s2) /\ s \in Writing /\ s.change.app = s.app /\ s2.app = s.app
      /\ s.op = "sync" => s2 \in SyncTell /\ s2.record = s.record /\ s2.tell = s.tell
      /\ s.op = "resolve" => s2 \in ResolveTell /\ s2.hash = s.hash
  BY <1>1, <1>2, TellingStep
<1>4. sess'[w] = s2 /\ (\A x \in Sessions \ {w} : sess'[x] = sess[x]) /\ ~Busy(s2)
  BY <1>1, <1>2, <1>3, SessKeeps, AsksAreNotBusy DEF TInv
<1>5. Commits(w)
  BY <1>1, <1>2, <1>3, <1>4 DEF Commits
<1>6. PICK b, T : b = s.app /\ T = s.change.scores
  OBVIOUS
<1>7. OwnScores(b)' = T /\ Busy(s)
  <2>1. OwnScores(b)' = sess[w].change.scores /\ Busy(sess[w])
    BY <1>2, <1>5, <1>6, CommittedLog
  <2> QED BY <1>2, <1>6, <2>1
<1>8. AtLog(s, OwnScores(b), LetIn, captured)
  BY <1>2, <1>6 DEF SInv, SessLog
<1>9. AtLog(s2, T, LetIn', captured')
  <2>1. CASE s.op = "sync"
    <3>1. s2.op = "sync" /\ s2.pc = "announce" /\ s2.record = s.record /\ s2.tell = s.tell
      BY <1>3, <2>1 DEF SyncTell
    <3> QED BY <1>0, <1>4, <1>6, <1>7, <1>8, <2>1, <3>1 DEF AtLog
  <2>2. CASE s.op = "resolve"
    <3>1. s2.op = "resolve" /\ s2.pc = "announce" /\ s2.hash = s.hash
      BY <1>3, <2>2 DEF ResolveTell
    <3> QED BY <1>4, <1>6, <1>7, <1>8, <2>2, <3>1 DEF AtLog
  <2> QED BY <1>1, <1>2, <2>1, <2>2
<1>10. OwnScores(sess[w].app)' = T
  BY <1>3, <1>4, <1>6, <1>7 DEF OwnScores
<1>11. SessLog(w)'
  BY <1>4, <1>9, <1>10 DEF SessLog
<1> QED BY <1>0, <1>3, <1>11, LogQuiet

LEMMA QueuedAppend ==
  ASSUME NEW f \in [Apps -> Seq(Metrics)], NEW a \in Apps, NEW h \in Metrics,
         NEW g, g = [f EXCEPT ![a] = Append(@, h)]
  PROVE  \A b \in Apps : \A x \in Queued(g[b]) : x \in Queued(f[b]) \/ (b = a /\ x = h)
<1> TAKE b \in Apps
<1> TAKE x \in Queued(g[b])
<1>1. CASE b # a
  BY <1>1 DEF Queued
<1>2. CASE b = a
  <2>1. PICK q \in Seq(Metrics) : q = f[a]
    OBVIOUS
  <2>2. g[b] = Append(q, h)
    BY <1>2, <2>1
  <2>3. PICK i \in DOMAIN Append(q, h) : x = Append(q, h)[i]
    BY <2>2 DEF Queued
  <2>4. CASE i = Len(q) + 1
    BY <1>2, <2>3, <2>4
  <2>5. CASE i # Len(q) + 1
    <3>1. i \in DOMAIN q /\ x = q[i]
      BY <2>3, <2>5
    <3> QED BY <1>2, <2>1, <3>1 DEF Queued
  <2> QED BY <2>4, <2>5
<1> QED BY <1>1, <1>2

LEMMA QueuedTail ==
  ASSUME NEW f \in [Apps -> Seq(Metrics)], NEW a \in Apps, f[a] # << >>, NEW b \in Apps,
         NEW x \in Queued([f EXCEPT ![a] = Tail(@)][b])
  PROVE  x \in Queued(f[b])
<1>1. CASE b # a
  BY <1>1 DEF Queued
<1>2. CASE b = a
  <2>1. PICK q \in Seq(Metrics) : q = f[a] /\ q # << >>
    OBVIOUS
  <2>2. [f EXCEPT ![a] = Tail(@)][b] = Tail(q)
    BY <1>2, <2>1
  <2>3. PICK i \in DOMAIN Tail(q) : x = Tail(q)[i]
    BY <2>2 DEF Queued
  <2>4. i + 1 \in DOMAIN q /\ x = q[i + 1]
    BY <2>1, <2>3
  <2> QED BY <1>2, <2>1, <2>4 DEF Queued
<1> QED BY <1>1, <1>2

\* An announcement names a score of the log that is clear or chosen.
LEMMA AnnouncingS ==
  ASSUME TInv, SInv, [Next]_vars, NEW w \in Sessions, Materialise(w) \/ AnnounceChosen(w)
  PROVE  SInv'
<1>0. UNCHANGED <<official, captured, scores>>
  BY DEF Materialise, AnnounceChosen, rows
<1>1. SessStep(w, Idle)
  BY MaterialiseSess, AnnounceChosenSess
<1>2. sess'[w] = Idle /\ \A x \in Sessions \ {w} : sess'[x] = sess[x]
  BY <1>1, SessKeeps DEF TInv
<1>3. \A x \in Sessions : sess'[x] = sess[x] \/ SessLog(x)'
  BY <1>2, AwayFromLog, IdleIsAway
<1>4. PICK s, a, S : s = sess[w] /\ a = s.app /\ S = OwnScores(a)
  OBVIOUS
<1>5. AtLog(s, S, LetIn, captured) /\ announced \in [Apps -> Seq(Metrics)]
  BY <1>4 DEF SInv, SessLog, TInv, FieldOK
<1>6. OwnScores(a)' = S
  BY <1>0, <1>4 DEF OwnScores
<1>7. ASSUME NEW h \in Metrics, VouchedIn(S, h), a \in Apps,
             announced' = [announced EXCEPT ![a] = Append(@, h)]
      PROVE  \A b \in Apps : \A y \in Queued(announced'[b]) : y \in Queued(announced[b]) \/ VouchedIn(OwnScores(b)', y)
  <2> SUFFICES ASSUME NEW b \in Apps, NEW y \in Queued(announced'[b])
               PROVE  y \in Queued(announced[b]) \/ VouchedIn(OwnScores(b)', y)
    OBVIOUS
  <2>1. PICK f \in [Apps -> Seq(Metrics)], g \in {announced'} : f = announced /\ g = announced'
    BY <1>5
  <2>2. g = [f EXCEPT ![a] = Append(@, h)] /\ y \in Queued(g[b])
    BY <1>7, <2>1
  <2>3. y \in Queued(f[b]) \/ (b = a /\ y = h)
    BY <1>7, <2>1, <2>2, QueuedAppend
  <2> QED BY <1>6, <1>7, <2>1, <2>3
<1>8. CASE Materialise(w)
  <2>1. PICK r : r = s.record
    OBVIOUS
  <2>2. /\ s \in SyncTell /\ r.app = a /\ settled' = settled \cup {r} /\ a \in Apps /\ r \in Capturing
        /\ announced' = IF s.tell THEN [announced EXCEPT ![a] = Append(@, r.metrics)] ELSE announced
    BY <1>4, <1>8, <2>1, MaterialiseSess DEF SyncTell
  <2>3. Holds(S, r) /\ (s.tell => VouchedIn(S, r.metrics)) /\ r.metrics \in Metrics
    BY <1>5, <2>1, <2>2 DEF SyncTell, AtLog, Capturing
  <2>4. \A b \in Apps, x \in settled' : x.app = b => x \in settled \/ Holds(OwnScores(b)', x)
    BY <1>6, <2>2, <2>3
  <2>5. \A b \in Apps : \A y \in Queued(announced'[b]) : y \in Queued(announced[b]) \/ VouchedIn(OwnScores(b)', y)
    <3>1. CASE s.tell
      BY <1>7, <2>2, <2>3, <3>1
    <3>2. CASE ~s.tell
      BY <2>2, <3>2
    <3> QED BY <3>1, <3>2
  <2> QED BY <1>0, <1>3, <2>4, <2>5, LogStep
<1>9. CASE AnnounceChosen(w)
  <2>1. /\ s \in ResolveTell /\ a \in Apps /\ settled' = settled
        /\ announced' = [announced EXCEPT ![a] = Append(@, s.hash)]
    BY <1>4, <1>9, AnnounceChosenSess DEF ResolveTell, AnnounceChosen
  <2>2. VouchedIn(S, s.hash) /\ s.hash \in Metrics
    BY <1>5, <2>1 DEF ResolveTell, AtLog
  <2>3. \A b \in Apps : \A y \in Queued(announced'[b]) : y \in Queued(announced[b]) \/ VouchedIn(OwnScores(b)', y)
    BY <1>7, <2>1, <2>2
  <2> QED BY <1>0, <1>3, <2>1, <2>3, LogStep
<1> QED BY <1>8, <1>9

LEMMA FieldStepS ==
  ASSUME TInv, SInv, [Next]_vars, NEW w \in Sessions, FieldStep(w)
  PROVE  SInv'
<1>1. ASSUME NEW o \in Officers, NEW r \in captured, Upload(w, o, r) PROVE SInv'
  <2> DEFINE s2 == [op |-> "sync", pc |-> "device", app |-> r.app, officer |-> o, record |-> r]
  <2>1. SessStep(w, s2) /\ s2.op = "sync" /\ s2.pc = "device" /\ s2.record = r
    BY <1>1, UploadSess
  <2>2. UNCHANGED <<settled, official, announced, captured>>
    BY <1>1 DEF Upload, rows, fieldVars
  <2> HIDE DEF s2
  <2>3. sess'[w] = s2
    BY <2>1, SessKeeps DEF TInv
  <2>4. SessLog(w)'
    BY <2>1, <2>2, <2>3 DEF SessLog, AtLog, Busy
  <2> QED BY <2>1, <2>2, <2>4, LogQuiet
<1>2. ASSUME NEW o \in Officers, NEW s \in scores, Resolve(w, o, s) PROVE SInv'
  <2> DEFINE s2 == [op |-> "resolve", pc |-> "row", app |-> s.app,
                    pick |-> [device |-> s.device, clock |-> s.clock]]
  <2>1. SessStep(w, s2) /\ s2.op = "resolve" /\ s2.pc = "row"
    BY <1>2, ResolveSess
  <2>2. UNCHANGED <<settled, official, announced>>
    BY <1>2 DEF Resolve, rows, fieldVars
  <2> HIDE DEF s2
  <2> QED BY <2>1, <2>2, LogAway DEF Away, Busy
<1> QED BY <1>1, <1>2, CheckDeviceS, StoreScoreS, CommitS, AnnouncingS, ResolveConflictS DEF FieldStep

\* The consumer makes official what the log vouches for: the one score with
\* the announced measurements.
LEMMA ConsumerS ==
  ASSUME TInv, SInv, [Next]_vars, NEW a \in Apps, NEW acknowledged \in BOOLEAN,
         ApplyPhysicalTestComplete(a, acknowledged)
  PROVE  SInv'
<1>0. announced \in [Apps -> Seq(Metrics)] /\ official \in [Apps -> Picked \cup {None}]
  BY DEF TInv, FieldOK, RowsOK
<1>1. /\ announced[a] # << >> /\ UNCHANGED <<captured, settled, scores, sess>>
      /\ announced' = IF acknowledged THEN [announced EXCEPT ![a] = Tail(@)] ELSE announced
  BY ConsumerCases DEF Completes, Passes, WriteRow, rows
<1>2. \A b \in Apps : \A y \in Queued(announced'[b]) : y \in Queued(announced[b])
  <2>1. CASE acknowledged
    BY <1>0, <1>1, <2>1, QueuedTail
  <2>2. CASE ~acknowledged
    BY <1>1, <2>2
  <2> QED BY <2>1, <2>2
<1>3. \A b \in Apps : official'[b] = official[b] \/ OfficialIn(OwnScores(b)', official'[b])
  <2>1. CASE Passes(a, acknowledged)
    BY <2>1 DEF Passes, rows
  <2>2. CASE Completes(a, acknowledged)
    <3>1. PICK s \in OwnScores(a) : /\ s.metrics = Head(announced[a])
                                    /\ official' = [official EXCEPT ![a] = [device |-> s.device, clock |-> s.clock]]
      BY <2>2 DEF Completes
    <3>2. Head(announced[a]) \in Queued(announced[a])
      <4>1. PICK q \in Seq(Metrics) : q = announced[a] /\ q # << >>
        BY <1>0, <1>1
      <4>2. 1 \in DOMAIN q /\ Head(q) = q[1]
        BY <4>1
      <4> QED BY <4>1, <4>2 DEF Queued
    <3>3. VouchedIn(OwnScores(a), s.metrics) /\ Distinct(OwnScores(a))
      BY <3>1, <3>2 DEF SInv, LogOK, Good
    <3>4. ClearOrChosen(s)
      BY <3>3 DEF VouchedIn, Distinct
    <3>5. PICK p : p = [device |-> s.device, clock |-> s.clock]
      OBVIOUS
    <3>6. OwnScores(a)' = OwnScores(a) /\ official'[a] = p /\ \A b \in Apps \ {a} : official'[b] = official[b]
      BY <1>0, <1>1, <3>1, <3>5 DEF OwnScores
    <3>7. OfficialIn(OwnScores(a), p)
      BY <3>4, <3>5 DEF OfficialIn
    <3> QED BY <3>6, <3>7
  <2> QED BY <2>1, <2>2, ConsumerCases
<1> QED BY <1>1, <1>2, <1>3, LogStep

LEMMA InitSInv == Init => SInv
<1> SUFFICES ASSUME Init PROVE SInv
  OBVIOUS
<1>1. \A w \in Sessions : SessLog(w)
  <2>1. \A s, S, let, cap : s.op = "idle" => AtLog(s, S, let, cap)
    BY DEF AtLog, Busy
  <2>2. \A w \in Sessions : sess[w].op = "idle"
    BY DEF Init, Idle
  <2> QED BY <2>1, <2>2 DEF SessLog
<1>2. \A a : OwnScores(a) = {}
  BY DEF Init, OwnScores
<1>3. Good({}, LetIn, captured)
  <2>1. ComputeHeads({}) = {}
    BY DEF ComputeHeads
  <2>2. Cardinality({}) = 0
    BY FS_EmptySet
  <2> QED BY <2>1, <2>2 DEF Good, Distinct, FlagsOK
<1>4. ASSUME NEW a \in Apps PROVE LogOK(a)
  <2>1. settled = {} /\ official[a] = None /\ announced[a] = << >>
    BY DEF Init
  <2>2. Queued(announced[a]) = {}
    BY <2>1 DEF Queued
  <2> QED BY <1>2, <1>3, <2>1, <2>2 DEF LogOK, OfficialIn
<1> QED BY <1>1, <1>4 DEF SInv

LEMMA NextSInv == TInv /\ SInv /\ [Next]_vars => SInv'
<1> SUFFICES ASSUME TInv, SInv, [Next]_vars PROVE SInv'
  OBVIOUS
<1>0. ASSUME UNCHANGED <<sess, settled, official, announced>> PROVE SInv'
  BY <1>0, LogStep
<1>1. CASE UNCHANGED vars
  BY <1>0, <1>1 DEF vars, rows, fieldVars
<1>2. ASSUME NEW w \in Sessions, GateStep(w) /\ UNCHANGED fieldVars PROVE SInv'
  BY <1>2, GateStepS
<1>3. ASSUME NEW w \in Sessions, FieldStep(w) PROVE SInv'
  BY <1>3, FieldStepS
<1>4. ASSUME NEW w \in Sessions, RefreshVenue(w) /\ UNCHANGED fieldVars PROVE SInv'
  BY <1>4, CountingS
<1>5. ASSUME NEW w \in Sessions, Crash(w) /\ UNCHANGED fieldVars PROVE SInv'
  <2>1. SessStep(w, Idle) /\ UNCHANGED <<settled, official, announced>>
    BY <1>5, EndingSess DEF Crash, Abandon, rows, fieldVars
  <2> QED BY <2>1, LogAway, IdleIsAway
<1>6. ASSUME FieldEnvironment PROVE SInv'
  <2>1. ASSUME (\E t \in Tests : Capture(t)) \/ \E o \in Officers, d \in Devices : Enroll(o, d) \/ Revoke(o, d)
        PROVE  SInv'
    BY <1>0, <2>1 DEF Capture, Enroll, Revoke, rows, fieldVars
  <2> QED BY <1>6, <2>1, ConsumerS DEF FieldEnvironment
<1>7. ASSUME (NextDay \/ \E m \in {"ADVISORY", "OFF"} : SetMode(m)) /\ UNCHANGED fieldVars PROVE SInv'
  BY <1>0, <1>7 DEF NextDay, SetMode, rows, fieldVars
<1>8. ASSUME NEW a \in Apps, Withdraw(a) /\ UNCHANGED fieldVars PROVE SInv'
  BY <1>0, <1>8 DEF Withdraw, WriteRow, fieldVars
<1> QED BY <1>1, <1>2, <1>3, <1>4, <1>5, <1>6, <1>7, <1>8 DEF Next

LEMMA Kept == Spec => []SInv
BY Typed, InitSInv, NextSInv, PTL DEF Spec

\* What a tablet was told is taken is stored, or a later or equal measurement
\* is; concurrent captures are flagged together until an officer chooses; every
\* stored score is a genuine capture of someone the gate let in; and only a
\* score that was clear or chosen is official: for any tablets and uploads.
THEOREM CapturesKept == Spec => []CapturesAreKept
<1>1. TInv /\ SInv => NothingForgotten
  <2> SUFFICES ASSUME TInv, SInv, NEW r \in settled
               PROVE \E s \in OwnScores(r.app) :
                        PayloadHash(s) = PayloadHash(r) \/ \A d \in Devices : s.clock[d] >= r.clock[d]
    BY DEF NothingForgotten
  <2>1. r.app \in Apps
    BY DEF TInv, FieldOK, Capturing
  <2>2. Holds(OwnScores(r.app), r)
    BY <2>1 DEF SInv, LogOK
  <2> QED BY <2>2 DEF Holds, PayloadHash
<1>2. SInv => FlagsTellTheHeads
  <2> SUFFICES ASSUME SInv, NEW a \in Apps
               PROVE  /\ \A s, x \in OwnScores(a) : s.conflict = x.conflict
                      /\ InConflict(a) => Cardinality(ComputeHeads(OwnScores(a))) > 1
                      /\ Cardinality(ComputeHeads(OwnScores(a))) > 1 => InConflict(a) \/ \E s \in OwnScores(a) : s.chosen
    BY DEF FlagsTellTheHeads
  <2>1. FlagsOK(OwnScores(a))
    BY DEF SInv, LogOK, Good
  <2>2. InConflict(a) <=> \E s \in OwnScores(a) : s.conflict
    BY DEF InConflict, OwnScores
  <2> QED BY <2>1, <2>2 DEF FlagsOK
<1>3. TInv /\ SInv => ScoresAreGenuine
  <2> SUFFICES ASSUME TInv, SInv, NEW s \in scores
               PROVE  /\ s.app \in WalkIns \/ Admitted(s.app)
                      /\ \E r \in captured : /\ r.genuine /\ r.app = s.app /\ r.device = s.device
                                             /\ r.clock = s.clock /\ r.officer = s.officer /\ r.metrics = s.metrics
    BY DEF ScoresAreGenuine
  <2>1. s.app \in Apps /\ s \in OwnScores(s.app)
    BY DEF TInv, RowsOK, Score, OwnScores
  <2>2. Genuine(s, LetIn, captured)
    BY <2>1 DEF SInv, LogOK, Good
  <2> QED BY <2>2 DEF Genuine, LetIn, Admitted
<1>4. SInv => OfficialWasClearOrChosen
  BY DEF SInv, LogOK, OfficialIn, ClearOrChosen, OfficialWasClearOrChosen
<1>5. TInv /\ SInv => CapturesAreKept
  BY <1>1, <1>2, <1>3, <1>4 DEF CapturesAreKept
<1> QED BY <1>5, Typed, Kept, PTL

=============================================================================
