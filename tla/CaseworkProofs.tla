--------------------------- MODULE CaseworkProofs ---------------------------
(***************************************************************************)
(* Theorems about Casework, for any documents, certificates, registry      *)
(* answers and policies, and any number of calls and workers.              *)
(*                                                                         *)
(* The invariant has one part for each service.  SlotInv says who wrote    *)
(* the object last and what a call that holds the slot's row may rely on;  *)
(* DeskInv ties the event a worker handles to the record it leaves;        *)
(* VerdictInv says what a verdict on the bus rests on, however late it is  *)
(* projected; RowInv says the same of the row, and of the stage that an    *)
(* officer would restore; RouteInv that an amber document whose verdict    *)
(* arrived keeps the application on hold.                                  *)
(***************************************************************************)
EXTENDS Casework, TLAPS

Docs == [content : Content, lane : Lanes, revision : Nat, stamp : Content \cup {None}]

\* The revisions the trail has of a row.
Revisions(tr, d) == {t[2] : t \in {t \in tr : t[1] = d}}

SlotTypes ==
    /\ docs \in Seq(Docs)
    /\ object \in Content \cup {None}
    /\ call \in [Caller -> Calls \cup {None}]
    /\ lost \in BOOLEAN /\ stale \in BOOLEAN
    /\ docs # <<>> => object # None
    /\ \A t \in trail : t[1] \in DOMAIN docs
    /\ \A d \in DOMAIN docs : Revisions(trail, d) = 1 .. docs[d].revision

\* An upload that has written the object and may still be rolled back.
Written(k) == call[k] # None /\ call[k].pc = "written" /\ call[k].door = "upload"

Superseding(k) == Holding(k) /\ call[k].decision = "SUPERSEDE"

\* A re-analysis read the object, and a call that wrote it left one.
Grounded(k) == call[k] # None /\ (call[k].door = "analyze" \/ call[k].pc = "written")

\* A call that holds the slot has decided; a superseding one alone, on a row
\* nobody stamped.
CallsOK ==
    /\ \A k \in Caller : Holding(k) =>
         /\ call[k].decision \in {"CREATE", "SUPERSEDE"}
         /\ call[k].decision = "SUPERSEDE" =>
              call[k].doc \in DOMAIN docs /\ docs[call[k].doc].stamp = None
    /\ \A k \in Caller : call[k] # None /\ call[k].pc = "recorded" => call[k].doc \in DOMAIN docs
    /\ \A j, k \in Caller : Superseding(j) /\ Superseding(k) => j = k
    /\ \A k \in Caller : Grounded(k) => object # None

\* The bytes an upload wrote are still there, or another upload wrote since,
\* which is under way, was lost, or left a row that makes this one the second.
LastWriteKnown ==
    \A k \in Caller : Written(k) =>
        \/ object = call[k].content \/ lost
        \/ \E j \in Caller \ {k} : Written(j)
        \/ Len(docs) >= 1 /\ call[k].decision = "CREATE"
        \/ Len(docs) >= 2

StampsStand ==
    \A d \in DOMAIN docs : docs[d].stamp # None =>
        \/ object = docs[d].stamp
        \/ Len(docs) > 1 \/ lost
        \/ \E k \in Caller : Written(k) /\ call[k].decision = "CREATE"

TrailKept ==
    \/ object = None \/ lost
    \/ \E t \in trail : t[3] = object
    \/ \E k \in Caller : Written(k) /\ call[k].content = object

RowDescribes ==
    \/ Len(docs) # 1 \/ lost \/ stale
    \/ object = docs[1].content
    \/ \E k \in Caller : Written(k)

SlotInv == SlotTypes /\ CallsOK /\ LastWriteKnown /\ StampsStand /\ TrailKept /\ RowDescribes

-----------------------------------------------------------------------------
\* The answers that decide a dimension.
Clearing(a) ==
    \/ a.source = "RIB" /\ a.status = "CLEAR"
    \/ /\ a.source = "IREMBO" /\ a.found /\ a.authentic
       /\ "MISMATCH" \notin {a.fields[f] : f \in DOMAIN a.fields}
       /\ a.allowed /\ a.age # None /\ a.age <= ValidityDays /\ a.noRecord

Meets(level, field, science) ==
    MeetsEducation(Requirement, Policy,
        [level |-> level, field |-> field, science |-> science], AgeOnDate)

OwnRecord(a) == a.found /\ "MISMATCH" \notin {a.fields[f] : f \in DOMAIN a.fields} /\ a.published

Failing(a) ==
    \/ a.source = "NESA" /\ (~a.found \/ (OwnRecord(a) /\ ~Meets(a.level, None, a.science)))
    \/ a.source = "HEC" /\ (~a.found \/ ~a.holder \/ ~Meets(a.level, a.field, None))

Passing(a) ==
    \/ a.source = "NESA" /\ OwnRecord(a) /\ Meets(a.level, None, a.science)
    \/ a.source = "HEC" /\ a.found /\ a.holder /\ Meets(a.level, a.field, None)

ByRib == \E a \in answers : a.source = "RIB"
ClearedOnRecord == ByRib \/ \E i \in DOMAIN log : log[i].outcome = "CLEARED"
ContentOnRecord == \E i \in DOMAIN log : log[i].reasons = {"CLEARANCE_CONTENT_REVIEW"}

\* What a verdict that clears, passes or fails rests on.
Grounds(dim, value) ==
    /\ dim = "ACADEMIC" /\ value = "INELIGIBLE" => \E a \in answers : Failing(a)
    /\ dim = "ACADEMIC" /\ value = "ELIGIBLE" => \E a \in answers : Passing(a)
    /\ dim = "CRIMINAL" /\ value = "CLEARED" =>
         (\E a \in answers : Clearing(a)) /\ ClearedOnRecord

Values(dim) ==
    IF dim = "CRIMINAL" THEN CriminalStatuses
    ELSE IF dim = "DOCUMENT" THEN Lanes ELSE GateStatuses

VerdictInv ==
    \A v \in verdicts :
        /\ v.dim \in Dimensions \cup {"DOCUMENT"}
        /\ v.value \in Values(v.dim) /\ v.review \in BOOLEAN
        /\ Grounds(v.dim, v.value)

\* Every certificate number of any instance.
Numbers == UNION {sc.numbers : sc \in Scopes}

DeskTypes ==
    /\ scope \in Scopes
    /\ log \in Seq(Entries)
    /\ owed \subseteq Numbers /\ parked \subseteq Numbers
    /\ handling \in [Worker -> Handlings \cup {None}]
    /\ overlapped \in BOOLEAN

\* The event a worker handles is an entry of the record to be; once recorded,
\* a verdict is on the record, and a clearance has its certificate.
HandledOnRecord ==
    \A w \in Worker : handling[w] # None =>
        /\ Entering(w).outcome = "CLEARED" => \E a \in answers : Clearing(a)
        /\ At(w, "recorded") /\ Entering(w).outcome # "PENDING" =>
             \E i \in DOMAIN log : log[i] = Entering(w)

\* One handler at a time: what it handles is still on the bus or parked, what it
\* recorded is the latest record, and its escalation follows an outage.
AloneOK ==
    ~overlapped =>
        /\ \A v, w \in Worker : handling[v] # None /\ handling[w] # None => v = w
        /\ \A w \in Worker : handling[w] # None =>
             /\ Entering(w).cert \in owed \cup parked
             /\ At(w, "recorded") /\ Entering(w).outcome # "PENDING" =>
                  log # <<>> /\ log[Len(log)] = Entering(w)
             /\ At(w, "insert") /\ Entering(w).reasons = Unverified.reasons =>
                  log = <<>> \/ log[Len(log)].outcome = "PENDING"

DeskInv == DeskTypes /\ HandledOnRecord /\ AloneOK /\ PendingIsNeverForgotten /\ EscalationFollowsOutage

-----------------------------------------------------------------------------
Stages ==
    { "SUBMITTED", "ACADEMIC_VETTING", "CRIMINAL_CLEARANCE", "DOCUMENT_REVIEW_GREEN",
      "DOCUMENT_REVIEW_AMBER", "SLOT_ASSIGNED", "ADJUDICATION_REVIEW", "REJECTED" }

Rows ==
    [status : Stages, age : GateStatuses, academic : GateStatuses, nesaReview : BOOLEAN,
     criminal : CriminalStatuses, resolvedDims : SUBSET VettingDimensions,
     heldFrom : {None, "SLOT_ASSIGNED"}]

\* What the columns of a row rest on.
EvidenceOK(r) ==
    /\ r.academic = "INELIGIBLE" => \E a \in answers : Failing(a)
    /\ r.academic = "ELIGIBLE" /\ "ACADEMIC" \notin r.resolvedDims => \E a \in answers : Passing(a)
    /\ r.criminal = "CLEARED" /\ "CRIMINAL" \notin r.resolvedDims =>
         (\E a \in answers : Clearing(a)) /\ ClearedOnRecord

\* What admits to the exam: an officer's decision, a clearance on the record,
\* or a genuine certificate whose content is left to read.
Admissible(r) == "CRIMINAL" \in r.resolvedDims \/ ClearedOnRecord \/ ContentOnRecord

RowOK(r) ==
    /\ r \in Rows
    /\ EvidenceOK(r)
    /\ r.status \in {"DOCUMENT_REVIEW_GREEN", "SLOT_ASSIGNED"} => Admissible(r)
    /\ r.heldFrom # None => Admissible(r)

RowInv == RowOK(row)

\* A routed document verdict names a revision that exists, and an amber one that
\* no officer saw keeps the application on the hold or closed.
RouteInv ==
    /\ \A v \in verdicts : v.dim = "DOCUMENT" =>
         v.doc[1] \in DOMAIN docs /\ v.doc[2] \in 0 .. docs[v.doc[1]].revision
    /\ \A p \in routed : p[1] \in DOMAIN docs /\ p[2] \in 0 .. docs[p[1]].revision
    /\ \A d \in DOMAIN docs :
         docs[d].lane = "AMBER" /\ docs[d].stamp = None /\ <<d, docs[d].revision>> \in routed
           => row.status \in {"DOCUMENT_REVIEW_AMBER", "REJECTED"}

IInv == SlotInv /\ DeskInv /\ VerdictInv /\ RowInv /\ RouteInv

-----------------------------------------------------------------------------
(* The document slot *)

LEMMA StageFacts ==
  /\ Stages \subseteq Statuses
  /\ \A s \in Statuses : StageRank[s] \in Nat
BY DEF Stages, Statuses, StageRank

LEMMA SlotStays ==
  ASSUME SlotInv, UNCHANGED slotVars
  PROVE  SlotInv'
BY DEF SlotInv, SlotTypes, CallsOK, LastWriteKnown, StampsStand, TrailKept, RowDescribes,
       Written, Superseding, Holding, Grounded, slotVars

LEMMA StartKeeps ==
  ASSUME CaseworkAssumption, SlotInv, row.status \in Stages, NEW k \in Caller,
         NEW door \in {"upload", "analyze"}, NEW content \in Content, NEW clean \in BOOLEAN,
         door = "analyze" => object # None, StartCall(k, door, content, clean)
  PROVE  SlotInv'
<1> DEFINE c == [pc |-> "scanned", door |-> door, content |-> content,
                 lane |-> ComposeVerdict(SignalsOf[content], clean),
                 status |-> row.status, decision |-> None, doc |-> None]
<1>1. /\ call[k] = None /\ call' = [call EXCEPT ![k] = c]
      /\ UNCHANGED <<docs, trail, object, lost, stale>>
  BY DEF StartCall
<1>2. ComposeVerdict(SignalsOf[content], clean) \in Lanes
  BY DEF ComposeVerdict, Lanes
<1>3. c \in Calls
  BY <1>2, StageFacts DEF Calls
<1> HIDE DEF c
<1>4. /\ call \in [Caller -> Calls \cup {None}]
      /\ call' \in [Caller -> Calls \cup {None}]
      /\ call'[k] = c /\ \A j \in Caller \ {k} : call'[j] = call[j]
  BY <1>1, <1>3 DEF SlotInv, SlotTypes
<1>5. c # None /\ c.pc = "scanned" /\ c.door = door
  BY <1>3 DEF CaseworkAssumption, c
<1>6. \A j \in Caller : /\ Holding(j)' <=> Holding(j)
                        /\ Written(j)' <=> Written(j)
                        /\ Superseding(j)' <=> Superseding(j)
                        /\ Holding(j) => call'[j] = call[j]
                        /\ call'[j] # None /\ call'[j].pc = "recorded" => call'[j] = call[j]
                        /\ Grounded(j)' => Grounded(j) \/ (j = k /\ door = "analyze")
  BY <1>1, <1>4, <1>5 DEF Holding, Written, Superseding, Grounded
<1>7. SlotTypes'
  BY <1>1, <1>4 DEF SlotInv, SlotTypes
<1>8. CallsOK'
  BY <1>1, <1>6 DEF SlotInv, CallsOK
<1>9. \A j \in Caller : Written(j) => Holding(j)
  BY DEF Written, Holding
<1>10. LastWriteKnown' /\ StampsStand' /\ TrailKept' /\ RowDescribes'
  BY <1>1, <1>6, <1>9 DEF SlotInv, LastWriteKnown, StampsStand, TrailKept, RowDescribes
<1> QED BY <1>7, <1>8, <1>10 DEF SlotInv

LEMMA UploadKeeps ==
  ASSUME CaseworkAssumption, SlotInv, row.status \in Stages, scope \in Scopes,
         NEW k \in Caller, NEW c \in scope.contents, Upload(k, c)
  PROVE  SlotInv'
<1>1. c \in Content
  BY DEF CaseworkAssumption
<1> QED BY <1>1, StartKeeps DEF Upload

LEMMA AnalyzeKeeps ==
  ASSUME CaseworkAssumption, SlotInv, row.status \in Stages, NEW k \in Caller, NEW clean \in BOOLEAN,
         Analyze(k, clean)
  PROVE  SlotInv'
<1>1. object \in Content
  BY DEF Analyze, SlotInv, SlotTypes
<1> QED BY <1>1, StartKeeps DEF Analyze, CaseworkAssumption

LEMMA DecideKeeps ==
  ASSUME CaseworkAssumption, SlotInv, NEW k \in Caller, DecideCall(k)
  PROVE  SlotInv'
<1>1. /\ call[k] # None /\ call[k].pc = "scanned"
      /\ docs # <<>> => ~SlotLocked
      /\ UNCHANGED <<docs, trail, object, started, lost, stale>>
  BY DEF DecideCall
<1>2. PICK d \in (IF docs = <<>> THEN {None} ELSE DOMAIN docs) :
        LET c == call[k]
            decision == DecideSupersession(c.status, IF d = None THEN None ELSE docs[d], c.content)
        IN  call' = [call EXCEPT ![k] =
              IF decision = "CLOSED" THEN None
              ELSE [c EXCEPT !.pc = IF decision = "RETRY" THEN "recorded" ELSE "decided",
                             !.decision = decision, !.doc = d]]
  BY DEF DecideCall
<1> DEFINE slot == IF d = None THEN None ELSE docs[d]
           decision == DecideSupersession(call[k].status, slot, call[k].content)
           after == IF decision = "CLOSED" THEN None
                    ELSE [call[k] EXCEPT !.pc = IF decision = "RETRY" THEN "recorded" ELSE "decided",
                                         !.decision = decision, !.doc = d]
<1>3. call' = [call EXCEPT ![k] = after]
  BY <1>2
<1>4. call[k] \in Calls /\ call \in [Caller -> Calls \cup {None}] /\ docs \in Seq(Docs)
  BY <1>1 DEF SlotInv, SlotTypes
<1>5. /\ docs # <<>> => d \in DOMAIN docs /\ d \in Nat /\ d # None /\ slot = docs[d]
      /\ docs = <<>> => d = None /\ slot = None
  BY <1>2, <1>4 DEF CaseworkAssumption
<1>6. decision \in {"CREATE", "CLOSED", "RETRY", "SUPERSEDE"}
  BY DEF DecideSupersession
<1>7. decision = "SUPERSEDE" => docs # <<>> /\ docs[d].stamp = None
  BY <1>5 DEF DecideSupersession
<1>8. decision = "RETRY" => docs # <<>>
  BY <1>5 DEF DecideSupersession
<1> HIDE DEF decision, slot
<1>9. after \in Calls \cup {None}
  BY <1>4, <1>5, <1>6 DEF Calls
<1>10. decision # "CLOSED" =>
         /\ after # None /\ after.decision = decision /\ after.doc = d
         /\ after.pc = IF decision = "RETRY" THEN "recorded" ELSE "decided"
         /\ after.door = call[k].door
  <2>1. decision # "CLOSED" => after \in Calls
    BY <1>4, <1>5, <1>6 DEF Calls
  <2> QED BY <2>1, <1>4 DEF CaseworkAssumption, Calls
<1>11. decision = "CLOSED" => after = None
  OBVIOUS
<1> HIDE DEF after
<1>12. /\ call' \in [Caller -> Calls \cup {None}]
       /\ call'[k] = after /\ \A j \in Caller \ {k} : call'[j] = call[j]
  BY <1>3, <1>4, <1>9
<1>13. SlotTypes'
  BY <1>1, <1>12 DEF SlotInv, SlotTypes
<1>14. \A j \in Caller : j # k => (Holding(j)' <=> Holding(j)) /\ (Superseding(j)' <=> Superseding(j))
  BY <1>12 DEF Holding, Superseding
<1>15. \A j \in Caller : Written(j)' <=> Written(j)
  BY <1>1, <1>10, <1>11, <1>12, <1>6 DEF Written
<1>16. ~Written(k)
  BY <1>1 DEF Written
<1>17. Holding(k)' => decision \in {"CREATE", "SUPERSEDE"} /\ after # None /\ after.decision = decision /\ after.doc = d
  BY <1>6, <1>10, <1>11, <1>12 DEF Holding
<1>18. Superseding(k)' => \A j \in Caller : ~Superseding(j)
  BY <1>1, <1>7, <1>12, <1>17 DEF Superseding, SlotLocked
<1>19. CallsOK'
  <2>1. ASSUME NEW j \in Caller, Holding(j)'
        PROVE  /\ call'[j].decision \in {"CREATE", "SUPERSEDE"}
               /\ call'[j].decision = "SUPERSEDE" =>
                    call'[j].doc \in DOMAIN docs /\ docs[call'[j].doc].stamp = None
    BY <2>1, <1>5, <1>7, <1>12, <1>14, <1>17 DEF SlotInv, CallsOK
  <2>2. ASSUME NEW j \in Caller, call'[j] # None, call'[j].pc = "recorded"
        PROVE  call'[j].doc \in DOMAIN docs
    BY <2>2, <1>5, <1>6, <1>8, <1>10, <1>11, <1>12 DEF SlotInv, CallsOK
  <2>3. ASSUME NEW i \in Caller, NEW j \in Caller, Superseding(i)', Superseding(j)'
        PROVE  i = j
    BY <2>3, <1>14, <1>18 DEF SlotInv, CallsOK
  <2>4. ASSUME NEW j \in Caller, Grounded(j)' PROVE Grounded(j)
    BY <2>4, <1>1, <1>6, <1>10, <1>11, <1>12 DEF Grounded
  <2>5. \A j \in Caller : Grounded(j)' => object' # None
    BY <2>4, <1>1 DEF SlotInv, CallsOK
  <2> QED BY <2>1, <2>2, <2>3, <2>5, <1>1 DEF CallsOK
<1>20. LastWriteKnown' /\ StampsStand' /\ TrailKept' /\ RowDescribes'
  BY <1>1, <1>12, <1>15, <1>16 DEF SlotInv, LastWriteKnown, StampsStand, TrailKept, RowDescribes
<1> QED BY <1>13, <1>19, <1>20 DEF SlotInv

LEMMA WriteKeeps ==
  ASSUME CaseworkAssumption, SlotInv, NEW k \in Caller, WriteObject(k)
  PROVE  SlotInv'
<1> DEFINE c == call[k]
           after == [c EXCEPT !.pc = "written"]
<1>1. /\ c # None /\ c.pc = "decided" /\ c \in Calls
      /\ object' = IF c.door = "upload" THEN c.content ELSE object
      /\ call' = [call EXCEPT ![k] = after]
      /\ UNCHANGED <<docs, trail, started, lost, stale>>
  BY DEF WriteObject, SlotInv, SlotTypes
<1>2. after \in Calls /\ after # None
  BY <1>1 DEF Calls, CaseworkAssumption
<1>3. /\ after.pc = "written" /\ after.door = c.door /\ after.content = c.content
      /\ after.decision = c.decision /\ after.doc = c.doc
  BY <1>1 DEF Calls
<1>4. c.content \in Content /\ c.content # None
  BY <1>1 DEF Calls, CaseworkAssumption
<1> HIDE DEF after
<1>5. /\ call' \in [Caller -> Calls \cup {None}]
      /\ call'[k] = after /\ \A j \in Caller \ {k} : call'[j] = call[j]
  BY <1>1, <1>2 DEF SlotInv, SlotTypes
<1>6. SlotTypes'
  BY <1>1, <1>4, <1>5 DEF SlotInv, SlotTypes
<1>7. \A j \in Caller : (Holding(j)' <=> Holding(j)) /\ (Superseding(j)' <=> Superseding(j))
                        /\ (Holding(j) => call'[j].decision = call[j].decision /\ call'[j].doc = call[j].doc)
  BY <1>1, <1>2, <1>3, <1>5 DEF Holding, Superseding
<1>8. \A j \in Caller : call'[j] # None /\ call'[j].pc = "recorded" => call'[j] = call[j]
  BY <1>3, <1>5
<1>9. CallsOK'
  <2>1. ASSUME NEW j \in Caller, Grounded(j)' PROVE object' # None
    <3>1. CASE j = k /\ c.door = "upload"
      BY <3>1, <1>1, <1>4
    <3>2. CASE j # k \/ c.door # "upload"
      <4>1. Grounded(j)
        BY <2>1, <3>2, <1>1, <1>3, <1>5 DEF Grounded, Calls
      <4> QED BY <4>1, <1>1, <1>4 DEF SlotInv, CallsOK
    <3> QED BY <3>1, <3>2
  <2> QED BY <2>1, <1>1, <1>7, <1>8 DEF SlotInv, CallsOK
<1>10. /\ Written(k)' <=> c.door = "upload"
       /\ \A j \in Caller \ {k} : (Written(j)' <=> Written(j)) /\ (Written(j) => call'[j] = call[j])
       /\ ~Written(k)
  BY <1>1, <1>2, <1>3, <1>5 DEF Written
<1>11. CASE c.door # "upload"
  <2>1. object' = object /\ \A j \in Caller : (Written(j)' <=> Written(j)) /\ (Written(j) => call'[j] = call[j])
    BY <1>1, <1>10, <1>11
  <2>2. LastWriteKnown' /\ StampsStand' /\ TrailKept' /\ RowDescribes'
    BY <1>1, <2>1 DEF SlotInv, LastWriteKnown, StampsStand, TrailKept, RowDescribes
  <2> QED BY <1>6, <1>9, <2>2 DEF SlotInv
<1>12. CASE c.door = "upload"
  <2>1. Written(k)' /\ object' = call'[k].content /\ object' # None
    BY <1>1, <1>3, <1>4, <1>5, <1>10, <1>12
  <2>2. LastWriteKnown' /\ TrailKept' /\ RowDescribes'
    BY <2>1 DEF LastWriteKnown, TrailKept, RowDescribes
  <2>3. StampsStand'
    <3> SUFFICES ASSUME NEW d \in DOMAIN docs, docs[d].stamp # None, ~(Len(docs) > 1)
                 PROVE  Written(k)' /\ call'[k].decision = "CREATE"
      BY <1>1 DEF StampsStand
    <3>1. d = 1 /\ DOMAIN docs = {1}
      <4>1. docs \in Seq(Docs)
        BY DEF SlotInv, SlotTypes
      <4>2. Len(docs) \in Nat /\ DOMAIN docs = 1 .. Len(docs)
        BY <4>1
      <4>3. d \in 1 .. Len(docs) /\ Len(docs) <= 1
        BY <4>2
      <4>4. Len(docs) = 1
        BY <4>2, <4>3
      <4> QED BY <4>2, <4>3, <4>4
    <3>2. Holding(k)
      BY <1>1 DEF Holding
    <3>3. c.decision # "SUPERSEDE"
      BY <3>1, <3>2 DEF SlotInv, CallsOK
    <3> QED BY <1>3, <1>5, <2>1, <3>2, <3>3 DEF SlotInv, CallsOK
  <2> QED BY <1>6, <1>9, <2>2, <2>3 DEF SlotInv
<1> QED BY <1>11, <1>12

LEMMA PublishLaneKeeps ==
  ASSUME CaseworkAssumption, SlotInv, NEW k \in Caller, call[k] # None,
         ~Written(k), call' = [call EXCEPT ![k] = None],
         UNCHANGED <<docs, trail, object, started, lost, stale>>
  PROVE  SlotInv'
<1>1. /\ call' \in [Caller -> Calls \cup {None}]
      /\ call'[k] = None /\ \A j \in Caller \ {k} : call'[j] = call[j]
  BY DEF SlotInv, SlotTypes
<1>2. \A j \in Caller : Written(j)' <=> Written(j)
  BY <1>1 DEF Written
<1>3. \A j \in Caller : /\ Superseding(j)' => Superseding(j)
                        /\ Holding(j)' => Holding(j) /\ call'[j] = call[j]
                        /\ call'[j] # None => call'[j] = call[j]
                        /\ Grounded(j)' => Grounded(j)
  BY <1>1 DEF Holding, Superseding, Grounded
<1>4. SlotTypes'
  BY <1>1 DEF SlotInv, SlotTypes
<1>5. CallsOK'
  BY <1>3 DEF SlotInv, CallsOK
<1>6. LastWriteKnown' /\ StampsStand' /\ TrailKept' /\ RowDescribes'
  BY <1>1, <1>2 DEF SlotInv, LastWriteKnown, StampsStand, TrailKept, RowDescribes, Written
<1> QED BY <1>4, <1>5, <1>6 DEF SlotInv

LEMMA AbandonKeeps ==
  ASSUME CaseworkAssumption, SlotInv, NEW k \in Caller, AbandonCall(k)
  PROVE  SlotInv'
<1>1. CASE ~Written(k)
  <2>1. lost' = lost
    BY <1>1 DEF AbandonCall, Written, SlotInv, SlotTypes
  <2> QED BY <1>1, <2>1, PublishLaneKeeps DEF AbandonCall
<1>2. CASE Written(k)
  <2>1. /\ lost' = TRUE /\ call' = [call EXCEPT ![k] = None]
        /\ UNCHANGED <<docs, trail, object, started, stale>>
    BY <1>2 DEF AbandonCall, Written
  <2>2. /\ call' \in [Caller -> Calls \cup {None}]
        /\ call'[k] = None /\ \A j \in Caller \ {k} : call'[j] = call[j]
    BY <2>1 DEF SlotInv, SlotTypes
  <2>3. \A j \in Caller : /\ Superseding(j)' => Superseding(j)
                          /\ Holding(j)' => Holding(j) /\ call'[j] = call[j]
                          /\ call'[j] # None => call'[j] = call[j]
                          /\ Grounded(j)' => Grounded(j)
    BY <2>2 DEF Holding, Superseding, Grounded
  <2>4. SlotTypes'
    BY <2>1, <2>2 DEF SlotInv, SlotTypes
  <2>5. CallsOK'
    BY <2>1, <2>3 DEF SlotInv, CallsOK
  <2>6. LastWriteKnown' /\ StampsStand' /\ TrailKept' /\ RowDescribes'
    BY <2>1 DEF LastWriteKnown, StampsStand, TrailKept, RowDescribes
  <2> QED BY <2>4, <2>5, <2>6 DEF SlotInv
<1> QED BY <1>1, <1>2

\* The stamp finds no row that a superseding call holds.
LEMMA StampKeeps ==
  ASSUME CaseworkAssumption, SlotInv, StampReviewed
  PROVE  SlotInv'
<1>1. /\ SlotLocked => \A d \in DOMAIN docs : ~Stampable(d)
      /\ docs' = [d \in DOMAIN docs |->
                    IF Stampable(d) THEN [docs[d] EXCEPT !.stamp = object] ELSE docs[d]]
      /\ UNCHANGED <<trail, object, call, started, lost, stale>>
  BY DEF StampReviewed
<1>2. docs \in Seq(Docs) /\ object \in Content \cup {None}
  BY DEF SlotInv, SlotTypes
<1>3. \A d \in DOMAIN docs : docs'[d] = IF Stampable(d) THEN [docs[d] EXCEPT !.stamp = object] ELSE docs[d]
  BY <1>1
<1>4. ASSUME NEW d \in DOMAIN docs PROVE docs'[d] \in Docs
  <2>1. docs[d] \in Docs
    BY <1>2
  <2>2. [docs[d] EXCEPT !.stamp = object] \in Docs
    BY <1>2, <2>1 DEF Docs
  <2> QED BY <1>3, <2>1, <2>2
<1>5. docs' \in Seq(Docs) /\ Len(docs') = Len(docs) /\ DOMAIN docs' = DOMAIN docs
  <2>1. DOMAIN docs' = 1 .. Len(docs) /\ Len(docs) \in Nat
    BY <1>1, <1>2
  <2>2. docs' \in [1 .. Len(docs) -> Docs]
    BY <1>1, <1>2, <1>4, <2>1
  <2> QED BY <2>1, <2>2, <1>2
<1>6. ASSUME NEW d \in DOMAIN docs
      PROVE  /\ docs'[d].content = docs[d].content /\ docs'[d].revision = docs[d].revision
             /\ docs'[d].lane = docs[d].lane
             /\ docs'[d].stamp = IF Stampable(d) THEN object ELSE docs[d].stamp
  <2>1. docs[d] \in Docs
    BY <1>2
  <2>2. CASE Stampable(d)
    <3>1. docs'[d] = [docs[d] EXCEPT !.stamp = object]
      BY <1>3, <2>2
    <3> QED BY <2>1, <2>2, <3>1 DEF Docs
  <2>3. CASE ~Stampable(d)
    BY <1>3, <2>3
  <2> QED BY <2>2, <2>3
<1>7. SlotTypes'
  BY <1>1, <1>5, <1>6 DEF SlotInv, SlotTypes
<1>8. CallsOK'
  <2>1. ASSUME NEW k \in Caller, Superseding(k) PROVE docs'[call[k].doc].stamp = None
    BY <2>1, <1>1, <1>6 DEF Superseding, SlotLocked, SlotInv, CallsOK
  <2> QED BY <1>1, <1>5, <2>1 DEF SlotInv, CallsOK, Holding, Superseding, Grounded
<1>9. LastWriteKnown'
  BY <1>1, <1>5 DEF SlotInv, LastWriteKnown, Written
<1>10. StampsStand'
  BY <1>1, <1>5, <1>6 DEF SlotInv, StampsStand, Written
<1>11. TrailKept'
  BY <1>1 DEF SlotInv, TrailKept, Written
<1>12. RowDescribes'
  <2>1. Len(docs) = 1 => 1 \in DOMAIN docs
    BY <1>2
  <2> QED BY <2>1, <1>1, <1>5, <1>6 DEF SlotInv, RowDescribes, Written
<1> QED BY <1>7, <1>8, <1>9, <1>10, <1>11, <1>12 DEF SlotInv

LEMMA RevisionAdded ==
  \A tr, p, e :
    Revisions(tr \cup {p}, e) = Revisions(tr, e) \cup (IF p[1] = e THEN {p[2]} ELSE {})
<1> SUFFICES ASSUME NEW tr, NEW p, NEW e
             PROVE  Revisions(tr \cup {p}, e)
                      = Revisions(tr, e) \cup (IF p[1] = e THEN {p[2]} ELSE {})
  OBVIOUS
<1> DEFINE A == {t \in tr \cup {p} : t[1] = e}
           B == {t \in tr : t[1] = e}
<1>1. CASE p[1] = e
  <2>1. A = B \cup {p}
    BY <1>1
  <2> HIDE DEF A, B
  <2>2. {t[2] : t \in A} = {t[2] : t \in B} \cup {p[2]}
    BY <2>1
  <2> QED BY <1>1, <2>2 DEF A, B, Revisions
<1>2. CASE p[1] # e
  <2>1. A = B
    BY <1>2
  <2> QED BY <1>2, <2>1 DEF A, B, Revisions
<1> QED BY <1>1, <1>2

\* The commit of a call: the row it leaves, and the trail entry for it.
LEMMA CommitKeeps ==
  ASSUME CaseworkAssumption, SlotInv, NEW k \in Caller, CommitCall(k)
  PROVE  SlotInv'
<1> DEFINE c == call[k]
           d == IF c.decision = "CREATE" THEN Len(docs) + 1 ELSE c.doc
           revision == IF c.decision = "CREATE" THEN 1 ELSE docs[d].revision + 1
           written == [content |-> c.content, lane |-> c.lane, revision |-> revision, stamp |-> None]
           after == [c EXCEPT !.pc = "recorded", !.doc = d]
<1>1. /\ c # None /\ c.pc = "written"
      /\ docs' = IF c.decision = "CREATE" THEN Append(docs, written)
                 ELSE [docs EXCEPT ![d] = [written EXCEPT !.stamp = docs[d].stamp]]
      /\ trail' = trail \cup {<<d, revision, c.content>>}
      /\ call' = [call EXCEPT ![k].pc = "recorded", ![k].doc = d]
      /\ stale' = (stale \/ (c.door = "analyze" /\ c.content # object))
      /\ UNCHANGED <<object, started, lost>>
  BY DEF CommitCall, TrailEntry
<1>2. /\ docs \in Seq(Docs) /\ Len(docs) \in Nat /\ DOMAIN docs = 1 .. Len(docs)
      /\ call \in [Caller -> Calls \cup {None}] /\ c \in Calls
      /\ stale \in BOOLEAN /\ lost \in BOOLEAN /\ object \in Content \cup {None}
  BY <1>1 DEF SlotInv, SlotTypes
<1>3. /\ Holding(k) /\ c.decision \in {"CREATE", "SUPERSEDE"}
      /\ c.decision = "SUPERSEDE" => Superseding(k) /\ c.doc \in DOMAIN docs /\ docs[c.doc].stamp = None
  BY <1>1 DEF SlotInv, CallsOK, Holding, Superseding
<1>4. /\ d \in Nat /\ revision \in Nat /\ c.content \in Content /\ c.lane \in Lanes
      /\ c.decision # "CREATE" => d \in DOMAIN docs /\ docs[d] \in Docs
  <2>1. c.content \in Content /\ c.lane \in Lanes
    BY <1>2 DEF Calls
  <2>2. c.decision # "CREATE" => d \in DOMAIN docs /\ docs[d] \in Docs /\ d \in Nat
    BY <1>2, <1>3
  <2>3. c.decision # "CREATE" => docs[d].revision \in Nat
    BY <2>2 DEF Docs
  <2>4. d \in Nat /\ revision \in Nat
    BY <1>2, <2>2, <2>3
  <2> QED BY <2>1, <2>2, <2>4
<1>5. written \in Docs
  BY <1>4 DEF Docs
<1>6. /\ docs' \in Seq(Docs) /\ DOMAIN docs' = 1 .. Len(docs') /\ Len(docs') \in Nat
      /\ Len(docs') = IF c.decision = "CREATE" THEN Len(docs) + 1 ELSE Len(docs)
      /\ d \in DOMAIN docs' /\ docs'[d].content = c.content /\ docs'[d].revision = revision
      /\ docs'[d].stamp = None
      /\ \A e \in DOMAIN docs \ {d} : e \in DOMAIN docs' /\ docs'[e] = docs[e]
      /\ DOMAIN docs' = DOMAIN docs \cup {d}
  <2>1. CASE c.decision = "CREATE"
    <3>1. docs' = Append(docs, written) /\ d = Len(docs) + 1
      BY <1>1, <2>1
    <3>2. written.content = c.content /\ written.revision = revision /\ written.stamp = None
      OBVIOUS
    <3> HIDE DEF written
    <3>3. /\ docs' \in Seq(Docs) /\ Len(docs') = Len(docs) + 1 /\ docs'[Len(docs) + 1] = written
          /\ \A e \in 1 .. Len(docs) : docs'[e] = docs[e]
      BY <1>2, <1>5, <3>1
    <3> QED BY <1>2, <2>1, <3>1, <3>2, <3>3
  <2>2. CASE c.decision = "SUPERSEDE"
    <3> DEFINE new == [written EXCEPT !.stamp = docs[d].stamp]
    <3>1. docs' = [docs EXCEPT ![d] = new] /\ d = c.doc /\ d \in DOMAIN docs
      BY <1>1, <1>3, <2>2
    <3>2. new \in Docs /\ new.content = c.content /\ new.revision = revision /\ new.stamp = None
      BY <1>3, <1>4, <1>5, <2>2 DEF Docs
    <3> HIDE DEF new
    <3>3. docs' \in Seq(Docs) /\ Len(docs') = Len(docs) /\ DOMAIN docs' = DOMAIN docs
      BY <1>2, <3>1, <3>2
    <3>4. docs'[d] = new /\ \A e \in DOMAIN docs \ {d} : docs'[e] = docs[e]
      BY <3>1
    <3> QED BY <1>2, <2>2, <3>1, <3>2, <3>3, <3>4
  <2> QED BY <1>3, <2>1, <2>2
<1>7. call' = [call EXCEPT ![k] = after]
  BY <1>1, <1>2
<1>8. after \in Calls /\ after # None /\ after.pc = "recorded" /\ after.doc = d
  BY <1>2, <1>4 DEF Calls, CaseworkAssumption
<1>9. d \notin DOMAIN docs => c.decision = "CREATE" /\ revision = 1
  BY <1>3, <1>4
<1>10. c.decision = "CREATE" => d \notin DOMAIN docs /\ d = Len(docs) + 1
  BY <1>2
<1>11. d \in DOMAIN docs => c.decision = "SUPERSEDE" /\ revision = docs[d].revision + 1 /\ docs[d].revision \in Nat
  BY <1>3, <1>4, <1>10 DEF Docs
<1> HIDE DEF d, revision, written, after
<1>12. /\ call' \in [Caller -> Calls \cup {None}]
       /\ call'[k] = after /\ \A j \in Caller \ {k} : call'[j] = call[j]
  BY <1>2, <1>7, <1>8
<1>13. object' # None
  BY <1>1 DEF SlotInv, CallsOK, Grounded
<1>14. SlotTypes'
  <2>1. \A t \in trail' : t[1] \in DOMAIN docs'
    BY <1>1, <1>6 DEF SlotInv, SlotTypes
  <2>2. ASSUME NEW e \in DOMAIN docs'
        PROVE  Revisions(trail', e) = 1 .. docs'[e].revision
    <3>1. /\ Revisions(trail', d) = Revisions(trail, d) \cup {revision}
          /\ e # d => Revisions(trail', e) = Revisions(trail, e)
      <4> DEFINE p == <<d, revision, c.content>>
      <4>1. trail' = trail \cup {p} /\ p[1] = d /\ p[2] = revision
        BY <1>1
      <4> HIDE DEF p
      <4>2. \A x : Revisions(trail \cup {p}, x) = Revisions(trail, x) \cup (IF p[1] = x THEN {p[2]} ELSE {})
        BY RevisionAdded
      <4> QED BY <4>1, <4>2
    <3>2. CASE e # d
      BY <3>1, <3>2, <1>6 DEF SlotInv, SlotTypes
    <3>3. CASE e = d /\ d \in DOMAIN docs
      <4>1. Revisions(trail, d) = 1 .. docs[d].revision
        BY <3>3 DEF SlotInv, SlotTypes
      <4>2. (1 .. docs[d].revision) \cup {docs[d].revision + 1} = 1 .. (docs[d].revision + 1)
        BY <1>11, <3>3
      <4> QED BY <3>1, <3>3, <4>1, <4>2, <1>6, <1>11
    <3>4. CASE e = d /\ d \notin DOMAIN docs
      <4>1. Revisions(trail, d) = {}
        BY <3>4 DEF SlotInv, SlotTypes, Revisions
      <4>2. docs'[d].revision = 1 /\ revision = 1 /\ 1 .. 1 = {1}
        BY <1>6, <1>9, <3>4
      <4> QED BY <3>1, <3>4, <4>1, <4>2
    <3> QED BY <3>2, <3>3, <3>4
  <2> QED BY <2>1, <2>2, <1>1, <1>2, <1>6, <1>12, <1>13 DEF SlotTypes
<1>15. /\ ~Holding(k)' /\ ~Written(k)' /\ ~Superseding(k)'
       /\ \A j \in Caller \ {k} : /\ Holding(j)' <=> Holding(j)
                                  /\ Superseding(j)' <=> Superseding(j)
                                  /\ Written(j)' <=> Written(j)
  BY <1>8, <1>12 DEF Holding, Superseding, Written
<1>16. ASSUME NEW j \in Caller \ {k}, Superseding(j)
       PROVE  c.decision = "CREATE" /\ call[j].doc # d
  <2>1. c.decision # "SUPERSEDE"
    BY <1>3, <1>16 DEF SlotInv, CallsOK
  <2>2. call[j].doc \in DOMAIN docs
    BY <1>16 DEF SlotInv, CallsOK, Superseding
  <2> QED BY <1>3, <1>10, <2>1, <2>2
<1>17. CallsOK'
  <2>1. ASSUME NEW j \in Caller, Holding(j)'
        PROVE  /\ call'[j].decision \in {"CREATE", "SUPERSEDE"}
               /\ call'[j].decision = "SUPERSEDE" =>
                    call'[j].doc \in DOMAIN docs' /\ docs'[call'[j].doc].stamp = None
    <3>1. j # k /\ call'[j] = call[j] /\ Holding(j)
      BY <2>1, <1>12, <1>15
    <3> QED BY <3>1, <1>6, <1>16 DEF SlotInv, CallsOK, Superseding
  <2>2. ASSUME NEW j \in Caller, call'[j] # None, call'[j].pc = "recorded"
        PROVE  call'[j].doc \in DOMAIN docs'
    BY <2>2, <1>6, <1>8, <1>12 DEF SlotInv, CallsOK
  <2>3. ASSUME NEW i \in Caller, NEW j \in Caller, Superseding(i)', Superseding(j)' PROVE i = j
    BY <2>3, <1>15 DEF SlotInv, CallsOK
  <2> QED BY <2>1, <2>2, <2>3, <1>13 DEF CallsOK
<1>18. Written(k) <=> c.door = "upload"
  BY <1>1 DEF Written
<1>19. c.door # "upload" => c.door = "analyze"
  BY <1>2 DEF Calls
<1>20. LastWriteKnown'
  <2> SUFFICES ASSUME NEW j \in Caller, Written(j)'
               PROVE  \/ object' = call'[j].content \/ lost'
                      \/ \E i \in Caller \ {j} : Written(i)'
                      \/ Len(docs') >= 1 /\ call'[j].decision = "CREATE"
                      \/ Len(docs') >= 2
    BY DEF LastWriteKnown
  <2>1. j # k /\ Written(j) /\ call'[j] = call[j] /\ Holding(j)
    BY <1>12, <1>15 DEF Written, Holding
  <2>2. Len(docs') >= 1 /\ Len(docs') >= Len(docs)
    BY <1>2, <1>6
  <2>3. CASE call[j].decision = "CREATE"
    BY <2>1, <2>2, <2>3
  <2>4. CASE call[j].decision = "SUPERSEDE"
    <3>1. Superseding(j)
      BY <2>1, <2>4 DEF Superseding
    <3>2. c.decision = "CREATE" /\ Len(docs) >= 1
      BY <1>2, <1>16, <2>1, <3>1 DEF SlotInv, CallsOK, Superseding
    <3> QED BY <1>2, <1>6, <3>2
  <2> QED BY <2>1, <2>3, <2>4 DEF SlotInv, CallsOK
<1>21. StampsStand'
  <2> SUFFICES ASSUME NEW e \in DOMAIN docs', docs'[e].stamp # None, ~(Len(docs') > 1), ~lost'
               PROVE  \/ object' = docs'[e].stamp
                      \/ \E j \in Caller : Written(j)' /\ call'[j].decision = "CREATE"
    BY DEF StampsStand
  <2>1. e # d /\ e \in DOMAIN docs /\ docs'[e] = docs[e]
    BY <1>6
  <2>2. c.decision # "CREATE"
    BY <1>2, <1>6, <2>1
  <2>3. \/ object = docs[e].stamp
        \/ \E j \in Caller : Written(j) /\ call[j].decision = "CREATE"
    BY <1>1, <1>2, <1>6, <2>1 DEF SlotInv, StampsStand
  <2> QED BY <1>1, <1>12, <1>15, <2>1, <2>2, <2>3
<1>22. TrailKept'
  <2>1. <<d, revision, c.content>> \in trail' /\ <<d, revision, c.content>>[3] = c.content
    BY <1>1
  <2>2. CASE object = c.content
    BY <1>1, <2>1, <2>2 DEF TrailKept
  <2>3. CASE object # c.content
    BY <1>1, <1>12, <1>15, <2>3 DEF SlotInv, TrailKept
  <2> QED BY <2>2, <2>3
<1>23. RowDescribes'
  <2> SUFFICES ASSUME Len(docs') = 1, ~lost', ~stale', \A j \in Caller : ~Written(j)'
               PROVE  object' = docs'[1].content
    BY DEF RowDescribes
  <2>1. d = 1 /\ docs'[1].content = c.content
    BY <1>6
  <2>2. CASE c.door = "analyze"
    BY <1>1, <1>2, <2>1, <2>2
  <2>3. CASE c.door = "upload"
    <3>1. \/ object = c.content
          \/ Len(docs) >= 1 /\ c.decision = "CREATE"
          \/ Len(docs) >= 2
      BY <1>1, <1>15, <1>18, <2>3 DEF SlotInv, LastWriteKnown
    <3> QED BY <3>1, <2>1, <1>1, <1>2, <1>6, SMTT(40)
  <2> QED BY <1>19, <2>2, <2>3
<1> QED BY <1>14, <1>17, <1>20, <1>21, <1>22, <1>23 DEF SlotInv

-----------------------------------------------------------------------------
(* The clearance desk *)

\* Answers are kept and the record only grows.
RecordGrows ==
  /\ answers \subseteq answers'
  /\ \A i \in DOMAIN log : i \in DOMAIN log' /\ log'[i] = log[i]

LEMMA DecideClearanceFacts ==
  ASSUME CaseworkAssumption, NEW a, a.source = "IREMBO", a.age \in Nat \cup {None}, NEW cert,
         cert \in Numbers
  PROVE  /\ Entry(cert, DecideClearance(a, ValidityDays)) \in Entries
         /\ DecideClearance(a, ValidityDays).outcome = "CLEARED" => Clearing(a)
<1>1. ReviewReasons(a) \subseteq {"IDENTITY_NAME_PARTIAL", "IDENTITY_HOLDER_UNREADABLE",
                                  "CLEARANCE_CONTENT_REVIEW"}
  BY DEF ReviewReasons
<1>2. ReviewReasons(a) = {} => a.noRecord
  BY DEF ReviewReasons
<1>3. CertificateBinding(a) # "NOT_BOUND" => "MISMATCH" \notin {a.fields[f] : f \in DOMAIN a.fields}
  BY DEF CertificateBinding, BindCredential
<1> DEFINE r == DecideClearance(a, ValidityDays)
<1>4. /\ r.outcome \in Outcomes
      /\ r.code \in {None, "CERTIFICATE_NOT_FOUND", "CERTIFICATE_NOT_VALID",
                     "CERTIFICATE_NOT_BOUND", "CERTIFICATE_WRONG_TYPE", "CERTIFICATE_EXPIRED"}
      /\ r.reasons \subseteq {"IDENTITY_NAME_PARTIAL", "IDENTITY_HOLDER_UNREADABLE",
                              "CLEARANCE_CONTENT_REVIEW"}
  BY <1>1 DEF DecideClearance, Correction, Outcomes
<1>5. r.outcome = "CLEARED" =>
        /\ a.found /\ a.authentic /\ CertificateBinding(a) # "NOT_BOUND" /\ a.allowed
        /\ a.age # None /\ ~(a.age > ValidityDays) /\ ReviewReasons(a) = {}
  BY DEF DecideClearance, Correction
<1> HIDE DEF r
<1>6. r.outcome = "CLEARED" => Clearing(a)
  BY <1>2, <1>3, <1>5 DEF Clearing, CaseworkAssumption
<1>7. Entry(cert, r) \in Entries
  BY <1>4 DEF Entry, Entries, Numbers
<1> QED BY <1>6, <1>7 DEF r

LEMMA DeskStays ==
  ASSUME DeskInv, answers \subseteq answers', scope' = scope,
         owed \subseteq owed', owed' \subseteq Numbers,
         UNCHANGED <<log, parked, handling, overlapped>>
  PROVE  DeskInv'
<1>1. DeskTypes' /\ HandledOnRecord' /\ AloneOK'
  BY DEF DeskInv, DeskTypes, HandledOnRecord, AloneOK, At, Entering
<1>2. PendingIsNeverForgotten' /\ EscalationFollowsOutage'
  BY DEF DeskInv, PendingIsNeverForgotten, EscalationFollowsOutage
<1> QED BY <1>1, <1>2 DEF DeskInv

\* Alone with what it handles, as long as no two workers overlapped.
LEMMA HandlesAlone ==
  ASSUME DeskInv, NEW w \in Worker, handling[w] # None
  PROVE  /\ handling[w] \in Handlings /\ Entering(w) \in Entries
         /\ handling[w].entry = Entering(w)
         /\ ~overlapped => \A v \in Worker \ {w} : handling[v] = None
BY DEF DeskInv, DeskTypes, AloneOK, Handlings, Entering

\* What a step of worker w must leave for the desk's invariant to hold.
LEMMA DeskStep ==
  ASSUME CaseworkAssumption, DeskInv, NEW w \in Worker, NEW h \in Handlings \cup {None},
         handling' = [handling EXCEPT ![w] = h], RecordGrows, scope' = scope,
         overlapped' \in BOOLEAN, log' \in Seq(Entries),
         owed' \subseteq Numbers, parked' \subseteq Numbers,
         ~overlapped' => ~overlapped /\ \A v \in Worker \ {w} : handling[v] = None,
         h # None =>
           /\ h.entry.outcome = "CLEARED" => \E a \in answers' : Clearing(a)
           /\ h.pc = "recorded" /\ h.entry.outcome # "PENDING" =>
                \E i \in DOMAIN log' : log'[i] = h.entry,
         h # None /\ ~overlapped' =>
           /\ h.entry.cert \in owed' \cup parked'
           /\ h.pc = "recorded" /\ h.entry.outcome # "PENDING" =>
                log' # <<>> /\ log'[Len(log')] = h.entry
           /\ h.pc = "insert" /\ h.entry.reasons = Unverified.reasons =>
                log' = <<>> \/ log'[Len(log')].outcome = "PENDING",
         PendingIsNeverForgotten', EscalationFollowsOutage'
  PROVE  DeskInv'
<1>1. /\ handling' \in [Worker -> Handlings \cup {None}]
      /\ handling'[w] = h /\ \A v \in Worker \ {w} : handling'[v] = handling[v]
  BY DEF DeskInv, DeskTypes
<1>2. DeskTypes'
  BY <1>1 DEF DeskInv, DeskTypes
<1>3. HandledOnRecord'
  <2> SUFFICES ASSUME NEW v \in Worker, handling'[v] # None
               PROVE  /\ handling'[v].entry.outcome = "CLEARED" => \E a \in answers' : Clearing(a)
                      /\ handling'[v].pc = "recorded" /\ handling'[v].entry.outcome # "PENDING" =>
                           \E i \in DOMAIN log' : log'[i] = handling'[v].entry
    BY DEF HandledOnRecord, At, Entering
  <2>1. CASE v = w
    BY <1>1, <2>1
  <2>2. CASE v # w
    <3>1. handling'[v] = handling[v]
      BY <1>1, <2>2
    <3> QED BY <3>1 DEF DeskInv, HandledOnRecord, At, Entering, RecordGrows
  <2> QED BY <2>1, <2>2
<1>4. AloneOK'
  <2> SUFFICES ASSUME ~overlapped'
               PROVE  /\ \A v \in Worker : handling'[v] # None => v = w
                      /\ h # None =>
                           /\ h.entry.cert \in owed' \cup parked'
                           /\ h.pc = "recorded" /\ h.entry.outcome # "PENDING" =>
                                log' # <<>> /\ log'[Len(log')] = h.entry
                           /\ h.pc = "insert" /\ h.entry.reasons = Unverified.reasons =>
                                log' = <<>> \/ log'[Len(log')].outcome = "PENDING"
    BY <1>1 DEF AloneOK, At, Entering
  <2> QED BY <1>1
<1> QED BY <1>2, <1>3, <1>4 DEF DeskInv

\* A worker takes an event up.
LEMMA TakeKeeps ==
  ASSUME CaseworkAssumption, DeskInv, NEW w \in Worker, NEW cert \in owed, NEW r,
         Entry(cert, r) \in Entries, r.outcome = "CLEARED" => \E a \in answers' : Clearing(a),
         answers \subseteq answers', scope' = scope, Take(w, cert, r)
  PROVE  DeskInv'
<1> DEFINE h == [pc |-> "record", entry |-> Entry(cert, r)]
<1>1. /\ handling' = [handling EXCEPT ![w] = h]
      /\ overlapped' = (overlapped \/ \E v \in Worker \ {w} : handling[v] # None)
      /\ UNCHANGED <<log, owed, parked>>
  BY DEF Take
<1>2. h \in Handlings /\ h.pc = "record" /\ h.entry.outcome = r.outcome /\ h.entry.cert = cert
  BY DEF Handlings, Entry
<1> HIDE DEF h
<1>3. PendingIsNeverForgotten' /\ EscalationFollowsOutage' /\ RecordGrows
  BY <1>1 DEF DeskInv, DeskTypes, PendingIsNeverForgotten, EscalationFollowsOutage, RecordGrows
<1>4. /\ overlapped' \in BOOLEAN /\ log' \in Seq(Entries)
      /\ owed' \subseteq Numbers /\ parked' \subseteq Numbers
      /\ ~overlapped' => ~overlapped /\ \A v \in Worker \ {w} : handling[v] = None
  BY <1>1 DEF DeskInv, DeskTypes
<1> QED BY <1>1, <1>2, <1>3, <1>4, DeskStep

LEMMA VerifyKeeps ==
  ASSUME CaseworkAssumption, DeskInv, scope' = scope, NEW w \in Worker, NEW cert \in owed,
         NEW a \in scope.certificates, VerifyCertificate(w, cert, a)
  PROVE  DeskInv'
<1>1. a.source = "IREMBO" /\ a.age \in Nat \cup {None} /\ cert \in Numbers
  BY DEF DeskInv, DeskTypes, CaseworkAssumption
<1>2. answers' = answers \cup {a} /\ Take(w, cert, DecideClearance(a, ValidityDays))
  BY DEF VerifyCertificate, Received
<1>3. /\ Entry(cert, DecideClearance(a, ValidityDays)) \in Entries
      /\ DecideClearance(a, ValidityDays).outcome = "CLEARED" => Clearing(a)
  BY <1>1, DecideClearanceFacts
<1>4. DecideClearance(a, ValidityDays).outcome = "CLEARED" => \E b \in answers' : Clearing(b)
  BY <1>2, <1>3
<1>5. answers \subseteq answers'
  BY <1>2
<1> HIDE DEF DecideClearance
<1> QED BY <1>2, <1>3, <1>4, <1>5, TakeKeeps

LEMMA UnavailableKeeps ==
  ASSUME CaseworkAssumption, DeskInv, scope' = scope, NEW w \in Worker, NEW cert \in owed,
         RegistryUnavailable(w, cert)
  PROVE  DeskInv'
<1>1. cert \in Numbers
  BY DEF DeskInv, DeskTypes
<1>2. Entry(cert, Pending) \in Entries /\ Pending.outcome # "CLEARED"
  BY <1>1 DEF Entry, Entries, Pending, Outcomes, Numbers
<1>3. answers' = answers /\ Take(w, cert, Pending)
  BY DEF RegistryUnavailable
<1> QED BY <1>2, <1>3, TakeKeeps

\* The facts most steps of a worker share.
LEMMA DeskFacts ==
  ASSUME DeskInv
  PROVE  /\ log \in Seq(Entries) /\ Len(log) \in Nat /\ DOMAIN log = 1 .. Len(log)
         /\ log # <<>> => Len(log) \in DOMAIN log
         /\ owed \subseteq Numbers /\ parked \subseteq Numbers
         /\ overlapped \in BOOLEAN /\ scope \in Scopes
<1>1. log \in Seq(Entries)
  BY DEF DeskInv, DeskTypes
<1>2. Len(log) \in Nat /\ DOMAIN log = 1 .. Len(log) /\ (log # <<>> => Len(log) \in DOMAIN log)
  BY <1>1
<1> QED BY <1>1, <1>2 DEF DeskInv, DeskTypes

LEMMA ReadLatestKeeps ==
  ASSUME CaseworkAssumption, DeskInv, scope' = scope, answers' = answers, NEW w \in Worker,
         ReadLatest(w)
  PROVE  DeskInv'
<1> DEFINE e == Entering(w)
           same == log # <<>> /\ log[Len(log)] = e
           h == IF same THEN [handling[w] EXCEPT !.pc = "recorded"]
                ELSE IF Refused(e) THEN None ELSE [handling[w] EXCEPT !.pc = "insert"]
<1>1. /\ handling[w] # None /\ handling[w].pc = "record"
      /\ UNCHANGED <<log, owed, parked, overlapped>>
  BY DEF ReadLatest, At
<1>2. handling' = [handling EXCEPT ![w] = h]
  BY DEF ReadLatest, Done
<1>3. /\ handling[w] \in Handlings /\ e \in Entries /\ handling[w].entry = e
      /\ ~overlapped => \A v \in Worker \ {w} : handling[v] = None
  BY <1>1, HandlesAlone
<1>4. /\ h \in Handlings \cup {None}
      /\ h # None => /\ h.entry = e
                     /\ h.pc = IF same THEN "recorded" ELSE "insert"
                     /\ same \/ ~Refused(e)
  BY <1>3 DEF Handlings
<1> HIDE DEF h
<1>5. /\ e.outcome = "CLEARED" => \E a \in answers : Clearing(a)
      /\ ~overlapped => e.cert \in owed \cup parked
  BY <1>1 DEF DeskInv, HandledOnRecord, AloneOK
<1>6. PendingIsNeverForgotten' /\ EscalationFollowsOutage' /\ RecordGrows
  BY <1>1 DEF DeskInv, PendingIsNeverForgotten, EscalationFollowsOutage, RecordGrows
<1>7. h # None /\ h.pc = "recorded" => \E i \in DOMAIN log' : log'[i] = h.entry
  BY <1>1, <1>4, DeskFacts
<1>8. h # None => /\ h.pc = "recorded" => log' # <<>> /\ log'[Len(log')] = h.entry
                  /\ (h.pc = "insert" /\ h.entry.reasons = Unverified.reasons) =>
                       log' = <<>> \/ log'[Len(log')].outcome = "PENDING"
  BY <1>1, <1>4 DEF Refused
<1> HIDE DEF e
<1> QED BY <1>1, <1>2, <1>3, <1>4, <1>5, <1>6, <1>7, <1>8, DeskFacts, DeskStep

LEMMA InsertKeeps ==
  ASSUME CaseworkAssumption, DeskInv, scope' = scope, answers' = answers, NEW w \in Worker,
         InsertVerification(w)
  PROVE  DeskInv'
<1> DEFINE e == Entering(w)
           h == [handling[w] EXCEPT !.pc = "recorded"]
<1>1. /\ handling[w] # None /\ handling[w].pc = "insert"
      /\ log' = Append(log, e) /\ handling' = [handling EXCEPT ![w] = h]
      /\ UNCHANGED <<owed, parked, overlapped>>
  BY DEF InsertVerification, At
<1>2. /\ handling[w] \in Handlings /\ e \in Entries /\ handling[w].entry = e
      /\ ~overlapped => \A v \in Worker \ {w} : handling[v] = None
  BY <1>1, HandlesAlone
<1>3. h \in Handlings /\ h.entry = e /\ h.pc = "recorded"
  BY <1>2 DEF Handlings
<1> HIDE DEF h
<1>4. /\ e.outcome = "CLEARED" => \E a \in answers : Clearing(a)
      /\ ~overlapped => e.cert \in owed \cup parked
      /\ ~overlapped /\ e.reasons = Unverified.reasons =>
           log = <<>> \/ log[Len(log)].outcome = "PENDING"
  BY <1>1 DEF DeskInv, HandledOnRecord, AloneOK, At
<1> HIDE DEF e
<1>5. /\ log' \in Seq(Entries) /\ Len(log') = Len(log) + 1 /\ DOMAIN log' = 1 .. Len(log) + 1
      /\ log'[Len(log) + 1] = e /\ \A i \in 1 .. Len(log) : log'[i] = log[i]
      /\ log' # <<>>
  BY <1>1, <1>2, DeskFacts
<1>6. RecordGrows
  BY <1>5, DeskFacts DEF RecordGrows
<1>7. PendingIsNeverForgotten'
  BY <1>1, <1>4, <1>5 DEF PendingIsNeverForgotten
<1>8. EscalationFollowsOutage'
  <2> SUFFICES ASSUME ~overlapped, NEW i \in 1 .. Len(log) + 1,
                      log'[i].reasons = Unverified.reasons, i > 1
               PROVE  log'[i - 1].outcome = "PENDING"
    BY <1>1, <1>5 DEF EscalationFollowsOutage
  <2>1. CASE i = Len(log) + 1
    <3>1. i - 1 = Len(log) /\ log # <<>> /\ Len(log) \in 1 .. Len(log)
      BY <2>1, DeskFacts
    <3> QED BY <2>1, <3>1, <1>4, <1>5
  <2>2. CASE i # Len(log) + 1
    <3>1. i \in 1 .. Len(log) /\ i - 1 \in 1 .. Len(log)
      BY <2>2, DeskFacts
    <3> QED BY <3>1, <1>5, DeskFacts DEF DeskInv, EscalationFollowsOutage
  <2> QED BY <2>1, <2>2
<1>9. \E i \in DOMAIN log' : log'[i] = h.entry
  BY <1>3, <1>5, DeskFacts
<1>10. log'[Len(log')] = h.entry
  BY <1>3, <1>5
<1> QED BY <1>1, <1>2, <1>3, <1>4, <1>5, <1>6, <1>7, <1>8, <1>9, <1>10, DeskFacts, DeskStep

\* The worker is done with the event, which nothing else notices.
LEMMA DoneKeeps ==
  ASSUME CaseworkAssumption, DeskInv, scope' = scope, answers' = answers, NEW w \in Worker,
         handling[w] # None, Done(w), UNCHANGED <<log, overlapped>>,
         owed' \subseteq Numbers, parked' \subseteq Numbers,
         PendingIsNeverForgotten'
  PROVE  DeskInv'
<1>1. handling' = [handling EXCEPT ![w] = None]
  BY DEF Done
<1>2. ~overlapped => \A v \in Worker \ {w} : handling[v] = None
  BY HandlesAlone
<1>3. EscalationFollowsOutage' /\ RecordGrows
  BY DEF DeskInv, EscalationFollowsOutage, RecordGrows
<1> QED BY <1>1, <1>2, <1>3, DeskFacts, DeskStep

LEMMA EnteredCert ==
  ASSUME DeskInv, NEW w \in Worker, handling[w] # None
  PROVE  ~overlapped => Entering(w).cert \in owed \cup parked
BY DEF DeskInv, AloneOK

LEMMA RetryLaterKeeps ==
  ASSUME CaseworkAssumption, DeskInv, scope' = scope, answers' = answers, NEW w \in Worker,
         RetryLater(w)
  PROVE  DeskInv'
<1>1. handling[w] # None /\ Done(w) /\ UNCHANGED <<log, owed, parked, overlapped>>
  BY DEF RetryLater, At
<1>2. PendingIsNeverForgotten'
  BY <1>1 DEF DeskInv, PendingIsNeverForgotten
<1> QED BY <1>1, <1>2, DeskFacts, DoneKeeps

LEMMA ConcludeKeeps ==
  ASSUME CaseworkAssumption, DeskInv, scope' = scope, answers' = answers, NEW w \in Worker,
         Conclude(w)
  PROVE  DeskInv'
<1>1. /\ handling[w] # None /\ At(w, "recorded") /\ Entering(w).outcome # "PENDING"
      /\ owed' = owed \ {Entering(w).cert} /\ Done(w) /\ UNCHANGED <<log, parked, overlapped>>
  BY DEF Conclude, At
<1>2. PendingIsNeverForgotten'
  BY <1>1 DEF DeskInv, AloneOK, PendingIsNeverForgotten
<1> QED BY <1>1, <1>2, DeskFacts, DoneKeeps

LEMMA ParkFailureKeeps ==
  ASSUME CaseworkAssumption, DeskInv, scope' = scope, answers' = answers, NEW w \in Worker,
         ParkFailure(w)
  PROVE  DeskInv'
<1> DEFINE cert == Entering(w).cert
<1>1. /\ handling[w] # None /\ owed' = owed \ {cert} /\ parked' = parked \cup {cert}
      /\ Done(w) /\ UNCHANGED <<log, overlapped>>
  BY DEF ParkFailure
<1>2. cert \in Numbers
  BY <1>1, HandlesAlone DEF Entries, Numbers
<1>3. PendingIsNeverForgotten'
  BY <1>1 DEF DeskInv, PendingIsNeverForgotten
<1> QED BY <1>1, <1>2, <1>3, DeskFacts, DoneKeeps

LEMMA AbandonEventKeeps ==
  ASSUME CaseworkAssumption, DeskInv, scope' = scope, answers' = answers, NEW w \in Worker,
         AbandonEvent(w)
  PROVE  DeskInv'
<1> DEFINE cert == Entering(w).cert
<1>1. /\ handling[w] # None /\ owed' = owed \cup {cert}
      /\ Done(w) /\ UNCHANGED <<log, parked, overlapped>>
  BY DEF AbandonEvent
<1>2. cert \in Numbers
  BY <1>1, HandlesAlone DEF Entries, Numbers
<1>3. PendingIsNeverForgotten'
  BY <1>1 DEF DeskInv, PendingIsNeverForgotten
<1> QED BY <1>1, <1>2, <1>3, DeskFacts, DoneKeeps

LEMMA ParkOutageKeeps ==
  ASSUME CaseworkAssumption, DeskInv, scope' = scope, answers' = answers, NEW w \in Worker,
         ParkOutage(w)
  PROVE  DeskInv'
<1> DEFINE cert == Entering(w).cert
           h == [pc |-> "record", entry |-> Entry(cert, Unverified)]
<1>1. /\ handling[w] # None /\ owed' = owed \ {cert} /\ parked' = parked \cup {cert}
      /\ handling' = [handling EXCEPT ![w] = h] /\ UNCHANGED <<log, overlapped>>
  BY DEF ParkOutage, At
<1>2. ~overlapped => \A v \in Worker \ {w} : handling[v] = None
  BY <1>1, HandlesAlone
<1>3. cert \in Numbers
  BY <1>1, HandlesAlone DEF Entries, Numbers
<1>4. /\ h \in Handlings /\ h.pc = "record" /\ h.entry.cert = cert
      /\ h.entry.outcome = "REVIEW"
  BY <1>3 DEF Handlings, Entries, Entry, Unverified, Outcomes, Numbers
<1> HIDE DEF h
<1>5. PendingIsNeverForgotten' /\ EscalationFollowsOutage' /\ RecordGrows
  BY <1>1 DEF DeskInv, PendingIsNeverForgotten, EscalationFollowsOutage, RecordGrows
<1> HIDE DEF cert
<1> QED BY <1>1, <1>2, <1>3, <1>4, <1>5, DeskFacts, DeskStep

LEMMA NotRecordedKeeps ==
  ASSUME CaseworkAssumption, DeskInv, scope' = scope, answers' = answers, NEW w \in Worker,
         PendingNotRecorded(w)
  PROVE  DeskInv'
<1> DEFINE e == Entering(w)
           h == [handling[w] EXCEPT !.pc = "recorded"]
<1>1. /\ handling[w] # None /\ e.outcome = "PENDING" /\ handling' = [handling EXCEPT ![w] = h]
      /\ UNCHANGED <<log, owed, parked, overlapped>>
  BY DEF PendingNotRecorded
<1>2. /\ handling[w] \in Handlings /\ e \in Entries /\ handling[w].entry = e
      /\ ~overlapped => \A v \in Worker \ {w} : handling[v] = None
  BY <1>1, HandlesAlone
<1>3. h \in Handlings /\ h.entry = e /\ h.pc = "recorded"
  BY <1>2 DEF Handlings
<1> HIDE DEF h
<1>4. ~overlapped => e.cert \in owed \cup parked
  BY <1>1, EnteredCert
<1> HIDE DEF e
<1>5. PendingIsNeverForgotten' /\ EscalationFollowsOutage' /\ RecordGrows
  BY <1>1 DEF DeskInv, PendingIsNeverForgotten, EscalationFollowsOutage, RecordGrows
<1> QED BY <1>1, <1>2, <1>3, <1>4, <1>5, DeskFacts, DeskStep

LEMMA ReturnKeeps ==
  ASSUME CaseworkAssumption, DeskInv, scope' = scope, answers' = answers, NEW cert \in parked,
         ReturnParked(cert)
  PROVE  DeskInv'
<1>1. /\ owed' = owed \cup {cert} /\ parked' = parked \ {cert}
      /\ UNCHANGED <<log, handling, overlapped>>
  BY DEF ReturnParked
<1>2. owed' \cup parked' = owed \cup parked
  BY <1>1
<1>3. DeskTypes' /\ HandledOnRecord'
  BY <1>1 DEF DeskInv, DeskTypes, HandledOnRecord, At, Entering
<1>4. AloneOK'
  BY <1>1, <1>2 DEF DeskInv, AloneOK, At, Entering
<1>5. PendingIsNeverForgotten' /\ EscalationFollowsOutage'
  BY <1>1, <1>2 DEF DeskInv, PendingIsNeverForgotten, EscalationFollowsOutage
<1> QED BY <1>3, <1>4, <1>5 DEF DeskInv

-----------------------------------------------------------------------------
(* Verdicts and the row *)

LEMMA GroundsStay ==
  ASSUME RecordGrows, NEW dim, NEW value, Grounds(dim, value)
  PROVE  Grounds(dim, value)'
BY DEF RecordGrows, Grounds, ClearedOnRecord, ByRib

LEMMA VerdictsGrow ==
  ASSUME VerdictInv, RecordGrows, NEW v, verdicts' \subseteq verdicts \cup {v},
         v \in verdicts' =>
           /\ v.dim \in Dimensions \cup {"DOCUMENT"}
           /\ v.value \in Values(v.dim) /\ v.review \in BOOLEAN /\ Grounds(v.dim, v.value)'
  PROVE  VerdictInv'
<1>1. ASSUME NEW u \in verdicts
      PROVE  /\ u.dim \in Dimensions \cup {"DOCUMENT"}
             /\ u.value \in Values(u.dim) /\ u.review \in BOOLEAN /\ Grounds(u.dim, u.value)'
  BY GroundsStay DEF VerdictInv
<1> QED BY <1>1 DEF VerdictInv

LEMMA VerdictsStay ==
  ASSUME VerdictInv, RecordGrows, verdicts' = verdicts
  PROVE  VerdictInv'
BY GroundsStay DEF VerdictInv

LEMMA RowStays ==
  ASSUME RowInv, RecordGrows, row' = row
  PROVE  RowInv'
<1>1. /\ ClearedOnRecord => ClearedOnRecord'
      /\ ContentOnRecord => ContentOnRecord'
  BY DEF RecordGrows, ClearedOnRecord, ByRib, ContentOnRecord
<1>2. EvidenceOK(row)'
  BY <1>1 DEF RowInv, RowOK, EvidenceOK, RecordGrows
<1> QED BY <1>1, <1>2 DEF RowInv, RowOK, Admissible

LEMMA MovedRow ==
  ASSUME NEW r, RowOK(r), row' = r, UNCHANGED <<answers, log>>
  PROVE  RowInv'
<1>1. RowOK(row')
  OBVIOUS
<1> QED BY <1>1 DEF RowInv, RowOK, EvidenceOK, Admissible, ClearedOnRecord, ContentOnRecord, ByRib

LEMMA DeriveFacts ==
  ASSUME NEW cur \in Stages, NEW e, NEW contentOnly
  PROVE  LET to == DeriveStatus(cur, e, contentOnly) IN
         /\ to \in Stages
         /\ to = "DOCUMENT_REVIEW_GREEN" => cur = to \/ e.criminal = "CLEARED" \/ contentOnly
         /\ to = "SLOT_ASSIGNED" => cur = to
         /\ to = "ADJUDICATION_REVIEW" => cur \in {"SLOT_ASSIGNED", to}
         /\ cur \in {"DOCUMENT_REVIEW_AMBER", "REJECTED"} => to \in {"DOCUMENT_REVIEW_AMBER", "REJECTED"}
<1> DEFINE candidate == Candidate(cur, e, contentOnly)
<1>1. /\ candidate \in {"DOCUMENT_REVIEW_GREEN", "CRIMINAL_CLEARANCE", "ACADEMIC_VETTING", cur}
      /\ candidate = "DOCUMENT_REVIEW_GREEN" /\ cur # candidate => e.criminal = "CLEARED" \/ contentOnly
  BY DEF Candidate, AllGatesPassed, CriminalAllowsScheduling
<1>2. /\ HardFailTarget(cur) \in {"ADJUDICATION_REVIEW", "REJECTED"}
      /\ HardFailTarget(cur) = "ADJUDICATION_REVIEW" => cur \in {"SLOT_ASSIGNED", "ADJUDICATION_REVIEW", "REJECTED"}
  BY DEF HardFailTarget, AtOrPast, StageRank, Stages
<1>3. /\ StageRank[candidate] > StageRank[cur] => cur \notin {"DOCUMENT_REVIEW_AMBER", "REJECTED"}
  BY <1>1 DEF StageRank, Stages
<1> HIDE DEF candidate
<1>4. DeriveStatus(cur, e, contentOnly) =
        IF cur \in Terminal THEN cur
        ELSE IF IsHardFail(e) THEN HardFailTarget(cur)
        ELSE IF StageRank[candidate] > StageRank[cur] THEN candidate ELSE cur
  BY DEF DeriveStatus, candidate
<1>5. cur \in Terminal <=> cur = "REJECTED"
  BY DEF Terminal, Stages
<1> HIDE DEF DeriveStatus
<1>6. CASE cur \in Terminal
  BY <1>4, <1>5, <1>6
<1>7. CASE cur \notin Terminal /\ IsHardFail(e)
  BY <1>2, <1>4, <1>5, <1>7 DEF Stages
<1>8. CASE cur \notin Terminal /\ ~IsHardFail(e)
  BY <1>1, <1>3, <1>4, <1>5, <1>8 DEF Stages
<1> QED BY <1>6, <1>7, <1>8

\* A row that moves: the evidence e is what the row holds by then.
LEMMA MoveKeeps ==
  ASSUME RowInv, NEW e \in Rows, EvidenceOK(e), e.status = row.status, e.heldFrom = row.heldFrom,
         row.resolvedDims \subseteq e.resolvedDims, NEW to \in Stages,
         to \in {"DOCUMENT_REVIEW_GREEN", "SLOT_ASSIGNED"} => to = row.status \/ Admissible(e),
         to = "ADJUDICATION_REVIEW" => row.status \in {"SLOT_ASSIGNED", to}
  PROVE  RowOK(Move(e, to)) /\ Move(e, to).status = to
<1> DEFINE held == IF to = "ADJUDICATION_REVIEW" /\ e.status # to THEN e.status ELSE e.heldFrom
<1>1. Move(e, to) = [e EXCEPT !.status = to, !.heldFrom = held]
  BY DEF Move, Rows
<1>2. Admissible(row) => Admissible(e)
  BY DEF Admissible
<1>3. /\ held \in {None, "SLOT_ASSIGNED"}
      /\ held # None => Admissible(e)
  BY <1>2 DEF RowInv, RowOK, Rows
<1> HIDE DEF held
<1>4. /\ Move(e, to) \in Rows /\ Move(e, to).status = to /\ Move(e, to).heldFrom = held
      /\ Move(e, to).academic = e.academic /\ Move(e, to).criminal = e.criminal
      /\ Move(e, to).resolvedDims = e.resolvedDims
  BY <1>1, <1>3 DEF Rows
<1>5. to \in {"DOCUMENT_REVIEW_GREEN", "SLOT_ASSIGNED"} => Admissible(e)
  BY <1>2 DEF RowInv, RowOK
<1> QED BY <1>3, <1>4, <1>5 DEF RowOK, EvidenceOK, Admissible

LEMMA ContentOnlyFacts ==
  ASSUME DeskInv, NEW criminal
  PROVE  ContentOnly(criminal) => ContentOnRecord
BY DeskFacts DEF ContentOnly, ContentReviewOnly, IsContentReviewOnly, ContentOnRecord

\* The status derived from evidence on the row.
LEMMA DerivedKeeps ==
  ASSUME RowInv, NEW e \in Rows, EvidenceOK(e), e.status = row.status, e.heldFrom = row.heldFrom,
         row.resolvedDims \subseteq e.resolvedDims, NEW contentOnly, contentOnly => ContentOnRecord
  PROVE  LET to == DeriveStatus(row.status, e, contentOnly) IN
         /\ RowOK(Move(e, to)) /\ Move(e, to).status = to
         /\ row.status \in {"DOCUMENT_REVIEW_AMBER", "REJECTED"} => to \in {"DOCUMENT_REVIEW_AMBER", "REJECTED"}
<1> DEFINE to == DeriveStatus(row.status, e, contentOnly)
<1>1. row.status \in Stages
  BY DEF RowInv, RowOK, Rows
<1>2. e.criminal = "CLEARED" => Admissible(e)
  BY DEF EvidenceOK, Admissible
<1>3. contentOnly => Admissible(e)
  BY DEF Admissible
<1>4. /\ to \in Stages
      /\ to = "DOCUMENT_REVIEW_GREEN" => row.status = to \/ e.criminal = "CLEARED" \/ contentOnly
      /\ to = "SLOT_ASSIGNED" => row.status = to
      /\ to = "ADJUDICATION_REVIEW" => row.status \in {"SLOT_ASSIGNED", to}
      /\ row.status \in {"DOCUMENT_REVIEW_AMBER", "REJECTED"} => to \in {"DOCUMENT_REVIEW_AMBER", "REJECTED"}
  BY <1>1, DeriveFacts
<1> HIDE DEF to
<1>5. RowOK(Move(e, to)) /\ Move(e, to).status = to
  BY <1>2, <1>3, <1>4, MoveKeeps
<1> QED BY <1>4, <1>5 DEF to

LEMMA RouteStays ==
  ASSUME RouteInv, UNCHANGED <<docs, routed>>,
         \A v \in verdicts' : v \in verdicts \/ v.dim # "DOCUMENT"
           \/ (v.doc[1] \in DOMAIN docs /\ v.doc[2] \in 0 .. docs[v.doc[1]].revision),
         row.status \in {"DOCUMENT_REVIEW_AMBER", "REJECTED"} =>
           row'.status \in {"DOCUMENT_REVIEW_AMBER", "REJECTED"}
  PROVE  RouteInv'
BY DEF RouteInv

LEMMA RouteCommitted ==
  ASSUME CaseworkAssumption, SlotInv, RouteInv, NEW k \in Caller, CommitCall(k),
         UNCHANGED <<row, verdicts, routed>>
  PROVE  RouteInv'
<1> DEFINE c == call[k]
           d == IF c.decision = "CREATE" THEN Len(docs) + 1 ELSE c.doc
           revision == IF c.decision = "CREATE" THEN 1 ELSE docs[d].revision + 1
           written == [content |-> c.content, lane |-> c.lane, revision |-> revision, stamp |-> None]
<1>1. /\ c # None /\ c.pc = "written"
      /\ docs' = IF c.decision = "CREATE" THEN Append(docs, written)
                 ELSE [docs EXCEPT ![d] = [written EXCEPT !.stamp = docs[d].stamp]]
  BY DEF CommitCall
<1>2. docs \in Seq(Docs) /\ Len(docs) \in Nat /\ DOMAIN docs = 1 .. Len(docs)
  BY DEF SlotInv, SlotTypes
<1>3. c.decision # "CREATE" => d \in DOMAIN docs /\ docs[d].revision \in Nat
  <2>1. Holding(k)
    BY <1>1 DEF Holding
  <2>2. c.decision # "CREATE" => d \in DOMAIN docs
    BY <2>1 DEF SlotInv, CallsOK
  <2>3. c.decision # "CREATE" => docs[d] \in Docs
    BY <1>2, <2>2
  <2> QED BY <2>2, <2>3 DEF Docs
<1>4. /\ \A e \in DOMAIN docs \ {d} : e \in DOMAIN docs' /\ docs'[e] = docs[e]
      /\ DOMAIN docs' = DOMAIN docs \cup {d} /\ docs'[d].revision = revision
  <2>1. CASE c.decision = "CREATE"
    <3>1. docs' = Append(docs, written) /\ d = Len(docs) + 1 /\ written.revision = revision
      BY <1>1, <2>1
    <3> HIDE DEF written
    <3>2. /\ DOMAIN docs' = 1 .. (Len(docs) + 1) /\ docs'[Len(docs) + 1] = written
          /\ \A e \in 1 .. Len(docs) : docs'[e] = docs[e]
      BY <1>2, <3>1
    <3> QED BY <1>2, <3>1, <3>2
  <2>2. CASE c.decision # "CREATE"
    <3> DEFINE new == [written EXCEPT !.stamp = docs[d].stamp]
    <3>1. docs' = [docs EXCEPT ![d] = new]
      BY <1>1, <2>2
    <3>2. new.revision = revision
      OBVIOUS
    <3> HIDE DEF new
    <3> QED BY <1>3, <2>2, <3>1, <3>2
  <2> QED BY <2>1, <2>2
<1>5. d \in DOMAIN docs => revision = docs[d].revision + 1 /\ docs[d].revision \in Nat
  BY <1>2, <1>3
<1>6. ASSUME NEW e \in DOMAIN docs PROVE docs[e].revision \in Nat
  <2>1. docs[e] \in Docs
    BY <1>2
  <2> QED BY <2>1 DEF Docs
<1> HIDE DEF d, revision, written
<1>7. \A e \in DOMAIN docs : e \in DOMAIN docs' /\ docs[e].revision <= docs'[e].revision
                             /\ docs'[e].revision \in Nat
  BY <1>4, <1>5, <1>6
<1>8. \A e \in DOMAIN docs : \A r : r \in 0 .. docs[e].revision => r \in 0 .. docs'[e].revision
  BY <1>6, <1>7
<1>9. <<d, docs'[d].revision>> \notin routed
  <2> SUFFICES ASSUME <<d, revision>> \in routed PROVE FALSE
    BY <1>4
  <2>1. <<d, revision>>[1] = d /\ <<d, revision>>[2] = revision
    OBVIOUS
  <2>2. d \in DOMAIN docs /\ revision \in 0 .. docs[d].revision
    BY <2>1 DEF RouteInv
  <2> QED BY <1>5, <2>2
<1>10. \A v \in verdicts' : v.dim = "DOCUMENT" =>
         v.doc[1] \in DOMAIN docs' /\ v.doc[2] \in 0 .. docs'[v.doc[1]].revision
  BY <1>7, <1>8 DEF RouteInv
<1>11. \A p \in routed' : p[1] \in DOMAIN docs' /\ p[2] \in 0 .. docs'[p[1]].revision
  BY <1>7, <1>8 DEF RouteInv
<1>12. ASSUME NEW e \in DOMAIN docs', docs'[e].lane = "AMBER", docs'[e].stamp = None,
              <<e, docs'[e].revision>> \in routed'
       PROVE  row'.status \in {"DOCUMENT_REVIEW_AMBER", "REJECTED"}
  <2>1. e # d
    BY <1>9, <1>12
  <2>2. e \in DOMAIN docs /\ docs'[e] = docs[e]
    BY <1>4, <2>1
  <2> QED BY <1>12, <2>2 DEF RouteInv
<1> QED BY <1>10, <1>11, <1>12 DEF RouteInv

\* An officer's decision on the hold stamps every amber row: none is left.
LEMMA RouteStamped ==
  ASSUME CaseworkAssumption, SlotInv, RouteInv, StampReviewed, UNCHANGED <<verdicts, routed>>
  PROVE  RouteInv'
<1>1. docs' = [d \in DOMAIN docs |->
                 IF Stampable(d) THEN [docs[d] EXCEPT !.stamp = object] ELSE docs[d]]
  BY DEF StampReviewed
<1>2. docs \in Seq(Docs) /\ (docs # <<>> => object # None)
  BY DEF SlotInv, SlotTypes
<1>3. DOMAIN docs' = DOMAIN docs
  BY <1>1
<1>4. ASSUME NEW d \in DOMAIN docs
      PROVE  docs'[d].revision = docs[d].revision /\ ~(docs'[d].lane = "AMBER" /\ docs'[d].stamp = None)
  <2>1. docs[d] \in Docs /\ object # None
    BY <1>2
  <2>2. CASE Stampable(d)
    <3>1. docs'[d] = [docs[d] EXCEPT !.stamp = object]
      BY <1>1, <2>2
    <3> QED BY <2>1, <3>1 DEF Docs
  <2>3. CASE ~Stampable(d)
    BY <1>1, <2>3 DEF Stampable
  <2> QED BY <2>2, <2>3
<1> QED BY <1>3, <1>4 DEF RouteInv

-----------------------------------------------------------------------------
(* The actions that move the row *)

LEMMA ProjectionKeeps ==
  ASSUME IInv, NEW v \in verdicts, ApplyVettingResult(v)
  PROVE  RowInv' /\ RouteInv'
<1> DEFINE e == Projected(v)
           contentOnly == ContentOnly(e.criminal)
           to == DeriveStatus(row.status, e, contentOnly)
<1>1. /\ v.dim # "DOCUMENT" /\ ~DecidedByHuman(row.resolvedDims, v.dim)
      /\ row' = Move(e, to)
      /\ UNCHANGED <<verdicts, answers, log, docs, routed>>
  BY DEF ApplyVettingResult, deskVars, slotVars
<1>2. /\ v.dim \in Dimensions /\ v.value \in Values(v.dim) /\ v.review \in BOOLEAN
      /\ Grounds(v.dim, v.value)
  BY <1>1 DEF IInv, VerdictInv
<1>3. RowInv /\ row \in Rows /\ EvidenceOK(row) /\ DeskInv /\ RouteInv
  BY DEF IInv, RowInv, RowOK
<1>4. /\ e \in Rows /\ EvidenceOK(e) /\ e.status = row.status /\ e.heldFrom = row.heldFrom
      /\ e.resolvedDims = row.resolvedDims
  <2>1. CASE v.dim = "AGE"
    <3>1. e = [row EXCEPT !.age = v.value] /\ v.value \in GateStatuses
      BY <1>2, <2>1 DEF Projected, Values
    <3>2. /\ e \in Rows /\ e.status = row.status /\ e.heldFrom = row.heldFrom
          /\ e.resolvedDims = row.resolvedDims
          /\ e.academic = row.academic /\ e.criminal = row.criminal
      BY <1>3, <3>1 DEF Rows
    <3> HIDE DEF e
    <3> QED BY <1>3, <3>2 DEF EvidenceOK
  <2>2. CASE v.dim = "CRIMINAL"
    <3>1. e = [row EXCEPT !.criminal = v.value] /\ v.value \in CriminalStatuses
      BY <1>2, <2>2 DEF Projected, Values
    <3>2. /\ e \in Rows /\ e.status = row.status /\ e.heldFrom = row.heldFrom
          /\ e.resolvedDims = row.resolvedDims
          /\ e.academic = row.academic /\ e.criminal = v.value
      BY <1>3, <3>1 DEF Rows
    <3> HIDE DEF e
    <3> QED BY <1>2, <1>3, <2>2, <3>2 DEF EvidenceOK, Grounds
  <2>3. CASE v.dim = "ACADEMIC"
    <3>1. e = [row EXCEPT !.academic = v.value, !.nesaReview = v.review] /\ v.value \in GateStatuses
      BY <1>2, <2>3 DEF Projected, Values
    <3>2. /\ e \in Rows /\ e.status = row.status /\ e.heldFrom = row.heldFrom
          /\ e.resolvedDims = row.resolvedDims
          /\ e.academic = v.value /\ e.criminal = row.criminal
      BY <1>2, <1>3, <3>1 DEF Rows
    <3> HIDE DEF e
    <3> QED BY <1>2, <1>3, <2>3, <3>2 DEF EvidenceOK, Grounds
  <2> QED BY <1>2, <2>1, <2>2, <2>3 DEF Dimensions
<1>5. contentOnly => ContentOnRecord
  BY <1>3, ContentOnlyFacts
<1> HIDE DEF e, contentOnly
<1>6. /\ RowOK(Move(e, to)) /\ Move(e, to).status = to
      /\ row.status \in {"DOCUMENT_REVIEW_AMBER", "REJECTED"} => to \in {"DOCUMENT_REVIEW_AMBER", "REJECTED"}
  BY <1>3, <1>4, <1>5, DerivedKeeps
<1>7. RowInv'
  BY <1>1, <1>6, MovedRow
<1>8. RouteInv'
  BY <1>1, <1>3, <1>6, RouteStays
<1> QED BY <1>7, <1>8

\* A step that moves the row and touches nothing its invariants rest on.
LEMMA RowMoves ==
  ASSUME RowInv, RouteInv, NEW e, e.status = row.status,
         NEW to, RowOK(Move(e, to)), Move(e, to).status = to, row' = Move(e, to),
         UNCHANGED <<answers, log, verdicts, docs, routed>>,
         row.status \in {"DOCUMENT_REVIEW_AMBER", "REJECTED"} =>
           to \in {"DOCUMENT_REVIEW_AMBER", "REJECTED"}
  PROVE  RowInv' /\ RouteInv'
<1>1. RowInv'
  BY MovedRow
<1>2. row'.status = to
  OBVIOUS
<1>3. RouteInv'
  BY <1>2, RouteStays
<1> QED BY <1>1, <1>3

LEMMA TargetFacts ==
  ASSUME NEW s \in Stages, s # "REJECTED", NEW lane \in Lanes
  PROVE  /\ ForensicsTarget(s, lane) \in Stages
         /\ ForensicsTarget(s, lane) \in {"DOCUMENT_REVIEW_GREEN", "SLOT_ASSIGNED"} =>
              ForensicsTarget(s, lane) = s
         /\ ForensicsTarget(s, lane) = "ADJUDICATION_REVIEW" => s \in {"SLOT_ASSIGNED", "ADJUDICATION_REVIEW"}
         /\ s = "DOCUMENT_REVIEW_AMBER" => ForensicsTarget(s, lane) \in {"DOCUMENT_REVIEW_AMBER", "REJECTED"}
         /\ lane = "AMBER" /\ ~AtOrPast(s, "SLOT_ASSIGNED") =>
              ForensicsTarget(s, lane) = "DOCUMENT_REVIEW_AMBER"
BY DEF ForensicsTarget, AtOrPast, StageRank, Stages, Lanes

\* An amber verdict that arrives before the slot puts the row on hold, and every
\* other verdict leaves a row on hold there or closes it.
LEMMA RoutingKeeps ==
  ASSUME IInv, NEW v \in verdicts, ApplyForensicsRouting(v)
  PROVE  RowInv' /\ RouteInv'
<1> DEFINE s == row.status
           to == ForensicsTarget(s, v.value)
           amber == v.value = "AMBER" /\ ~AtOrPast(s, "SLOT_ASSIGNED")
<1>1. /\ v.dim = "DOCUMENT" /\ s # "REJECTED" /\ row' = Move(row, to)
      /\ routed' = IF amber THEN routed \cup {v.doc} ELSE routed
      /\ UNCHANGED <<verdicts, answers, log, docs>>
  BY DEF ApplyForensicsRouting, deskVars, slotVars
<1>2. RowInv /\ row \in Rows /\ EvidenceOK(row) /\ RouteInv /\ s \in Stages
  BY DEF IInv, RowInv, RowOK, Rows
<1>3. v.value \in Lanes
  BY <1>1 DEF IInv, VerdictInv, Values
<1>4. /\ to \in Stages
      /\ to \in {"DOCUMENT_REVIEW_GREEN", "SLOT_ASSIGNED"} => to = s
      /\ to = "ADJUDICATION_REVIEW" => s \in {"SLOT_ASSIGNED", to}
      /\ s = "DOCUMENT_REVIEW_AMBER" => to \in {"DOCUMENT_REVIEW_AMBER", "REJECTED"}
      /\ amber => to = "DOCUMENT_REVIEW_AMBER"
  BY <1>1, <1>2, <1>3, TargetFacts
<1> HIDE DEF to, amber
<1>5. RowOK(Move(row, to)) /\ Move(row, to).status = to
  BY <1>2, <1>4, MoveKeeps
<1>6. RowInv'
  BY <1>1, <1>5, MovedRow
<1>7. row'.status = to
  BY <1>1, <1>5
<1>8. v.doc[1] \in DOMAIN docs /\ v.doc[2] \in 0 .. docs[v.doc[1]].revision
  BY <1>1, <1>2 DEF RouteInv
<1>9. RouteInv'
  <2>1. \A u \in verdicts' : u.dim = "DOCUMENT" =>
          u.doc[1] \in DOMAIN docs' /\ u.doc[2] \in 0 .. docs'[u.doc[1]].revision
    BY <1>1, <1>2 DEF RouteInv
  <2>2. \A p \in routed' : p[1] \in DOMAIN docs' /\ p[2] \in 0 .. docs'[p[1]].revision
    BY <1>1, <1>2, <1>8 DEF RouteInv
  <2>3. ASSUME NEW d \in DOMAIN docs', docs'[d].lane = "AMBER", docs'[d].stamp = None,
               <<d, docs'[d].revision>> \in routed'
        PROVE  row'.status \in {"DOCUMENT_REVIEW_AMBER", "REJECTED"}
    <3>1. CASE amber
      BY <3>1, <1>4, <1>7
    <3>2. CASE ~amber
      <4>1. s \in {"DOCUMENT_REVIEW_AMBER", "REJECTED"}
        BY <2>3, <3>2, <1>1, <1>2 DEF RouteInv
      <4> QED BY <4>1, <1>1, <1>4, <1>7
    <3> QED BY <3>1, <3>2
  <2> QED BY <2>1, <2>2, <2>3 DEF RouteInv
<1> QED BY <1>6, <1>9

LEMMA AssignKeeps ==
  ASSUME IInv, AssignSlot
  PROVE  RowInv' /\ RouteInv'
<1>1. /\ row.status = "DOCUMENT_REVIEW_GREEN" /\ row' = Move(row, "SLOT_ASSIGNED")
      /\ UNCHANGED <<verdicts, answers, log, docs, routed>>
  BY DEF AssignSlot, deskVars, slotVars
<1>2. RowInv /\ row \in Rows /\ EvidenceOK(row) /\ RouteInv /\ Admissible(row)
  BY <1>1 DEF IInv, RowInv, RowOK
<1>3. RowOK(Move(row, "SLOT_ASSIGNED")) /\ Move(row, "SLOT_ASSIGNED").status = "SLOT_ASSIGNED"
  BY <1>2, MoveKeeps DEF Stages
<1> QED BY <1>1, <1>2, <1>3, RowMoves

LEMMA RejectKeeps ==
  ASSUME CaseworkAssumption, IInv, AdjudicateReject
  PROVE  RowInv' /\ RouteInv'
<1>1. /\ row' = Move(row, "REJECTED")
      /\ StampReviewed \/ UNCHANGED slotVars
      /\ UNCHANGED <<verdicts, answers, log, routed>>
  BY DEF AdjudicateReject, deskVars
<1>2. RowInv /\ row \in Rows /\ EvidenceOK(row) /\ RouteInv /\ SlotInv
  BY DEF IInv, RowInv, RowOK
<1>3. RowOK(Move(row, "REJECTED")) /\ Move(row, "REJECTED").status = "REJECTED"
  BY <1>2, MoveKeeps DEF Stages
<1>4. RowInv'
  BY <1>1, <1>3, MovedRow
<1>5. CASE UNCHANGED slotVars
  BY <1>1, <1>2, <1>3, <1>5, RowMoves DEF slotVars
<1>6. CASE StampReviewed
  BY <1>1, <1>2, <1>4, <1>6, RouteStamped
<1> QED BY <1>1, <1>4, <1>5, <1>6

\* Clearing the amber hold derives the status again from the beginning.
LEMMA ClearAmberKeeps ==
  ASSUME CaseworkAssumption, IInv, ClearAmber
  PROVE  RowInv' /\ RouteInv'
<1> DEFINE contentOnly == ContentOnly(row.criminal)
           to == DeriveStatus("SUBMITTED", row, contentOnly)
<1>1. /\ row' = Move(row, to) /\ StampReviewed
      /\ UNCHANGED <<verdicts, answers, log, routed>>
  BY DEF ClearAmber, deskVars
<1>2. RowInv /\ row \in Rows /\ EvidenceOK(row) /\ RouteInv /\ SlotInv /\ DeskInv
  BY DEF IInv, RowInv, RowOK
<1>3. contentOnly => Admissible(row)
  BY <1>2, ContentOnlyFacts DEF Admissible
<1>4. row.criminal = "CLEARED" => Admissible(row)
  BY <1>2 DEF EvidenceOK, Admissible
<1> HIDE DEF contentOnly
<1>5. /\ to \in Stages
      /\ to \in {"DOCUMENT_REVIEW_GREEN", "SLOT_ASSIGNED"} => Admissible(row)
      /\ to # "ADJUDICATION_REVIEW"
  BY <1>3, <1>4, DeriveFacts DEF Stages
<1> HIDE DEF to
<1>6. RowOK(Move(row, to)) /\ Move(row, to).status = to
  BY <1>2, <1>5, MoveKeeps
<1>7. RowInv'
  BY <1>1, <1>6, MovedRow
<1>8. RouteInv'
  BY <1>1, <1>2, RouteStamped
<1> QED BY <1>7, <1>8

\* The stage restored is the one the row was held from.
LEMMA ClearAdjudicationKeeps ==
  ASSUME IInv, ClearAdjudication
  PROVE  RowInv' /\ RouteInv'
<1> DEFINE to == row.heldFrom
<1>1. /\ row.status = "ADJUDICATION_REVIEW" /\ to # None /\ row' = Move(row, to)
      /\ UNCHANGED <<verdicts, answers, log, docs, routed>>
  BY DEF ClearAdjudication, deskVars, slotVars
<1>2. RowInv /\ row \in Rows /\ EvidenceOK(row) /\ RouteInv /\ Admissible(row)
  BY <1>1 DEF IInv, RowInv, RowOK
<1>3. to = "SLOT_ASSIGNED"
  BY <1>1, <1>2 DEF Rows
<1> HIDE DEF to
<1>4. RowOK(Move(row, to)) /\ Move(row, to).status = to
  BY <1>2, <1>3, MoveKeeps DEF Stages
<1> QED BY <1>1, <1>2, <1>4, RowMoves

\* A decision on a dimension makes it a person's; what it blocks stays blocked.
LEMMA ClearDimensionKeeps ==
  ASSUME IInv, NEW dim \in VettingDimensions, ClearDimension(dim)
  PROVE  RowInv' /\ RouteInv'
<1> DEFINE column == IF dim = "CRIMINAL" THEN [row EXCEPT !.criminal = "CLEARED"]
                                         ELSE [row EXCEPT !.academic = "ELIGIBLE"]
           e == [column EXCEPT !.resolvedDims = @ \cup {dim}]
           contentOnly == ContentOnly(row.criminal)
           to == DeriveStatus(row.status, e, contentOnly)
<1>1. /\ row' = e \/ row' = Move(e, to)
      /\ UNCHANGED <<verdicts, answers, log, docs, routed>>
  BY DEF ClearDimension, deskVars, slotVars
<1>2. RowInv /\ row \in Rows /\ EvidenceOK(row) /\ DeskInv /\ RouteInv
  BY DEF IInv, RowInv, RowOK
<1>3. /\ e \in Rows /\ EvidenceOK(e) /\ e.status = row.status /\ e.heldFrom = row.heldFrom
      /\ e.resolvedDims = row.resolvedDims \cup {dim}
  <2>1. CASE dim = "CRIMINAL"
    <3>1. /\ e \in Rows /\ e.status = row.status /\ e.heldFrom = row.heldFrom
          /\ e.resolvedDims = row.resolvedDims \cup {dim}
          /\ e.academic = row.academic /\ e.criminal = "CLEARED"
      BY <1>2, <2>1 DEF Rows, CriminalStatuses, VettingDimensions
    <3> HIDE DEF e
    <3> QED BY <1>2, <2>1, <3>1 DEF EvidenceOK
  <2>2. CASE dim = "ACADEMIC"
    <3>1. /\ e \in Rows /\ e.status = row.status /\ e.heldFrom = row.heldFrom
          /\ e.resolvedDims = row.resolvedDims \cup {dim}
          /\ e.academic = "ELIGIBLE" /\ e.criminal = row.criminal
      BY <1>2, <2>2 DEF Rows, GateStatuses, VettingDimensions
    <3> HIDE DEF e
    <3> QED BY <1>2, <2>2, <3>1 DEF EvidenceOK
  <2> QED BY <2>1, <2>2 DEF VettingDimensions
<1>4. contentOnly => ContentOnRecord
  BY <1>2, ContentOnlyFacts
<1> HIDE DEF e, contentOnly
<1>5. /\ RowOK(Move(e, to)) /\ Move(e, to).status = to
      /\ row.status \in {"DOCUMENT_REVIEW_AMBER", "REJECTED"} => to \in {"DOCUMENT_REVIEW_AMBER", "REJECTED"}
  BY <1>2, <1>3, <1>4, DerivedKeeps
<1> HIDE DEF to
<1>6. CASE row' = Move(e, to)
  BY <1>1, <1>2, <1>3, <1>5, <1>6, RowMoves
<1>7. CASE row' = e
  <2>1. RowOK(e)
    BY <1>2, <1>3 DEF RowInv, RowOK, Admissible
  <2>2. RowInv'
    BY <1>1, <1>7, <2>1, MovedRow
  <2>3. row'.status = row.status
    BY <1>3, <1>7
  <2>4. RouteInv'
    BY <1>1, <1>2, <2>3, RouteStays
  <2> QED BY <2>2, <2>4
<1> QED BY <1>1, <1>6, <1>7

-----------------------------------------------------------------------------
(* The gates *)

\* A verdict of the academic gate rests on the record it read.
LEMMA AcademicGrounds ==
  ASSUME NEW a, a.source \in {"NESA", "HEC"}
  PROVE  LET v == AcademicVerdict(a) IN
         /\ v.verdict \in GateStatuses /\ v.review \in BOOLEAN
         /\ v.verdict = "INELIGIBLE" => Failing(a)
         /\ v.verdict = "ELIGIBLE" => Passing(a)
<1> DEFINE student == Meets(a.level, None, a.science)
           graduate == Meets(a.level, a.field, None)
<1>1. CASE a.source = "NESA"
  <2>1. DecideNesaGate(a) = "EVALUATE" =>
          "MISMATCH" \notin {a.fields[f] : f \in DOMAIN a.fields} /\ a.published
    BY DEF DecideNesaGate, NesaBinding, BindCredential
  <2>2. AcademicVerdict(a) =
          IF ~a.found THEN Academic("INELIGIBLE", FALSE)
          ELSE IF DecideNesaGate(a) = "EVALUATE"
            THEN Academic(IF student THEN "ELIGIBLE" ELSE "INELIGIBLE", FALSE)
            ELSE Academic("PENDING", DecideNesaGate(a) = "REVIEW")
    BY <1>1 DEF AcademicVerdict, VerifyNesa, Meets
  <2> HIDE DEF student
  <2>3. CASE ~a.found
    BY <1>1, <2>2, <2>3 DEF Failing, Academic, GateStatuses
  <2>4. CASE a.found /\ DecideNesaGate(a) = "EVALUATE"
    BY <1>1, <2>1, <2>2, <2>4 DEF Failing, Passing, OwnRecord, Academic, GateStatuses, student
  <2>5. CASE a.found /\ DecideNesaGate(a) # "EVALUATE"
    BY <2>2, <2>5 DEF Academic, GateStatuses
  <2> QED BY <2>3, <2>4, <2>5
<1>2. CASE a.source = "HEC"
  <2>1. AcademicVerdict(a) =
          IF ~a.found \/ ~a.holder THEN Academic("INELIGIBLE", FALSE)
          ELSE IF Policy # None /\ ~a.reread THEN Academic("PENDING", FALSE)
          ELSE Academic(IF graduate THEN "ELIGIBLE" ELSE "INELIGIBLE", FALSE)
    BY <1>2 DEF AcademicVerdict, VerifyHec, Meets
  <2> HIDE DEF graduate
  <2>2. CASE ~a.found \/ ~a.holder
    BY <1>2, <2>1, <2>2 DEF Failing, Academic, GateStatuses
  <2>3. CASE a.found /\ a.holder
    BY <1>2, <2>1, <2>3 DEF Failing, Passing, Academic, GateStatuses, graduate
  <2> QED BY <2>2, <2>3
<1> QED BY <1>1, <1>2

\* A step of a gate: it publishes a verdict and touches neither slot nor row.
LEMMA GateKeeps ==
  ASSUME IInv, NEW v, verdicts' = verdicts \cup {v}, v.dim \in Dimensions,
         v.value \in Values(v.dim), v.review \in BOOLEAN, Grounds(v.dim, v.value)',
         answers \subseteq answers', UNCHANGED <<scope, row, slotVars, deskVars, routed>>
  PROVE  IInv'
<1>1. SlotInv'
  BY SlotStays DEF IInv
<1>2. DeskInv'
  BY DeskStays DEF IInv, DeskInv, DeskTypes, deskVars
<1>3. RecordGrows
  BY DEF RecordGrows, deskVars
<1>4. VerdictInv'
  BY <1>3, VerdictsGrow DEF IInv
<1>5. RowInv'
  BY <1>3, RowStays DEF IInv
<1>6. v.dim # "DOCUMENT"
  BY DEF Dimensions
<1>7. RouteInv'
  BY <1>6, RouteStays DEF IInv, slotVars
<1> QED BY <1>1, <1>2, <1>4, <1>5, <1>7 DEF IInv

LEMMA VerdictFields ==
  ASSUME NEW dim, NEW value, NEW review, NEW doc
  PROVE  /\ Verdict(dim, value, review, doc).dim = dim
         /\ Verdict(dim, value, review, doc).value = value
         /\ Verdict(dim, value, review, doc).review = review
         /\ Verdict(dim, value, review, doc).doc = doc
BY DEF Verdict

LEMMA AgeKeeps ==
  ASSUME IInv, EvaluateAge
  PROVE  IInv'
<1>1. PICK value \in {"ELIGIBLE", "INELIGIBLE"} :
        verdicts' = verdicts \cup {Verdict("AGE", value, FALSE, None)}
  BY DEF EvaluateAge, Publish
<1> DEFINE v == Verdict("AGE", value, FALSE, None)
<1>2. v.dim = "AGE" /\ v.value = value /\ v.review \in BOOLEAN
  BY DEF Verdict
<1> HIDE DEF v
<1>3. Grounds("AGE", value)'
  BY DEF Grounds
<1>4. value \in Values("AGE")
  BY DEF Values, GateStatuses
<1>5. answers \subseteq answers' /\ UNCHANGED <<scope, row, slotVars, deskVars, routed>>
  BY DEF EvaluateAge
<1>6. v.dim \in Dimensions /\ v.value \in Values(v.dim) /\ v.review \in BOOLEAN
  BY <1>2, <1>4 DEF Dimensions
<1>7. Grounds(v.dim, v.value)'
  BY <1>2, <1>3
<1>8. verdicts' = verdicts \cup {v}
  BY <1>1 DEF v
<1> QED BY <1>5, <1>6, <1>7, <1>8, GateKeeps

LEMMA AcademicKeeps ==
  ASSUME IInv, NEW a, EvaluateAcademic(a)
  PROVE  IInv'
<1> DEFINE av == AcademicVerdict(a)
           v == Verdict("ACADEMIC", av.verdict, av.review, None)
<1>1. /\ a.source \in {"NESA", "HEC"} /\ answers' = answers \cup {a}
      /\ verdicts' = verdicts \cup {v}
      /\ UNCHANGED <<scope, row, slotVars, deskVars, routed>>
  BY DEF EvaluateAcademic, Publish, Received
<1>2. /\ av.verdict \in GateStatuses /\ av.review \in BOOLEAN
      /\ av.verdict = "INELIGIBLE" => Failing(a)
      /\ av.verdict = "ELIGIBLE" => Passing(a)
  BY <1>1, AcademicGrounds
<1> HIDE DEF av
<1>3. v.dim = "ACADEMIC" /\ v.value = av.verdict /\ v.review = av.review
  BY VerdictFields
<1> HIDE DEF v
<1>4. Grounds("ACADEMIC", av.verdict)'
  BY <1>1, <1>2 DEF Grounds
<1>5. av.verdict \in Values("ACADEMIC")
  BY <1>2 DEF Values
<1>6. v.dim \in Dimensions /\ v.value \in Values(v.dim) /\ v.review \in BOOLEAN
  BY <1>2, <1>3, <1>5 DEF Dimensions
<1>7. Grounds(v.dim, v.value)'
  BY <1>3, <1>4
<1> QED BY <1>1, <1>6, <1>7, GateKeeps

LEMMA RibKeeps ==
  ASSUME IInv, NEW a, VerifyRib(a)
  PROVE  IInv'
<1> DEFINE value == EvaluateCriminalClearance(a)
           v == Verdict("CRIMINAL", value, FALSE, None)
<1>1. /\ a.source = "RIB" /\ answers' = answers \cup {a}
      /\ verdicts' = verdicts \cup {v}
      /\ UNCHANGED <<scope, row, slotVars, deskVars, routed>>
  BY DEF VerifyRib, Publish, Received
<1>2. value \in CriminalStatuses /\ (value = "CLEARED" => a.status = "CLEAR")
  BY DEF EvaluateCriminalClearance, CriminalStatuses, CriminalHardFail
<1> HIDE DEF value
<1>3. v.dim = "CRIMINAL" /\ v.value = value /\ v.review \in BOOLEAN
  BY DEF Verdict
<1> HIDE DEF v
<1>4. Grounds("CRIMINAL", value)'
  BY <1>1, <1>2 DEF Grounds, Clearing, ClearedOnRecord, ByRib
<1>5. value \in Values("CRIMINAL")
  BY <1>2 DEF Values
<1>6. v.dim \in Dimensions /\ v.value \in Values(v.dim) /\ v.review \in BOOLEAN
  BY <1>3, <1>5 DEF Dimensions
<1>7. Grounds(v.dim, v.value)'
  BY <1>3, <1>4
<1> QED BY <1>1, <1>6, <1>7, GateKeeps

LEMMA AttachKeeps ==
  ASSUME IInv, NEW cert \in scope.numbers, AttachCertificate(cert)
  PROVE  IInv'
<1>1. /\ owed' = owed \cup {cert}
      /\ UNCHANGED <<scope, row, verdicts, answers, slotVars, log, parked, handling, overlapped, routed>>
  BY DEF AttachCertificate
<1>2. cert \in Numbers /\ owed \subseteq Numbers
  BY DEF IInv, DeskInv, DeskTypes, Numbers
<1>3. DeskInv'
  BY <1>1, <1>2, DeskStays DEF IInv
<1>4. SlotInv'
  BY <1>1, SlotStays DEF IInv
<1>5. RecordGrows
  BY <1>1 DEF RecordGrows
<1>6. VerdictInv' /\ RowInv'
  BY <1>1, <1>5, VerdictsStay, RowStays DEF IInv
<1>7. RouteInv'
  BY <1>1, RouteStays DEF IInv, slotVars
<1> QED BY <1>3, <1>4, <1>6, <1>7 DEF IInv

-----------------------------------------------------------------------------
(* The steps together *)

\* What a step that moves the row leaves to show: the slot.
LEMMA RowStep ==
  ASSUME IInv, RowInv' /\ RouteInv', SlotInv', UNCHANGED <<scope, verdicts, answers, deskVars>>
  PROVE  IInv'
<1>1. RecordGrows
  BY DEF RecordGrows, deskVars
<1>2. VerdictInv'
  BY <1>1, VerdictsStay DEF IInv
<1>3. DeskInv'
  BY DeskStays DEF IInv, DeskInv, DeskTypes, deskVars
<1> QED BY <1>2, <1>3 DEF IInv

\* What a step of the slot leaves to show.
LEMMA SlotStep ==
  ASSUME IInv, SlotInv', RouteInv', VerdictInv', UNCHANGED <<scope, row, answers, deskVars>>
  PROVE  IInv'
<1>1. RecordGrows
  BY DEF RecordGrows, deskVars
<1>2. RowInv'
  BY <1>1, RowStays DEF IInv
<1>3. DeskInv'
  BY DeskStays DEF IInv, DeskInv, DeskTypes, deskVars
<1> QED BY <1>2, <1>3 DEF IInv

\* What a step of the desk leaves to show.
LEMMA DeskMoves ==
  ASSUME IInv, DeskInv', VerdictInv', RecordGrows, UNCHANGED <<scope, row, slotVars, routed>>,
         \A v \in verdicts' : v \in verdicts \/ v.dim # "DOCUMENT"
  PROVE  IInv'
<1>1. RowInv'
  BY RowStays DEF IInv
<1>2. SlotInv'
  BY SlotStays DEF IInv
<1>3. RouteInv'
  BY RouteStays DEF IInv, slotVars
<1> QED BY <1>1, <1>2, <1>3 DEF IInv

\* The verdict of a call names the revision it recorded or a later one.
LEMMA LaneKeeps ==
  ASSUME CaseworkAssumption, IInv, NEW k \in Caller, PublishLane(k),
         UNCHANGED <<scope, row, answers, deskVars, routed>>
  PROVE  IInv'
<1> DEFINE d == call[k].doc
           v == Verdict("DOCUMENT", call[k].lane, FALSE, <<d, docs[d].revision>>)
<1>1. /\ call[k] # None /\ call[k].pc = "recorded" /\ verdicts' = verdicts \cup {v}
      /\ call' = [call EXCEPT ![k] = None]
      /\ UNCHANGED <<docs, trail, object, started, lost, stale>>
  BY DEF PublishLane, Publish
<1>2. SlotInv /\ docs \in Seq(Docs) /\ call[k] \in Calls
  BY <1>1 DEF IInv, SlotInv, SlotTypes
<1>3. d \in DOMAIN docs /\ call[k].lane \in Lanes
  BY <1>1, <1>2 DEF SlotInv, CallsOK, Calls
<1>4. docs[d].revision \in Nat
  <2>1. docs[d] \in Docs
    BY <1>2, <1>3
  <2> QED BY <2>1 DEF Docs
<1> HIDE DEF d
<1>5. /\ v.dim = "DOCUMENT" /\ v.value \in Lanes /\ v.review \in BOOLEAN
      /\ v.doc = <<d, docs[d].revision>>
  BY <1>3 DEF Verdict
<1> HIDE DEF v
<1>6. v.doc[1] = d /\ v.doc[2] = docs[d].revision
  BY <1>5
<1>7. v.doc[1] \in DOMAIN docs /\ v.doc[2] \in 0 .. docs[v.doc[1]].revision
  BY <1>3, <1>4, <1>6
<1>8. SlotInv'
  BY <1>1, <1>2, PublishLaneKeeps DEF Written
<1>9. RouteInv'
  BY <1>1, <1>7, RouteStays DEF IInv
<1>10. VerdictInv'
  <2>1. ASSUME NEW u \in verdicts'
        PROVE  /\ u.dim \in Dimensions \cup {"DOCUMENT"}
               /\ u.value \in Values(u.dim) /\ u.review \in BOOLEAN
               /\ Grounds(u.dim, u.value)'
    <3>1. CASE u \in verdicts
      <4>1. RecordGrows
        BY DEF RecordGrows, deskVars
      <4> QED BY <3>1, <4>1, GroundsStay DEF IInv, VerdictInv
    <3>2. CASE u.dim = "DOCUMENT" /\ u.value \in Lanes /\ u.review \in BOOLEAN
      BY <3>2 DEF Values, Grounds
    <3> QED BY <1>1, <1>5, <3>1, <3>2
  <2> QED BY <2>1 DEF VerdictInv
<1> QED BY <1>8, <1>9, <1>10, SlotStep

LEMMA SlotNextKeeps ==
  ASSUME CaseworkAssumption, IInv, SlotNext
  PROVE  IInv'
<1>1. UNCHANGED <<scope, row, answers, deskVars, routed>>
  BY DEF SlotNext
<1>2. SlotInv /\ RouteInv /\ scope \in Scopes /\ row.status \in Stages
  BY DEF IInv, DeskInv, DeskTypes, RowInv, RowOK, Rows
<1>3. PICK k \in Caller :
        \/ (\E c \in scope.contents : Upload(k, c)) /\ UNCHANGED verdicts
        \/ (\E clean \in BOOLEAN : Analyze(k, clean)) /\ UNCHANGED verdicts
        \/ (DecideCall(k) \/ WriteObject(k) \/ CommitCall(k) \/ AbandonCall(k)) /\ UNCHANGED verdicts
        \/ PublishLane(k)
  BY DEF SlotNext
<1>4. ASSUME UNCHANGED <<docs, verdicts>> PROVE RouteInv'
  BY <1>1, <1>2, <1>4, RouteStays
<1>5. ASSUME NEW c \in scope.contents, Upload(k, c), UNCHANGED verdicts PROVE IInv'
  <2>1. SlotInv'
    BY <1>2, <1>5, UploadKeeps
  <2>2. UNCHANGED docs /\ VerdictInv'
    <3>1. RecordGrows
      BY <1>1 DEF RecordGrows, deskVars
    <3> QED BY <1>5, <3>1, VerdictsStay DEF Upload, StartCall, IInv
  <2> QED BY <1>1, <1>4, <1>5, <2>1, <2>2, SlotStep
<1>6. ASSUME NEW clean \in BOOLEAN, Analyze(k, clean), UNCHANGED verdicts PROVE IInv'
  <2>1. SlotInv'
    BY <1>2, <1>6, AnalyzeKeeps
  <2>2. UNCHANGED docs /\ VerdictInv'
    <3>1. RecordGrows
      BY <1>1 DEF RecordGrows, deskVars
    <3> QED BY <1>6, <3>1, VerdictsStay DEF Analyze, StartCall, IInv
  <2> QED BY <1>1, <1>4, <1>6, <2>1, <2>2, SlotStep
<1>7. ASSUME DecideCall(k) \/ WriteObject(k) \/ CommitCall(k) \/ AbandonCall(k), UNCHANGED verdicts
      PROVE  IInv'
  <2>1. VerdictInv'
    <3>1. RecordGrows
      BY <1>1 DEF RecordGrows, deskVars
    <3> QED BY <1>7, <3>1, VerdictsStay DEF IInv
  <2>2. SlotInv'
    BY <1>2, <1>7, DecideKeeps, WriteKeeps, CommitKeeps, AbandonKeeps
  <2>3. RouteInv'
    <3>1. CASE CommitCall(k)
      BY <1>1, <1>2, <1>7, <3>1, RouteCommitted
    <3>2. CASE DecideCall(k) \/ WriteObject(k) \/ AbandonCall(k)
      BY <1>4, <1>7, <3>2 DEF DecideCall, WriteObject, AbandonCall
    <3> QED BY <1>7, <3>1, <3>2
  <2> QED BY <1>1, <2>1, <2>2, <2>3, SlotStep
<1>8. CASE PublishLane(k)
  BY <1>1, <1>8, LaneKeeps
<1> QED BY <1>3, <1>5, <1>6, <1>7, <1>8

\* A clearance is published from an entry that is on the record, and was entered
\* on the registry's answer.
LEMMA ConcludedVerdict ==
  ASSUME CaseworkAssumption, IInv, NEW w \in Worker, Conclude(w), answers' = answers
  PROVE  VerdictInv' /\ \A v \in verdicts' : v \in verdicts \/ v.dim # "DOCUMENT"
<1> DEFINE entry == Entering(w)
           message(value) == Verdict("CRIMINAL", value, FALSE, None)
<1>1. /\ handling[w] # None /\ At(w, "recorded") /\ entry.outcome # "PENDING"
      /\ log' = log
  BY DEF Conclude, At
<1>2. PICK value \in {"CLEARED", "UNDER_REVIEW"} :
        /\ verdicts' = verdicts \/ verdicts' = verdicts \cup {message(value)}
        /\ value = "CLEARED" => entry.outcome = "CLEARED"
  BY DEF Conclude, Publish
<1> DEFINE v == message(value)
<1>3. RecordGrows
  BY <1>1 DEF RecordGrows
<1>4. v.dim = "CRIMINAL" /\ v.value = value /\ v.review \in BOOLEAN
  BY DEF Verdict
<1> HIDE DEF v
<1>5. entry.outcome = "CLEARED" =>
        (\E a \in answers : Clearing(a)) /\ \E i \in DOMAIN log : log[i].outcome = "CLEARED"
  BY <1>1 DEF IInv, DeskInv, HandledOnRecord
<1> HIDE DEF entry
<1>6. Grounds("CRIMINAL", value)'
  BY <1>1, <1>2, <1>5 DEF Grounds, ClearedOnRecord
<1>7. v.dim \in Dimensions \cup {"DOCUMENT"} /\ v.value \in Values(v.dim)
  BY <1>4 DEF Values, CriminalStatuses, Dimensions
<1>8. Grounds(v.dim, v.value)'
  BY <1>4, <1>6
<1>9. verdicts' \subseteq verdicts \cup {v}
  BY <1>2 DEF v
<1>10. VerdictInv'
  BY <1>3, <1>4, <1>7, <1>8, <1>9, VerdictsGrow DEF IInv
<1> QED BY <1>4, <1>9, <1>10

LEMMA InsertGrows ==
  ASSUME DeskInv, answers \subseteq answers', NEW e, log' = log \/ log' = Append(log, e)
  PROVE  RecordGrows
<1>1. log \in Seq(Entries) /\ DOMAIN log = 1 .. Len(log) /\ Len(log) \in Nat
  BY DeskFacts
<1>2. CASE log' = Append(log, e)
  BY <1>1, <1>2 DEF RecordGrows
<1>3. CASE log' = log
  BY <1>3 DEF RecordGrows
<1> QED BY <1>2, <1>3

LEMMA DeskNextKeeps ==
  ASSUME CaseworkAssumption, IInv, DeskNext
  PROVE  IInv'
<1>1. UNCHANGED <<scope, row, slotVars, routed>> /\ DeskInv
  BY DEF DeskNext, IInv
<1>2. ASSUME DeskInv', RecordGrows, verdicts' = verdicts
      PROVE  IInv'
  BY <1>1, <1>2, VerdictsStay, DeskMoves DEF IInv
<1>3. ASSUME NEW w \in Worker, NEW cert \in owed, NEW a \in scope.certificates,
             VerifyCertificate(w, cert, a), UNCHANGED verdicts
      PROVE  IInv'
  <2>1. DeskInv'
    BY <1>1, <1>3, VerifyKeeps
  <2>2. RecordGrows
    BY <1>3 DEF VerifyCertificate, Take, Received, RecordGrows
  <2> QED BY <1>2, <1>3, <2>1, <2>2
<1>4. ASSUME NEW w \in Worker, NEW cert \in owed, RegistryUnavailable(w, cert), UNCHANGED verdicts
      PROVE  IInv'
  <2>1. DeskInv'
    BY <1>1, <1>4, UnavailableKeeps
  <2>2. RecordGrows
    BY <1>4 DEF RegistryUnavailable, Take, RecordGrows
  <2> QED BY <1>2, <1>4, <2>1, <2>2
<1>5. ASSUME NEW w \in Worker, UNCHANGED <<verdicts, answers>>,
             \/ ReadLatest(w) \/ InsertVerification(w) \/ RetryLater(w) \/ ParkOutage(w)
             \/ PendingNotRecorded(w) \/ ParkFailure(w) \/ AbandonEvent(w)
      PROVE  IInv'
  <2>1. DeskInv'
    BY <1>1, <1>5, ReadLatestKeeps, InsertKeeps, RetryLaterKeeps, ParkOutageKeeps,
       NotRecordedKeeps, ParkFailureKeeps, AbandonEventKeeps
  <2>2. log' = log \/ log' = Append(log, Entering(w))
    BY <1>5 DEF ReadLatest, InsertVerification, RetryLater, ParkOutage, PendingNotRecorded,
                ParkFailure, AbandonEvent
  <2>3. RecordGrows
    BY <1>1, <1>5, <2>2, InsertGrows
  <2> QED BY <1>2, <1>5, <2>1, <2>3
<1>6. ASSUME NEW w \in Worker, Conclude(w), UNCHANGED answers
      PROVE  IInv'
  <2>1. DeskInv'
    BY <1>1, <1>6, ConcludeKeeps
  <2>2. VerdictInv' /\ \A v \in verdicts' : v \in verdicts \/ v.dim # "DOCUMENT"
    BY <1>6, ConcludedVerdict
  <2>3. RecordGrows
    BY <1>6 DEF Conclude, RecordGrows
  <2> QED BY <1>1, <2>1, <2>2, <2>3, DeskMoves
<1>7. ASSUME NEW cert \in parked, ReturnParked(cert), UNCHANGED <<verdicts, answers>>
      PROVE  IInv'
  <2>1. DeskInv'
    BY <1>1, <1>7, ReturnKeeps
  <2>2. RecordGrows
    BY <1>7 DEF ReturnParked, RecordGrows
  <2> QED BY <1>2, <1>7, <2>1, <2>2
<1> QED BY <1>3, <1>4, <1>5, <1>6, <1>7 DEF DeskNext

LEMMA InitIInv ==
  ASSUME CaseworkAssumption, Init
  PROVE  IInv
<1> USE DEF Init, CaseInit, SlotInit, DeskInit
<1>1. SlotTypes
  <2>1. docs \in Seq(Docs) /\ DOMAIN docs = {}
    OBVIOUS
  <2> QED BY <2>1 DEF SlotTypes
<1>2. CallsOK /\ LastWriteKnown /\ StampsStand /\ TrailKept /\ RowDescribes
  BY DEF CallsOK, LastWriteKnown, StampsStand, TrailKept, RowDescribes, Holding, Superseding,
         Grounded, Written
<1>3. DeskTypes /\ HandledOnRecord /\ AloneOK
  <2>1. owed \subseteq Numbers /\ parked \subseteq Numbers
    OBVIOUS
  <2>2. log = <<>> /\ overlapped = FALSE
    OBVIOUS
  <2>3. log \in Seq(Entries)
    BY <2>2
  <2>4. handling \in [Worker -> Handlings \cup {None}]
    OBVIOUS
  <2> QED BY <2>1, <2>2, <2>3, <2>4 DEF DeskTypes, HandledOnRecord, AloneOK
<1>4. PendingIsNeverForgotten /\ EscalationFollowsOutage
  BY DEF PendingIsNeverForgotten, EscalationFollowsOutage
<1>5. VerdictInv /\ RouteInv
  BY DEF VerdictInv, RouteInv
<1>6. RowInv
  BY DEF RowInv, RowOK, EvidenceOK, Rows, FiledRow, Stages, GateStatuses, CriminalStatuses
<1> QED BY <1>1, <1>2, <1>3, <1>4, <1>5, <1>6 DEF IInv, SlotInv, DeskInv

LEMMA NextIInv ==
  ASSUME CaseworkAssumption, IInv, [Next]_vars
  PROVE  IInv'
<1>1. CASE EvaluateAge
  BY <1>1, AgeKeeps
<1>2. ASSUME NEW a \in scope.gates, EvaluateAcademic(a) \/ VerifyRib(a)
      PROVE  IInv'
  BY <1>2, AcademicKeeps, RibKeeps
<1>3. ASSUME NEW cert \in scope.numbers, AttachCertificate(cert)
      PROVE  IInv'
  BY <1>3, AttachKeeps
<1>4. ASSUME NEW v \in verdicts, ApplyVettingResult(v)
      PROVE  IInv'
  <2>1. RowInv' /\ RouteInv'
    BY <1>4, ProjectionKeeps
  <2>2. UNCHANGED <<scope, verdicts, answers, slotVars, deskVars>>
    BY <1>4 DEF ApplyVettingResult
  <2> QED BY <2>1, <2>2, SlotStays, RowStep DEF IInv
<1>5. ASSUME NEW v \in verdicts, ApplyForensicsRouting(v)
      PROVE  IInv'
  <2>1. RowInv' /\ RouteInv'
    BY <1>5, RoutingKeeps
  <2>2. UNCHANGED <<scope, verdicts, answers, slotVars, deskVars>>
    BY <1>5 DEF ApplyForensicsRouting
  <2> QED BY <2>1, <2>2, SlotStays, RowStep DEF IInv
<1>6. CASE AssignSlot
  <2>1. RowInv' /\ RouteInv'
    BY <1>6, AssignKeeps
  <2>2. UNCHANGED <<scope, verdicts, answers, slotVars, deskVars>>
    BY <1>6 DEF AssignSlot
  <2> QED BY <2>1, <2>2, SlotStays, RowStep DEF IInv
<1>7. CASE AdjudicateReject
  <2>1. RowInv' /\ RouteInv'
    BY <1>7, RejectKeeps
  <2>2. UNCHANGED <<scope, verdicts, answers, deskVars>> /\ (StampReviewed \/ UNCHANGED slotVars)
    BY <1>7 DEF AdjudicateReject
  <2> QED BY <2>1, <2>2, SlotStays, StampKeeps, RowStep DEF IInv
<1>8. CASE ClearAmber
  <2>1. RowInv' /\ RouteInv'
    BY <1>8, ClearAmberKeeps
  <2>2. UNCHANGED <<scope, verdicts, answers, deskVars>> /\ StampReviewed
    BY <1>8 DEF ClearAmber
  <2> QED BY <2>1, <2>2, StampKeeps, RowStep DEF IInv
<1>9. CASE ClearAdjudication
  <2>1. RowInv' /\ RouteInv'
    BY <1>9, ClearAdjudicationKeeps
  <2>2. UNCHANGED <<scope, verdicts, answers, slotVars, deskVars>>
    BY <1>9 DEF ClearAdjudication
  <2> QED BY <2>1, <2>2, SlotStays, RowStep DEF IInv
<1>10. ASSUME NEW dim \in VettingDimensions, ClearDimension(dim)
       PROVE  IInv'
  <2>1. RowInv' /\ RouteInv'
    BY <1>10, ClearDimensionKeeps
  <2>2. UNCHANGED <<scope, verdicts, answers, slotVars, deskVars>>
    BY <1>10 DEF ClearDimension
  <2> QED BY <2>1, <2>2, SlotStays, RowStep DEF IInv
<1>11. CASE SlotNext
  BY <1>11, SlotNextKeeps
<1>12. CASE DeskNext
  BY <1>12, DeskNextKeeps
<1>13. CASE UNCHANGED vars
  <2>1. UNCHANGED <<scope, row, verdicts, answers, slotVars, deskVars, routed>>
    BY <1>13 DEF vars
  <2>2. RecordGrows
    BY <2>1 DEF RecordGrows, deskVars
  <2>3. RowInv' /\ RouteInv'
    BY <2>1, <2>2, RowStays, RouteStays DEF IInv, slotVars
  <2> QED BY <2>1, <2>3, SlotStays, RowStep DEF IInv
<1> QED BY <1>1, <1>2, <1>3, <1>4, <1>5, <1>6, <1>7, <1>8, <1>9, <1>10, <1>11, <1>12, <1>13 DEF Next

-----------------------------------------------------------------------------
(* The theorems *)

LEMMA SlotPromises ==
  ASSUME IInv
  PROVE  DocumentsAreEvidence
<1>1. TypeOK
  <2>1. row \in Rows /\ docs \in Seq(Docs) /\ log \in Seq(Entries)
    BY DEF IInv, SlotInv, SlotTypes, DeskInv, DeskTypes, RowInv, RowOK
  <2>2. /\ row.status \in Statuses /\ row.age \in GateStatuses /\ row.academic \in GateStatuses
        /\ row.criminal \in CriminalStatuses
    BY <2>1, StageFacts DEF Rows
  <2>3. ASSUME NEW d \in DOMAIN docs
        PROVE  /\ docs[d].content \in Content /\ docs[d].lane \in Lanes
               /\ {t[2] : t \in {t \in trail : t[1] = d}} = 1 .. docs[d].revision
    <3>1. docs[d] \in Docs
      BY <2>1
    <3>2. Revisions(trail, d) = 1 .. docs[d].revision
      BY DEF IInv, SlotInv, SlotTypes
    <3> QED BY <3>1, <3>2 DEF Docs, Revisions
  <2>4. ASSUME NEW i \in DOMAIN log
        PROVE  log[i].outcome \in Outcomes
    <3>1. log[i] \in Entries
      BY <2>1
    <3> QED BY <3>1 DEF Entries
  <2> QED BY <2>2, <2>3, <2>4 DEF TypeOK
<1>2. \A k \in Caller : Written(k) => Holding(k) /\ call[k].pc = "written"
  BY DEF Written, Holding
<1>3. StampedBytesStand
  <2>1. StampsStand
    BY DEF IInv, SlotInv
  <2> QED BY <1>2, <2>1 DEF StampsStand, StampedBytesStand
<1>4. TrailIsComplete
  BY <1>2 DEF IInv, SlotInv, TrailKept, TrailIsComplete
<1>5. RowDescribesTheBytes
  BY <1>2 DEF IInv, SlotInv, RowDescribes, RowDescribesTheBytes
<1>6. AmberIsSeen
  BY DEF IInv, RouteInv, AmberIsSeen, Terminal
<1> QED BY <1>1, <1>3, <1>4, <1>5, <1>6 DEF DocumentsAreEvidence

LEMMA JudgementPromises ==
  ASSUME IInv
  PROVE  JudgedOnRecord
<1>1. EvidenceOK(row) /\ (row.status \in {"DOCUMENT_REVIEW_GREEN", "SLOT_ASSIGNED"} => Admissible(row))
  BY DEF IInv, RowInv, RowOK
<1>2. VerdictsRestOnOwnRecords
  BY <1>1 DEF EvidenceOK, VerdictsRestOnOwnRecords, Failing, Passing, Clearing, OwnRecord, Meets
<1>3. ClearedIsOnRecord
  BY <1>1 DEF EvidenceOK, ClearedIsOnRecord, ClearedOnRecord, ByRib
<1>4. AdmittedOnAuthentic
  BY <1>1 DEF AdmittedOnAuthentic, Admissible, ClearedOnRecord, ContentOnRecord, ByRib
<1> QED BY <1>2, <1>3, <1>4 DEF JudgedOnRecord

\* The invariant holds in every reachable state.
THEOREM CaseworkInvariance == Spec => []IInv
<1>1. Init => IInv
  BY InitIInv, CaseworkAssumption
<1>2. IInv /\ [Next]_vars => IInv'
  BY NextIInv, CaseworkAssumption
<1> QED BY <1>1, <1>2, PTL DEF Spec

\* Documents are evidence (document-forensics-service): row, trail and object
\* agree, stamped bytes stay, and no amber document slips past the officer,
\* whatever uploads, re-analyses, crashes and late verdicts overlap.
THEOREM DocumentsEvidence == Spec => []DocumentsAreEvidence
<1>1. IInv => DocumentsAreEvidence
  BY SlotPromises
<1> QED BY <1>1, CaseworkInvariance, PTL

\* Nobody is judged but on records that are theirs, genuine and kept
\* (eligibility-service, background-vetting-service and the projections of
\* application-service).
THEOREM OnRecord == Spec => []JudgedOnRecord
<1>1. IInv => JudgedOnRecord
  BY JudgementPromises
<1> QED BY <1>1, CaseworkInvariance, PTL

\* An outage of the registry is followed up, and overrules no verdict
\* (background-vetting-service and its dead-letter observer).
THEOREM OutagesFollowed == Spec => []OutagesAreFollowedUp
<1>1. IInv => OutagesAreFollowedUp
  BY DEF IInv, DeskInv, OutagesAreFollowedUp
<1> QED BY <1>1, CaseworkInvariance, PTL
=============================================================================
