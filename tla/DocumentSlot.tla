---------------------------- MODULE DocumentSlot ----------------------------
(***************************************************************************)
(* document-forensics-service and one document slot of an application: the *)
(* rows of document_records for the slot's object key, the trail of its    *)
(* revisions, and the object in the store.                                 *)
(*                                                                         *)
(* A call (a citizen's upload, or the internal re-analysis of the stored   *)
(* object) reads the application's status without a lock, locks the slot's *)
(* rows if there are any, writes the object while its transaction is open, *)
(* commits, and publishes its verdict.  The object store is not part of    *)
(* the transaction: a rollback after the write leaves the new bytes.       *)
(***************************************************************************)
EXTENDS CaseFile

CONSTANTS
    Caller,     \* calls in flight at the same time
    Content,    \* byte contents
    SignalsOf   \* content -> what the byte probe finds in it

Lanes == {"GREEN", "AMBER", "RED"}

\* A call in flight: what it carries, and what its transaction decided.
Calls ==
    [pc : {"scanned", "decided", "written", "recorded"}, door : {"upload", "analyze"},
     content : Content, lane : Lanes, status : Statuses,
     decision : {None, "CREATE", "SUPERSEDE", "RETRY"}, doc : Nat \cup {None}]

VARIABLES
    docs,     \* the slot's rows of document_records
    trail,    \* document_revisions, as <<row, revision, content>>
    object,   \* the bytes at rest under the slot's key, or None
    call,     \* caller -> the call it has in flight, or None
    started,  \* number of calls started (bounded by the scope)
    lost,     \* history: an object was written and its transaction rolled back
    stale     \* history: a re-analysis recorded bytes that were no longer at rest

slotVars == <<docs, trail, object, call, started, lost, stale>>

SlotInit ==
    /\ docs = <<>> /\ trail = {} /\ object = None
    /\ call = [k \in Caller |-> None]
    /\ started = 0 /\ lost = FALSE /\ stale = FALSE

\* composeVerdict, the score of clean bytes of a known container.
Score(s) ==
    LET base == 100 - (IF s.metadata THEN 0 ELSE 35)
    IN  IF ~s.c2pa THEN base ELSE IF base > 90 THEN 100 ELSE base + 10

\* composeVerdict: malware is dispositive; an upload of it is refused before
\* anything is stored, so only a re-analysis can find it.
ComposeVerdict(s, clean) ==
    IF ~clean THEN "RED"
    ELSE IF Score(s) >= 70 THEN "GREEN" ELSE IF Score(s) >= 40 THEN "AMBER" ELSE "RED"

\* The review lock forgotten.
MutDecideSupersession(status, slot, incoming) ==
    LET advanced == StageRank[status] > StageRank["DOCUMENT_REVIEW_AMBER"]
    IN  IF slot = None THEN (IF advanced THEN "CLOSED" ELSE "CREATE")
        ELSE IF advanced THEN "CLOSED"
        ELSE IF slot.content = incoming THEN "RETRY" ELSE "SUPERSEDE"

\* decideSupersession
DecideSupersession(status, slot, incoming) ==
    LET advanced == StageRank[status] > StageRank["DOCUMENT_REVIEW_AMBER"]
    IN  IF slot = None THEN (IF advanced THEN "CLOSED" ELSE "CREATE")
        ELSE IF slot.stamp # None \/ advanced THEN "CLOSED"
        ELSE IF slot.content = incoming THEN "RETRY" ELSE "SUPERSEDE"

\* A call starts: status is what its transaction reads of the application
\* before it waits for the slot.
StartCall(k, door, content, clean) ==
    /\ call[k] = None
    /\ started < scope.calls
    /\ started' = started + 1
    /\ call' = [call EXCEPT ![k] =
         [pc |-> "scanned", door |-> door, content |-> content,
          lane |-> ComposeVerdict(SignalsOf[content], clean),
          status |-> row.status, decision |-> None, doc |-> None]]
    /\ UNCHANGED <<docs, trail, object, lost, stale>>

\* upload: a closed application refuses, admitted clean bytes go on.
Upload(k, content) ==
    /\ row.status \notin Terminal
    /\ StartCall(k, "upload", content, TRUE)

\* analyze: the bytes are read from the store; the scanner may know by now
\* what it did not know at the upload.
Analyze(k, clean) ==
    /\ object # None
    /\ StartCall(k, "analyze", object, clean)

Holding(k) == call[k] # None /\ call[k].pc \in {"decided", "written"}

\* The rows of the slot are locked by a call that found them.
SlotLocked == \E k \in Caller : Holding(k) /\ call[k].decision = "SUPERSEDE"

\* SELECT ... FOR UPDATE and the decision.  With no row there is nothing to
\* lock; with more than one, which row comes first is not determined.
DecideCall(k) ==
    /\ call[k] # None /\ call[k].pc = "scanned"
    /\ docs # <<>> => ~SlotLocked
    /\ \E d \in IF docs = <<>> THEN {None} ELSE DOMAIN docs :
         LET c == call[k]
             decision == DecideSupersession(c.status, IF d = None THEN None ELSE docs[d], c.content)
         IN  call' = [call EXCEPT ![k] =
               IF decision = "CLOSED" THEN None
               ELSE [c EXCEPT !.pc = IF decision = "RETRY" THEN "recorded" ELSE "decided",
                              !.decision = decision, !.doc = d]]
    /\ UNCHANGED <<docs, trail, object, started, lost, stale>>

\* writeObject: the upload's PUT; a re-analysis writes nothing.
WriteObject(k) ==
    /\ call[k] # None /\ call[k].pc = "decided"
    /\ object' = IF call[k].door = "upload" THEN call[k].content ELSE object
    /\ call' = [call EXCEPT ![k].pc = "written"]
    /\ UNCHANGED <<docs, trail, started, lost, stale>>

TrailEntry(d, revision, content) == { <<d, revision, content>> }

\* The commit: a new row with revision 1, or the next revision of the locked
\* row; the trail entry is part of it.
CommitCall(k) ==
    LET c == call[k]
        d == IF c.decision = "CREATE" THEN Len(docs) + 1 ELSE c.doc
        revision == IF c.decision = "CREATE" THEN 1 ELSE docs[d].revision + 1
        written == [content |-> c.content, lane |-> c.lane, revision |-> revision, stamp |-> None]
    IN  /\ c # None /\ c.pc = "written"
        /\ docs' = IF c.decision = "CREATE" THEN Append(docs, written)
                   ELSE [docs EXCEPT ![d] = [written EXCEPT !.stamp = docs[d].stamp]]
        /\ trail' = trail \cup TrailEntry(d, revision, c.content)
        /\ call' = [call EXCEPT ![k].pc = "recorded", ![k].doc = d]
        /\ stale' = (stale \/ (c.door = "analyze" /\ c.content # object))
        /\ UNCHANGED <<object, started, lost>>

\* The verdict is announced after the commit.
PublishLane(k) ==
    /\ call[k] # None /\ call[k].pc = "recorded"
    /\ Publish(Verdict("DOCUMENT", call[k].lane, FALSE,
                       <<call[k].doc, docs[call[k].doc].revision>>))
    /\ call' = [call EXCEPT ![k] = None]
    /\ UNCHANGED <<docs, trail, object, started, lost, stale>>

\* The process dies or an error ends the call: an open transaction rolls back,
\* the object stays, an unpublished verdict is lost.
AbandonCall(k) ==
    /\ call[k] # None
    /\ call' = [call EXCEPT ![k] = None]
    /\ lost' = (lost \/ (call[k].pc = "written" /\ call[k].door = "upload"))
    /\ UNCHANGED <<docs, trail, object, started, stale>>

\* The rows an officer's decision on an amber hold stamps.
Stampable(d) == docs[d].lane = "AMBER" /\ docs[d].stamp = None

\* The stamp waits for a call that holds a row it would stamp.  It is kept as
\* the bytes at rest at that moment.
StampReviewed ==
    /\ SlotLocked => \A d \in DOMAIN docs : ~Stampable(d)
    /\ docs' = [d \in DOMAIN docs |->
                  IF Stampable(d) THEN [docs[d] EXCEPT !.stamp = object] ELSE docs[d]]
    /\ UNCHANGED <<trail, object, call, started, lost, stale>>
=============================================================================
