------------------------------ MODULE MCExamDay ------------------------------
(* Two candidates of one venue and a walk-in; a screener, a supervisor, two   *)
(* tablets.  Each cfg takes what its question needs.                          *)
EXTENDS ExamDay, TLC

MCAgencyOf == [x \in Apps \cup Officers \cup Devices |-> "RDF"]
MCVenueOf == [a \in Apps |-> IF a \in WalkIns THEN None ELSE "kigali"]

SessionSymmetry == Permutations(Sessions)

Ticket(a) == [app |-> a, agency |-> "RDF", genuine |-> TRUE, venue |-> "kigali", card |-> a]
MCScans == {Ticket(a) : a \in Apps \ WalkIns}

\* Signed records of a1: a NO_MATCH of the advisory mode, a MATCH of the shadow
\* pilot, and a MATCH claimed on a failed liveness check, which is refused.
Taken(id, declared, liveness, match, outcome) ==
    [id |-> id, app |-> "a1", device |-> "t1", mode |-> declared, policy |-> "v1", consent |-> "GIVEN",
     reason |-> None, method |-> "FACE_1_1_ON_DEVICE", source |-> "CARD_PORTRAIT", model |-> "m1", age |-> 1,
     liveness |-> liveness, match |-> match, outcome |-> outcome, signed |-> TRUE]
MCRecords ==
    {Taken(1, "ADVISORY", 9000, 5000, "NO_MATCH"), Taken(2, "SHADOW", 9000, 9000, "MATCH"),
     Taken(3, "ADVISORY", 8000, 9000, "MATCH")}

\* Tests of a1 on either tablet, offline or after a look at the log, and two
\* of w1, one with a ticket that is not w1's.
Test(a, d, metrics, genuine, online) ==
    [app |-> a, device |-> d, officer |-> "cap", metrics |-> metrics, genuine |-> genuine, online |-> online]
MCTests ==
    {Test("a1", "t1", "fast", TRUE, FALSE), Test("a1", "t2", "slow", TRUE, FALSE),
     Test("a1", "t2", "mid", TRUE, TRUE), Test("w1", "t1", "fast", FALSE, FALSE),
     Test("w1", "t1", "slow", TRUE, FALSE)}
=============================================================================
