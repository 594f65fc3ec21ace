------------------------------ MODULE CaseFile ------------------------------
(***************************************************************************)
(* What the services that judge one application share: the application's   *)
(* row, which only application-service writes, and the verdicts on the     *)
(* bus.  A published verdict may be projected at any time, in any order    *)
(* and again (redelivery, a dead-letter replay, the re-driver), so the bus *)
(* is the set of everything ever published.                                *)
(***************************************************************************)
EXTENDS Lifecycle, VettingRules, Sequences

CONSTANT Scopes   \* the inputs and bounds of each instance that is checked

VARIABLES
    scope,     \* the instance; never changes
    row,       \* the application row
    verdicts,  \* verdicts published so far
    answers    \* history: the registries' answers received so far

\* A verdict message: the dimension ("DOCUMENT" for a forensics lane), the
\* value, whether an academic one asks for a review, the row and revision of a
\* document.
Verdict(dim, value, review, doc) ==
    [dim |-> dim, value |-> value, review |-> review, doc |-> doc]

Publish(v) == verdicts' = verdicts \cup {v}

Received(a) == answers' = answers \cup {a}

\* The row as filed: SUBMITTED, no dimension judged.
FiledRow ==
    [status |-> "SUBMITTED", age |-> "PENDING", academic |-> "PENDING",
     nesaReview |-> FALSE, criminal |-> "PENDING", resolvedDims |-> {}, heldFrom |-> None]

CaseInit ==
    /\ scope \in Scopes
    /\ row = FiledRow
    /\ verdicts = {}
    /\ answers = {}
=============================================================================
