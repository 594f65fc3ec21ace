---------------------------- MODULE MCSubmission ----------------------------
(* An instance of Submission: who sends which key with which body. *)
EXTENDS Submission, TLC

CONSTANTS d1, d2, d3, d4

\* Two deliveries of one request, the same key with another body of the same
\* intent, and a caller without a key who wants the same again.
Four == {d1, d2, d3, d4}
FourKeys == d1 :> "k1" @@ d2 :> "k1" @@ d3 :> "k1" @@ d4 :> "random"
FourBodies == d1 :> "b1" @@ d2 :> "b1" @@ d3 :> "b2" @@ d4 :> "b1"
OneIntent == [b \in {"b1", "b2"} |-> "i1"]
=============================================================================
